-------------------------- MODULE CustomerDirectory --------------------------
(***************************************************************************)
(* Where the customer of CustomerWorkflow and what was requested for it    *)
(* can be found: the directory with its filters and the page of the        *)
(* customer (customer_flow_service.py), the agent's page                   *)
(* (agent_service.py), the dashboard, the notifications and the health     *)
(* check.  Every screen has a query of its own, and several keep a list of *)
(* statuses of their own.                                                  *)
(***************************************************************************)
EXTENDS CustomerWorkflow, FiniteSets, FiniteSetsExt

\* The lists of customer_flow_service.py.  The workflow also writes the two
\* statuses of a declined quotation, which none of them has.
OperationalStatuses == {"lead", "registered", "quotation_requested", "qualified",
                        "active", "on_hold"}
CustomerStatuses == OperationalStatuses \cup Closed
Declined == {"quotation_condition", "quotation_rejected"}

\* list_customers, as a super administrator sees it without a search term.
Listed(filter) ==
    IF filter = "deleted" THEN customer.exists /\ customer.status = "deleted"
    ELSE /\ Operational
         /\ filter = "" => customer.status \in OperationalStatuses
         /\ filter \in CustomerStatuses => customer.status = filter

\* The latest request, with which the agent's page shows its project ...
AgentRow == IF deals = <<>> THEN NewDeal ELSE deals[Len(deals)]
\* ... and get_snapshot: the compact view reads the latest request only, the
\* tabs of projects and quotations, and a material draft, all of them.
Requests(full) == IF full THEN DOMAIN deals ELSE DOMAIN deals \cap {Len(deals)}
SnapshotProject(full) == Max((Requests(full) \cap Projects) \cup {0})

SiteStatus(deal) ==
    IF deal.project # None THEN "converted"
    ELSE IF deal.quotation = "approved" THEN "approved"
    ELSE IF deal.quotation = None THEN "surveyed"
    ELSE "quotation_ready"

\* Requests, quotations and projects whose customer is in use.
InUse == IF Operational THEN DOMAIN deals ELSE {}

\* get_summary of the dashboard.
ActiveProjects ==
    Cardinality({d \in InUse : deals[d].project \in {"planning", "in_progress", "on_hold"}})
CompletedProjects == Cardinality({d \in InUse : deals[d].project = "completed"})
PendingQuotations ==
    Cardinality({d \in InUse : deals[d].quotation \in
                                   {None, "pending_approval", "condition", "rejected"}})

\* notification_summary: requests and quotations are counted one by one.
ApprovalBadge == Cardinality({d \in InUse : deals[d].request = "pending"})
                 + Cardinality({d \in InUse : deals[d].quotation = "pending_approval"})

\* inspect_data_health
CompletedOpenBalance == customer.exists /\ customer.status = "completed" /\ customer.owes # 0
CompletedOpenProject ==
    /\ customer.exists /\ customer.status = "completed"
    /\ \E d \in DOMAIN deals : deals[d].project \in OpenProjectStatuses

----------------------------------------------------------------------------

\* Nobody is lost between the screens.  A customer is either in the directory
\* or among the deleted, never both and never neither; its own status, and no
\* other, finds it, unless a quotation was declined, which no filter knows; it
\* is listed without a filter exactly while its record is in use.  What the
\* dashboard counts as pending is what the notifications count and what was
\* declined; every site shown as converted is counted as one project; a site is
\* surveyed while its request is pending and never approved without a project;
\* and the agent's page and the customer's show a project at the same time.
ScreensAgree ==
    /\ customer.exists =>
          /\ Listed("all") # Listed("deleted")
          /\ \A status \in CustomerStatuses : Listed(status) <=> customer.status = status
          /\ Listed("") <=> customer.status \notin Closed \cup Declined
    /\ PendingQuotations =
          ApprovalBadge
          + Cardinality({d \in InUse : deals[d].request \in {"condition", "rejected"}})
    /\ ActiveProjects + CompletedProjects =
          Cardinality({d \in InUse : SiteStatus(deals[d]) = "converted"})
    /\ \A d \in DOMAIN deals :
          /\ SiteStatus(deals[d]) = "surveyed" <=> deals[d].request = "pending"
          /\ SiteStatus(deals[d]) # "approved"
    /\ AgentRow.project # None <=> SnapshotProject(FALSE) # 0

\* What the health check reports of completed customers does not occur, unless
\* a completion was forced: no balance and no project is open that the
\* completion counts, whatever was approved, deleted and restored before.
CompletedIsSettled == ~CompletedOpenBalance /\ ~CompletedOpenProject
=============================================================================
