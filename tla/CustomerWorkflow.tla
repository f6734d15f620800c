-------------------------- MODULE CustomerWorkflow --------------------------
(***************************************************************************)
(* One customer: its lifecycle (customer_lifecycle_service.py), the        *)
(* quotation requests, quotations and projects raised for it               *)
(* (workflow_service.py), and the edit of its details                      *)
(* (customer_flow_service.py).                                             *)
(*                                                                         *)
(* The lifecycle operations lock the customer's row before they read it,   *)
(* and what they count (projects, bills, requests) is inserted under a     *)
(* foreign key that waits for that lock: each is one step.  The others     *)
(* read first and write later, and an object a session has loaded is not   *)
(* read again, not even by a later FOR UPDATE of the same row: they take   *)
(* two steps, Load and commit, with what was seen in between.  A commit    *)
(* writes only the columns it has changed.                                 *)
(***************************************************************************)
EXTENDS Naturals, Sequences

CONSTANTS Sessions,       \* concurrent requests
          Totals,         \* grand totals a quotation may have
          EditStatuses,   \* statuses the edit form may send
          MayForce,       \* whether a super administrator forces completions
          MaxDeals        \* bound: quotation requests

ASSUME WorkflowAssumption ==
    /\ Totals \subseteq Nat
    /\ EditStatuses \subseteq {"lead", "registered", "quotation_requested",
                               "qualified", "active", "on_hold"}
    /\ MayForce \in BOOLEAN
    /\ MaxDeals \in Nat

VARIABLES customer,   \* the row of agent_customers; exists = FALSE once purged
          deals,      \* quotation requests, each with its quotation and project
          bill,       \* the customer's bills, seen from outside the ledger
          req         \* what every session is doing

vars == <<customer, deals, bill, req>>

None == "none"
Closed == {"completed", "archived", "deleted"}
Statuses == EditStatuses \cup Closed \cup
    {"registered", "active", "quotation_requested", "quotation_condition", "quotation_rejected"}

Customer == [exists: BOOLEAN, status: Statuses, completed: BOOLEAN, archived: BOOLEAN,
             tombstone: BOOLEAN, owes: Totals \cup {0}]
Decisions == {"approved", "condition", "rejected"}
RequestStatuses == Decisions \cup {"pending", "quotation_ready"}
QuotationStatuses == Decisions \cup {None, "pending_approval"}
Deal == [request: RequestStatuses, quotation: QuotationStatuses, total: Totals \cup {0},
         project: {None, "planning", "in_progress", "completed"}, value: Totals \cup {0}]

Idle == [op |-> "idle"]
\* The columns a request has seen, and the value it is going to assign (to).
Request ==
    [op: {"request", "bill"}, status: Statuses, completed: BOOLEAN, archived: BOOLEAN]
    \cup [op: {"edit"}, status: Statuses, to: EditStatuses]
    \cup [op: {"quote"}, deal: 1..MaxDeals, request: RequestStatuses,
          quotation: QuotationStatuses, total: Totals \cup {0}, to: Totals]
    \cup [op: {"decide"}, deal: 1..MaxDeals, request: RequestStatuses,
          total: Totals \cup {0}, status: Statuses, owes: Totals \cup {0}, to: Decisions]

TypeOK ==
    /\ customer \in Customer
    /\ deals \in Seq(Deal) /\ Len(deals) <= MaxDeals
    /\ bill \in {None, "open", "settled"}
    /\ req \in [Sessions -> Request \cup {Idle}]

Init == /\ customer = [exists |-> TRUE, status |-> "registered", completed |-> FALSE,
                       archived |-> FALSE, tombstone |-> FALSE, owes |-> 0]
        /\ deals = <<>>
        /\ bill = None
        /\ req = [s \in Sessions |-> Idle]

----------------------------------------------------------------------------
(* The lifecycle, under the lock of the customer's row. *)

\* Mutant: deleted customers stay visible to the workflow.
AnyExisting == customer.exists

\* operational_customer_filter: status and tombstone both say it is not deleted.
Operational == customer.exists /\ customer.status # "deleted" /\ ~customer.tombstone

OpenProjectStatuses == {"planning", "procurement", "installation", "commissioning",
                        "active", "on_hold"}
OpenProject == \E d \in DOMAIN deals : deals[d].project \in OpenProjectStatuses
Unfinished == customer.owes # 0 \/ OpenProject \/ bill = "open"
Referenced == deals # <<>> \/ bill # None

Complete ==
    /\ customer.exists /\ customer.status \notin Closed
    /\ Unfinished => MayForce
    /\ customer' = [customer EXCEPT !.status = "completed", !.completed = TRUE,
                                    !.archived = FALSE, !.tombstone = FALSE]
    /\ UNCHANGED <<deals, bill, req>>

Reactivate ==
    /\ customer.exists /\ customer.status \in {"completed", "archived"}
    /\ customer' = [customer EXCEPT !.status = "active", !.completed = FALSE,
                                    !.archived = FALSE]
    /\ UNCHANGED <<deals, bill, req>>

Archive ==
    /\ customer.exists /\ customer.status \notin {"archived", "deleted"}
    /\ customer' = [customer EXCEPT !.status = "archived", !.archived = TRUE]
    /\ UNCHANGED <<deals, bill, req>>

SoftDelete ==
    /\ customer.exists /\ customer.status # "deleted"
    /\ customer' = [customer EXCEPT !.status = "deleted", !.tombstone = TRUE]
    /\ UNCHANGED <<deals, bill, req>>

\* Mutant: the tombstone stays.
RestoreStatusOnly ==
    /\ customer.exists /\ customer.status = "deleted"
    /\ customer' = [customer EXCEPT
                       !.status = IF ~Unfinished /\ customer.completed THEN "completed"
                                  ELSE "active"]
    /\ UNCHANGED <<deals, bill, req>>

\* Mutant: completed_at alone decides what the customer returns to.
RestoreCompleted ==
    /\ customer.exists /\ customer.status = "deleted"
    /\ customer' = [customer EXCEPT
                       !.status = IF customer.completed THEN "completed" ELSE "active",
                       !.tombstone = FALSE]
    /\ UNCHANGED <<deals, bill, req>>

Restore ==
    /\ customer.exists /\ customer.status = "deleted"
    /\ customer' = [customer EXCEPT
                       !.status = IF ~Unfinished /\ customer.completed THEN "completed"
                                  ELSE "active",
                       !.tombstone = FALSE]
    /\ UNCHANGED <<deals, bill, req>>

\* Mutant: nothing is counted before the purge.
PurgeUncounted ==
    /\ customer.exists /\ customer.status = "deleted"
    /\ customer' = [customer EXCEPT !.exists = FALSE]
    /\ UNCHANGED <<deals, bill, req>>

Purge ==
    /\ customer.exists /\ customer.status = "deleted"
    /\ ~Referenced
    /\ customer' = [customer EXCEPT !.exists = FALSE]
    /\ UNCHANGED <<deals, bill, req>>

----------------------------------------------------------------------------
(* Requests that read first and write later. *)

Begin(s, r) == /\ req[s] = Idle /\ Operational
               /\ req' = [req EXCEPT ![s] = r]
               /\ UNCHANGED <<customer, deals, bill>>
Done(s) == req' = [req EXCEPT ![s] = Idle]

LoadForActivity(s, op) ==
    Begin(s, [op |-> op, status |-> customer.status, completed |-> customer.completed,
              archived |-> customer.archived])
LoadForEdit(s, to) == Begin(s, [op |-> "edit", status |-> customer.status, to |-> to])

\* Mutant: an approved request can be quoted again.
LoadAnyForQuotation(s, d, to) ==
    Begin(s, [op |-> "quote", deal |-> d, request |-> deals[d].request,
              quotation |-> deals[d].quotation, total |-> deals[d].total, to |-> to])

LoadForQuotation(s, d, to) ==
    /\ deals[d].request # "approved"
    /\ Begin(s, [op |-> "quote", deal |-> d, request |-> deals[d].request,
                 quotation |-> deals[d].quotation, total |-> deals[d].total, to |-> to])

LoadForDecision(s, d, to) ==
    /\ deals[d].quotation = "pending_approval"
    /\ Begin(s, [op |-> "decide", deal |-> d, request |-> deals[d].request,
                 total |-> deals[d].total, status |-> customer.status,
                 owes |-> customer.owes, to |-> to])

\* What a commit leaves in a column that was seen as one value and assigned another.
Saved(seen, assigned, stored) == IF assigned = seen THEN stored ELSE assigned

\* Mutant: only deleted customers are refused.
ActivityUnlessDeleted(r) == customer.exists /\ r.status # "deleted"

\* reactivate_for_activity judges the status the session loaded, then assigns.
ActivityAllowed(r) == customer.exists /\ r.status \notin {"deleted", "archived"}
AfterActivity(r, status) ==
    LET revived == r.status = "completed"
    IN  [customer EXCEPT !.status = Saved(r.status, status, @),
                         !.completed = @ /\ ~(revived /\ r.completed),
                         !.archived = @ /\ ~(revived /\ r.archived)]

OpenRequest == \E d \in DOMAIN deals : deals[d].request \in {"pending", "quotation_ready"}

NewDeal == [request |-> "pending", quotation |-> None, total |-> 0,
            project |-> None, value |-> 0]

PlaceRequest(s) ==
    /\ req[s].op = "request" /\ ActivityAllowed(req[s])
    /\ ~OpenRequest
    /\ Len(deals) < MaxDeals
    /\ deals' = Append(deals, NewDeal)
    /\ customer' = AfterActivity(req[s], "quotation_requested")
    /\ Done(s)
    /\ UNCHANGED bill

RaiseBill(s) ==
    LET r == req[s]
    IN  /\ r.op = "bill" /\ ActivityAllowed(r)
        /\ bill' = "open"
        /\ customer' = AfterActivity(r, IF r.status = "completed" THEN "active" ELSE r.status)
        /\ Done(s)
        /\ UNCHANGED deals

SaveEdit(s) ==
    /\ req[s].op = "edit" /\ customer.exists
    /\ customer' = [customer EXCEPT !.status = Saved(req[s].status, req[s].to, @)]
    /\ Done(s)
    /\ UNCHANGED <<deals, bill>>

\* What generate_quotation leaves of the request, its quotation and its total.
Quoted(r) ==
    [deals[r.deal] EXCEPT
        !.quotation = Saved(r.quotation, "pending_approval", @),
        !.total = IF r.quotation = None THEN r.to ELSE Saved(r.total, r.to, @),
        !.request = Saved(r.request, "quotation_ready", @)]

\* Two first quotations of one request: the unique constraint ends the second.
SaveQuotation(s) ==
    LET r == req[s]
    IN  /\ r.op = "quote"
        /\ r.quotation = None => deals[r.deal].quotation = None
        /\ deals' = [deals EXCEPT ![r.deal] = Quoted(r)]
        /\ Done(s)
        /\ UNCHANGED <<customer, bill>>

Decided(r) == [deals[r.deal] EXCEPT !.quotation = r.to,
                                    !.request = Saved(r.request, r.to, @)]

\* Mutant: the project of an earlier approval is not looked for.
ApproveAnew(s) ==
    LET r == req[s]
    IN  /\ r.op = "decide" /\ r.to = "approved"
        /\ deals' = [deals EXCEPT ![r.deal] =
               [Decided(r) EXCEPT !.project = "planning", !.value = r.total]]
        /\ customer' = [customer EXCEPT !.status = Saved(r.status, "active", @),
                                        !.owes = Saved(r.owes, r.total, @)]
        /\ Done(s)
        /\ UNCHANGED bill

Approve(s) ==
    LET r == req[s]
    IN  /\ r.op = "decide" /\ r.to = "approved"
        /\ deals' = [deals EXCEPT ![r.deal] =
               IF @.project # None THEN Decided(r)
               ELSE [Decided(r) EXCEPT !.project = "planning", !.value = r.total]]
        /\ customer' = [customer EXCEPT !.status = Saved(r.status, "active", @),
                                        !.owes = Saved(r.owes, r.total, @)]
        /\ Done(s)
        /\ UNCHANGED bill

Decline(s) ==
    LET r == req[s]
        status == IF r.to = "condition" THEN "quotation_condition" ELSE "quotation_rejected"
    IN  /\ r.op = "decide" /\ r.to # "approved"
        /\ deals' = [deals EXCEPT ![r.deal] = Decided(r)]
        /\ customer' = [customer EXCEPT !.status = Saved(r.status, status, @)]
        /\ Done(s)
        /\ UNCHANGED bill

\* A check refuses, a constraint or a failure rolls back.
Refuse(s) == /\ req[s] # Idle
             /\ Done(s)
             /\ UNCHANGED <<customer, deals, bill>>

----------------------------------------------------------------------------
(* The project's timeline and the customer's bills, as far as they matter. *)

\* A step completed, the last step completed, a step reopened.
Progress == {<<"planning", "in_progress">>, <<"in_progress", "completed">>,
             <<"completed", "in_progress">>}
Work(d, status) ==
    /\ Operational /\ <<deals[d].project, status>> \in Progress
    /\ deals' = [deals EXCEPT ![d].project = status]
    /\ UNCHANGED <<customer, bill, req>>

\* Payments settle the bills, a voided payment opens one again.
BillPayment(b) ==
    /\ bill # None /\ b # bill
    /\ bill' = b
    /\ UNCHANGED <<customer, deals, req>>

Lifecycle == Complete \/ Reactivate \/ Archive \/ SoftDelete \/ Restore \/ Purge

Load(s) ==
    \/ \E op \in {"request", "bill"} : LoadForActivity(s, op)
    \/ \E to \in EditStatuses : LoadForEdit(s, to)
    \/ \E d \in DOMAIN deals, to \in Totals : LoadForQuotation(s, d, to)
    \/ \E d \in DOMAIN deals, to \in Decisions : LoadForDecision(s, d, to)

Commit(s) == PlaceRequest(s) \/ RaiseBill(s) \/ SaveEdit(s) \/ SaveQuotation(s)
             \/ Approve(s) \/ Decline(s) \/ Refuse(s)

Elsewhere == \/ \E d \in DOMAIN deals, status \in {"in_progress", "completed"} : Work(d, status)
             \/ \E b \in {"open", "settled"} : BillPayment(b)

\* Whatever is one step needs a session that is free to take it.
Next == \E s \in Sessions : \/ req[s] = Idle /\ (Lifecycle \/ Elsewhere)
                            \/ Load(s) \/ Commit(s)

Spec == Init /\ [][Next]_vars

----------------------------------------------------------------------------
(* Properties. *)

\* A customer and its history are never separated: requests and bills always
\* belong to a customer that has not been purged (purge_customer, lines 439-473,
\* counts first; the foreign keys would cascade).
HistoryHasOwner == Referenced => customer.exists

\* A project stands for an approved quotation, at the price that was approved
\* (decide_quotation, generate_quotation): nothing re-opens, re-prices or
\* rejects a quotation that has become a project.
ProjectsAreApproved ==
    \A d \in DOMAIN deals : deals[d].project # None =>
        deals[d].quotation = "approved" /\ deals[d].request = "approved"
        /\ deals[d].value = deals[d].total

Projects == {d \in DOMAIN deals : deals[d].project # None}

\* Work never starts for a deleted customer: no request and no project appears
\* (reactivate_for_activity; operational_customer_filter in the workflow).
NoActivityWhenDeleted ==
    [][customer.tombstone => DOMAIN deals' = DOMAIN deals /\ Projects' = Projects]_vars

\* A project, once created, is never lost, re-planned or re-valued, whatever is
\* decided or quoted at the same time (decide_quotation keeps the one it finds).
ProjectsStand ==
    [][\A d \in Projects : /\ deals'[d].value = deals[d].value
                           /\ deals'[d].project = deals[d].project
                              \/ deals'[d].project \notin {None, "planning"}]_vars

\* The lifecycle, the workflow and the edit form together keep what the lifecycle
\* promises (CustomerStanding).
Standing == INSTANCE CustomerStanding WITH
    standing <- IF ~customer.exists THEN "purged"
                ELSE IF customer.status \in Closed THEN customer.status ELSE "open",
    requests <- Len(deals)
StandingKept == Standing!Spec
=============================================================================
