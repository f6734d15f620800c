------------------------ MODULE CustomerWorkflowProofs ------------------------
(* Theorems about one customer: CustomerWorkflow and CustomerDirectory, and   *)
(* the packs of its documents (DocumentPack), for every set of concurrent     *)
(* requests, of totals and of statuses the edit form may send, and any number *)
(* of quotation requests and of versions.                                     *)
EXTENDS CustomerDirectory, FiniteSetTheorems, TLAPS

\* A request that quotes or decides does so for a quotation request that is there.
DealIsThere ==
    \A s \in Sessions : req[s].op \in {"quote", "decide"} => req[s].deal \in DOMAIN deals

Inductive == TypeOK /\ DealIsThere /\ HistoryHasOwner

\* What no step does to a quotation request that is there: nothing that is a
\* project stops being one, or becomes another.
Stands ==
    /\ DOMAIN deals \subseteq DOMAIN deals'
    /\ \A d \in DOMAIN deals : deals[d].project # None =>
          /\ deals'[d].value = deals[d].value
          /\ deals'[d].project = deals[d].project \/ deals'[d].project \notin {None, "planning"}

----------------------------------------------------------------------------
(* What the types say. *)

LEMMA DealsAsFunction ==
    ASSUME TypeOK
    PROVE  /\ Len(deals) \in Nat /\ DOMAIN deals = 1..Len(deals)
           /\ deals \in [1..Len(deals) -> Deal]
           /\ \A d \in DOMAIN deals : deals[d] \in Deal
           /\ deals # <<>> <=> Len(deals) > 0
  BY DEF TypeOK

LEMMA RequestColumns ==
    ASSUME TypeOK, NEW s \in Sessions
    PROVE  /\ req[s] \in Request \cup {Idle}
           /\ req[s].op = "idle" <=> req[s] = Idle
           /\ req[s].op \in {"request", "bill"} =>
                 req[s].status \in Statuses /\ req[s].completed \in BOOLEAN
                 /\ req[s].archived \in BOOLEAN
           /\ req[s].op = "edit" => req[s].to \in EditStatuses
           /\ req[s].op = "quote" => req[s].to \in Totals
           /\ req[s].op = "decide" =>
                 req[s].to \in Decisions /\ req[s].total \in Totals \cup {0}
  BY DEF TypeOK, Request, Idle

LEMMA InitInductive == Init => Inductive
  <1> SUFFICES ASSUME Init PROVE Inductive
    OBVIOUS
  <1>1. deals \in Seq(Deal) /\ Len(deals) = 0
    BY DEF Init
  <1>2. customer \in Customer
    BY DEF Init, Customer, Statuses
  <1> QED
    BY <1>1, <1>2, WorkflowAssumption
    DEF Init, Inductive, TypeOK, DealIsThere, HistoryHasOwner, Referenced, Idle

----------------------------------------------------------------------------
(* Steps.  A change of the columns of one quotation request keeps the rest. *)

LEMMA ChangeDeal ==
    ASSUME Inductive, NEW d \in DOMAIN deals, NEW new \in Deal,
           deals' = [deals EXCEPT ![d] = new]
    PROVE  /\ deals' \in Seq(Deal) /\ Len(deals') = Len(deals) /\ DOMAIN deals' = DOMAIN deals
           /\ (deals' = <<>>) <=> (deals = <<>>)
           /\ \A e \in DOMAIN deals : deals'[e] = IF e = d THEN new ELSE deals[e]
  <1>1. TypeOK
    BY DEF Inductive
  <1>2. deals' \in [1..Len(deals) -> Deal]
    BY <1>1, DealsAsFunction
  <1>3. deals' \in Seq(Deal) /\ Len(deals') = Len(deals)
    BY <1>1, <1>2, DealsAsFunction
  <1> QED
    BY <1>1, <1>2, <1>3, DealsAsFunction

LEMMA LifecycleStep ==
    ASSUME Inductive, Lifecycle
    PROVE  Inductive' /\ Stands
  <1>1. UNCHANGED <<deals, bill, req>>
    BY DEF Lifecycle, Complete, Reactivate, Archive, SoftDelete, Restore, Purge
  <1>2. customer' \in Customer
    BY DEF Lifecycle, Complete, Reactivate, Archive, SoftDelete, Restore, Purge, Inductive,
           TypeOK, Customer, Statuses, Closed
  <1>3. Referenced /\ customer.exists => customer'.exists
    BY DEF Lifecycle, Complete, Reactivate, Archive, SoftDelete, Restore, Purge, Inductive,
           TypeOK, Customer
  <1>4. Inductive'
    BY <1>1, <1>2, <1>3
    DEF Inductive, TypeOK, DealIsThere, HistoryHasOwner, Referenced
  <1> QED
    BY <1>1, <1>4 DEF Stands

\* What ending a request means for the others.
LEMMA DoneStep ==
    ASSUME Inductive, NEW s \in Sessions, Done(s), DOMAIN deals \subseteq DOMAIN deals'
    PROVE  req' \in [Sessions -> Request \cup {Idle}] /\ DealIsThere'
  BY DEF Done, Inductive, TypeOK, DealIsThere, Idle

LEMMA LoadStep ==
    ASSUME Inductive, NEW s \in Sessions, Load(s)
    PROVE  Inductive' /\ Stands
  <1>1. ASSUME NEW r \in Request, Begin(s, r),
               r.op \in {"quote", "decide"} => r.deal \in DOMAIN deals
        PROVE  Inductive'
    <2>1. TypeOK'
      BY <1>1 DEF Begin, Inductive, TypeOK
    <2>2. DealIsThere'
      BY <1>1 DEF Begin, Inductive, TypeOK, DealIsThere
    <2>3. HistoryHasOwner'
      BY <1>1 DEF Begin, Inductive, HistoryHasOwner, Referenced
    <2> QED
      BY <2>1, <2>2, <2>3 DEF Inductive
  <1>2. Stands
    BY DEF Load, LoadForActivity, LoadForEdit, LoadForQuotation, LoadForDecision, Begin, Stands
  <1>3. customer \in Customer
    BY DEF Inductive, TypeOK
  <1>4. CASE \E op \in {"request", "bill"} : LoadForActivity(s, op)
    <2>1. PICK op \in {"request", "bill"} : LoadForActivity(s, op)
      BY <1>4
    <2>2. [op |-> op, status |-> customer.status, completed |-> customer.completed,
           archived |-> customer.archived] \in Request
      BY <1>3 DEF Customer, Request
    <2> QED
      BY <2>1, <2>2, <1>1, <1>2 DEF LoadForActivity
  <1>5. CASE \E to \in EditStatuses : LoadForEdit(s, to)
    <2>1. PICK to \in EditStatuses : LoadForEdit(s, to)
      BY <1>5
    <2>2. [op |-> "edit", status |-> customer.status, to |-> to] \in Request
      BY <1>3 DEF Customer, Request
    <2> QED
      BY <2>1, <2>2, <1>1, <1>2 DEF LoadForEdit
  <1>6. CASE \E d \in DOMAIN deals, to \in Totals : LoadForQuotation(s, d, to)
    <2>1. PICK d \in DOMAIN deals, to \in Totals : LoadForQuotation(s, d, to)
      BY <1>6
    <2>2. deals[d] \in Deal /\ d \in 1..MaxDeals
      BY DealsAsFunction, WorkflowAssumption DEF Inductive, TypeOK
    <2>3. [op |-> "quote", deal |-> d, request |-> deals[d].request,
           quotation |-> deals[d].quotation, total |-> deals[d].total, to |-> to] \in Request
      BY <2>2 DEF Deal, Request
    <2> QED
      BY <2>1, <2>3, <1>1, <1>2 DEF LoadForQuotation
  <1>7. CASE \E d \in DOMAIN deals, to \in Decisions : LoadForDecision(s, d, to)
    <2>1. PICK d \in DOMAIN deals, to \in Decisions : LoadForDecision(s, d, to)
      BY <1>7
    <2>2. deals[d] \in Deal /\ d \in 1..MaxDeals
      BY DealsAsFunction, WorkflowAssumption DEF Inductive, TypeOK
    <2>3. [op |-> "decide", deal |-> d, request |-> deals[d].request,
           total |-> deals[d].total, status |-> customer.status,
           owes |-> customer.owes, to |-> to] \in Request
      BY <2>2, <1>3 DEF Deal, Request, Customer
    <2> QED
      BY <2>1, <2>3, <1>1, <1>2 DEF LoadForDecision
  <1> QED
    BY <1>4, <1>5, <1>6, <1>7 DEF Load

LEMMA AfterActivityType ==
    ASSUME Inductive, NEW s \in Sessions, req[s].op \in {"request", "bill"},
           NEW status \in Statuses
    PROVE  /\ AfterActivity(req[s], status) \in Customer
           /\ AfterActivity(req[s], status).exists = customer.exists
  <1>1. customer \in Customer
    BY DEF Inductive, TypeOK
  <1>2. Saved(req[s].status, status, customer.status) \in Statuses
    BY <1>1 DEF Saved, Customer
  <1>3. \A st \in Statuses, co, ar \in BOOLEAN :
           /\ [customer EXCEPT !.status = st, !.completed = co, !.archived = ar] \in Customer
           /\ [customer EXCEPT !.status = st, !.completed = co, !.archived = ar].exists
                 = customer.exists
    BY <1>1 DEF Customer
  <1> QED
    BY <1>2, <1>3 DEF AfterActivity

LEMMA PlaceRequestStep ==
    ASSUME Inductive, NEW s \in Sessions, PlaceRequest(s)
    PROVE  Inductive' /\ Stands
  <1>1. /\ deals' = Append(deals, NewDeal) /\ Len(deals) < MaxDeals
        /\ customer' = AfterActivity(req[s], "quotation_requested")
        /\ customer.exists /\ Done(s) /\ UNCHANGED bill /\ req[s].op = "request"
    BY DEF PlaceRequest, ActivityAllowed
  <1>2. NewDeal \in Deal
    BY DEF NewDeal, Deal, RequestStatuses, QuotationStatuses
  <1>3. /\ deals' \in Seq(Deal) /\ Len(deals') = Len(deals) + 1
        /\ DOMAIN deals' = 1..(Len(deals) + 1)
        /\ \A d \in DOMAIN deals : deals'[d] = deals[d]
    BY <1>1, <1>2, DealsAsFunction DEF Inductive, TypeOK
  <1>4. customer' \in Customer /\ customer'.exists
    BY <1>1, AfterActivityType DEF Statuses
  <1>5. DOMAIN deals \subseteq DOMAIN deals'
    BY <1>3, DealsAsFunction DEF Inductive
  <1>6. TypeOK'
    BY <1>1, <1>3, <1>4, <1>5, DoneStep, DealsAsFunction, WorkflowAssumption
    DEF Inductive, TypeOK
  <1>7. DealIsThere' /\ HistoryHasOwner'
    BY <1>1, <1>4, <1>5, DoneStep DEF HistoryHasOwner
  <1> QED
    BY <1>3, <1>5, <1>6, <1>7 DEF Inductive, Stands

LEMMA RaiseBillStep ==
    ASSUME Inductive, NEW s \in Sessions, RaiseBill(s)
    PROVE  Inductive' /\ Stands
  <1> DEFINE status == IF req[s].status = "completed" THEN "active" ELSE req[s].status
  <1>1. /\ customer' = AfterActivity(req[s], status) /\ bill' = "open"
        /\ customer.exists /\ Done(s) /\ UNCHANGED deals /\ req[s].op = "bill"
    BY DEF RaiseBill, ActivityAllowed
  <1>2. status \in Statuses
    BY <1>1, RequestColumns DEF Inductive, Statuses
  <1> HIDE DEF status
  <1>3. customer' \in Customer /\ customer'.exists
    BY <1>1, <1>2, AfterActivityType
  <1>4. TypeOK'
    BY <1>1, <1>3, DoneStep DEF Inductive, TypeOK
  <1>5. DealIsThere' /\ HistoryHasOwner'
    BY <1>1, <1>3, DoneStep DEF HistoryHasOwner
  <1> QED
    BY <1>1, <1>4, <1>5 DEF Inductive, Stands

LEMMA SaveEditStep ==
    ASSUME Inductive, NEW s \in Sessions, SaveEdit(s)
    PROVE  Inductive' /\ Stands
  <1>1. req[s].to \in EditStatuses /\ UNCHANGED <<deals, bill>> /\ Done(s)
    BY RequestColumns DEF SaveEdit, Inductive
  <1>2. customer' \in Customer /\ customer'.exists
    BY <1>1 DEF SaveEdit, Saved, Inductive, TypeOK, Customer, Statuses
  <1>3. TypeOK'
    BY <1>1, <1>2, DoneStep DEF Inductive, TypeOK
  <1>4. DealIsThere' /\ HistoryHasOwner'
    BY <1>1, <1>2, DoneStep DEF HistoryHasOwner
  <1> QED
    BY <1>1, <1>3, <1>4 DEF Inductive, Stands

\* A request that writes its quotation request, and what it knows of the customer.
LEMMA WriteDealStep ==
    ASSUME Inductive, NEW s \in Sessions, req[s].op \in {"quote", "decide"},
           NEW new \in Deal, deals' = [deals EXCEPT ![req[s].deal] = new],
           deals[req[s].deal].project # None =>
              new.project = deals[req[s].deal].project /\ new.value = deals[req[s].deal].value,
           customer' \in Customer, customer'.exists = customer.exists,
           UNCHANGED bill, Done(s)
    PROVE  Inductive' /\ Stands
  <1> DEFINE d == req[s].deal
  <1>1. d \in DOMAIN deals
    BY DEF Inductive, DealIsThere
  <1>2. /\ deals' \in Seq(Deal) /\ Len(deals') = Len(deals) /\ DOMAIN deals' = DOMAIN deals
        /\ (deals' = <<>>) <=> (deals = <<>>)
        /\ \A e \in DOMAIN deals : deals'[e] = IF e = d THEN new ELSE deals[e]
    BY <1>1, ChangeDeal
  <1>3. TypeOK'
    BY <1>2, DoneStep DEF Inductive, TypeOK
  <1>4. DealIsThere'
    BY <1>2, DoneStep
  <1>5. HistoryHasOwner'
    BY <1>2 DEF Inductive, HistoryHasOwner, Referenced
  <1>6. Stands
    BY <1>2 DEF Stands
  <1> QED
    BY <1>3, <1>4, <1>5, <1>6 DEF Inductive

LEMMA SaveQuotationStep ==
    ASSUME Inductive, NEW s \in Sessions, SaveQuotation(s)
    PROVE  Inductive' /\ Stands
  <1> DEFINE r == req[s]
             old == deals[r.deal]
             q == Saved(r.quotation, "pending_approval", old.quotation)
             t == IF r.quotation = None THEN r.to ELSE Saved(r.total, r.to, old.total)
             p == Saved(r.request, "quotation_ready", old.request)
  <1>1. r.op = "quote" /\ r.deal \in DOMAIN deals /\ r.to \in Totals /\ old \in Deal
    BY RequestColumns, DealsAsFunction DEF SaveQuotation, Inductive, DealIsThere
  <1>2. q \in QuotationStatuses /\ t \in Totals \cup {0} /\ p \in RequestStatuses
    BY <1>1 DEF Saved, Deal, QuotationStatuses, RequestStatuses
  <1>3. Quoted(r) = [old EXCEPT !.quotation = q, !.total = t, !.request = p]
    BY Zenon DEF Quoted
  <1> HIDE DEF q, t, p
  <1>4. /\ Quoted(r) \in Deal
        /\ Quoted(r).project = old.project /\ Quoted(r).value = old.value
    BY <1>1, <1>2, <1>3 DEF Deal
  <1>5. /\ deals' = [deals EXCEPT ![r.deal] = Quoted(r)] /\ Done(s)
        /\ UNCHANGED <<customer, bill>>
    BY DEF SaveQuotation
  <1>6. customer' \in Customer /\ customer'.exists = customer.exists
    BY <1>5 DEF Inductive, TypeOK
  <1> QED
    BY <1>1, <1>4, <1>5, <1>6, WriteDealStep

LEMMA DecidedType ==
    ASSUME Inductive, NEW s \in Sessions, req[s].op = "decide"
    PROVE  /\ req[s].deal \in DOMAIN deals /\ deals[req[s].deal] \in Deal
           /\ Decided(req[s]) \in Deal
           /\ Decided(req[s]).project = deals[req[s].deal].project
           /\ Decided(req[s]).value = deals[req[s].deal].value
  <1> DEFINE r == req[s]
             old == deals[r.deal]
             p == Saved(r.request, r.to, old.request)
  <1>1. r.deal \in DOMAIN deals /\ r.to \in Decisions /\ old \in Deal
    BY RequestColumns, DealsAsFunction DEF Inductive, DealIsThere
  <1>2. p \in RequestStatuses /\ r.to \in QuotationStatuses
    BY <1>1 DEF Saved, Deal, RequestStatuses, QuotationStatuses
  <1>3. Decided(r) = [old EXCEPT !.quotation = r.to, !.request = p]
    BY DEF Decided
  <1> HIDE DEF p
  <1> QED
    BY <1>1, <1>2, <1>3 DEF Deal

LEMMA ApproveStep ==
    ASSUME Inductive, NEW s \in Sessions, Approve(s)
    PROVE  Inductive' /\ Stands
  <1> DEFINE r == req[s]
             old == deals[r.deal]
             planned == [Decided(r) EXCEPT !.project = "planning", !.value = r.total]
             new == IF old.project # None THEN Decided(r) ELSE planned
  <1>1. r.op = "decide" /\ r.total \in Totals \cup {0} /\ Done(s) /\ UNCHANGED bill
    BY RequestColumns DEF Approve, Inductive
  <1>2. deals' = [deals EXCEPT ![r.deal] = new]
    BY DEF Approve
  <1>3. planned \in Deal
    BY <1>1, DecidedType DEF Deal
  <1> HIDE DEF planned
  <1>4. /\ new \in Deal
        /\ old.project # None => new.project = old.project /\ new.value = old.value
    BY <1>1, <1>3, DecidedType
  <1>5. customer' \in Customer /\ customer'.exists = customer.exists
    BY <1>1 DEF Approve, Saved, Inductive, TypeOK, Customer, Statuses
  <1> HIDE DEF new
  <1> QED
    BY <1>1, <1>2, <1>4, <1>5, WriteDealStep

LEMMA DeclineStep ==
    ASSUME Inductive, NEW s \in Sessions, Decline(s)
    PROVE  Inductive' /\ Stands
  <1>1. /\ req[s].op = "decide" /\ Done(s) /\ UNCHANGED bill
        /\ deals' = [deals EXCEPT ![req[s].deal] = Decided(req[s])]
    BY DEF Decline
  <1>2. customer' \in Customer /\ customer'.exists = customer.exists
    BY DEF Decline, Saved, Inductive, TypeOK, Customer, Statuses
  <1> QED
    BY <1>1, <1>2, DecidedType, WriteDealStep

LEMMA RefuseStep ==
    ASSUME Inductive, NEW s \in Sessions, Refuse(s)
    PROVE  Inductive' /\ Stands
  <1>1. UNCHANGED <<customer, deals, bill>> /\ Done(s)
    BY DEF Refuse
  <1>2. TypeOK' /\ DealIsThere' /\ HistoryHasOwner'
    BY <1>1, DoneStep DEF Inductive, TypeOK, HistoryHasOwner, Referenced
  <1> QED
    BY <1>1, <1>2 DEF Inductive, Stands

LEMMA WorkStep ==
    ASSUME Inductive, NEW d \in DOMAIN deals, NEW status \in {"in_progress", "completed"},
           Work(d, status)
    PROVE  Inductive' /\ Stands
  <1> DEFINE new == [deals[d] EXCEPT !.project = status]
  <1>1. deals[d] \in Deal /\ deals' = [deals EXCEPT ![d] = new]
    BY DealsAsFunction DEF Work, Inductive
  <1>2. new \in Deal /\ new.value = deals[d].value /\ new.project = status
    BY <1>1 DEF Deal
  <1> HIDE DEF new
  <1>3. /\ deals' \in Seq(Deal) /\ Len(deals') = Len(deals) /\ DOMAIN deals' = DOMAIN deals
        /\ (deals' = <<>>) <=> (deals = <<>>)
        /\ \A e \in DOMAIN deals : deals'[e] = IF e = d THEN new ELSE deals[e]
    BY <1>1, <1>2, ChangeDeal
  <1>4. UNCHANGED <<customer, bill, req>>
    BY DEF Work
  <1>5. TypeOK' /\ DealIsThere' /\ HistoryHasOwner'
    BY <1>3, <1>4 DEF Inductive, TypeOK, DealIsThere, HistoryHasOwner, Referenced
  <1>6. Stands
    BY <1>2, <1>3 DEF Stands, None
  <1> QED
    BY <1>5, <1>6 DEF Inductive

LEMMA BillPaymentStep ==
    ASSUME Inductive, NEW b \in {"open", "settled"}, BillPayment(b)
    PROVE  Inductive' /\ Stands
  BY DEF BillPayment, Inductive, TypeOK, DealIsThere, HistoryHasOwner, Referenced, Stands

LEMMA NextStep == ASSUME Inductive, Next PROVE Inductive' /\ Stands
  <1>1. CASE Lifecycle
    BY <1>1, LifecycleStep
  <1>2. CASE Elsewhere
    BY <1>2, WorkStep, BillPaymentStep DEF Elsewhere
  <1>3. CASE \E s \in Sessions : Load(s)
    BY <1>3, LoadStep
  <1>4. CASE \E s \in Sessions : Commit(s)
    BY <1>4, PlaceRequestStep, RaiseBillStep, SaveEditStep, SaveQuotationStep, ApproveStep,
       DeclineStep, RefuseStep DEF Commit
  <1> QED
    BY <1>1, <1>2, <1>3, <1>4 DEF Next

----------------------------------------------------------------------------
(* The theorems. *)

LEMMA AlwaysInductive == Spec => []Inductive
  <1>1. Inductive /\ UNCHANGED vars => Inductive'
    BY DEF vars, Inductive, TypeOK, DealIsThere, HistoryHasOwner, Referenced
  <1>2. Inductive /\ [Next]_vars => Inductive'
    BY <1>1, NextStep
  <1> QED
    BY <1>2, InitInductive, PTL DEF Spec

\* Customer, quotation requests and bills keep their types, whatever stale
\* columns are written (customer_lifecycle_service.py, workflow_service.py).
THEOREM TypeCorrect == Spec => []TypeOK
  <1>1. Inductive => TypeOK
    BY DEF Inductive
  <1> QED
    BY <1>1, AlwaysInductive, PTL

\* A customer and its history are never separated, however many requests run
\* at once (purge_customer; the foreign keys of requests and bills).
THEOREM HistoryAlwaysHasOwner == Spec => []HistoryHasOwner
  <1>1. Inductive => HistoryHasOwner
    BY DEF Inductive
  <1> QED
    BY <1>1, AlwaysInductive, PTL

\* A project is never lost, re-planned or re-valued, whatever is decided or
\* quoted at the same time (decide_quotation, generate_quotation).
THEOREM ProjectsAlwaysStand == Spec => ProjectsStand
  <1> DEFINE Kept == \A d \in Projects :
                 /\ deals'[d].value = deals[d].value
                 /\ deals'[d].project = deals[d].project
                    \/ deals'[d].project \notin {None, "planning"}
  <1>1. Stands => Kept
    BY DEF Stands, Projects
  <1>2. Inductive /\ [Next]_vars => [Kept]_vars
    BY <1>1, NextStep
  <1> HIDE DEF Kept
  <1>3. ProjectsStand <=> [][Kept]_vars
    BY DEF ProjectsStand, Kept
  <1> QED
    BY <1>2, <1>3, AlwaysInductive, PTL DEF Spec

----------------------------------------------------------------------------
(* What goes wrong only when a request writes what it read too long ago. *)

\* How the columns of a quotation request, of its quotation and of its project
\* fit together.
Coherent(deal) ==
    /\ \/ deal.request = "pending" /\ deal.quotation = None
       \/ deal.request = "quotation_ready" /\ deal.quotation = "pending_approval"
       \/ deal.request = deal.quotation /\ deal.quotation \in Decisions
    /\ deal.project # None <=> deal.quotation = "approved"
    /\ deal.project # None => deal.value = deal.total

\* What the checks at the start of a request leave it with.
Admitted(r) == /\ r.op \in {"request", "bill", "edit", "decide"} => r.status # "deleted"
               /\ r.op = "quote" => r.request # "approved"

Consistent == /\ \A d \in DOMAIN deals : Coherent(deals[d])
              /\ customer.status = "deleted" <=> customer.tombstone
              /\ \A s \in Sessions : Admitted(req[s])

\* What the request has seen is what is stored.
Fresh(r) ==
    /\ r.op \in {"request", "bill"} => /\ r.status = customer.status
                                       /\ r.completed = customer.completed
                                       /\ r.archived = customer.archived
    /\ r.op = "edit" => r.status = customer.status
    /\ r.op = "quote" => /\ r.request = deals[r.deal].request
                         /\ r.quotation = deals[r.deal].quotation
                         /\ r.total = deals[r.deal].total
    /\ r.op = "decide" => /\ deals[r.deal].quotation = "pending_approval"
                          /\ r.request = deals[r.deal].request
                          /\ r.total = deals[r.deal].total
                          /\ r.status = customer.status
                          /\ r.owes = customer.owes

Writes(s) == PlaceRequest(s) \/ RaiseBill(s) \/ SaveEdit(s) \/ SaveQuotation(s)
             \/ Approve(s) \/ Decline(s)

FreshCommits == [][\A s \in Sessions : Writes(s) => Fresh(req[s])]_vars

\* What a completion counts is settled.
Settled == customer.status = "completed" => customer.owes = 0 /\ ~OpenProject

\* What the step may do to a deleted customer, ...
Dormant == customer.tombstone => DOMAIN deals' = DOMAIN deals /\ Projects' = Projects

\* ... to its standing, ...
StandingOf(c) == IF ~c.exists THEN "purged" ELSE IF c.status \in Closed THEN c.status ELSE "open"
Permitted ==
    \/ /\ StandingOf(customer') = StandingOf(customer)
       /\ Len(deals') = Len(deals)
    \/ /\ <<StandingOf(customer), StandingOf(customer')>> \in Standing!Moves
       /\ Len(deals') = Len(deals)
    \/ /\ StandingOf(customer) = "deleted" /\ Len(deals) = 0
       /\ StandingOf(customer') = "purged"
       /\ Len(deals') = Len(deals)
    \/ /\ StandingOf(customer) \in {"open", "completed"}
       /\ StandingOf(customer') = "open"
       /\ Len(deals') = Len(deals) + 1

\* ... and to what was settled.
Rules == Dormant /\ Permitted /\ (Settled /\ ~MayForce => Settled')

LEMMA SavedFresh == \A seen, assigned : Saved(seen, assigned, seen) = assigned
  BY DEF Saved

LEMMA IdleAdmitted == Admitted(Idle) /\ Fresh(Idle)
  BY DEF Admitted, Fresh, Idle

\* A step that leaves the quotation requests and what sessions do as they are.
LEMMA LifecycleRules ==
    ASSUME Inductive, Consistent, Lifecycle
    PROVE  Consistent' /\ Rules
  <1>1. customer \in Customer /\ UNCHANGED <<deals, bill, req>>
    BY DEF Inductive, TypeOK, Lifecycle, Complete, Reactivate, Archive, SoftDelete, Restore,
           Purge
  <1>2. customer'.status = "deleted" <=> customer'.tombstone
    BY <1>1 DEF Consistent, Lifecycle, Complete, Reactivate, Archive, SoftDelete, Restore, Purge,
       Customer, Closed
  <1>3. Consistent'
    BY <1>1, <1>2 DEF Consistent
  <1>4. Dormant
    BY <1>1 DEF Dormant, Projects
  <1>5. Permitted
    <2>1. Len(deals') = Len(deals)
      BY <1>1
    <2>2. ~Referenced => Len(deals) = 0
      BY DEF Referenced
    <2>3. CASE Complete
      BY <1>1, <2>1, <2>3 DEF Complete, Customer, Permitted, StandingOf, Standing!Moves, Closed
    <2>4. CASE Reactivate
      BY <1>1, <2>1, <2>4 DEF Reactivate, Customer, Permitted, StandingOf, Standing!Moves, Closed
    <2>5. CASE Archive
      BY <1>1, <2>1, <2>5 DEF Archive, Customer, Permitted, StandingOf, Standing!Moves, Closed
    <2>6. CASE SoftDelete
      BY <1>1, <2>1, <2>6 DEF SoftDelete, Customer, Permitted, StandingOf, Standing!Moves, Closed
    <2>7. CASE Restore
      BY <1>1, <2>1, <2>7 DEF Restore, Customer, Permitted, StandingOf, Standing!Moves, Closed
    <2>8. CASE Purge
      BY <1>1, <2>1, <2>2, <2>8 DEF Purge, Customer, Permitted, StandingOf, Closed
    <2> QED
      BY <2>3, <2>4, <2>5, <2>6, <2>7, <2>8 DEF Lifecycle
  <1>6. Settled /\ ~MayForce => Settled'
    BY <1>1 DEF Settled, OpenProject, Unfinished, Lifecycle, Complete, Reactivate, Archive,
       SoftDelete, Restore, Purge, Customer
  <1> QED
    BY <1>3, <1>4, <1>5, <1>6 DEF Rules

LEMMA LoadRules ==
    ASSUME Inductive, Consistent, NEW s \in Sessions, Load(s)
    PROVE  Consistent' /\ Rules
  <1>1. PICK r : Begin(s, r) /\ Admitted(r)
    <2>1. Operational
      BY DEF Load, LoadForActivity, LoadForEdit, LoadForQuotation, LoadForDecision, Begin
    <2>2. CASE \E op \in {"request", "bill"} : LoadForActivity(s, op)
      <3>1. PICK op \in {"request", "bill"} : LoadForActivity(s, op)
        BY <2>2
      <3> DEFINE r == [op |-> op, status |-> customer.status, completed |-> customer.completed,
                       archived |-> customer.archived]
      <3>2. Begin(s, r) /\ Admitted(r)
        BY <2>1, <3>1 DEF LoadForActivity, Operational, Admitted
      <3> QED
        BY <3>2
    <2>3. CASE \E to \in EditStatuses : LoadForEdit(s, to)
      <3>1. PICK to \in EditStatuses : LoadForEdit(s, to)
        BY <2>3
      <3> DEFINE r == [op |-> "edit", status |-> customer.status, to |-> to]
      <3>2. Begin(s, r) /\ Admitted(r)
        BY <2>1, <3>1 DEF LoadForEdit, Operational, Admitted
      <3> QED
        BY <3>2
    <2>4. CASE \E d \in DOMAIN deals, to \in Totals : LoadForQuotation(s, d, to)
      BY <2>4 DEF LoadForQuotation, Admitted
    <2>5. CASE \E d \in DOMAIN deals, to \in Decisions : LoadForDecision(s, d, to)
      <3>1. PICK d \in DOMAIN deals, to \in Decisions : LoadForDecision(s, d, to)
        BY <2>5
      <3> DEFINE r == [op |-> "decide", deal |-> d, request |-> deals[d].request,
                       total |-> deals[d].total, status |-> customer.status,
                       owes |-> customer.owes, to |-> to]
      <3>2. Begin(s, r) /\ Admitted(r)
        BY <2>1, <3>1 DEF LoadForDecision, Operational, Admitted
      <3> QED
        BY <3>2
    <2> QED
      BY <2>2, <2>3, <2>4, <2>5 DEF Load
  <1>2. UNCHANGED <<customer, deals, bill>> /\ req' = [req EXCEPT ![s] = r]
    BY <1>1 DEF Begin
  <1>3. \A u \in Sessions : Admitted(req'[u])
    BY <1>1, <1>2 DEF Consistent, Inductive, TypeOK
  <1> QED
    BY <1>2, <1>3 DEF Consistent, Rules, Dormant, Projects, Permitted, Settled, OpenProject

LEMMA ElsewhereRules ==
    ASSUME Inductive, Consistent, Elsewhere
    PROVE  Consistent' /\ Rules
  <1>1. UNCHANGED <<customer, req>>
    BY DEF Elsewhere, Work, BillPayment
  <1>2. CASE \E b \in {"open", "settled"} : BillPayment(b)
    BY <1>1, <1>2 DEF BillPayment, Consistent, Rules, Dormant, Projects, Permitted, Settled,
       OpenProject
  <1>3. CASE \E d \in DOMAIN deals, status \in {"in_progress", "completed"} : Work(d, status)
    <2>1. PICK d \in DOMAIN deals, status \in {"in_progress", "completed"} : Work(d, status)
      BY <1>3
    <2> DEFINE new == [deals[d] EXCEPT !.project = status]
    <2>2. deals[d] \in Deal /\ deals' = [deals EXCEPT ![d] = new] /\ deals[d].project # None
      BY <2>1, DealsAsFunction DEF Work, Inductive, Progress, None
    <2>3. new \in Deal /\ new.project = status /\ Coherent(new)
      BY <2>2 DEF Deal, Consistent, Coherent, None
    <2> HIDE DEF new
    <2>4. /\ Len(deals') = Len(deals) /\ DOMAIN deals' = DOMAIN deals
          /\ \A e \in DOMAIN deals : deals'[e] = IF e = d THEN new ELSE deals[e]
      BY <2>2, <2>3, ChangeDeal
    <2>5. Consistent'
      BY <1>1, <2>3, <2>4 DEF Consistent
    <2>6. Projects' = Projects
      BY <2>2, <2>3, <2>4 DEF Projects, None
    <2>7. OpenProject' => OpenProject
      BY <2>3, <2>4 DEF OpenProject, OpenProjectStatuses
    <2> QED
      BY <1>1, <2>4, <2>5, <2>6, <2>7 DEF Rules, Dormant, Permitted, Settled
  <1> QED
    BY <1>2, <1>3 DEF Elsewhere

\* What ending a request leaves of the others.
LEMMA DoneAdmitted ==
    ASSUME Inductive, Consistent, NEW s \in Sessions, Done(s)
    PROVE  \A u \in Sessions : Admitted(req'[u])
  BY IdleAdmitted DEF Done, Inductive, TypeOK, Consistent

LEMMA PlaceRequestRules ==
    ASSUME Inductive, Consistent, NEW s \in Sessions, PlaceRequest(s), Fresh(req[s])
    PROVE  Consistent' /\ Rules
  <1> DEFINE r == req[s]
  <1>1. /\ r.op = "request" /\ customer.exists /\ Done(s)
        /\ r.status = customer.status /\ customer.status \notin {"deleted", "archived"}
        /\ customer \in Customer
        /\ deals' = Append(deals, NewDeal)
        /\ customer' = AfterActivity(r, "quotation_requested")
    BY DEF PlaceRequest, ActivityAllowed, Fresh, Inductive, TypeOK
  <1>2. /\ customer'.status = "quotation_requested" /\ customer'.exists
        /\ customer'.tombstone = customer.tombstone
    <2>1. Saved(r.status, "quotation_requested", customer.status) = "quotation_requested"
      BY <1>1, SavedFresh
    <2>2. \A st \in Statuses, co, ar \in BOOLEAN :
             LET c == [customer EXCEPT !.status = st, !.completed = co, !.archived = ar]
             IN  c.status = st /\ c.exists = customer.exists /\ c.owes = customer.owes
                 /\ c.tombstone = customer.tombstone
      BY <1>1 DEF Customer
    <2>3. "quotation_requested" \in Statuses
      BY <1>1 DEF Statuses, Customer
    <2> QED
      BY <1>1, <2>1, <2>2, <2>3 DEF AfterActivity, Customer
  <1>3. ~customer.tombstone
    BY <1>1 DEF Consistent
  <1>4. /\ NewDeal \in Deal /\ NewDeal.project = None /\ Coherent(NewDeal)
    BY DEF NewDeal, Deal, RequestStatuses, QuotationStatuses, Coherent, None
  <1>5. /\ Len(deals') = Len(deals) + 1
        /\ DOMAIN deals' = 1..(Len(deals) + 1) /\ DOMAIN deals = 1..Len(deals)
        /\ \A d \in DOMAIN deals : deals'[d] = deals[d]
        /\ deals'[Len(deals) + 1] = NewDeal
    BY <1>1, <1>4, DealsAsFunction DEF Inductive, TypeOK
  <1>6. \A d \in DOMAIN deals' : Coherent(deals'[d])
    <2> SUFFICES ASSUME NEW d \in DOMAIN deals' PROVE Coherent(deals'[d])
      OBVIOUS
    <2>1. d \in DOMAIN deals \/ d = Len(deals) + 1
      BY <1>5, DealsAsFunction DEF Inductive
    <2> QED
      BY <1>4, <1>5, <2>1 DEF Consistent
  <1>7. Consistent'
    BY <1>1, <1>2, <1>3, <1>6, DoneAdmitted DEF Consistent
  <1>8. Permitted
    BY <1>1, <1>2, <1>5 DEF Permitted, StandingOf, Closed
  <1> QED
    BY <1>2, <1>3, <1>7, <1>8 DEF Rules, Dormant, Settled

LEMMA RaiseBillRules ==
    ASSUME Inductive, Consistent, NEW s \in Sessions, RaiseBill(s), Fresh(req[s])
    PROVE  Consistent' /\ Rules
  <1> DEFINE r == req[s]
             status == IF r.status = "completed" THEN "active" ELSE r.status
  <1>1. /\ r.op = "bill" /\ customer.exists /\ Done(s) /\ UNCHANGED deals
        /\ r.status = customer.status /\ customer.status \notin {"deleted", "archived"}
        /\ customer \in Customer
        /\ customer' = AfterActivity(r, status)
    BY DEF RaiseBill, ActivityAllowed, Fresh, Inductive, TypeOK
  <1>2. /\ customer'.status = status /\ customer'.exists
        /\ customer'.tombstone = customer.tombstone /\ customer'.owes = customer.owes
    <2>1. Saved(r.status, status, customer.status) = status
      BY <1>1, SavedFresh
    <2>2. \A st \in Statuses, co, ar \in BOOLEAN :
             LET c == [customer EXCEPT !.status = st, !.completed = co, !.archived = ar]
             IN  c.status = st /\ c.exists = customer.exists /\ c.owes = customer.owes
                 /\ c.tombstone = customer.tombstone
      BY <1>1 DEF Customer
    <2>3. status \in Statuses
      BY <1>1 DEF Statuses, Customer
    <2> QED
      BY <1>1, <2>1, <2>2, <2>3 DEF AfterActivity, Customer
  <1>3. Consistent'
    BY <1>1, <1>2, DoneAdmitted DEF Consistent
  <1>4. Permitted
    BY <1>1, <1>2 DEF Permitted, StandingOf, Closed, Standing!Moves
  <1> QED
    BY <1>1, <1>2, <1>3, <1>4 DEF Rules, Dormant, Projects, Settled

LEMMA SaveEditRules ==
    ASSUME Inductive, Consistent, NEW s \in Sessions, SaveEdit(s), Fresh(req[s])
    PROVE  Consistent' /\ Rules
  <1> DEFINE r == req[s]
  <1>1. /\ r.op = "edit" /\ customer.exists /\ Done(s) /\ UNCHANGED deals
        /\ r.status = customer.status /\ customer.status # "deleted"
        /\ r.to \in EditStatuses /\ r.to \notin Closed
        /\ customer \in Customer
        /\ customer' = [customer EXCEPT !.status = r.to]
    BY RequestColumns, SavedFresh, WorkflowAssumption
    DEF SaveEdit, Fresh, Inductive, TypeOK, Consistent, Admitted, Closed
  <1>2. /\ customer'.status = r.to /\ customer'.exists
        /\ customer'.tombstone = customer.tombstone /\ customer'.owes = customer.owes
    BY <1>1 DEF Customer
  <1>3. Consistent'
    BY <1>1, <1>2, DoneAdmitted DEF Consistent, Closed
  <1>4. Permitted
    BY <1>1, <1>2 DEF Permitted, StandingOf, Closed, Standing!Moves
  <1> QED
    BY <1>1, <1>2, <1>3, <1>4 DEF Rules, Dormant, Projects, Settled, Closed

LEMMA SaveQuotationRules ==
    ASSUME Inductive, Consistent, NEW s \in Sessions, SaveQuotation(s), Fresh(req[s])
    PROVE  Consistent' /\ Rules
  <1> DEFINE r == req[s]
             old == deals[r.deal]
             new == [old EXCEPT !.quotation = "pending_approval", !.total = r.to,
                                !.request = "quotation_ready"]
  <1>1. /\ r.op = "quote" /\ r.deal \in DOMAIN deals /\ r.to \in Totals /\ old \in Deal
        /\ UNCHANGED customer /\ Done(s)
        /\ r.request = old.request /\ r.quotation = old.quotation /\ r.total = old.total
        /\ old.request # "approved"
    BY RequestColumns, DealsAsFunction
    DEF SaveQuotation, Inductive, DealIsThere, Fresh, Consistent, Admitted
  <1>2. Quoted(r) = new
    BY <1>1 DEF Quoted, Saved
  <1>3. deals' = [deals EXCEPT ![r.deal] = new]
    BY <1>2 DEF SaveQuotation
  <1>4. old.project = None
    BY <1>1 DEF Consistent, Coherent, None
  <1>5. /\ new \in Deal /\ new.project = None
        /\ Coherent(new)
    BY <1>1, <1>4 DEF Deal, QuotationStatuses, RequestStatuses, Coherent, None
  <1> HIDE DEF new
  <1>6. /\ Len(deals') = Len(deals) /\ DOMAIN deals' = DOMAIN deals
        /\ \A e \in DOMAIN deals : deals'[e] = IF e = r.deal THEN new ELSE deals[e]
    BY <1>1, <1>3, <1>5, ChangeDeal
  <1>7. Consistent'
    BY <1>1, <1>5, <1>6, DoneAdmitted DEF Consistent
  <1>8. Projects' = Projects
    BY <1>1, <1>4, <1>5, <1>6 DEF Projects
  <1>9. OpenProject' => OpenProject
    BY <1>5, <1>6 DEF OpenProject, OpenProjectStatuses, None
  <1> QED
    BY <1>1, <1>6, <1>7, <1>8, <1>9 DEF Rules, Dormant, Permitted, Settled

\* A decision finds the quotation pending, and its customer in use.
LEMMA DecisionFinds ==
    ASSUME Inductive, Consistent, NEW s \in Sessions, req[s].op = "decide", Fresh(req[s])
    PROVE  LET old == deals[req[s].deal]
               new == [old EXCEPT !.quotation = req[s].to, !.request = req[s].to]
           IN  /\ req[s].deal \in DOMAIN deals /\ old \in Deal
               /\ req[s].to \in Decisions /\ req[s].total \in Totals \cup {0}
               /\ old.project = None /\ req[s].total = old.total
               /\ Decided(req[s]) = new /\ new \in Deal /\ new.project = None
               /\ new.total = old.total
               /\ customer \in Customer /\ customer.exists
               /\ req[s].status = customer.status /\ req[s].owes = customer.owes
               /\ customer.status # "deleted" /\ ~customer.tombstone
  <1> DEFINE r == req[s]
             old == deals[r.deal]
             new == [old EXCEPT !.quotation = r.to, !.request = r.to]
  <1>1. /\ r.deal \in DOMAIN deals /\ old \in Deal /\ r.to \in Decisions
        /\ r.total \in Totals \cup {0}
    BY RequestColumns, DealsAsFunction DEF Inductive, DealIsThere
  <1>2. old.quotation = "pending_approval" /\ r.request = old.request /\ r.total = old.total
        /\ r.status = customer.status /\ r.owes = customer.owes
    BY DEF Fresh
  <1>3. old.project = None
    BY <1>1, <1>2 DEF Consistent, Coherent
  <1>4. Decided(r) = new
    <2>1. Saved(r.request, r.to, old.request) = r.to
      BY <1>2, SavedFresh
    <2> QED
      BY <2>1 DEF Decided
  <1>5. new \in Deal /\ new.project = None /\ new.total = old.total
    BY <1>1, <1>3 DEF Deal, QuotationStatuses, RequestStatuses
  <1>6. customer \in Customer /\ customer.exists
    BY <1>1, DealsAsFunction DEF Inductive, TypeOK, HistoryHasOwner, Referenced
  <1>7. customer.status # "deleted" /\ ~customer.tombstone
    BY <1>2 DEF Consistent, Admitted
  <1> QED
    BY <1>1, <1>2, <1>3, <1>4, <1>5, <1>6, <1>7

\* What a decision does to the customer, once it has changed the deal to new.
LEMMA DecisionRules ==
    ASSUME Inductive, Consistent, NEW s \in Sessions, req[s].op = "decide",
           NEW new \in Deal, deals' = [deals EXCEPT ![req[s].deal] = new], Coherent(new),
           req[s].deal \in DOMAIN deals,
           customer.exists, customer.status # "deleted", ~customer.tombstone,
           customer'.exists, ~customer'.tombstone,
           customer'.status \in {"active", "quotation_condition", "quotation_rejected"},
           customer \in Customer, Done(s)
    PROVE  Consistent' /\ Rules
  <1>1. /\ Len(deals') = Len(deals) /\ DOMAIN deals' = DOMAIN deals
        /\ \A e \in DOMAIN deals : deals'[e] = IF e = req[s].deal THEN new ELSE deals[e]
    BY ChangeDeal
  <1>2. Consistent'
    BY <1>1, DoneAdmitted DEF Consistent
  <1>3. Permitted
    BY <1>1 DEF Permitted, StandingOf, Closed, Standing!Moves, Customer, Statuses
  <1> QED
    BY <1>2, <1>3 DEF Rules, Dormant, Settled

LEMMA ApproveRules ==
    ASSUME Inductive, Consistent, NEW s \in Sessions, Approve(s), Fresh(req[s])
    PROVE  Consistent' /\ Rules
  <1> DEFINE r == req[s]
             old == deals[r.deal]
             decided == [old EXCEPT !.quotation = r.to, !.request = r.to]
             new == [decided EXCEPT !.project = "planning", !.value = r.total]
  <1>1. r.op = "decide" /\ r.to = "approved" /\ Done(s)
    BY DEF Approve
  <1>2. /\ r.deal \in DOMAIN deals /\ old \in Deal /\ r.total \in Totals \cup {0}
        /\ old.project = None /\ r.total = old.total
        /\ Decided(r) = decided /\ decided \in Deal
        /\ customer \in Customer /\ customer.exists
        /\ r.status = customer.status /\ r.owes = customer.owes
        /\ customer.status # "deleted" /\ ~customer.tombstone
    BY <1>1, DecisionFinds
  <1>3. deals' = [deals EXCEPT ![r.deal] = new]
    BY <1>2 DEF Approve
  <1>4. new \in Deal /\ Coherent(new)
    BY <1>1, <1>2 DEF Deal, Coherent, Decisions, None
  <1>5. customer' = [customer EXCEPT !.status = "active", !.owes = r.total]
    <2>1. /\ Saved(r.status, "active", customer.status) = "active"
          /\ Saved(r.owes, r.total, customer.owes) = r.total
      BY <1>2, SavedFresh
    <2> QED
      BY <2>1 DEF Approve
  <1>6. customer'.exists /\ ~customer'.tombstone /\ customer'.status = "active"
    BY <1>2, <1>5 DEF Customer
  <1> HIDE DEF new
  <1> QED
    BY <1>1, <1>2, <1>3, <1>4, <1>6, DecisionRules

LEMMA DeclineRules ==
    ASSUME Inductive, Consistent, NEW s \in Sessions, Decline(s), Fresh(req[s])
    PROVE  Consistent' /\ Rules
  <1> DEFINE r == req[s]
             old == deals[r.deal]
             new == [old EXCEPT !.quotation = r.to, !.request = r.to]
             status == IF r.to = "condition" THEN "quotation_condition" ELSE "quotation_rejected"
  <1>1. r.op = "decide" /\ r.to # "approved" /\ Done(s)
    BY DEF Decline
  <1>2. /\ r.deal \in DOMAIN deals /\ old \in Deal /\ r.to \in Decisions
        /\ old.project = None
        /\ Decided(r) = new /\ new \in Deal
        /\ customer \in Customer /\ customer.exists
        /\ r.status = customer.status
        /\ customer.status # "deleted" /\ ~customer.tombstone
    BY <1>1, DecisionFinds
  <1>3. deals' = [deals EXCEPT ![r.deal] = new]
    BY <1>2 DEF Decline
  <1>4. Coherent(new)
    BY <1>1, <1>2 DEF Deal, Coherent, Decisions, None
  <1>5. customer' = [customer EXCEPT !.status = status]
    BY <1>2, SavedFresh DEF Decline
  <1>6. customer'.exists /\ ~customer'.tombstone /\ customer'.status = status
    BY <1>2, <1>5 DEF Customer
  <1> HIDE DEF new
  <1> QED
    BY <1>1, <1>2, <1>3, <1>4, <1>6, DecisionRules

LEMMA RefuseRules ==
    ASSUME Inductive, Consistent, NEW s \in Sessions, Refuse(s)
    PROVE  Consistent' /\ Rules
  BY DoneAdmitted
  DEF Refuse, Consistent, Rules, Dormant, Projects, Permitted, Settled, OpenProject

LEMMA FreshStep ==
    ASSUME Inductive, Consistent, Next, \A s \in Sessions : Writes(s) => Fresh(req[s])
    PROVE  Consistent' /\ Rules
  <1>1. CASE Lifecycle
    BY <1>1, LifecycleRules
  <1>2. CASE Elsewhere
    BY <1>2, ElsewhereRules
  <1>3. CASE \E s \in Sessions : Load(s)
    BY <1>3, LoadRules
  <1>4. CASE \E s \in Sessions : Writes(s)
    BY <1>4, PlaceRequestRules, RaiseBillRules, SaveEditRules, SaveQuotationRules, ApproveRules,
       DeclineRules DEF Writes
  <1>5. CASE \E s \in Sessions : Refuse(s)
    BY <1>5, RefuseRules
  <1> QED
    BY <1>1, <1>2, <1>3, <1>4, <1>5 DEF Next, Commit, Writes

LEMMA FreshOrIdleStep ==
    ASSUME Inductive, Consistent, [Next]_vars,
           [\A s \in Sessions : Writes(s) => Fresh(req[s])]_vars
    PROVE  Consistent' /\ [Rules]_vars
  <1>1. CASE UNCHANGED vars
    BY <1>1 DEF vars, Consistent
  <1>2. CASE Next /\ ~UNCHANGED vars
    BY <1>2, FreshStep
  <1> QED
    BY <1>1, <1>2

LEMMA InitConsistent == Init => Consistent /\ Settled
  <1> SUFFICES ASSUME Init PROVE Consistent /\ Settled
    OBVIOUS
  <1>1. DOMAIN deals = {}
    BY DEF Init
  <1> QED
    BY <1>1, IdleAdmitted DEF Init, Consistent, Settled

LEMMA AlwaysConsistent == Spec /\ FreshCommits => [](Inductive /\ Consistent) /\ [][Rules]_vars
  BY AlwaysInductive, InitConsistent, FreshOrIdleStep, PTL DEF Spec, FreshCommits

----------------------------------------------------------------------------
(* What the screens count. *)

LEMMA Counted ==
    ASSUME TypeOK, NEW S, S \subseteq DOMAIN deals
    PROVE  IsFiniteSet(S)
  <1>1. Len(deals) \in Nat /\ DOMAIN deals = 1..Len(deals)
    BY DealsAsFunction
  <1>2. IsFiniteSet(1..Len(deals))
    BY <1>1, FS_Interval
  <1> QED
    BY <1>1, <1>2, FS_Subset

LEMMA CountTwo ==
    ASSUME NEW A, NEW B, IsFiniteSet(A), IsFiniteSet(B), A \cap B = {}
    PROVE  /\ IsFiniteSet(A \cup B)
           /\ Cardinality(A \cup B) = Cardinality(A) + Cardinality(B)
  <1>1. Cardinality(A \cap B) = 0
    BY FS_EmptySet
  <1>2. /\ IsFiniteSet(A \cup B)
        /\ Cardinality(A \cup B) = Cardinality(A) + Cardinality(B) - Cardinality(A \cap B)
    BY FS_Union
  <1>3. Cardinality(A) \in Nat /\ Cardinality(B) \in Nat
    BY FS_CardinalityType
  <1> QED
    BY <1>1, <1>2, <1>3

LEMMA SiteAgrees ==
    ASSUME NEW deal \in Deal, Coherent(deal)
    PROVE  /\ SiteStatus(deal) = "surveyed" <=> deal.request = "pending"
           /\ SiteStatus(deal) = "converted" <=> deal.project # None
           /\ SiteStatus(deal) # "approved"
  <1>1. CASE deal.project # None
    <2>1. SiteStatus(deal) = "converted"
      BY <1>1 DEF SiteStatus, Coherent, None
    <2> QED
      BY <1>1, <2>1 DEF Coherent, None
  <1>2. CASE deal.project = None /\ deal.quotation = None
    <2>1. SiteStatus(deal) = "surveyed"
      BY <1>2 DEF SiteStatus, None
    <2> QED
      BY <1>2, <2>1 DEF Coherent, Decisions, None
  <1>3. CASE deal.project = None /\ deal.quotation # None
    <2>1. deal.quotation # "approved" /\ deal.request # "pending"
      BY <1>3 DEF Coherent, Decisions, None
    <2>2. SiteStatus(deal) = "quotation_ready"
      BY <1>3, <2>1 DEF SiteStatus
    <2> QED
      BY <1>3, <2>1, <2>2
  <1> QED
    BY <1>1, <1>2, <1>3

LEMMA MaxIs ==
    ASSUME NEW S, S \subseteq Nat, NEW m \in S, \A y \in S : m >= y
    PROVE  Max(S) = m
  <1>1. \A x \in S : (\A y \in S : x >= y) => x = m
    OBVIOUS
  <1> QED
    BY <1>1 DEF Max

LEMMA PendingAgrees ==
    ASSUME TypeOK, Consistent
    PROVE  PendingQuotations =
             ApprovalBadge
             + Cardinality({d \in InUse : deals[d].request \in {"condition", "rejected"}})
  <1> DEFINE P == {d \in InUse : deals[d].quotation \in
                                    {None, "pending_approval", "condition", "rejected"}}
             A == {d \in InUse : deals[d].request = "pending"}
             B == {d \in InUse : deals[d].quotation = "pending_approval"}
             C == {d \in InUse : deals[d].request \in {"condition", "rejected"}}
  <1>1. \A d \in InUse : deals[d] \in Deal /\ Coherent(deals[d]) /\ d \in DOMAIN deals
    BY DealsAsFunction DEF InUse, Consistent
  <1>2. P = (A \cup B) \cup C
    BY <1>1 DEF Coherent, Decisions, None
  <1>3. A \cap B = {} /\ (A \cup B) \cap C = {}
    BY <1>1 DEF Coherent, Decisions, None
  <1>4. IsFiniteSet(A) /\ IsFiniteSet(B) /\ IsFiniteSet(C)
    BY <1>1, Counted
  <1> HIDE DEF A, B, C
  <1>5. IsFiniteSet(A \cup B) /\ Cardinality(A \cup B) = Cardinality(A) + Cardinality(B)
    BY <1>3, <1>4, CountTwo
  <1>6. Cardinality((A \cup B) \cup C) = Cardinality(A \cup B) + Cardinality(C)
    BY <1>3, <1>4, <1>5, CountTwo
  <1> QED
    BY <1>2, <1>5, <1>6 DEF PendingQuotations, ApprovalBadge, A, B, C

LEMMA ProjectsCounted ==
    ASSUME TypeOK, Consistent
    PROVE  ActiveProjects + CompletedProjects =
             Cardinality({d \in InUse : SiteStatus(deals[d]) = "converted"})
  <1> DEFINE A == {d \in InUse : deals[d].project \in {"planning", "in_progress", "on_hold"}}
             B == {d \in InUse : deals[d].project = "completed"}
  <1>1. \A d \in InUse : deals[d] \in Deal /\ Coherent(deals[d]) /\ d \in DOMAIN deals
    BY DealsAsFunction DEF InUse, Consistent
  <1>2. {d \in InUse : SiteStatus(deals[d]) = "converted"} = {d \in InUse : deals[d].project # None}
    BY <1>1, SiteAgrees
  <1>3. {d \in InUse : deals[d].project # None} = A \cup B
    BY <1>1 DEF Deal, None
  <1>4. A \cap B = {} /\ IsFiniteSet(A) /\ IsFiniteSet(B)
    BY <1>1, Counted
  <1> HIDE DEF A, B
  <1>5. Cardinality(A \cup B) = Cardinality(A) + Cardinality(B)
    BY <1>4, CountTwo
  <1> QED
    BY <1>2, <1>3, <1>5 DEF ActiveProjects, CompletedProjects, A, B

LEMMA LatestShown ==
    ASSUME TypeOK
    PROVE  AgentRow.project # None <=> SnapshotProject(FALSE) # 0
  <1> DEFINE S == (Requests(FALSE) \cap Projects) \cup {0}
  <1>1. Requests(FALSE) = DOMAIN deals \cap {Len(deals)}
    BY DEF Requests
  <1>2. SnapshotProject(FALSE) = Max(S)
    BY DEF SnapshotProject
  <1>3. CASE AgentRow.project = None
    <2>1. S = {0}
      <3>1. CASE deals = <<>>
        BY <1>1, <3>1, DealsAsFunction
      <3>2. CASE deals # <<>>
        BY <1>1, <1>3, <3>2 DEF AgentRow, Projects
      <3> QED
        BY <3>1, <3>2
    <2> HIDE DEF S
    <2>2. Max(S) = 0
      BY <2>1, MaxIs
    <2> QED
      BY <1>2, <1>3, <2>2
  <1>4. CASE AgentRow.project # None
    <2>1. deals # <<>> /\ Len(deals) \in DOMAIN deals /\ Len(deals) \in Nat /\ Len(deals) > 0
      BY <1>4, DealsAsFunction DEF AgentRow, NewDeal
    <2>2. S = {Len(deals), 0}
      BY <1>1, <1>4, <2>1 DEF AgentRow, Projects
    <2> HIDE DEF S
    <2>3. Max(S) = Len(deals)
      BY <2>1, <2>2, MaxIs
    <2>4. SnapshotProject(FALSE) = Len(deals)
      BY <1>2, <2>3
    <2>5. Len(deals) # 0
      BY <2>1
    <2> QED
      BY <1>4, <2>4, <2>5, Zenon
  <1> QED
    BY <1>3, <1>4

LEMMA ConsistentScreens ==
    ASSUME Inductive, Consistent
    PROVE  ScreensAgree
  <1>1. TypeOK
    BY DEF Inductive
  <1>2. customer \in Customer /\ EditStatuses \subseteq OperationalStatuses
    BY <1>1, WorkflowAssumption DEF TypeOK, OperationalStatuses
  <1>3. customer.status \in OperationalStatuses \cup Closed \cup Declined
    BY <1>2 DEF Customer, Statuses, OperationalStatuses, Declined, Closed
  <1>4. customer.exists => (Operational <=> customer.status # "deleted")
    BY <1>2 DEF Operational, Consistent
  <1>5. ASSUME customer.exists
        PROVE  /\ Listed("all") # Listed("deleted")
               /\ \A status \in CustomerStatuses : Listed(status) <=> customer.status = status
               /\ Listed("") <=> customer.status \notin Closed \cup Declined
    <2>1. Listed("all") # Listed("deleted")
      BY <1>4, <1>5 DEF Listed, CustomerStatuses, OperationalStatuses, Closed
    <2>2. \A status \in CustomerStatuses : Listed(status) <=> customer.status = status
      BY <1>4, <1>5 DEF Listed, CustomerStatuses, OperationalStatuses, Closed
    <2>3. Listed("") <=> customer.status \notin Closed \cup Declined
      BY <1>3, <1>4, <1>5 DEF Listed, CustomerStatuses, OperationalStatuses, Closed, Declined
    <2> QED
      BY <2>1, <2>2, <2>3
  <1>6. \A d \in DOMAIN deals :
          /\ SiteStatus(deals[d]) = "surveyed" <=> deals[d].request = "pending"
          /\ SiteStatus(deals[d]) # "approved"
    BY <1>1, SiteAgrees, DealsAsFunction DEF Consistent
  <1> QED
    BY <1>1, <1>5, <1>6, PendingAgrees, ProjectsCounted, LatestShown DEF ScreensAgree

----------------------------------------------------------------------------
(* What the workflow promises of requests that do not overtake each other. *)

\* A project stands for an approved quotation, at the price that was approved:
\* only a quotation saved, or a decision taken, on columns that have changed
\* since they were read ever breaks that (generate_quotation, decide_quotation).
THEOREM OnlyStaleReadsUnapproveProjects == Spec /\ FreshCommits => []ProjectsAreApproved
  <1>1. Consistent => ProjectsAreApproved
    BY DEF Consistent, Coherent, ProjectsAreApproved, Decisions, None
  <1> QED
    BY <1>1, AlwaysConsistent, PTL

\* Directory, customer page, agent page, dashboard and notifications agree,
\* though each has a query of its own (list_customers, get_snapshot, get_summary,
\* notification_summary).
THEOREM OnlyStaleReadsSplitScreens == Spec /\ FreshCommits => []ScreensAgree
  <1>1. Inductive /\ Consistent => ScreensAgree
    BY ConsistentScreens
  <1> QED
    BY <1>1, AlwaysConsistent, PTL

\* Unless a completion was forced, the health check finds no completed customer
\* with a balance or a project open (complete_customer, restore_customer).
THEOREM CompletedAlwaysSettled ==
    ASSUME ~MayForce
    PROVE  Spec /\ FreshCommits => []CompletedIsSettled
  <1>1. Settled /\ [Rules]_vars => Settled'
    <2>1. Settled /\ UNCHANGED vars => Settled'
      BY DEF vars, Settled, OpenProject
    <2> QED
      BY <2>1 DEF Rules
  <1>2. Settled => CompletedIsSettled
    BY DEF Settled, CompletedIsSettled, CompletedOpenBalance, CompletedOpenProject, OpenProject
  <1> QED
    BY <1>1, <1>2, AlwaysConsistent, InitConsistent, PTL DEF Spec

\* Work never starts for a deleted customer (reactivate_for_activity).
THEOREM OnlyStaleReadsServeTheDeleted == Spec /\ FreshCommits => NoActivityWhenDeleted
  <1>1. [Rules]_vars => [Dormant]_vars
    BY DEF Rules
  <1>2. NoActivityWhenDeleted <=> [][Dormant]_vars
    BY DEF NoActivityWhenDeleted, Dormant
  <1> QED
    BY <1>1, <1>2, AlwaysConsistent, PTL

\* The lifecycle, the workflow and the edit form together implement
\* CustomerStanding: every step is one of its moves, or leaves it alone.
THEOREM WorkflowImplementsStanding == Spec /\ FreshCommits => StandingKept
  <1> DEFINE standing == IF ~customer.exists THEN "purged"
                         ELSE IF customer.status \in Closed THEN customer.status ELSE "open"
             Allowed == Standing!Move \/ Standing!Purge \/ Standing!RequestQuotation
  <1>1. Init => Standing!Init
    BY DEF Init, Standing!Init, Closed
  <1>2. [Rules]_vars => [Allowed]_<<standing, Len(deals)>>
    <2>1. standing = StandingOf(customer) /\ standing' = StandingOf(customer')
      BY DEF StandingOf
    <2>2. UNCHANGED vars => UNCHANGED <<standing, Len(deals)>>
      BY DEF vars
    <2> HIDE DEF standing
    <2>3. Permitted => Allowed \/ UNCHANGED <<standing, Len(deals)>>
      BY <2>1 DEF Permitted, Standing!Move, Standing!Purge, Standing!RequestQuotation, standing
    <2> QED
      BY <2>2, <2>3 DEF Rules
  <1>3. Standing!Spec <=> Standing!Init /\ [][Allowed]_<<standing, Len(deals)>>
    BY DEF Standing!Spec
  <1> HIDE DEF Allowed, standing
  <1> QED
    BY <1>1, <1>2, <1>3, AlwaysConsistent, PTL DEF StandingKept, Spec

----------------------------------------------------------------------------
(* Requests that come one at a time read nothing stale. *)

OneAtATime == \A s, u \in Sessions : s = u

NoStaleReads == \A s \in Sessions : Fresh(req[s])

LEMMA NothingGoesStale ==
    ASSUME OneAtATime, Inductive, NoStaleReads, [Next]_vars
    PROVE  NoStaleReads'
  <1>1. \A s \in Sessions : req'[s] = Idle => Fresh(req[s])'
    BY DEF Fresh, Idle
  <1>2. CASE UNCHANGED vars
    BY <1>2 DEF vars, NoStaleReads, Fresh
  <1>3. CASE \E s \in Sessions : req[s] = Idle /\ (Lifecycle \/ Elsewhere)
    <2>1. UNCHANGED req
      BY <1>3 DEF Lifecycle, Complete, Reactivate, Archive, SoftDelete, Restore, Purge, Elsewhere,
         Work, BillPayment
    <2> QED
      BY <1>1, <1>3, <2>1 DEF NoStaleReads, OneAtATime
  <1>4. CASE \E s \in Sessions : Commit(s)
    <2>1. PICK s \in Sessions : Done(s)
      BY <1>4 DEF Commit, PlaceRequest, RaiseBill, SaveEdit, SaveQuotation, Approve, Decline, Refuse
    <2>2. req'[s] = Idle
      BY <2>1 DEF Done, Inductive, TypeOK
    <2> QED
      BY <1>1, <2>2 DEF NoStaleReads, OneAtATime
  <1>5. CASE \E s \in Sessions : Load(s)
    <2>1. PICK s \in Sessions : Load(s)
      BY <1>5
    <2>2. PICK r : Begin(s, r) /\ Fresh(r)
      <3>2. CASE \E op \in {"request", "bill"} : LoadForActivity(s, op)
        <4>1. PICK op \in {"request", "bill"} : LoadForActivity(s, op)
          BY <3>2
        <4> DEFINE r == [op |-> op, status |-> customer.status,
                         completed |-> customer.completed, archived |-> customer.archived]
        <4>2. Begin(s, r) /\ Fresh(r)
          BY <4>1 DEF LoadForActivity, Fresh
        <4> QED
          BY <4>2
      <3>3. CASE \E to \in EditStatuses : LoadForEdit(s, to)
        <4>1. PICK to \in EditStatuses : LoadForEdit(s, to)
          BY <3>3
        <4> DEFINE r == [op |-> "edit", status |-> customer.status, to |-> to]
        <4>2. Begin(s, r) /\ Fresh(r)
          BY <4>1 DEF LoadForEdit, Fresh
        <4> QED
          BY <4>2
      <3>4. CASE \E d \in DOMAIN deals, to \in Totals : LoadForQuotation(s, d, to)
        <4>1. PICK d \in DOMAIN deals, to \in Totals : LoadForQuotation(s, d, to)
          BY <3>4
        <4> DEFINE r == [op |-> "quote", deal |-> d, request |-> deals[d].request,
                         quotation |-> deals[d].quotation, total |-> deals[d].total, to |-> to]
        <4>2. Begin(s, r) /\ Fresh(r)
          BY <4>1 DEF LoadForQuotation, Fresh
        <4> QED
          BY <4>2
      <3>5. CASE \E d \in DOMAIN deals, to \in Decisions : LoadForDecision(s, d, to)
        <4>1. PICK d \in DOMAIN deals, to \in Decisions : LoadForDecision(s, d, to)
          BY <3>5
        <4> DEFINE r == [op |-> "decide", deal |-> d, request |-> deals[d].request,
                         total |-> deals[d].total, status |-> customer.status,
                         owes |-> customer.owes, to |-> to]
        <4>2. Begin(s, r) /\ Fresh(r)
          BY <4>1 DEF LoadForDecision, Fresh
        <4> QED
          BY <4>2
      <3> QED
        BY <2>1, <3>2, <3>3, <3>4, <3>5 DEF Load
    <2>3. req'[s] = r /\ UNCHANGED <<customer, deals>>
      BY <2>2 DEF Begin, Inductive, TypeOK
    <2> QED
      BY <2>2, <2>3 DEF NoStaleReads, OneAtATime, Fresh
  <1> QED
    BY <1>2, <1>3, <1>4, <1>5 DEF Next

\* With one request at a time nothing that is written was read too long ago:
\* all of the above then holds without that assumption.
THEOREM OneAtATimeIsFresh ==
    ASSUME OneAtATime
    PROVE  Spec => FreshCommits
  <1>1. Init => NoStaleReads
    BY IdleAdmitted DEF Init, NoStaleReads, Fresh, Idle
  <1>2. Inductive /\ NoStaleReads /\ [Next]_vars => NoStaleReads'
    BY NothingGoesStale
  <1>3. NoStaleReads => [\A s \in Sessions : Writes(s) => Fresh(req[s])]_vars
    BY DEF NoStaleReads
  <1> QED
    BY <1>1, <1>2, <1>3, AlwaysInductive, PTL DEF Spec, FreshCommits
==============================================================================
