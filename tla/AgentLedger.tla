------------------------------ MODULE AgentLedger ------------------------------
(***************************************************************************)
(* The ledger of the sales agents (agent_service.py) and the decisions on  *)
(* its rows (workflow_service.py).  An agent submits transactions that     *)
(* wait for approval; what a manager enters is approved at once.  Nothing  *)
(* is locked: a request that changes a row reads it with its approval,     *)
(* judges what it has read, and commits later the columns it assigns a     *)
(* new value to.  An agent may also correct the details of a customer of   *)
(* his own, once.                                                          *)
(***************************************************************************)
EXTENDS Integers, FiniteSets, FiniteSetsExt

CONSTANTS Agents,      \* profiles of agents
          Projects,    \* projects a transaction may refer to
          Owner,       \* the agent each project's customer is assigned to
          Entries,     \* what the form may send: date, kind, debit, credit, project
          Customers,   \* customers an agent may correct
          Sessions,    \* concurrent requests
          MaxTx,       \* bound: transactions
          PageSize     \* lines of a page of the statement

None == "none"
Columns == {"date", "kind", "debit", "credit", "project"}

ASSUME AgentAssumption ==
    /\ Owner \in [Projects -> Agents]
    /\ Entries \subseteq [date: Nat, kind: {"commission", "other"},
                          debit: Nat, credit: Nat, project: Projects \cup {None}]
    \* CreateAgentTransactionRequest: either a debit or a credit.
    /\ \A e \in Entries : (e.debit > 0) # (e.credit > 0)
    /\ MaxTx \in Nat /\ PageSize \in Nat \ {0}

VARIABLES entry,      \* agent_transactions: the columns, by identifier
          approval,   \* transaction_approvals of the same transactions
          hidden,     \* projects whose customer is deleted
          edits,      \* agent_customer_edits: customers with such a row
          corrected,  \* history: how often an agent has corrected his customer
          req         \* what every session is doing

vars == <<entry, approval, hidden, edits, corrected, req>>
ledger == <<entry, approval>>
books == <<edits, corrected>>

TxIds == 1..MaxTx
Values(column) == {e[column] : e \in Entries}
Entry == [agent: Agents, date: Values("date"), kind: Values("kind"), debit: Values("debit"),
          credit: Values("credit"), project: Values("project")]
\* A free identifier, and one whose row was deleted: it is not used again.
Missing == [agent |-> None]
Gone == [agent |-> "gone"]
\* legacy: a transaction older than the approvals, which counts as approved.
Approvals == {None, "legacy", "pending", "approved", "rejected"}

Idle == [op |-> "idle"]
Request == [op: {"update"}, tx: TxIds, judged: Approvals, seen: Entry, to: Entries]
           \cup [op: {"delete"}, tx: TxIds, judged: Approvals]
           \cup [op: {"decide"}, tx: TxIds, judged: Approvals, to: {"approved", "rejected"}]
           \cup [op: {"correct"}, customer: Customers]

TypeOK ==
    /\ entry \in [TxIds -> Entry \cup {Missing, Gone}]
    /\ approval \in [TxIds -> Approvals]
    /\ \A t \in TxIds : approval[t] = None <=> entry[t] \in {Missing, Gone}
    /\ hidden \subseteq Projects
    /\ edits \subseteq Customers /\ corrected \in [Customers -> Nat]
    /\ req \in [Sessions -> Request \cup {Idle}]

Row(a, e) == [agent |-> a, date |-> e.date, kind |-> e.kind, debit |-> e.debit,
              credit |-> e.credit, project |-> e.project]

\* The ledger may hold transactions from before there were approvals.
Init == /\ \E legacy \in SUBSET {1}, a \in Agents, e \in Entries :
              /\ entry = [t \in TxIds |-> IF t \in legacy THEN Row(a, e) ELSE Missing]
              /\ approval = [t \in TxIds |-> IF t \in legacy THEN "legacy" ELSE None]
        /\ hidden = {}
        /\ edits = {} /\ corrected = [c \in Customers |-> 0]
        /\ req = [s \in Sessions |-> Idle]

----------------------------------------------------------------------------
(* Requests. *)

Exists(t) == entry[t] \notin {Missing, Gone}
Visible(t) == Exists(t) /\ entry[t].project \notin hidden
Finalized(t) == approval[t] \in {"legacy", "approved", "rejected"}

\* get_project for an agent: a visible project of a customer assigned to him.
MayUse(a, p) == p # None => p \notin hidden /\ Owner[p] = a
\* and for a manager, who sees every customer.
Usable(p) == p \notin hidden

NewTx == CHOOSE t \in TxIds : entry[t] = Missing
Insert(a, e, status) ==
    /\ \E t \in TxIds : entry[t] = Missing
    /\ entry' = [entry EXCEPT ![NewTx] = Row(a, e)]
    /\ approval' = [approval EXCEPT ![NewTx] = status]
    /\ UNCHANGED <<hidden, books, req>>

\* An agent's own submission waits; a manager's entry is approved at once.
Submit(a) == \E e \in Entries : MayUse(a, e.project) /\ Insert(a, e, "pending")
Post(a) == \E e \in Entries : Usable(e.project) /\ Insert(a, e, "approved")

Begin(s, r) == /\ req[s] = Idle
               /\ req' = [req EXCEPT ![s] = r]
               /\ UNCHANGED <<ledger, hidden, books>>
End(s) == req' = [req EXCEPT ![s] = Idle]

\* Mutant: amounts are accepted for finalized rows too.
StartUpdateAnyway(s) ==
    \E t \in TxIds, e \in Entries, own \in BOOLEAN :
        /\ Visible(t)
        /\ IF own THEN MayUse(entry[t].agent, e.project) ELSE Usable(e.project)
        /\ Begin(s, [op |-> "update", tx |-> t, judged |-> approval[t], seen |-> entry[t],
                     to |-> e])

\* update_agent_transaction up to its commit.  Of a finalized row only the
\* wording may change, which is left out here; own: the agent himself asks.
StartUpdate(s) ==
    \E t \in TxIds, e \in Entries, own \in BOOLEAN :
        /\ Visible(t) /\ ~Finalized(t)
        /\ IF own THEN MayUse(entry[t].agent, e.project) ELSE Usable(e.project)
        /\ Begin(s, [op |-> "update", tx |-> t, judged |-> approval[t], seen |-> entry[t],
                     to |-> e])

\* Only the columns that differ from what was loaded are written.  A row that
\* is gone makes the commit fail.
CommitUpdate(s) ==
    /\ req[s].op = "update"
    /\ LET r == req[s]
           changed == {c \in Columns : r.to[c] # r.seen[c]}
       IN entry' = IF ~Exists(r.tx) THEN entry
                   ELSE [entry EXCEPT ![r.tx] =
                           [c \in DOMAIN @ |-> IF c \in changed THEN r.to[c] ELSE @[c]]]
    /\ End(s) /\ UNCHANGED <<approval, hidden, books>>

StartDelete(s) ==
    \E t \in TxIds : /\ Visible(t) /\ approval[t] = "pending"
                     /\ Begin(s, [op |-> "delete", tx |-> t, judged |-> approval[t]])

\* Both rows go; a row that is already gone is no error of a deletion.
CommitDelete(s) ==
    /\ req[s].op = "delete"
    /\ entry' = [entry EXCEPT ![req[s].tx] = Gone]
    /\ approval' = [approval EXCEPT ![req[s].tx] = None]
    /\ End(s) /\ UNCHANGED <<hidden, books>>

StartDecide(s) ==
    \E t \in TxIds, d \in {"approved", "rejected"} :
        /\ Visible(t) /\ approval[t] = "pending"
        /\ Begin(s, [op |-> "decide", tx |-> t, judged |-> approval[t], to |-> d])

CommitDecide(s) ==
    /\ req[s].op = "decide"
    /\ approval' = IF approval[req[s].tx] = None THEN approval
                   ELSE [approval EXCEPT ![req[s].tx] = req[s].to]
    /\ End(s) /\ UNCHANGED <<entry, hidden, books>>

\* update_agent_customer by the customer's own agent: refused when there is a
\* row of an earlier edit.
StartCorrect(s) ==
    \E c \in Customers : /\ c \notin edits
                         /\ Begin(s, [op |-> "correct", customer |-> c])

\* Mutant: without the unique constraint.
CommitCorrectAnyway(s) ==
    /\ req[s].op = "correct"
    /\ edits' = edits \cup {req[s].customer}
    /\ corrected' = [corrected EXCEPT ![req[s].customer] = @ + 1]
    /\ End(s) /\ UNCHANGED <<ledger, hidden>>

\* uq_agent_customer_edit_customer ends the second of two at its commit.
CommitCorrect(s) ==
    /\ req[s].op = "correct"
    /\ LET c == req[s].customer
       IN IF c \in edits THEN UNCHANGED books
          ELSE /\ edits' = edits \cup {c}
               /\ corrected' = [corrected EXCEPT ![c] = @ + 1]
    /\ End(s) /\ UNCHANGED <<ledger, hidden>>

\* The lifecycle deletes and restores the customer of a project.
HideProject == \E p \in Projects : /\ hidden' = hidden \cup {p} /\ hidden' # hidden
                                   /\ UNCHANGED <<ledger, books, req>>
ShowProject == \E p \in hidden : /\ hidden' = hidden \ {p}
                                 /\ UNCHANGED <<ledger, books, req>>

Next == \/ \E a \in Agents : Submit(a) \/ Post(a)
        \/ \E s \in Sessions :
              \/ StartUpdate(s)  \/ CommitUpdate(s)
              \/ StartDelete(s)  \/ CommitDelete(s)
              \/ StartDecide(s)  \/ CommitDecide(s)
              \/ StartCorrect(s) \/ CommitCorrect(s)
        \/ HideProject \/ ShowProject

Spec == Init /\ [][Next]_vars

----------------------------------------------------------------------------
(* What is shown.  Three queries compute balances, each in its own way. *)

\* The transactions that count: approved, or older than the approvals.
Posted(t) == approval[t] \in {"legacy", "approved"}
Delta(t) == entry[t].credit - entry[t].debit
PostedDelta(t) == IF Posted(t) THEN Delta(t) ELSE 0

\* _transaction_visibility_filters
Lines(a) == {t \in TxIds : Visible(t) /\ entry[t].agent = a}
Earlier(t, u) == \/ entry[t].date < entry[u].date
                 \/ entry[t].date = entry[u].date /\ t < u

\* _transaction_window: every line with the running sum of the posted ones, and
\* the place it has when the latest line comes first.
Statement(a) ==
    {[tx |-> t, status |-> approval[t],
      place |-> Cardinality({u \in Lines(a) : Earlier(t, u)}),
      balance |-> MapThenSumSet(PostedDelta, {u \in Lines(a) : u = t \/ Earlier(u, t)})] :
     t \in Lines(a)}

\* _paged_transaction_summaries: an offset and a limit of the places.
Page(a, n) == {line \in Statement(a) : /\ (n - 1) * PageSize <= line.place
                                       /\ line.place < n * PageSize}
Pages(a) == {n \in 1..Cardinality(Lines(a)) : (n - 1) * PageSize < Cardinality(Lines(a))}

\* _agent_overview_aggregates: one sum over the same lines.
OverviewBalance(a) == MapThenSumSet(PostedDelta, Lines(a))

\* Mutant: the list forgets the projects that are hidden.
ListedBalanceOfAll ==
    LET counted == {t \in TxIds : Exists(t)}
    IN [a \in Agents |-> MapThenSumSet(PostedDelta, {t \in counted : entry[t].agent = a})]

\* list_agents: sums of all agents, grouped.
ListedBalance ==
    LET counted == {t \in TxIds : Visible(t)}
    IN [a \in Agents |-> MapThenSumSet(PostedDelta, {t \in counted : entry[t].agent = a})]

\* get_approval_center: what waits for a decision.
ApprovalCenter == {t \in TxIds : approval[t] = "pending" /\ Visible(t)}

\* notification_summary counts them on its own.
ApprovalBadge == Cardinality({t \in TxIds : approval[t] = "pending" /\ Visible(t)})

----------------------------------------------------------------------------
(* Properties. *)

\* The list of agents, the overview and the latest line of the statement show
\* one balance; the pages hold every line of the statement once, all of them full
\* but the last; and the lines shown as pending are those that can be decided,
\* whatever projects are hidden.
StatementsAgree ==
    /\ \A a \in Agents :
          /\ ListedBalance[a] = OverviewBalance(a)
          /\ Lines(a) # {} =>
                \E line \in Page(a, 1) : line.place = 0 /\ line.balance = OverviewBalance(a)
          /\ UNION {Page(a, n) : n \in Pages(a)} = Statement(a)
          /\ \A n \in Pages(a) :
                Cardinality(Page(a, n)) =
                   IF n + 1 \in Pages(a) THEN PageSize
                   ELSE Cardinality(Lines(a)) - (n - 1) * PageSize
    /\ ApprovalCenter =
          UNION {{line.tx : line \in {l \in Statement(a) : l.status = "pending"}} : a \in Agents}
    /\ ApprovalBadge = Cardinality(ApprovalCenter)

\* An agent corrects the details of a customer once, also when two of his
\* requests pass the check before either commits.
CorrectedOnce == \A c \in Customers : corrected[c] <= 1

Amounts(t) == <<entry[t].date, entry[t].kind, entry[t].debit, entry[t].credit,
                entry[t].project>>
\* A request about the transaction that had judged it while it was pending.
LetIn(t, ops) == \E s \in Sessions : /\ req[s].op \in ops /\ req[s].tx = t
                                     /\ req[s].judged = "pending"

\* "Finalized agent transaction amounts, type, date, and project cannot be
\* rewritten" (update_agent_transaction), nor can the transaction be deleted
\* or decided again: what breaks this is only a request that was let in while
\* the row was pending, and that committed after the decision.
FinalizedUnlessOverlapped ==
    [][\A t \in TxIds : Finalized(t) =>
          /\ ~Exists(t)' => LetIn(t, {"delete"})
          /\ Exists(t)' /\ Amounts(t)' # Amounts(t) => LetIn(t, {"update"})
          /\ Exists(t)' /\ approval'[t] # approval[t] => LetIn(t, {"decide"})]_vars
===============================================================================
