-------------------------- MODULE AgentLedgerProofs --------------------------
(* Theorems about AgentLedger, for every set of agents, projects, customers, *)
(* entries and concurrent requests.                                         *)
EXTENDS AgentLedger, FiniteSetTheorems, FunctionTheorems, WellFoundedInduction, TLAPS

\* A request was let in while its transaction was pending.
LetInPending ==
    \A s \in Sessions : req[s].op \in {"update", "delete", "decide"} => req[s].judged = "pending"

\* The row of an edit stands for the one correction.
OneRowOneCorrection == \A c \in Customers : corrected[c] = IF c \in edits THEN 1 ELSE 0

Inductive == TypeOK /\ LetInPending /\ OneRowOneCorrection

----------------------------------------------------------------------------
(* What the types say. *)

LEMMA EntryColumns ==
    ASSUME NEW e \in Entry
    PROVE  /\ e.agent \in Agents /\ e.date \in Values("date") /\ e.kind \in Values("kind")
           /\ e.debit \in Values("debit") /\ e.credit \in Values("credit")
           /\ e.project \in Values("project")
           /\ DOMAIN e = {"agent", "date", "kind", "debit", "credit", "project"}
  BY DEF Entry

LEMMA RowType == ASSUME NEW a \in Agents, NEW e \in Entries PROVE Row(a, e) \in Entry
  BY DEF Row, Entry, Values

LEMMA ExistsType ==
    ASSUME TypeOK, NEW t \in TxIds
    PROVE  /\ Exists(t) <=> approval[t] # None
           /\ Exists(t) => entry[t] \in Entry
           /\ ~Finalized(t) /\ Exists(t) => approval[t] = "pending"
           /\ Finalized(t) => Exists(t)
  BY DEF TypeOK, Exists, Finalized, Approvals, None

LEMMA RequestColumns ==
    ASSUME TypeOK, NEW s \in Sessions
    PROVE  /\ req[s].op = "update" =>
                 req[s].tx \in TxIds /\ req[s].seen \in Entry /\ req[s].to \in Entries
           /\ req[s].op = "delete" => req[s].tx \in TxIds
           /\ req[s].op = "decide" => req[s].tx \in TxIds /\ req[s].to \in {"approved", "rejected"}
           /\ req[s].op = "correct" => req[s].customer \in Customers
  BY DEF TypeOK, Request, Idle

\* A merge of the columns an update has changed is a row again.
LEMMA MergeType ==
    ASSUME NEW e \in Entry, NEW to \in Entries, NEW changed \in SUBSET Columns
    PROVE  [c \in DOMAIN e |-> IF c \in changed THEN to[c] ELSE e[c]] \in Entry
  <1> DEFINE n == [c \in DOMAIN e |-> IF c \in changed THEN to[c] ELSE e[c]]
  <1>1. DOMAIN n = {"agent", "date", "kind", "debit", "credit", "project"}
    BY EntryColumns
  <1>2. /\ to.date \in Values("date") /\ to.kind \in Values("kind")
        /\ to.debit \in Values("debit") /\ to.credit \in Values("credit")
        /\ to.project \in Values("project")
    BY DEF Values
  <1>3. /\ n.agent = e.agent /\ n.date \in {to.date, e.date} /\ n.kind \in {to.kind, e.kind}
        /\ n.debit \in {to.debit, e.debit} /\ n.credit \in {to.credit, e.credit}
        /\ n.project \in {to.project, e.project}
    BY <1>1, EntryColumns DEF Columns
  <1>4. n = [agent |-> n.agent, date |-> n.date, kind |-> n.kind, debit |-> n.debit,
             credit |-> n.credit, project |-> n.project]
    BY <1>1
  <1>5. /\ n.agent \in Agents /\ n.date \in Values("date") /\ n.kind \in Values("kind")
        /\ n.debit \in Values("debit") /\ n.credit \in Values("credit")
        /\ n.project \in Values("project")
    BY <1>2, <1>3, EntryColumns
  <1> HIDE DEF n
  <1>6. n \in Entry
    BY <1>4, <1>5 DEF Entry
  <1> QED
    BY <1>6 DEF n

LEMMA InitInductive == Init => Inductive
  <1> SUFFICES ASSUME Init PROVE Inductive
    OBVIOUS
  <1>1. PICK legacy \in SUBSET {1}, a \in Agents, e \in Entries :
              /\ entry = [t \in TxIds |-> IF t \in legacy THEN Row(a, e) ELSE Missing]
              /\ approval = [t \in TxIds |-> IF t \in legacy THEN "legacy" ELSE None]
    BY DEF Init
  <1>2. Row(a, e) \in Entry
    BY RowType
  <1>3. Row(a, e).agent \in Agents
    BY <1>2, EntryColumns
  <1>4. TypeOK
    BY <1>1, <1>2, <1>3 DEF Init, TypeOK, Approvals, Missing, Gone, None, Entry
  <1>5. LetInPending /\ OneRowOneCorrection
    BY DEF Init, LetInPending, OneRowOneCorrection, Idle
  <1> QED
    BY <1>4, <1>5 DEF Inductive

----------------------------------------------------------------------------
(* Steps. *)

LEMMA InsertStep ==
    ASSUME Inductive, NEW a \in Agents, NEW e \in Entries,
           NEW status \in {"pending", "approved"}, Insert(a, e, status)
    PROVE  Inductive'
  <1>1. NewTx \in TxIds
    BY DEF Insert, NewTx
  <1> HIDE DEF NewTx
  <1>2. Row(a, e) \in Entry /\ Row(a, e) \notin {Missing, Gone}
    BY RowType DEF Entry, Missing, Gone
  <1>3. TypeOK'
    BY <1>1, <1>2 DEF Insert, Inductive, TypeOK, Approvals, books, None
  <1>4. LetInPending' /\ OneRowOneCorrection'
    BY DEF Insert, Inductive, LetInPending, OneRowOneCorrection, books
  <1> QED
    BY <1>3, <1>4 DEF Inductive

LEMMA BeginStep ==
    ASSUME Inductive, NEW s \in Sessions, NEW r \in Request, Begin(s, r),
           r.op \in {"update", "delete", "decide"} => r.judged = "pending"
    PROVE  Inductive'
  <1>1. TypeOK'
    BY DEF Begin, Inductive, TypeOK, ledger, books
  <1>2. LetInPending'
    BY DEF Begin, Inductive, TypeOK, LetInPending
  <1>3. OneRowOneCorrection'
    BY DEF Begin, Inductive, OneRowOneCorrection, books
  <1> QED
    BY <1>1, <1>2, <1>3 DEF Inductive

\* What ending a request means for the others.
LEMMA EndStep ==
    ASSUME Inductive, NEW s \in Sessions, End(s)
    PROVE  req' \in [Sessions -> Request \cup {Idle}] /\ LetInPending'
  BY DEF End, Inductive, TypeOK, LetInPending, Idle

LEMMA StartStep ==
    ASSUME Inductive, NEW s \in Sessions,
           StartUpdate(s) \/ StartDelete(s) \/ StartDecide(s) \/ StartCorrect(s)
    PROVE  Inductive'
  <1>1. CASE StartUpdate(s)
    <2>1. PICK t \in TxIds, e \in Entries :
             /\ Visible(t) /\ ~Finalized(t)
             /\ Begin(s, [op |-> "update", tx |-> t, judged |-> approval[t],
                          seen |-> entry[t], to |-> e])
      BY <1>1 DEF StartUpdate
    <2>2. approval[t] = "pending" /\ entry[t] \in Entry
      BY <2>1, ExistsType DEF Visible, Inductive
    <2>3. [op |-> "update", tx |-> t, judged |-> approval[t], seen |-> entry[t],
           to |-> e] \in Request
      BY <2>2 DEF Request, Approvals
    <2> QED
      BY <2>1, <2>2, <2>3, BeginStep
  <1>2. CASE StartDelete(s)
    <2>1. PICK t \in TxIds : /\ approval[t] = "pending"
                             /\ Begin(s, [op |-> "delete", tx |-> t, judged |-> approval[t]])
      BY <1>2 DEF StartDelete
    <2>2. [op |-> "delete", tx |-> t, judged |-> approval[t]] \in Request
      BY <2>1 DEF Request, Approvals
    <2> QED
      BY <2>1, <2>2, BeginStep
  <1>3. CASE StartDecide(s)
    <2>1. PICK t \in TxIds, d \in {"approved", "rejected"} :
             /\ approval[t] = "pending"
             /\ Begin(s, [op |-> "decide", tx |-> t, judged |-> approval[t], to |-> d])
      BY <1>3 DEF StartDecide
    <2>2. [op |-> "decide", tx |-> t, judged |-> approval[t], to |-> d] \in Request
      BY <2>1 DEF Request, Approvals
    <2> QED
      BY <2>1, <2>2, BeginStep
  <1>4. CASE StartCorrect(s)
    <2>1. PICK c \in Customers : Begin(s, [op |-> "correct", customer |-> c])
      BY <1>4 DEF StartCorrect
    <2>2. [op |-> "correct", customer |-> c] \in Request
      BY DEF Request
    <2> QED
      BY <2>1, <2>2, BeginStep
  <1> QED
    BY <1>1, <1>2, <1>3, <1>4

LEMMA CommitUpdateStep ==
    ASSUME Inductive, NEW s \in Sessions, CommitUpdate(s)
    PROVE  Inductive'
  <1> DEFINE r == req[s]
             changed == {c \in Columns : r.to[c] # r.seen[c]}
             merged == [c \in DOMAIN entry[r.tx] |->
                           IF c \in changed THEN r.to[c] ELSE entry[r.tx][c]]
  <1>1. r.op = "update" /\ r.tx \in TxIds /\ r.to \in Entries
    BY RequestColumns DEF CommitUpdate, Inductive
  <1>2. entry' = IF ~Exists(r.tx) THEN entry ELSE [entry EXCEPT ![r.tx] = merged]
    BY DEF CommitUpdate
  <1>3. Exists(r.tx) => merged \in Entry
    <2>1. changed \in SUBSET Columns
      OBVIOUS
    <2> HIDE DEF changed
    <2> QED
      BY <2>1, <1>1, ExistsType, MergeType DEF Inductive
  <1> HIDE DEF merged
  <1>4. Exists(r.tx) => merged \notin {Missing, Gone}
    BY <1>3 DEF Entry, Missing, Gone
  <1>5. TypeOK'
    BY <1>1, <1>2, <1>3, <1>4, EndStep DEF CommitUpdate, Inductive, TypeOK, Exists, books
  <1>6. LetInPending' /\ OneRowOneCorrection'
    BY EndStep DEF CommitUpdate, Inductive, OneRowOneCorrection, books
  <1> QED
    BY <1>5, <1>6 DEF Inductive

LEMMA CommitDeleteStep ==
    ASSUME Inductive, NEW s \in Sessions, CommitDelete(s)
    PROVE  Inductive'
  <1>1. req[s].tx \in TxIds
    BY RequestColumns DEF CommitDelete, Inductive
  <1>2. TypeOK'
    BY <1>1, EndStep DEF CommitDelete, Inductive, TypeOK, Approvals, books
  <1>3. LetInPending' /\ OneRowOneCorrection'
    BY EndStep DEF CommitDelete, Inductive, OneRowOneCorrection, books
  <1> QED
    BY <1>2, <1>3 DEF Inductive

LEMMA CommitDecideStep ==
    ASSUME Inductive, NEW s \in Sessions, CommitDecide(s)
    PROVE  Inductive'
  <1>1. req[s].tx \in TxIds /\ req[s].to \in {"approved", "rejected"}
    BY RequestColumns DEF CommitDecide, Inductive
  <1>2. TypeOK'
    BY <1>1, EndStep DEF CommitDecide, Inductive, TypeOK, Approvals, None, books
  <1>3. LetInPending' /\ OneRowOneCorrection'
    BY EndStep DEF CommitDecide, Inductive, OneRowOneCorrection, books
  <1> QED
    BY <1>2, <1>3 DEF Inductive

LEMMA CommitCorrectStep ==
    ASSUME Inductive, NEW s \in Sessions, CommitCorrect(s)
    PROVE  Inductive'
  <1> DEFINE c == req[s].customer
  <1>1. c \in Customers
    BY RequestColumns DEF CommitCorrect, Inductive
  <1>2. IF c \in edits THEN UNCHANGED books
        ELSE edits' = edits \cup {c} /\ corrected' = [corrected EXCEPT ![c] = @ + 1]
    BY DEF CommitCorrect
  <1>3. TypeOK'
    <2>1. edits' \subseteq Customers /\ corrected' \in [Customers -> Nat]
      BY <1>1, <1>2 DEF Inductive, TypeOK, books
    <2> QED
      BY <2>1, EndStep DEF CommitCorrect, Inductive, TypeOK, ledger
  <1>4. OneRowOneCorrection'
    BY <1>1, <1>2 DEF Inductive, TypeOK, OneRowOneCorrection, books
  <1> QED
    BY <1>3, <1>4, EndStep DEF CommitCorrect, Inductive

LEMMA OtherStep ==
    ASSUME Inductive, HideProject \/ ShowProject \/ UNCHANGED vars
    PROVE  Inductive'
  <1>1. UNCHANGED <<entry, approval, edits, corrected, req>> /\ hidden' \subseteq Projects
    BY DEF HideProject, ShowProject, vars, ledger, books, Inductive, TypeOK
  <1>2. TypeOK'
    BY <1>1 DEF Inductive, TypeOK
  <1>3. LetInPending' /\ OneRowOneCorrection'
    BY <1>1 DEF Inductive, LetInPending, OneRowOneCorrection
  <1> QED
    BY <1>2, <1>3 DEF Inductive

----------------------------------------------------------------------------
(* The theorems. *)

LEMMA AlwaysInductive == Spec => []Inductive
  <1>1. Inductive /\ [Next]_vars => Inductive'
    <2> SUFFICES ASSUME Inductive, [Next]_vars PROVE Inductive'
      OBVIOUS
    <2>1. CASE \E a \in Agents : Submit(a) \/ Post(a)
      BY <2>1, InsertStep DEF Submit, Post
    <2> QED
      BY <2>1, StartStep, CommitUpdateStep, CommitDeleteStep, CommitDecideStep,
         CommitCorrectStep, OtherStep DEF Next
  <1> QED
    BY <1>1, InitInductive, PTL DEF Spec

\* Transactions, their approvals and the requests about them keep their types:
\* a row has an approval exactly while it exists, and what concurrent updates
\* leave of its columns is always a row (agent_service.py).
THEOREM TypeCorrect == Spec => []TypeOK
  <1>1. Inductive => TypeOK
    BY DEF Inductive
  <1> QED
    BY <1>1, AlwaysInductive, PTL

\* An agent corrects a customer once, however many requests pass the check
\* together (update_agent_customer, uq_agent_customer_edit_customer).
THEOREM AlwaysCorrectedOnce == Spec => []CorrectedOnce
  <1>1. Inductive => CorrectedOnce
    BY DEF Inductive, OneRowOneCorrection, CorrectedOnce
  <1> QED
    BY <1>1, AlwaysInductive, PTL

\* A finalized transaction is rewritten, deleted or decided again only by a
\* request that was let in while it was pending (update_agent_transaction,
\* delete_agent_transaction, decide_approval).
THEOREM AlwaysFinalizedUnlessOverlapped == Spec => FinalizedUnlessOverlapped
  <1> DEFINE Kept == \A t \in TxIds : Finalized(t) =>
          /\ ~Exists(t)' => LetIn(t, {"delete"})
          /\ Exists(t)' /\ Amounts(t)' # Amounts(t) => LetIn(t, {"update"})
          /\ Exists(t)' /\ approval'[t] # approval[t] => LetIn(t, {"decide"})
  <1>1. Inductive /\ [Next]_vars => [Kept]_vars
    <2> SUFFICES ASSUME Inductive, Next, NEW t \in TxIds, Finalized(t)
                 PROVE  /\ ~Exists(t)' => LetIn(t, {"delete"})
                        /\ Exists(t)' /\ Amounts(t)' # Amounts(t) => LetIn(t, {"update"})
                        /\ Exists(t)' /\ approval'[t] # approval[t] => LetIn(t, {"decide"})
      OBVIOUS
    <2>1. Exists(t)
      BY ExistsType DEF Inductive
    <2>2. CASE UNCHANGED <<entry[t], approval[t]>>
      BY <2>1, <2>2 DEF Exists, Amounts
    <2>3. CASE \E a \in Agents : Submit(a) \/ Post(a)
      <3>1. NewTx \in TxIds /\ entry[NewTx] = Missing
        BY <2>3 DEF Submit, Post, Insert, NewTx
      <3>2. NewTx # t
        BY <3>1, <2>1 DEF Exists
      <3>3. PICK a \in Agents, e \in Entries, status \in {"pending", "approved"} :
               /\ entry' = [entry EXCEPT ![NewTx] = Row(a, e)]
               /\ approval' = [approval EXCEPT ![NewTx] = status]
        BY <2>3 DEF Submit, Post, Insert
      <3> HIDE DEF NewTx
      <3>4. UNCHANGED <<entry[t], approval[t]>>
        BY <3>2, <3>3 DEF Inductive, TypeOK
      <3> QED
        BY <3>4, <2>2
    <2>4. ASSUME NEW s \in Sessions, CommitUpdate(s)
          PROVE  \/ UNCHANGED <<entry[t], approval[t]>>
                 \/ LetIn(t, {"update"}) /\ Exists(t)' /\ approval'[t] = approval[t]
      <3>1. UNCHANGED approval
        BY <2>4 DEF CommitUpdate
      <3>2. CASE req[s].tx # t
        BY <3>1, <3>2, <2>4 DEF CommitUpdate, Inductive, TypeOK
      <3>3. CASE req[s].tx = t
        <4>1. LetIn(t, {"update"})
          BY <3>3, <2>4 DEF LetIn, CommitUpdate, Inductive, LetInPending
        <4>2. TypeOK' /\ approval'[t] # None
          BY <2>4, <3>1, <2>1, CommitUpdateStep, ExistsType DEF Inductive
        <4>3. Exists(t)'
          BY <4>2 DEF TypeOK, Exists
        <4> QED
          BY <3>1, <4>1, <4>3
      <3> QED
        BY <3>2, <3>3
    <2>5. ASSUME NEW s \in Sessions, CommitDelete(s)
          PROVE  UNCHANGED <<entry[t], approval[t]>> \/ (LetIn(t, {"delete"}) /\ ~Exists(t)')
      <3>1. CASE req[s].tx # t
        BY <3>1, <2>5 DEF CommitDelete, Inductive, TypeOK
      <3>2. CASE req[s].tx = t
        BY <3>2, <2>5 DEF CommitDelete, LetIn, Inductive, LetInPending, TypeOK, Exists
      <3> QED
        BY <3>1, <3>2
    <2>6. ASSUME NEW s \in Sessions, CommitDecide(s)
          PROVE  \/ UNCHANGED <<entry[t], approval[t]>>
                 \/ LetIn(t, {"decide"}) /\ entry'[t] = entry[t]
      <3>1. CASE req[s].tx # t
        BY <3>1, <2>6 DEF CommitDecide, Inductive, TypeOK
      <3>2. CASE req[s].tx = t
        BY <3>2, <2>6 DEF CommitDecide, LetIn, Inductive, LetInPending
      <3> QED
        BY <3>1, <3>2
    <2>7. CASE UNCHANGED <<entry, approval>>
      BY <2>7, <2>2
    <2>8. CASE \E s \in Sessions : CommitUpdate(s)
      BY <2>8, <2>4, <2>2
    <2>9. CASE \E s \in Sessions : CommitDelete(s)
      BY <2>9, <2>5, <2>2
    <2>10. CASE \E s \in Sessions : CommitDecide(s)
      <3>1. PICK s \in Sessions : CommitDecide(s)
        BY <2>10
      <3>2. CASE LetIn(t, {"decide"}) /\ entry'[t] = entry[t]
        BY <3>2, <2>1 DEF Exists, Amounts
      <3> QED
        BY <3>1, <3>2, <2>6, <2>2
    <2>11. CASE \E s \in Sessions : StartUpdate(s) \/ StartDelete(s) \/ StartDecide(s)
                                    \/ StartCorrect(s) \/ CommitCorrect(s)
      BY <2>11, <2>7 DEF StartUpdate, StartDelete, StartDecide, StartCorrect, CommitCorrect,
                         Begin, ledger
    <2>12. CASE HideProject \/ ShowProject
      BY <2>12, <2>7 DEF HideProject, ShowProject, ledger
    <2> QED
      BY <2>3, <2>8, <2>9, <2>10, <2>11, <2>12 DEF Next
  <1> HIDE DEF Kept
  <1>2. FinalizedUnlessOverlapped <=> [][Kept]_vars
    BY DEF FinalizedUnlessOverlapped, Kept
  <1> QED
    BY <1>1, <1>2, AlwaysInductive, PTL DEF Spec

----------------------------------------------------------------------------
(* What is shown. *)

\* After an agent's line t come the later ones; these are before it on his pages.
After(a, t) == {u \in Lines(a) : Earlier(t, u)}
Place(a, t) == Cardinality(After(a, t))
Total(a) == Cardinality(Lines(a))

LEMMA LinesFinite ==
    \A a : Lines(a) \subseteq TxIds /\ IsFiniteSet(Lines(a)) /\ Total(a) \in Nat
  <1> SUFFICES ASSUME NEW a
               PROVE  Lines(a) \subseteq TxIds /\ IsFiniteSet(Lines(a)) /\ Total(a) \in Nat
    OBVIOUS
  <1>1. Lines(a) \subseteq TxIds
    BY DEF Lines
  <1>2. IsFiniteSet(TxIds)
    BY AgentAssumption, FS_Interval DEF TxIds
  <1> QED
    BY <1>1, <1>2, FS_Subset, FS_CardinalityType DEF Total

\* The order of the statement is strict and total.
LEMMA LinesInOrder ==
    ASSUME TypeOK, NEW a
    PROVE  /\ \A t \in Lines(a) : ~Earlier(t, t)
           /\ \A t, u \in Lines(a) : t # u => Earlier(t, u) \/ Earlier(u, t)
           /\ \A t, u, v \in Lines(a) : Earlier(t, u) /\ Earlier(u, v) => Earlier(t, v)
  <1>1. ASSUME NEW t \in Lines(a)
        PROVE  t \in Nat /\ entry[t].date \in Nat
    <2>1. t \in TxIds /\ Exists(t)
      BY DEF Lines, Visible
    <2>2. entry[t].date \in Values("date")
      BY <2>1, ExistsType, EntryColumns
    <2>3. Values("date") \subseteq Nat
      BY AgentAssumption DEF Values
    <2> QED
      BY <2>1, <2>2, <2>3, AgentAssumption DEF TxIds
  <1>2. \A t \in Lines(a) : ~Earlier(t, t)
    BY <1>1 DEF Earlier
  <1>3. \A t, u \in Lines(a) : t # u => Earlier(t, u) \/ Earlier(u, t)
    BY <1>1 DEF Earlier
  <1>4. \A t, u, v \in Lines(a) : Earlier(t, u) /\ Earlier(u, v) => Earlier(t, v)
    BY <1>1 DEF Earlier
  <1> QED
    BY <1>2, <1>3, <1>4

\* Every place up to the number of lines is the place of one of them.
LEMMA PlacesOfLines ==
    ASSUME TypeOK, NEW a
    PROVE  /\ \A t \in Lines(a) : Place(a, t) \in 0..(Total(a) - 1)
           /\ \A t, u \in Lines(a) : Place(a, t) = Place(a, u) => t = u
           /\ \A i \in 0..(Total(a) - 1) : \E t \in Lines(a) : Place(a, t) = i
  <1>1. IsFiniteSet(Lines(a)) /\ Total(a) \in Nat
    BY LinesFinite
  <1>2. ASSUME NEW t \in Lines(a)
        PROVE  Place(a, t) \in 0..(Total(a) - 1)
    <2>1. After(a, t) \in SUBSET (Lines(a) \ {t})
      BY LinesInOrder DEF After
    <2>2. IsFiniteSet(Lines(a) \ {t}) /\ Cardinality(Lines(a) \ {t}) = Total(a) - 1
      BY <1>1, FS_RemoveElement DEF Total
    <2>3. IsFiniteSet(After(a, t)) /\ Cardinality(After(a, t)) <= Total(a) - 1
      BY <2>1, <2>2, FS_Subset
    <2>4. Cardinality(After(a, t)) \in Nat
      BY <2>3, FS_CardinalityType
    <2> QED
      BY <1>1, <2>3, <2>4 DEF Place
  <1>3. ASSUME NEW t \in Lines(a), NEW u \in Lines(a), Earlier(t, u)
        PROVE  Place(a, u) # Place(a, t)
    <2>1. /\ After(a, u) \in SUBSET After(a, t)
          /\ u \in After(a, t) /\ u \notin After(a, u)
      BY <1>3, LinesInOrder DEF After
    <2>2. IsFiniteSet(After(a, t))
      <3>1. After(a, t) \in SUBSET Lines(a)
        BY DEF After
      <3> QED
        BY <1>1, <3>1, FS_Subset
    <2>3. Cardinality(After(a, t)) = Cardinality(After(a, u)) => After(a, t) = After(a, u)
      BY <2>1, <2>2, FS_Subset
    <2> QED
      BY <2>1, <2>3 DEF Place
  <1>4. \A t, u \in Lines(a) : Place(a, t) = Place(a, u) => t = u
    BY <1>3, LinesInOrder
  <1>5. \A i \in 0..(Total(a) - 1) : \E t \in Lines(a) : Place(a, t) = i
    <2> DEFINE places == 0..(Total(a) - 1)
               f == [t \in Lines(a) |-> Place(a, t)]
    <2>1. f \in Injection(Lines(a), places)
      <3>1. f \in [Lines(a) -> places]
        BY <1>2
      <3>2. \A t, u \in Lines(a) : f[t] = f[u] => t = u
        BY <1>4
      <3> HIDE DEF f, places
      <3> QED
        BY <3>1, <3>2, Fun_IsInj
    <2>2. IsFiniteSet(places) /\ Cardinality(places) = Total(a)
      <3>1. 0 \in Int /\ Total(a) - 1 \in Int
        BY <1>1
      <3>2. /\ IsFiniteSet(places)
            /\ Cardinality(places) = IF 0 > Total(a) - 1 THEN 0 ELSE (Total(a) - 1) - 0 + 1
        BY <3>1, FS_Interval
      <3> QED
        BY <1>1, <3>2
    <2>3. f \in Surjection(Lines(a), places)
      <3> HIDE DEF f, places
      <3> QED
        BY <2>1, <2>2, FS_Injection DEF Total
    <2>4. \A i \in places : \E t \in Lines(a) : f[t] = i
      <3> HIDE DEF f, places
      <3> QED
        BY <2>3, Fun_SurjectionProperties
    <2> QED
      BY <2>4
  <1> QED
    BY <1>2, <1>4, <1>5

\* What the statement says of a line.
LineOf(a, t) == [tx |-> t, status |-> approval[t], place |-> Place(a, t),
                 balance |-> MapThenSumSet(PostedDelta,
                                           {u \in Lines(a) : u = t \/ Earlier(u, t)})]

LEMMA StatementLines ==
    ASSUME NEW a
    PROVE  /\ Statement(a) = {LineOf(a, t) : t \in Lines(a)}
           /\ \A t : /\ LineOf(a, t).tx = t /\ LineOf(a, t).status = approval[t]
                     /\ LineOf(a, t).place = Place(a, t)
  BY DEF Statement, LineOf, Place, After

\* The latest line shows the sum of all.
LEMMA LatestLine ==
    ASSUME TypeOK, NEW a, Lines(a) # {}
    PROVE  \E line \in Page(a, 1) : line.place = 0 /\ line.balance = OverviewBalance(a)
  <1>1. IsFiniteSet(Lines(a)) /\ Total(a) \in Nat /\ Total(a) # 0
    BY LinesFinite, FS_EmptySet DEF Total
  <1>2. PICK t \in Lines(a) : Place(a, t) = 0
    <2>1. 0 \in 0..(Total(a) - 1)
      BY <1>1
    <2> QED
      BY <2>1, PlacesOfLines
  <1>3. After(a, t) = {}
    <2>1. IsFiniteSet(After(a, t))
      <3>1. After(a, t) \in SUBSET Lines(a)
        BY DEF After
      <3> QED
        BY <1>1, <3>1, FS_Subset
    <2> QED
      BY <1>2, <2>1, FS_EmptySet DEF Place
  <1>4. {u \in Lines(a) : u = t \/ Earlier(u, t)} = Lines(a)
    BY <1>3, LinesInOrder DEF After
  <1>5. LineOf(a, t).balance = OverviewBalance(a)
    BY <1>4 DEF LineOf, OverviewBalance
  <1>6. LineOf(a, t) \in Statement(a) /\ LineOf(a, t).place = 0
    BY <1>2, StatementLines
  <1>7. (1 - 1) * PageSize <= 0 /\ 0 < 1 * PageSize
    BY AgentAssumption
  <1> QED
    BY <1>5, <1>6, <1>7 DEF Page

LEMMA LeastNumber ==
    ASSUME NEW T, T \subseteq Nat, T # {}
    PROVE  \E n \in T : \A m \in T : n <= m
  <1>1. IsWellFoundedOn(OpToRel(<, Nat), Nat)
    BY NatLessThanWellFounded
  <1>2. PICK R : R = OpToRel(<, Nat)
    OBVIOUS
  <1>3. PICK n \in T : \A m \in T : <<m, n>> \notin R
    BY <1>1, <1>2, WFMin
  <1>4. \A m \in Nat : m < n => <<m, n>> \in R
    BY <1>2 DEF OpToRel
  <1>5. ASSUME NEW m \in T
        PROVE  n <= m
    <2>1. m \in Nat /\ n \in Nat /\ ~(m < n)
      BY <1>3, <1>4
    <2> QED
      BY <2>1
  <1> QED
    BY <1>5

\* Every place is on one of the pages.
LEMMA PageOfPlace ==
    ASSUME NEW a, NEW i \in 0..(Total(a) - 1)
    PROVE  \E n \in Pages(a) : (n - 1) * PageSize <= i /\ i < n * PageSize
  <1>1. Total(a) \in Nat /\ PageSize \in Nat \ {0} /\ i \in Nat /\ i < Total(a)
    BY LinesFinite, AgentAssumption
  <1> DEFINE S == {m \in Nat : i < m * PageSize}
  <1>2. i + 1 \in S
    <2>1. i + 1 <= (i + 1) * PageSize
      BY <1>1
    <2> QED
      BY <1>1, <2>1
  <1>3. PICK n \in S : \A m \in S : n <= m
    <2> HIDE DEF S
    <2>1. S \subseteq Nat
      BY DEF S
    <2> QED
      BY <1>2, <2>1, LeastNumber
  <1>4. n \in Nat /\ i < n * PageSize /\ n <= i + 1
    BY <1>2, <1>3
  <1>5. n # 0
    BY <1>1, <1>4
  <1>6. n - 1 \in Nat /\ n - 1 \notin S
    BY <1>3, <1>4, <1>5
  <1>7. (n - 1) * PageSize <= i
    <2>1. (n - 1) * PageSize \in Int
      BY <1>1, <1>6
    <2> QED
      BY <1>1, <1>6, <2>1
  <1>8. n \in 1..Total(a) /\ (n - 1) * PageSize < Total(a)
    <2>1. (n - 1) * PageSize \in Int
      BY <1>1, <1>6
    <2> QED
      BY <1>1, <1>4, <1>5, <1>7, <2>1
  <1> QED
    BY <1>4, <1>7, <1>8 DEF Pages, Total

LEMMA PagesHoldStatement ==
    ASSUME TypeOK, NEW a
    PROVE  UNION {Page(a, n) : n \in Pages(a)} = Statement(a)
  <1>1. ASSUME NEW line \in Statement(a)
        PROVE  \E n \in Pages(a) : line \in Page(a, n)
    <2>1. PICK t \in Lines(a) : line = LineOf(a, t)
      BY StatementLines
    <2>2. line.place \in 0..(Total(a) - 1)
      BY <2>1, StatementLines, PlacesOfLines
    <2> QED
      BY <2>2, PageOfPlace DEF Page
  <1>2. \A n : Page(a, n) \subseteq Statement(a)
    BY DEF Page
  <1> QED
    BY <1>1, <1>2

LEMMA LinesOfPage ==
    ASSUME TypeOK, NEW a, NEW n \in Pages(a)
    PROVE  Cardinality(Page(a, n)) = IF n + 1 \in Pages(a) THEN PageSize
                                     ELSE Cardinality(Lines(a)) - (n - 1) * PageSize
  <1> DEFINE first == (n - 1) * PageSize
             end == IF n + 1 \in Pages(a) THEN n * PageSize ELSE Total(a)
             places == first..(end - 1)
             f == [line \in Page(a, n) |-> line.place]
  <1>1. /\ Total(a) \in Nat /\ PageSize \in Nat \ {0} /\ n \in Nat \ {0}
        /\ first < Total(a) /\ n <= Total(a)
    BY LinesFinite, AgentAssumption DEF Pages, Total
  <1>2. first \in Nat /\ n * PageSize = first + PageSize
    BY <1>1
  <1>3. n + 1 \in Pages(a) <=> n * PageSize < Total(a)
    <2>1. n + 1 \in Pages(a) <=> n + 1 <= Total(a) /\ n * PageSize < Total(a)
      BY <1>1 DEF Pages, Total
    <2>2. n <= n * PageSize
      BY <1>1
    <2>3. n * PageSize \in Int
      BY <1>1
    <2> QED
      BY <1>1, <2>1, <2>2, <2>3
  <1>4. first < end /\ end \in Nat /\ end <= Total(a) /\ end <= n * PageSize
        /\ (end = Total(a) \/ end = n * PageSize)
    BY <1>1, <1>2, <1>3
  <1>5. ASSUME NEW line \in Page(a, n)
        PROVE  line.place \in places
    <2>1. PICK t \in Lines(a) : line = LineOf(a, t)
      BY StatementLines DEF Page
    <2>2. line.place \in 0..(Total(a) - 1)
      BY <2>1, StatementLines, PlacesOfLines
    <2>3. first <= line.place /\ line.place < n * PageSize
      BY DEF Page
    <2> HIDE DEF first, end
    <2> QED
      BY <1>1, <1>2, <1>4, <2>2, <2>3
  <1>6. ASSUME NEW line \in Page(a, n), NEW other \in Page(a, n), line.place = other.place
        PROVE  line = other
    <2>1. PICK t \in Lines(a), u \in Lines(a) : line = LineOf(a, t) /\ other = LineOf(a, u)
      BY StatementLines DEF Page
    <2>2. t = u
      BY <1>6, <2>1, StatementLines, PlacesOfLines
    <2> QED
      BY <2>1, <2>2
  <1>7. ASSUME NEW i \in places
        PROVE  \E line \in Page(a, n) : line.place = i
    <2>1. i \in 0..(Total(a) - 1) /\ first <= i /\ i < n * PageSize
      <3> HIDE DEF first, end
      <3> QED
        BY <1>1, <1>2, <1>4
    <2>2. PICK t \in Lines(a) : Place(a, t) = i
      BY <2>1, PlacesOfLines
    <2>3. LineOf(a, t) \in Statement(a) /\ LineOf(a, t).place = i
      BY <2>2, StatementLines
    <2> QED
      BY <2>1, <2>3 DEF Page
  <1>8. IsFiniteSet(places) /\ Cardinality(places) = end - first
    <2> HIDE DEF first, end
    <2>1. first \in Int /\ end - 1 \in Int /\ ~(first > end - 1)
      BY <1>2, <1>4
    <2>2. IsFiniteSet(places) /\ Cardinality(places) = (end - 1) - first + 1
      BY <2>1, FS_Interval
    <2> QED
      BY <1>2, <1>4, <2>2
  <1>9. Cardinality(Page(a, n)) = end - first
    <2> HIDE DEF places
    <2>1. f \in [Page(a, n) -> places]
      BY <1>5
    <2>2. \A line, other \in Page(a, n) : f[line] = f[other] => line = other
      BY <1>6
    <2>3. \A i \in places : \E line \in Page(a, n) : f[line] = i
      BY <1>7
    <2> HIDE DEF f
    <2>4. f \in Injection(Page(a, n), places) /\ f \in Surjection(Page(a, n), places)
      BY <2>1, <2>2, <2>3, Fun_IsInj, Fun_IsSurj
    <2>5. Cardinality(Page(a, n)) = Cardinality(places)
      BY <1>8, <2>4, FS_Injection
    <2> QED
      BY <1>8, <2>5
  <1> QED
    BY <1>1, <1>2, <1>9 DEF Total

\* The list of agents, an agent's overview and his statement show one balance,
\* the pages of the statement hold every line once, and what waits for a decision
\* is what is shown as pending (agent_service.py, get_approval_center).
THEOREM StatementsAlwaysAgree == Spec => []StatementsAgree
  <1>1. ASSUME TypeOK
        PROVE  StatementsAgree
    <2>1. ASSUME NEW a \in Agents
          PROVE  ListedBalance[a] = OverviewBalance(a)
      <3>1. {t \in {t \in TxIds : Visible(t)} : entry[t].agent = a} = Lines(a)
        BY DEF Lines
      <3> QED
        BY <3>1 DEF ListedBalance, OverviewBalance
    <2>2. \A t \in TxIds : Visible(t) => entry[t].agent \in Agents
      BY <1>1, ExistsType, EntryColumns DEF Visible
    <2>3. \A t \in TxIds : t \in ApprovalCenter <=>
             \E a \in Agents : \E line \in Statement(a) : line.status = "pending" /\ line.tx = t
      <3>1. ASSUME NEW t \in ApprovalCenter
            PROVE  \E a \in Agents : \E line \in Statement(a) :
                      line.status = "pending" /\ line.tx = t
        <4>1. t \in TxIds /\ Visible(t) /\ approval[t] = "pending"
          BY DEF ApprovalCenter
        <4>2. entry[t].agent \in Agents /\ t \in Lines(entry[t].agent)
          BY <2>2, <4>1 DEF Lines
        <4>3. LineOf(entry[t].agent, t) \in Statement(entry[t].agent)
          BY <4>2, StatementLines
        <4> QED
          BY <4>1, <4>2, <4>3, StatementLines
      <3>2. ASSUME NEW a \in Agents, NEW line \in Statement(a), line.status = "pending"
            PROVE  line.tx \in ApprovalCenter
        <4>1. PICK t \in Lines(a) : line = LineOf(a, t)
          BY StatementLines
        <4>2. line.tx = t /\ approval[t] = "pending"
          BY <3>2, <4>1, StatementLines
        <4> QED
          BY <4>2 DEF ApprovalCenter, Lines
      <3> QED
        BY <3>1, <3>2
    <2>4. /\ ApprovalCenter \subseteq TxIds
          /\ \A a \in Agents : \A line \in Statement(a) : line.tx \in TxIds
      BY StatementLines DEF ApprovalCenter, Lines
    <2>5. ApprovalCenter =
             UNION {{line.tx : line \in {l \in Statement(a) : l.status = "pending"}} : a \in Agents}
      BY <2>3, <2>4
    <2>6. ApprovalBadge = Cardinality(ApprovalCenter)
      BY DEF ApprovalBadge, ApprovalCenter
    <2>7. \A a \in Agents :
             /\ Lines(a) # {} =>
                   \E line \in Page(a, 1) : line.place = 0 /\ line.balance = OverviewBalance(a)
             /\ UNION {Page(a, n) : n \in Pages(a)} = Statement(a)
             /\ \A n \in Pages(a) :
                   Cardinality(Page(a, n)) = IF n + 1 \in Pages(a) THEN PageSize
                                             ELSE Cardinality(Lines(a)) - (n - 1) * PageSize
      BY <1>1, LatestLine, PagesHoldStatement, LinesOfPage
    <2> QED
      BY <2>1, <2>5, <2>6, <2>7 DEF StatementsAgree
  <1>2. TypeOK => StatementsAgree
    BY <1>1
  <1> QED
    BY <1>2, TypeCorrect, PTL
=============================================================================
