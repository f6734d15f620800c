------------------------ MODULE FinanceLedgerProofs ------------------------
(* Theorems about FinanceLedger and FinanceReports, for every set of         *)
(* accounts, bills, loans and sessions, every amount and every number of     *)
(* ledger rows.                                                              *)
EXTENDS FinanceReports, FiniteSetTheorems, WellFoundedInduction, TLAPS

TxTable == [TxIds -> TxRow \cup {Missing}]

LEMMA ExistingRow ==
    ASSUME TypeOK, NEW t \in TxIds, Exists(t)
    PROVE  tx[t] \in TxRow
  BY DEF TypeOK, Exists, Missing

LEMMA ExistingBill ==
    ASSUME TypeOK, NEW b \in Bills, bill[b] # Missing
    PROVE  bill[b] \in BillRow
  BY DEF TypeOK

LEMMA ExistingLoan ==
    ASSUME TypeOK, NEW l \in Loans, loan[l] # Missing
    PROVE  loan[l] \in LoanRow
  BY DEF TypeOK

\* A new row takes a free identifier and leaves every other row alone.
LEMMA InsertedRow ==
    ASSUME TypeOK, NEW t \in TxIds, NEW row \in TxRow, Insert(t, row)
    PROVE  /\ tx' \in TxTable
           /\ ~Exists(t)
           /\ tx'[t] = row
           /\ \A u \in TxIds : u # t => tx'[u] = tx[u]
  <1>1. ~Exists(t)
    BY DEF Insert, NewIds
  <1>2. tx' = [tx EXCEPT ![t] = row]
    BY DEF Insert
  <1> QED
    BY <1>1, <1>2 DEF TypeOK, TxTable

LEMMA ReversalRow ==
    ASSUME TypeOK, NEW t \in TxIds, Exists(t), NEW g \in TxIds \cup {NoTx}
    PROVE  /\ Reversal(t, g) \in TxRow
           /\ Reversal(t, g).status = "posted"
           /\ Reversal(t, g).group = g
           /\ Reversal(t, g).reverses = t
           /\ Reversal(t, g).source = tx[t].source
           /\ Reversal(t, g).ref = tx[t].ref
           /\ Reversal(t, g).amount = tx[t].amount
           /\ Reversal(t, g).account = tx[t].account
           /\ Reversal(t, g).direction = Opposite(tx[t].direction)
  BY ExistingRow DEF Reversal, TxRow, Opposite

\* What reversing the rows of S does to every row of the ledger.
LEMMA ReversedRows ==
    ASSUME TypeOK, NEW S \in SUBSET TxIds, \A t \in S : Exists(t),
           NEW f \in Allocations(S)
    PROVE  /\ f \in [S -> TxIds]
           /\ \A t \in S : ~Exists(f[t])
           /\ \A t, u \in S : f[t] = f[u] => t = u
           /\ Reversing(S, f) \in TxTable
           /\ \A u \in S : Reversing(S, f)[u] = [tx[u] EXCEPT !.status = "reversed"]
           /\ \A t \in S : \E g \in TxIds \cup {NoTx} :
                 /\ Reversing(S, f)[f[t]] = Reversal(t, g)
                 /\ g = IF tx[t].group = NoTx THEN NoTx ELSE NewGroup(S, f)
           /\ \A u \in TxIds : (u \notin S /\ \A t \in S : f[t] # u)
                                  => Reversing(S, f)[u] = tx[u]
  <1> DEFINE R == Reversing(S, f)
             G(t) == IF tx[t].group = NoTx THEN NoTx ELSE NewGroup(S, f)
  <1>1. f \in [S -> TxIds] /\ \A t \in S : ~Exists(f[t])
    BY DEF Allocations, NewIds
  <1>2. \A t, u \in S : f[t] = f[u] => t = u
    <2> SUFFICES ASSUME NEW t \in S, NEW u \in S, f[t] = f[u], t # u
                 PROVE  FALSE
      OBVIOUS
    <2>1. t \in Int /\ u \in Int /\ f[t] \in Int /\ f[u] \in Int
      BY <1>1, LedgerAssumption DEF TxIds
    <2>2. t < u => f[t] < f[u]
      BY DEF Allocations
    <2>3. u < t => f[u] < f[t]
      BY DEF Allocations
    <2> QED
      BY <2>1, <2>2, <2>3
  <1>3. ASSUME NEW t \in S
        PROVE  G(t) \in TxIds \cup {NoTx}
    <2>1. f[t] \in {f[i] : i \in S}
      OBVIOUS
    <2>2. NewGroup(S, f) \in {f[i] : i \in S}
      BY <2>1 DEF NewGroup
    <2> QED
      BY <1>1, <2>2
  <1>4. ASSUME NEW t \in S
        PROVE  R[f[t]] = Reversal(t, G(t))
    <2>1. f[t] \in TxIds /\ f[t] \notin S
      BY <1>1
    <2>2. (CHOOSE i \in S : f[i] = f[t]) = t
      BY <1>2
    <2> QED
      BY <2>1, <2>2 DEF Reversing
  <1>5. \A u \in S : R[u] = [tx[u] EXCEPT !.status = "reversed"]
    BY DEF Reversing
  <1>6. \A u \in TxIds : (u \notin S /\ \A t \in S : f[t] # u) => R[u] = tx[u]
    BY DEF Reversing
  <1>7. R \in TxTable
    <2> SUFFICES ASSUME NEW u \in TxIds
                 PROVE  R[u] \in TxRow \cup {Missing}
      BY DEF Reversing, TxTable
    <2>1. CASE u \in S
      <3>1. tx[u] \in TxRow
        BY <2>1, ExistingRow
      <3>2. R[u] = [tx[u] EXCEPT !.status = "reversed"]
        BY <2>1, <1>5
      <3>3. [tx[u] EXCEPT !.status = "reversed"] \in TxRow
        BY <3>1 DEF TxRow
      <3> QED
        BY <3>2, <3>3
    <2>2. CASE \E t \in S : f[t] = u
      BY <2>2, <1>3, <1>4, ReversalRow
    <2>3. CASE u \notin S /\ \A t \in S : f[t] # u
      BY <2>3, <1>6 DEF TypeOK
    <2> QED
      BY <2>1, <2>2, <2>3
  <1> HIDE DEF R
  <1>8. \A t \in S : \E g \in TxIds \cup {NoTx} :
           R[f[t]] = Reversal(t, g) /\ g = G(t)
    BY <1>3, <1>4
  <1> QED
    BY <1>1, <1>2, <1>5, <1>6, <1>7, <1>8 DEF R

----------------------------------------------------------------------------
(* The inductive invariant behind type correctness and the bill columns. *)

Inductive == /\ TypeOK /\ BillColumnsAgree /\ LoanWithinPrincipal
             /\ RequestSound /\ ReferencesResolve

\* No step removes a row or changes what it refers to.
Grows ==
    /\ \A t \in TxIds : Exists(t) =>
          /\ Exists(t)'
          /\ tx'[t].source = tx[t].source /\ tx'[t].ref = tx[t].ref
          /\ tx'[t].group = tx[t].group /\ tx'[t].reverses = tx[t].reverses
    /\ \A b \in Bills : bill[b] # Missing =>
          bill'[b] # Missing /\ bill'[b].total = bill[b].total
    /\ \A l \in Loans : loan[l] # Missing =>
          loan'[l] # Missing /\ loan'[l].principal = loan[l].principal

LEMMA GrowingKeepsReferences ==
    ASSUME TypeOK, ReferencesResolve, Grows,
           \A t \in TxIds : Exists(t)' /\ ~Exists(t) => Resolves(t)'
    PROVE  ReferencesResolve'
  <1> SUFFICES ASSUME NEW t \in TxIds, Exists(t)'
               PROVE  Resolves(t)'
    BY DEF ReferencesResolve
  <1>1. CASE ~Exists(t)
    BY <1>1
  <1>2. CASE Exists(t)
    <2>1. tx[t] \in TxRow /\ Resolves(t)
      BY <1>2, ExistingRow DEF ReferencesResolve
    <2>2. /\ tx'[t].source = tx[t].source /\ tx'[t].ref = tx[t].ref
          /\ tx'[t].group = tx[t].group /\ tx'[t].reverses = tx[t].reverses
      BY <1>2 DEF Grows
    <2>3. tx[t].group # NoTx => tx'[tx[t].group].status # "missing"
      BY <2>1 DEF Grows, Resolves, TxRow, Exists
    <2>4. tx[t].reverses # NoTx => tx'[tx[t].reverses].status # "missing"
      BY <2>1 DEF Grows, Resolves, TxRow, Exists
    <2> QED
      BY <2>1, <2>2, <2>3, <2>4 DEF Grows, Resolves, Exists
  <1> QED
    BY <1>1, <1>2

LEMMA GrowingKeepsSound ==
    ASSUME Grows, NEW r \in Request, Sound(r)
    PROVE  Sound(r)'
  <1>1. CASE r.op \in {"reverse", "delete"}
    BY <1>1 DEF Sound, Request, Exists, Grows
  <1>2. CASE r.op = "reverse_payment"
    <2>1. r.tx \in TxIds
      BY <1>2 DEF Request
    <2> QED
      BY <1>2, <2>1 DEF Sound, PaymentsOf, IsPayment, Exists, Grows
  <1>3. CASE r.op \in {"pay_bill", "void"}
    <2>1. r.bill \in Bills
      BY <1>3 DEF Request
    <2> QED
      BY <1>3, <2>1 DEF Sound, Grows
  <1>4. CASE r.op = "pay_loan"
    <2>1. r.loan \in Loans
      BY <1>4 DEF Request
    <2> QED
      BY <1>4, <2>1 DEF Sound, Grows
  <1>5. CASE r.op \in {"transfer", "update_loan"}
    BY <1>5 DEF Sound
  <1> QED
    BY <1>1, <1>2, <1>3, <1>4, <1>5 DEF Request

\* The requests that are not the one that changed stay sound.
LEMMA GrowingKeepsRequests ==
    ASSUME TypeOK, RequestSound, Grows, NEW s \in Sessions,
           NEW r \in Request \cup {Idle}, req' = [req EXCEPT ![s] = r],
           r = Idle \/ Sound(r)'
    PROVE  RequestSound' /\ req' \in [Sessions -> Request \cup {Idle}]
  <1>1. req' \in [Sessions -> Request \cup {Idle}]
    BY DEF TypeOK
  <1>2. Sound(Idle)'
    BY DEF Sound, Idle
  <1>3. ASSUME NEW u \in Sessions
        PROVE  Sound(req[u])'
    <2>1. CASE u = s
      BY <2>1, <1>2 DEF TypeOK
    <2>2. CASE u # s
      <3>1. req'[u] = req[u]
        BY <2>2 DEF TypeOK
      <3> DEFINE q == req[u]
      <3>2. q \in Request \cup {Idle} /\ Sound(q)
        BY DEF TypeOK, RequestSound
      <3> QED
        BY <3>1, <3>2, <1>2, GrowingKeepsSound
    <2> QED
      BY <2>1, <2>2
  <1> QED
    BY <1>1, <1>3 DEF RequestSound

BillTable == [Bills -> BillRow \cup {Missing}]
LoanTable == [Loans -> LoanRow \cup {Missing}]
LockTable == [Sessions -> SUBSET Lockable]

\* What is left to show of a step once it is known to keep every reference.
LEMMA StepKeepsInductive ==
    ASSUME Inductive, Grows, tx' \in TxTable, bill' \in BillTable,
           loan' \in LoanTable, locks' \in LockTable,
           BillColumnsAgree', LoanWithinPrincipal',
           NEW s \in Sessions, NEW r \in Request \cup {Idle},
           req' = [req EXCEPT ![s] = r], r = Idle \/ Sound(r)',
           \A t \in TxIds : Exists(t)' /\ ~Exists(t) => Resolves(t)'
    PROVE  Inductive'
  <1>1. RequestSound' /\ req' \in [Sessions -> Request \cup {Idle}]
    BY GrowingKeepsRequests DEF Inductive
  <1>2. ReferencesResolve'
    BY GrowingKeepsReferences DEF Inductive
  <1>3. TypeOK'
    BY <1>1 DEF TypeOK, TxTable, BillTable, LoanTable, LockTable
  <1> QED
    BY <1>1, <1>2, <1>3 DEF Inductive

\* Steps that change no table at all.
LEMMA TablesUnchanged ==
    ASSUME Inductive, UNCHANGED <<tx, bill, loan>>
    PROVE  /\ Grows /\ tx' \in TxTable /\ bill' \in BillTable /\ loan' \in LoanTable
           /\ BillColumnsAgree' /\ LoanWithinPrincipal'
           /\ \A t \in TxIds : Exists(t)' => Exists(t)
  BY DEF Inductive, TypeOK, Grows, TxTable, BillTable, LoanTable, BillColumnsAgree,
         LoanWithinPrincipal, Exists

LEMMA BeginStep ==
    ASSUME Inductive, NEW s \in Sessions, NEW op, NEW r \in Request,
           Begin(s, op, r), Sound(r)
    PROVE  Inductive'
  <1>1. /\ req' = [req EXCEPT ![s] = r]
        /\ UNCHANGED <<tx, bill, loan>> /\ UNCHANGED locks
    BY DEF Begin
  <1>2. Sound(r)'
    BY <1>1, TablesUnchanged, GrowingKeepsSound
  <1>3. locks' \in LockTable
    BY <1>1 DEF Inductive, TypeOK, LockTable
  <1> QED
    BY <1>1, <1>2, <1>3, TablesUnchanged, StepKeepsInductive

LEMMA EndedStep ==
    ASSUME Inductive, NEW s \in Sessions, End(s)
    PROVE  /\ req' = [req EXCEPT ![s] = Idle]
           /\ locks' \in LockTable
  BY DEF End, Inductive, TypeOK, LockTable

LEMMA EndWithoutEffect ==
    ASSUME Inductive, NEW s \in Sessions, End(s), UNCHANGED <<tx, bill, loan>>
    PROVE  Inductive'
  BY EndedStep, TablesUnchanged, StepKeepsInductive

----------------------------------------------------------------------------
(* Requests begin. *)

LEMMA StartBillPaymentStep ==
    ASSUME Inductive, NEW s \in Sessions, NEW b \in Bills, NEW a \in Accounts,
           NEW n \in Amounts, StartBillPayment(s, b, a, n)
    PROVE  Inductive'
  <1> DEFINE r == [op |-> "pay_bill", bill |-> b, account |-> a, amount |-> n,
                   seen |-> bill[b]]
  <1>1. bill[b] # Missing /\ bill[b] \in BillRow /\ bill[b].status # "cancelled"
        /\ n <= bill[b].balance
    BY ExistingBill DEF StartBillPayment, Inductive
  <1>2. bill[b].paid + bill[b].balance = bill[b].total
    BY <1>1 DEF Inductive, BillColumnsAgree
  <1>3. n \in Nat
    BY LedgerAssumption
  <1>4. r \in Request
    BY <1>1, <1>3 DEF Request
  <1>5. Sound(r)
    BY <1>1, <1>2 DEF Sound
  <1>6. Begin(s, "pay_bill", r)
    BY DEF StartBillPayment
  <1> QED
    BY <1>4, <1>5, <1>6, BeginStep

LEMMA StartLoanPaymentStep ==
    ASSUME Inductive, NEW s \in Sessions, NEW l \in Loans, NEW a \in Accounts,
           NEW n \in Amounts, StartLoanPayment(s, l, a, n)
    PROVE  Inductive'
  <1> DEFINE r == [op |-> "pay_loan", loan |-> l, account |-> a, amount |-> n,
                   seen |-> loan[l]]
  <1>1. loan[l] # Missing /\ n <= loan[l].outstanding
    BY DEF StartLoanPayment, Missing
  <1>2. loan[l] \in LoanRow /\ loan[l].outstanding <= loan[l].principal
    BY <1>1, ExistingLoan DEF Inductive, LoanWithinPrincipal
  <1>3. n \in Nat
    BY LedgerAssumption
  <1>4. r \in Request
    BY <1>2, <1>3 DEF Request
  <1>5. Sound(r)
    BY <1>1, <1>2 DEF Sound
  <1>6. Begin(s, "pay_loan", r)
    BY DEF StartLoanPayment
  <1> QED
    BY <1>4, <1>5, <1>6, BeginStep

LEMMA StartTransferStep ==
    ASSUME Inductive, NEW s \in Sessions, NEW a \in Accounts, NEW c \in Accounts,
           NEW n \in Amounts, StartTransfer(s, a, c, n)
    PROVE  Inductive'
  <1> DEFINE r == [op |-> "transfer", from |-> a, to |-> c, amount |-> n]
  <1>1. r \in Request
    BY LedgerAssumption DEF Request
  <1>2. Sound(r)
    BY DEF Sound
  <1>3. Begin(s, "transfer", r)
    BY DEF StartTransfer
  <1> QED
    BY <1>1, <1>2, <1>3, BeginStep

LEMMA StartLockingStep ==
    ASSUME Inductive, NEW s \in Sessions, StartLocking(s)
    PROVE  Inductive'
  <1>1. ASSUME NEW op \in {"reverse", "delete"}, NEW t \in TxIds, Exists(t),
               Begin(s, op, [op |-> op, tx |-> t, checked |-> FALSE])
        PROVE  Inductive'
    <2> DEFINE r == [op |-> op, tx |-> t, checked |-> FALSE]
    <2>1. r \in Request /\ Sound(r)
      BY <1>1 DEF Request, Sound
    <2> QED
      BY <1>1, <2>1, BeginStep
  <1>2. ASSUME NEW b \in Bills, NEW t \in TxIds, t \in PaymentsOf(b),
               Begin(s, "reverse_payment", [op |-> "reverse_payment", bill |-> b,
                                            tx |-> t, checked |-> FALSE])
        PROVE  Inductive'
    <2> DEFINE r == [op |-> "reverse_payment", bill |-> b, tx |-> t, checked |-> FALSE]
    <2>1. r \in Request /\ Sound(r)
      BY <1>2 DEF Request, Sound
    <2> QED
      BY <1>2, <2>1, BeginStep
  <1>3. ASSUME NEW b \in Bills, bill[b] # Missing,
               Begin(s, "void", [op |-> "void", bill |-> b, checked |-> FALSE])
        PROVE  Inductive'
    <2> DEFINE r == [op |-> "void", bill |-> b, checked |-> FALSE]
    <2>1. r \in Request /\ Sound(r)
      BY <1>3 DEF Request, Sound
    <2> QED
      BY <1>3, <2>1, BeginStep
  <1>4. ASSUME NEW l \in Loans,
               Begin(s, "update_loan", [op |-> "update_loan", loan |-> l, checked |-> FALSE])
        PROVE  Inductive'
    <2> DEFINE r == [op |-> "update_loan", loan |-> l, checked |-> FALSE]
    <2>1. r \in Request /\ Sound(r)
      BY DEF Request, Sound
    <2> QED
      BY <1>4, <2>1, BeginStep
  <1> QED
    BY <1>1, <1>2, <1>3, <1>4 DEF StartLocking

----------------------------------------------------------------------------
(* Requests lock rows, check them, and are refused. *)

LEMMA LegsAreRows ==
    ASSUME NEW t \in TxIds
    PROVE  Legs(t) \subseteq TxIds
  BY DEF Legs

\* The transaction a row reverses, or the row itself.
LEMMA RootIsRow ==
    ASSUME Inductive, NEW t \in TxIds, Exists(t)
    PROVE  Root(t) \in TxIds /\ Exists(Root(t))
  <1>1. tx[t] \in TxRow /\ Resolves(t)
    BY ExistingRow DEF Inductive, ReferencesResolve
  <1> QED
    BY <1>1 DEF Root, Resolves, TxRow

LEMMA ChainIsRows ==
    ASSUME NEW t \in TxIds
    PROVE  RootIds(t) \subseteq TxIds /\ Chain(t) \subseteq TxIds
  <1>1. RootIds(t) \subseteq TxIds
    BY LegsAreRows DEF RootIds
  <1>2. \A u : ReversalsOf(u) \subseteq TxIds
    BY DEF ReversalsOf
  <1> QED
    BY <1>1, <1>2 DEF Chain

LEMMA TouchedIsRow ==
    ASSUME Inductive, NEW t \in TxIds, Exists(t)
    PROVE  Touched(t) \subseteq Bills \cup Loans
  <1>1. Resolves(t)
    BY DEF Inductive, ReferencesResolve
  <1> QED
    BY <1>1 DEF Touched, Resolves, IsPayment

LEMMA GuardStagesAreRows ==
    ASSUME Inductive, NEW r \in Request, Sound(r), r.op \in Locking
    PROVE  \A i \in DOMAIN GuardStages(r) : GuardStages(r)[i] \subseteq Lockable
  <1>1. CASE r.op = "reverse"
    <2>1. r.tx \in TxIds
      BY <1>1 DEF Request
    <2>2. GuardStages(r) = <<{r.tx}, Legs(r.tx)>>
      BY <1>1 DEF GuardStages
    <2> QED
      BY <2>1, <2>2, LegsAreRows DEF Lockable
  <1>2. CASE r.op = "delete"
    <2>1. r.tx \in TxIds /\ Exists(r.tx)
      BY <1>2 DEF Request, Sound
    <2> DEFINE root == Root(r.tx)
    <2>2. root \in TxIds
      BY <2>1, RootIsRow
    <2>3. GuardStages(r) = <<{r.tx}, {root}, IF Posted(root) THEN Legs(root) ELSE {}>>
      BY <1>2 DEF GuardStages
    <2> HIDE DEF root
    <2>4. Legs(root) \subseteq TxIds
      BY <2>2, LegsAreRows
    <2> QED
      BY <2>1, <2>2, <2>3, <2>4 DEF Lockable
  <1>3. CASE r.op = "reverse_payment"
    <2>1. r.tx \in TxIds /\ r.bill \in Bills
      BY <1>3 DEF Request
    <2>2. GuardStages(r) = <<{r.bill}, {r.tx}>>
      BY <1>3 DEF GuardStages
    <2> QED
      BY <2>1, <2>2 DEF Lockable
  <1>4. CASE r.op = "void"
    <2>1. r.bill \in Bills /\ GuardStages(r) = <<{r.bill}>>
      BY <1>4 DEF Request, GuardStages
    <2> QED
      BY <2>1 DEF Lockable
  <1>5. CASE r.op = "update_loan"
    <2>1. r.loan \in Loans /\ GuardStages(r) = <<{r.loan}>>
      BY <1>5 DEF Request, GuardStages
    <2> QED
      BY <2>1 DEF Lockable
  <1> QED
    BY <1>1, <1>2, <1>3, <1>4, <1>5 DEF Locking

LEMMA EffectStagesAreRows ==
    ASSUME Inductive, NEW r \in Request, Sound(r), r.op \in Locking
    PROVE  \A i \in DOMAIN EffectStages(r) : EffectStages(r)[i] \subseteq Lockable
  <1>1. CASE r.op \in {"reverse", "reverse_payment"}
    <2>1. r.tx \in TxIds /\ Exists(r.tx)
      BY <1>1 DEF Request, Sound, PaymentsOf
    <2>2. EffectStages(r) = <<Touched(r.tx)>>
      BY <1>1 DEF EffectStages
    <2> QED
      BY <2>1, <2>2, TouchedIsRow DEF Lockable
  <1>2. CASE r.op = "delete"
    <2>1. r.tx \in TxIds /\ Exists(r.tx)
      BY <1>2 DEF Request, Sound
    <2> DEFINE root == Root(r.tx)
    <2>2. root \in TxIds /\ Exists(root)
      BY <2>1, RootIsRow
    <2>3. EffectStages(r) = <<IF Posted(root) THEN Touched(root) ELSE {},
                              RootIds(root), Chain(root)>>
      BY <1>2 DEF EffectStages
    <2> HIDE DEF root
    <2>4. /\ Touched(root) \subseteq Bills \cup Loans
          /\ RootIds(root) \subseteq TxIds /\ Chain(root) \subseteq TxIds
      BY <2>2, TouchedIsRow, ChainIsRows
    <2> QED
      BY <2>3, <2>4 DEF Lockable
  <1>3. CASE r.op = "void"
    <2>1. EffectStages(r) = <<LivePayments(r.bill)>> /\ LivePayments(r.bill) \subseteq TxIds
      BY <1>3 DEF EffectStages, LivePayments, PaymentsOf
    <2> QED
      BY <2>1 DEF Lockable
  <1>4. CASE r.op = "update_loan"
    <2>1. EffectStages(r) = <<Disbursements(r.loan)>> /\ Disbursements(r.loan) \subseteq TxIds
      BY <1>4 DEF EffectStages, Disbursements
    <2> QED
      BY <2>1 DEF Lockable
  <1> QED
    BY <1>1, <1>2, <1>3, <1>4 DEF Locking

\* Every row a locking request asks for is a row of one of the three tables.
LEMMA NextRowsAreRows ==
    ASSUME Inductive, NEW s \in Sessions, req[s].op \in Locking
    PROVE  NextRows(s) \subseteq Lockable
  <1> DEFINE r == req[s]
             stages == IF r.checked THEN EffectStages(r) ELSE GuardStages(r)
  <1>1. r \in Request /\ Sound(r) /\ r.op \in Locking
    BY DEF Inductive, TypeOK, RequestSound, Locking, Idle
  <1> HIDE DEF r
  <1>2. \A i \in DOMAIN stages : stages[i] \subseteq Lockable
    BY <1>1, GuardStagesAreRows, EffectStagesAreRows
  <1> QED
    BY <1>2 DEF NextRows, r

LEMMA LockStep ==
    ASSUME Inductive, NEW s \in Sessions, Lock(s)
    PROVE  Inductive'
  <1>1. PICK row \in NextRows(s) : locks' = [locks EXCEPT ![s] = @ \cup {row}]
    BY DEF Lock
  <1>2. row \in Lockable
    BY NextRowsAreRows DEF Lock
  <1>3. locks' \in LockTable
    BY <1>1, <1>2 DEF Inductive, TypeOK, LockTable
  <1>4. UNCHANGED <<tx, bill, loan, req>>
    BY DEF Lock
  <1> QED
    BY <1>3, <1>4 DEF Inductive, TypeOK, LockTable, BillColumnsAgree, LoanWithinPrincipal,
                      RequestSound, Sound,
                      Exists, PaymentsOf, IsPayment, ReferencesResolve, Resolves

LEMMA CheckedRequest ==
    ASSUME NEW q \in Request, Sound(q), q.op \in Locking
    PROVE  /\ [q EXCEPT !.checked = TRUE] \in Request
           /\ Sound([q EXCEPT !.checked = TRUE])
  <1> DEFINE r == [q EXCEPT !.checked = TRUE]
  <1>1. r \in Request
    BY DEF Request, Locking
  <1>2. Sound(r)
    BY DEF Sound, Request, Locking
  <1> QED
    BY <1>1, <1>2

LEMMA CheckStep ==
    ASSUME Inductive, NEW s \in Sessions, Check(s)
    PROVE  Inductive'
  <1>1. req[s] \in Request /\ Sound(req[s]) /\ req[s].op \in Locking
    BY DEF Inductive, TypeOK, RequestSound, Check, Locking, Idle
  <1>2. PICK r \in Request : r = [req[s] EXCEPT !.checked = TRUE] /\ Sound(r)
    BY <1>1, CheckedRequest
  <1>3. req' = [req EXCEPT ![s] = r]
    BY <1>2 DEF Check
  <1>4. UNCHANGED <<tx, bill, loan>> /\ locks' \in LockTable
    BY DEF Check, Inductive, TypeOK, LockTable
  <1>5. Sound(r)'
    BY <1>2, <1>4, TablesUnchanged, GrowingKeepsSound
  <1> QED
    BY <1>3, <1>4, <1>5, TablesUnchanged, StepKeepsInductive

----------------------------------------------------------------------------
(* Rows are created. *)

LEMMA IdleSession ==
    ASSUME Inductive, NEW s \in Sessions, ~Active(s), UNCHANGED <<req, locks>>
    PROVE  /\ req' = [req EXCEPT ![s] = Idle]
           /\ locks' \in LockTable
  BY DEF Inductive, TypeOK, LockTable, Active, Request, Idle

LEMMA CreateTransactionStep ==
    ASSUME Inductive, NEW s \in Sessions, NEW d \in {"credit", "debit"},
           NEW a \in Accounts, NEW n \in Amounts, CreateTransaction(s, d, a, n)
    PROVE  Inductive'
  <1> DEFINE row == Row(d, a, n, "manual_adjustment", "none", NoTx)
  <1>1. row \in TxRow
    BY LedgerAssumption DEF Row, TxRow
  <1>2. PICK t \in TxIds : Insert(t, row)
    BY DEF CreateTransaction
  <1>3. /\ tx' \in TxTable /\ ~Exists(t) /\ tx'[t] = row
        /\ \A u \in TxIds : u # t => tx'[u] = tx[u]
    BY <1>1, <1>2, InsertedRow DEF Inductive
  <1>4. UNCHANGED <<bill, loan, req, locks>> /\ ~Active(s)
    BY DEF CreateTransaction
  <1>5. Grows
    BY <1>3, <1>4 DEF Grows, Exists
  <1>6. \A u \in TxIds : Exists(u)' /\ ~Exists(u) => Resolves(u)'
    BY <1>3 DEF Exists, Resolves, Row
  <1>7. bill' \in BillTable /\ loan' \in LoanTable
        /\ BillColumnsAgree' /\ LoanWithinPrincipal'
    BY <1>4 DEF Inductive, TypeOK, BillTable, LoanTable, BillColumnsAgree, LoanWithinPrincipal
  <1> QED
    BY <1>3, <1>4, <1>5, <1>6, <1>7, IdleSession, StepKeepsInductive

LEMMA CreateBillStep ==
    ASSUME Inductive, NEW s \in Sessions, NEW b \in Bills,
           NEW k \in {"sales", "purchase"}, NEW n \in Totals, CreateBill(s, b, k, n)
    PROVE  Inductive'
  <1> DEFINE row == [kind |-> k, total |-> n, paid |-> 0, balance |-> n,
                     payment |-> "unpaid", status |-> "issued"]
  <1>1. row \in BillRow /\ row # Missing /\ row.paid + row.balance = row.total
    BY LedgerAssumption DEF BillRow, Missing
  <1>2. bill' = [bill EXCEPT ![b] = row] /\ UNCHANGED <<tx, loan, req, locks>> /\ ~Active(s)
    BY DEF CreateBill
  <1> HIDE DEF row
  <1>3. tx' \in TxTable /\ bill' \in BillTable /\ loan' \in LoanTable
    BY <1>1, <1>2 DEF Inductive, TypeOK, TxTable, BillTable, LoanTable
  <1>4. Grows
    <2>1. bill[b] = Missing /\ \A c \in Bills : c # b => bill'[c] = bill[c]
      BY <1>2 DEF CreateBill, Inductive, TypeOK
    <2> QED
      BY <2>1, <1>2 DEF Grows, Exists
  <1>5. BillColumnsAgree' /\ LoanWithinPrincipal'
    BY <1>1, <1>2 DEF Inductive, TypeOK, BillColumnsAgree, LoanWithinPrincipal
  <1>6. \A u \in TxIds : Exists(u)' => Exists(u)
    BY <1>2 DEF Exists
  <1> QED
    BY <1>2, <1>3, <1>4, <1>5, <1>6, IdleSession, StepKeepsInductive

LEMMA CreateCompanyLoanStep ==
    ASSUME Inductive, NEW s \in Sessions, NEW l \in Loans, NEW a \in Accounts,
           NEW n \in Totals, CreateCompanyLoan(s, l, a, n)
    PROVE  Inductive'
  <1> DEFINE row == Row("credit", a, n, "company_loan_disbursement", l, NoTx)
             new == [principal |-> n, outstanding |-> n, status |-> "active"]
  <1>1. row \in TxRow /\ new \in LoanRow /\ new # Missing
        /\ new.outstanding <= new.principal
    BY LedgerAssumption DEF Row, TxRow, LoanRow, Missing
  <1>2. PICK t \in TxIds : Insert(t, row)
    BY DEF CreateCompanyLoan
  <1>3. /\ tx' \in TxTable /\ ~Exists(t) /\ tx'[t] = row
        /\ \A u \in TxIds : u # t => tx'[u] = tx[u]
    BY <1>1, <1>2, InsertedRow DEF Inductive
  <1>4. /\ loan' = [loan EXCEPT ![l] = new]
        /\ UNCHANGED <<bill, req, locks>> /\ ~Active(s)
    BY DEF CreateCompanyLoan
  <1>5. row.source = "company_loan_disbursement" /\ row.ref = l
        /\ row.reverses = NoTx /\ row.group = NoTx
    BY DEF Row
  <1> HIDE DEF row, new
  <1>6. loan' \in LoanTable /\ loan'[l] # Missing
        /\ \A m \in Loans : m # l => loan'[m] = loan[m]
    BY <1>1, <1>4 DEF Inductive, TypeOK, LoanTable
  <1>7. Grows /\ LoanWithinPrincipal'
    BY <1>1, <1>3, <1>4, <1>6 DEF Grows, Exists, Inductive, TypeOK, LoanWithinPrincipal,
                                  CreateCompanyLoan
  <1>8. \A u \in TxIds : Exists(u)' /\ ~Exists(u) => Resolves(u)'
    BY <1>3, <1>5, <1>6 DEF Exists, Resolves
  <1>9. bill' \in BillTable /\ BillColumnsAgree'
    BY <1>4 DEF Inductive, TypeOK, BillTable, BillColumnsAgree
  <1> QED
    BY <1>3, <1>4, <1>6, <1>7, <1>8, <1>9, IdleSession, StepKeepsInductive

----------------------------------------------------------------------------
(* Unlocked requests write what follows from what they read. *)

LEMMA CommitBillPaymentStep ==
    ASSUME Inductive, NEW s \in Sessions, CommitBillPayment(s)
    PROVE  Inductive'
  <1> DEFINE q == req[s]
             paid == q.seen.paid + q.amount
             balance == q.seen.total - paid
             payment == IF balance <= 0 THEN "paid" ELSE "partially_paid"
             b == q.bill
             row == Row(IF q.seen.kind = "sales" THEN "credit" ELSE "debit",
                        q.account, q.amount, "bill_payment", b, NoTx)
             new == [bill[b] EXCEPT !.paid = paid, !.balance = balance,
                         !.payment = IF payment = q.seen.payment THEN @ ELSE payment]
  <1>1. q \in Request /\ Sound(q) /\ q.op = "pay_bill"
    BY DEF Inductive, TypeOK, RequestSound, CommitBillPayment, Idle
  <1>2. /\ b \in Bills /\ q.account \in Accounts /\ q.amount \in Nat /\ q.seen \in BillRow
        /\ bill[b] # Missing /\ q.seen.paid + q.seen.balance = q.seen.total
        /\ q.amount <= q.seen.balance
    BY <1>1 DEF Request, Sound
  <1>3. paid \in Nat /\ balance \in Nat /\ paid + balance = q.seen.total
    BY <1>2 DEF BillRow
  <1>4. row \in TxRow /\ row.source = "bill_payment" /\ row.ref = b
        /\ row.reverses = NoTx /\ row.group = NoTx
    BY <1>2 DEF Row, TxRow
  <1>5. bill[b] \in BillRow
    BY <1>2, ExistingBill DEF Inductive
  <1>6. /\ bill' = [bill EXCEPT ![b] = new] /\ UNCHANGED loan /\ End(s)
        /\ \E t \in TxIds : Insert(t, row)
    BY <1>2, <1>5 DEF CommitBillPayment, Inductive, TypeOK
  <1> HIDE DEF paid, balance, payment
  <1>7. new \in BillRow /\ new # Missing /\ new.paid + new.balance = new.total
        /\ new.total = bill[b].total
    BY <1>1, <1>3, <1>5 DEF BillRow, Missing, payment, Sound
  <1> HIDE DEF new, row
  <1>8. PICK t \in TxIds : Insert(t, row)
    BY <1>6
  <1>9. /\ tx' \in TxTable /\ ~Exists(t) /\ tx'[t] = row
        /\ \A u \in TxIds : u # t => tx'[u] = tx[u]
    BY <1>4, <1>8, InsertedRow DEF Inductive
  <1>10. bill' \in BillTable /\ bill'[b] = new /\ \A c \in Bills : c # b => bill'[c] = bill[c]
    BY <1>2, <1>6, <1>7 DEF Inductive, TypeOK, BillTable
  <1> HIDE DEF b, q
  <1>11. Grows
    BY <1>6, <1>7, <1>9, <1>10 DEF Grows, Exists
  <1>12. \A u \in TxIds : Exists(u)' /\ ~Exists(u) => Resolves(u)'
    BY <1>2, <1>4, <1>7, <1>9, <1>10 DEF Exists, Resolves
  <1>13. BillColumnsAgree'
    BY <1>7, <1>10 DEF Inductive, BillColumnsAgree
  <1>14. loan' \in LoanTable /\ LoanWithinPrincipal'
    BY <1>6 DEF Inductive, TypeOK, LoanTable, LoanWithinPrincipal
  <1> QED
    BY <1>6, <1>9, <1>10, <1>11, <1>12, <1>13, <1>14, EndedStep, StepKeepsInductive

LEMMA CommitLoanPaymentStep ==
    ASSUME Inductive, NEW s \in Sessions, CommitLoanPayment(s)
    PROVE  Inductive'
  <1> DEFINE q == req[s]
             l == q.loan
             left == q.seen.outstanding - q.amount
             row == Row("debit", q.account, q.amount, "company_loan_repayment", l, NoTx)
             new == [loan[l] EXCEPT !.outstanding = left,
                         !.status = IF left <= 0 THEN "closed" ELSE @]
  <1>1. q \in Request /\ Sound(q) /\ q.op = "pay_loan"
    BY DEF Inductive, TypeOK, RequestSound, CommitLoanPayment, Idle
  <1>2. /\ l \in Loans /\ q.account \in Accounts /\ q.amount \in Nat /\ q.seen \in LoanRow
        /\ loan[l] # Missing /\ q.seen.principal = loan[l].principal
        /\ q.seen.outstanding <= q.seen.principal /\ q.amount <= q.seen.outstanding
    BY <1>1 DEF Request, Sound
  <1>3. left \in Nat /\ left <= loan[l].principal
    BY <1>2 DEF LoanRow
  <1>4. row \in TxRow /\ row.source = "company_loan_repayment" /\ row.ref = l
        /\ row.reverses = NoTx /\ row.group = NoTx
    BY <1>2 DEF Row, TxRow
  <1>5. loan[l] \in LoanRow
    BY <1>2, ExistingLoan DEF Inductive
  <1>6. /\ loan' = [loan EXCEPT ![l] = new] /\ UNCHANGED bill /\ End(s)
        /\ \E t \in TxIds : Insert(t, row)
    BY <1>2, <1>5 DEF CommitLoanPayment, Inductive, TypeOK
  <1> HIDE DEF left
  <1>7. /\ new \in LoanRow /\ new # Missing /\ new.outstanding <= new.principal
        /\ new.principal = loan[l].principal
    BY <1>3, <1>5 DEF LoanRow, Missing
  <1> HIDE DEF new, row
  <1>8. PICK t \in TxIds : Insert(t, row)
    BY <1>6
  <1>9. /\ tx' \in TxTable /\ ~Exists(t) /\ tx'[t] = row
        /\ \A u \in TxIds : u # t => tx'[u] = tx[u]
    BY <1>4, <1>8, InsertedRow DEF Inductive
  <1>10. loan' \in LoanTable /\ loan'[l] = new /\ \A m \in Loans : m # l => loan'[m] = loan[m]
    BY <1>2, <1>6, <1>7 DEF Inductive, TypeOK, LoanTable
  <1> HIDE DEF l, q
  <1>11. Grows
    BY <1>6, <1>7, <1>9, <1>10 DEF Grows, Exists
  <1>12. \A u \in TxIds : Exists(u)' /\ ~Exists(u) => Resolves(u)'
    BY <1>2, <1>4, <1>7, <1>9, <1>10 DEF Exists, Resolves
  <1>13. LoanWithinPrincipal'
    BY <1>7, <1>10 DEF Inductive, LoanWithinPrincipal
  <1>14. bill' \in BillTable /\ BillColumnsAgree'
    BY <1>6 DEF Inductive, TypeOK, BillTable, BillColumnsAgree
  <1> QED
    BY <1>6, <1>9, <1>10, <1>11, <1>12, <1>13, <1>14, EndedStep, StepKeepsInductive

LEMMA CommitTransferStep ==
    ASSUME Inductive, NEW s \in Sessions, CommitTransfer(s)
    PROVE  Inductive'
  <1> DEFINE q == req[s]
             Leg(direction, a, g) == Row(direction, a, q.amount, "account_transfer", "none", g)
  <1>1. q \in Request /\ q.op = "transfer"
    BY DEF Inductive, TypeOK, CommitTransfer, Idle
  <1>2. q.from \in Accounts /\ q.to \in Accounts /\ q.amount \in Nat
    BY <1>1 DEF Request
  <1>3. PICK i \in NewIds(2), j \in NewIds(2) :
           /\ i < j
           /\ tx' = [tx EXCEPT ![i] = Leg("debit", q.from, i), ![j] = Leg("credit", q.to, i)]
    BY DEF CommitTransfer
  <1>4. i \in TxIds /\ j \in TxIds /\ ~Exists(i) /\ ~Exists(j) /\ i # j
    BY <1>3 DEF NewIds, TxIds
  <1>5. \A d \in {"credit", "debit"}, a \in Accounts :
           /\ Leg(d, a, i) \in TxRow /\ Leg(d, a, i).status = "posted"
           /\ Leg(d, a, i).source = "account_transfer"
           /\ Leg(d, a, i).reverses = NoTx /\ Leg(d, a, i).group = i
    BY <1>2, <1>4 DEF Row, TxRow
  <1>6. PICK x \in TxRow, y \in TxRow :
           /\ x = Leg("debit", q.from, i) /\ y = Leg("credit", q.to, i)
           /\ \A z \in {x, y} : /\ z.status = "posted" /\ z.source = "account_transfer"
                                /\ z.reverses = NoTx /\ z.group = i
    BY <1>2, <1>5
  <1> HIDE DEF Leg
  <1>7. tx' \in TxTable /\ tx'[i] = x /\ tx'[j] = y
        /\ \A u \in TxIds : u # i /\ u # j => tx'[u] = tx[u]
    BY <1>3, <1>4, <1>6 DEF Inductive, TypeOK, TxTable
  <1>8. UNCHANGED <<bill, loan>> /\ End(s)
    BY DEF CommitTransfer
  <1>9. Grows
    BY <1>4, <1>7, <1>8 DEF Grows, Exists
  <1>10. \A u \in TxIds : Exists(u)' /\ ~Exists(u) => Resolves(u)'
    BY <1>4, <1>6, <1>7 DEF Exists, Resolves
  <1>11. /\ bill' \in BillTable /\ loan' \in LoanTable
         /\ BillColumnsAgree' /\ LoanWithinPrincipal'
    BY <1>8 DEF Inductive, TypeOK, BillTable, LoanTable, BillColumnsAgree, LoanWithinPrincipal
  <1> QED
    BY <1>7, <1>8, <1>9, <1>10, <1>11, EndedStep, StepKeepsInductive

----------------------------------------------------------------------------
(* Requests that reverse rows. *)

\* Row u exists, or not, in the next ledger as it does in R, referring to the
\* same things.
SameShape(R, u) ==
    /\ tx'[u].status # "missing" <=> R[u].status # "missing"
    /\ R[u].status # "missing" =>
          /\ tx'[u].source = R[u].source /\ tx'[u].ref = R[u].ref
          /\ tx'[u].group = R[u].group /\ tx'[u].reverses = R[u].reverses

TablesGrow ==
    /\ \A b \in Bills : bill[b] # Missing =>
          bill'[b] # Missing /\ bill'[b].total = bill[b].total
    /\ \A l \in Loans : loan[l] # Missing =>
          loan'[l] # Missing /\ loan'[l].principal = loan[l].principal

\* Reversing rows, whatever status they get afterwards, keeps every reference.
LEMMA ReversingGrows ==
    ASSUME Inductive, NEW S \in SUBSET TxIds, \A t \in S : Exists(t),
           NEW f \in Allocations(S), tx' \in TxTable, TablesGrow,
           \A u \in TxIds : SameShape(Reversing(S, f), u)
    PROVE  /\ Grows
           /\ \A u \in TxIds : Exists(u)' /\ ~Exists(u) => Resolves(u)'
  <1> DEFINE R == Reversing(S, f)
  <1>1. /\ f \in [S -> TxIds] /\ R \in TxTable
        /\ \A t \in S : ~Exists(f[t])
        /\ \A u \in S : R[u] = [tx[u] EXCEPT !.status = "reversed"]
        /\ \A t \in S : \E g \in TxIds \cup {NoTx} :
              R[f[t]] = Reversal(t, g) /\ g = IF tx[t].group = NoTx THEN NoTx ELSE NewGroup(S, f)
        /\ \A u \in TxIds : (u \notin S /\ \A t \in S : f[t] # u) => R[u] = tx[u]
    BY ReversedRows DEF Inductive
  <1> HIDE DEF R
  <1>2. \A u \in TxIds : SameShape(R, u)
    BY DEF R
  <1>3. ASSUME NEW u \in TxIds, Exists(u)
        PROVE  /\ R[u].status # "missing" /\ R[u].source = tx[u].source
               /\ R[u].ref = tx[u].ref /\ R[u].group = tx[u].group
               /\ R[u].reverses = tx[u].reverses
    <2>1. CASE u \in S
      <3>1. tx[u] \in TxRow
        BY <1>3, ExistingRow DEF Inductive
      <3> QED
        BY <2>1, <3>1, <1>1 DEF TxRow
    <2>2. CASE u \notin S
      <3>1. R[u] = tx[u]
        BY <2>2, <1>1, <1>3
      <3> QED
        BY <3>1, <1>3 DEF Exists
    <2> QED
      BY <2>1, <2>2
  <1>4. ASSUME NEW u \in TxIds, Exists(u)
        PROVE  /\ tx'[u].status # "missing" /\ tx'[u].source = tx[u].source
               /\ tx'[u].ref = tx[u].ref /\ tx'[u].group = tx[u].group
               /\ tx'[u].reverses = tx[u].reverses
    BY <1>2, <1>3, <1>4 DEF SameShape
  <1>5. Grows
    BY <1>4 DEF Grows, Exists, TablesGrow
  <1>6. \A t \in S : tx'[f[t]].status # "missing"
    <2> TAKE t \in S
    <2>1. PICK g \in TxIds \cup {NoTx} : R[f[t]] = Reversal(t, g)
      BY <1>1
    <2>2. R[f[t]].status # "missing"
      BY <2>1, ReversalRow DEF Inductive
    <2> QED
      BY <1>1, <1>2, <2>2 DEF SameShape
  <1>7. ASSUME NEW u \in TxIds, tx'[u].status # "missing", ~Exists(u)
        PROVE  Resolves(u)'
    <2>1. u \notin S
      BY <1>7
    <2>2. PICK t \in S : f[t] = u
      BY <1>1, <1>2, <1>7, <2>1 DEF SameShape, Exists
    <2>3. PICK g \in TxIds \cup {NoTx} :
             R[u] = Reversal(t, g) /\ g = IF tx[t].group = NoTx THEN NoTx ELSE NewGroup(S, f)
      BY <1>1, <2>2
    <2>4. /\ tx'[u].source = tx[t].source /\ tx'[u].ref = tx[t].ref
          /\ tx'[u].reverses = t /\ tx'[u].group = g
      BY <2>3, <1>2, <1>7, ReversalRow DEF SameShape, Inductive
    <2>5. g # NoTx => tx'[g].status # "missing"
      <3>1. f[t] \in {f[i] : i \in S}
        OBVIOUS
      <3>2. NewGroup(S, f) \in {f[i] : i \in S}
        BY <3>1 DEF NewGroup
      <3> QED
        BY <3>2, <2>3, <1>6
    <2>6. tx'[t].status # "missing"
      BY <1>4
    <2>7. Resolves(t)
      BY DEF Inductive, ReferencesResolve
    <2> QED
      BY <2>4, <2>5, <2>6, <2>7 DEF Resolves, TablesGrow, Exists
  <1> QED
    BY <1>5, <1>7 DEF Exists

\* What a reversal does to a bill keeps its columns in agreement.
LEMMA WithoutPaymentAgrees ==
    ASSUME NEW row \in BillRow, NEW n \in Nat,
           \/ row.paid + row.balance = row.total
           \/ row.status = "cancelled" /\ row.paid = 0 /\ row.balance = 0
    PROVE  /\ WithoutPayment(row, n) \in BillRow
           /\ WithoutPayment(row, n) # Missing
           /\ WithoutPayment(row, n).total = row.total
           /\ WithoutPayment(row, n).paid + WithoutPayment(row, n).balance = row.total
  <1> DEFINE paid == AtLeastZero(row.paid - n)
             balance == AtLeastZero(row.total - paid)
             payment == PaymentState(paid, balance)
             new == [row EXCEPT !.paid = paid, !.balance = balance, !.payment = payment]
  <1>1. row.paid \in Nat /\ row.total \in Nat /\ row.balance \in Nat
    BY DEF BillRow
  <1>2. paid \in Nat /\ paid <= row.total
    BY <1>1 DEF AtLeastZero
  <1>3. balance \in Nat /\ paid + balance = row.total
    BY <1>1, <1>2 DEF AtLeastZero
  <1>4. payment \in {"unpaid", "partially_paid", "paid", "void"}
    BY DEF PaymentState
  <1>5. WithoutPayment(row, n) = new
    BY DEF WithoutPayment
  <1> HIDE DEF paid, balance, payment
  <1> QED
    BY <1>2, <1>3, <1>4, <1>5 DEF BillRow, Missing

LEMMA WithoutRepaymentAgrees ==
    ASSUME NEW row \in LoanRow, NEW n \in Nat, row.outstanding <= row.principal
    PROVE  /\ WithoutRepayment(row, n) \in LoanRow
           /\ WithoutRepayment(row, n) # Missing
           /\ WithoutRepayment(row, n).principal = row.principal
           /\ WithoutRepayment(row, n).outstanding <= row.principal
  <1> DEFINE left == IF row.outstanding + n < row.principal
                     THEN row.outstanding + n ELSE row.principal
             new == [row EXCEPT !.outstanding = left,
                                !.status = IF left > 0 THEN "active" ELSE "closed"]
  <1>1. left \in Nat /\ left <= row.principal
    BY DEF LoanRow
  <1>2. WithoutRepayment(row, n) = new
    BY DEF WithoutRepayment
  <1> HIDE DEF left
  <1> QED
    BY <1>1, <1>2 DEF LoanRow, Missing

LEMMA CancelledLoanAgrees ==
    ASSUME NEW row \in LoanRow
    PROVE  LET new == [row EXCEPT !.outstanding = 0, !.status = "cancelled"]
           IN /\ new \in LoanRow /\ new # Missing /\ new.principal = row.principal
              /\ new.outstanding <= new.principal
  <1> DEFINE new == [row EXCEPT !.outstanding = 0, !.status = "cancelled"]
  <1>1. new \in LoanRow /\ new # Missing /\ new.principal = row.principal
        /\ new.outstanding = 0
    BY DEF LoanRow, Missing
  <1>2. row.principal \in Nat
    BY DEF LoanRow
  <1> HIDE DEF new
  <1>3. new.outstanding <= new.principal
    BY <1>1, <1>2
  <1> QED
    BY <1>1, <1>3 DEF new

LEMMA UnwindBillStep ==
    ASSUME Inductive, NEW t \in TxIds, Exists(t), UnwindBill(t)
    PROVE  /\ bill' \in BillTable /\ BillColumnsAgree'
           /\ \A b \in Bills : bill[b] # Missing =>
                 bill'[b] # Missing /\ bill'[b].total = bill[b].total
  <1>1. CASE ~IsPayment(t)
    BY <1>1 DEF UnwindBill, Inductive, TypeOK, BillTable, BillColumnsAgree
  <1>2. CASE IsPayment(t)
    <2> DEFINE b == tx[t].ref
               new == WithoutPayment(bill[b], tx[t].amount)
    <2>1. tx[t] \in TxRow /\ Resolves(t)
      BY ExistingRow DEF Inductive, ReferencesResolve
    <2>2. b \in Bills /\ bill[b] # Missing /\ tx[t].amount \in Nat
      BY <1>2, <2>1 DEF IsPayment, Resolves, TxRow
    <2>3. bill[b] \in BillRow
      BY <2>2, ExistingBill DEF Inductive
    <2>4. /\ new \in BillRow /\ new # Missing /\ new.total = bill[b].total
          /\ new.paid + new.balance = new.total
      BY <2>2, <2>3, WithoutPaymentAgrees DEF Inductive, BillColumnsAgree
    <2>5. bill' = [bill EXCEPT ![b] = new]
      BY <1>2 DEF UnwindBill
    <2> HIDE DEF new, b
    <2>6. bill' \in BillTable /\ bill'[b] = new /\ \A c \in Bills : c # b => bill'[c] = bill[c]
      BY <2>2, <2>4, <2>5 DEF Inductive, TypeOK, BillTable
    <2> QED
      BY <2>4, <2>6 DEF Inductive, BillColumnsAgree
  <1> QED
    BY <1>1, <1>2

LEMMA UnwindLoanStep ==
    ASSUME Inductive, NEW t \in TxIds, Exists(t), UnwindLoan(t)
    PROVE  /\ loan' \in LoanTable /\ LoanWithinPrincipal'
           /\ \A l \in Loans : loan[l] # Missing =>
                 loan'[l] # Missing /\ loan'[l].principal = loan[l].principal
  <1>1. CASE tx[t].source \notin {"company_loan_repayment", "company_loan_disbursement"}
    BY <1>1 DEF UnwindLoan, Inductive, TypeOK, LoanTable, LoanWithinPrincipal
  <1>2. CASE tx[t].source \in {"company_loan_repayment", "company_loan_disbursement"}
    <2> DEFINE l == tx[t].ref
               new == IF tx[t].source = "company_loan_repayment"
                      THEN WithoutRepayment(loan[l], tx[t].amount)
                      ELSE [loan[l] EXCEPT !.outstanding = 0, !.status = "cancelled"]
    <2>1. tx[t] \in TxRow /\ Resolves(t)
      BY ExistingRow DEF Inductive, ReferencesResolve
    <2>2. l \in Loans /\ loan[l] # Missing /\ tx[t].amount \in Nat
      BY <1>2, <2>1 DEF Resolves, TxRow
    <2>3. loan[l] \in LoanRow /\ loan[l].outstanding <= loan[l].principal
      BY <2>2, ExistingLoan DEF Inductive, LoanWithinPrincipal
    <2>4. /\ new \in LoanRow /\ new # Missing /\ new.principal = loan[l].principal
          /\ new.outstanding <= new.principal
      <3> HIDE DEF l
      <3>1. CASE tx[t].source = "company_loan_repayment"
        BY <3>1, <2>2, <2>3, WithoutRepaymentAgrees
      <3>2. CASE tx[t].source # "company_loan_repayment"
        <4>1. new = [loan[l] EXCEPT !.outstanding = 0, !.status = "cancelled"]
          BY <3>2
        <4> HIDE DEF new
        <4> QED
          BY <4>1, <2>3, CancelledLoanAgrees
      <3> QED
        BY <3>1, <3>2
    <2>5. loan' = [loan EXCEPT ![l] = new]
      BY <1>2, <2>2, <2>3 DEF UnwindLoan, Inductive, TypeOK
    <2> HIDE DEF new, l
    <2>6. loan' \in LoanTable /\ loan'[l] = new /\ \A m \in Loans : m # l => loan'[m] = loan[m]
      BY <2>2, <2>4, <2>5 DEF Inductive, TypeOK, LoanTable
    <2> QED
      BY <2>4, <2>6 DEF Inductive, LoanWithinPrincipal
  <1> QED
    BY <1>1, <1>2

\* A request that locks has a row it may commit.
LEMMA ReadyRequest ==
    ASSUME Inductive, NEW s \in Sessions, NEW op \in Locking, Ready(s, op)
    PROVE  req[s] \in Request /\ Sound(req[s]) /\ req[s].op = op
  BY DEF Ready, Inductive, TypeOK, RequestSound, Locking, Idle

LEMMA ExistingLegs ==
    ASSUME Inductive, NEW t \in TxIds, Exists(t)
    PROVE  Legs(t) \in SUBSET TxIds /\ \A u \in Legs(t) : Exists(u)
  BY DEF Legs

LEMMA SameShapeOfItself ==
    ASSUME NEW R, tx' = R
    PROVE  \A u \in TxIds : SameShape(R, u)
  BY DEF SameShape

LEMMA CommitReverseStep ==
    ASSUME Inductive, NEW s \in Sessions, CommitReverse(s)
    PROVE  Inductive'
  <1> DEFINE t == req[s].tx
  <1>1. t \in TxIds /\ Exists(t)
    <2>1. PICK op \in {"reverse", "reverse_payment"} : Ready(s, op)
      BY DEF CommitReverse
    <2>2. req[s] \in Request /\ Sound(req[s]) /\ req[s].op = op
      BY <2>1, ReadyRequest DEF Locking
    <2> QED
      BY <2>2 DEF Request, Sound, PaymentsOf
  <1>2. PICK f \in Allocations(Legs(t)) : tx' = Reversing(Legs(t), f)
    BY DEF CommitReverse
  <1>3. UnwindBill(t) /\ UnwindLoan(t) /\ End(s)
    BY DEF CommitReverse
  <1> HIDE DEF t
  <1>4. Legs(t) \in SUBSET TxIds /\ \A u \in Legs(t) : Exists(u)
    BY <1>1, ExistingLegs
  <1>5. tx' \in TxTable
    BY <1>2, <1>4, ReversedRows DEF Inductive
  <1>6. /\ bill' \in BillTable /\ BillColumnsAgree'
        /\ loan' \in LoanTable /\ LoanWithinPrincipal' /\ TablesGrow
    BY <1>1, <1>3, UnwindBillStep, UnwindLoanStep DEF TablesGrow
  <1>7. Grows /\ \A u \in TxIds : Exists(u)' /\ ~Exists(u) => Resolves(u)'
    BY <1>2, <1>4, <1>5, <1>6, SameShapeOfItself, ReversingGrows
  <1> QED
    BY <1>3, <1>5, <1>6, <1>7, EndedStep, StepKeepsInductive

LEMMA CommitVoidStep ==
    ASSUME Inductive, NEW s \in Sessions, CommitVoid(s)
    PROVE  Inductive'
  <1> DEFINE b == req[s].bill
             live == LivePayments(b)
             new == [bill[b] EXCEPT !.status = "cancelled", !.payment = "void",
                                    !.paid = 0, !.balance = 0]
  <1>1. b \in Bills /\ bill[b] # Missing
    <2>1. Ready(s, "void")
      BY DEF CommitVoid
    <2>2. req[s] \in Request /\ Sound(req[s]) /\ req[s].op = "void"
      BY <2>1, ReadyRequest DEF Locking
    <2> QED
      BY <2>2 DEF Request, Sound
  <1>2. PICK f \in Allocations(live) : tx' = Reversing(live, f)
    BY DEF CommitVoid
  <1>3. live \in SUBSET TxIds /\ \A u \in live : Exists(u)
    BY DEF LivePayments, PaymentsOf
  <1>4. bill[b] \in BillRow
    BY <1>1, ExistingBill DEF Inductive
  <1>5. bill' = [bill EXCEPT ![b] = new] /\ UNCHANGED loan /\ End(s)
    BY <1>1, <1>4 DEF CommitVoid, Inductive, TypeOK
  <1>6. /\ new \in BillRow /\ new # Missing /\ new.total = bill[b].total
        /\ new.status = "cancelled" /\ new.paid = 0 /\ new.balance = 0
    BY <1>4 DEF BillRow, Missing
  <1> HIDE DEF b, new, live
  <1>7. bill' \in BillTable /\ bill'[b] = new /\ \A c \in Bills : c # b => bill'[c] = bill[c]
    BY <1>1, <1>5, <1>6 DEF Inductive, TypeOK, BillTable
  <1>8. TablesGrow /\ BillColumnsAgree'
    BY <1>5, <1>6, <1>7 DEF TablesGrow, Inductive, BillColumnsAgree
  <1>9. loan' \in LoanTable /\ LoanWithinPrincipal'
    BY <1>5 DEF Inductive, TypeOK, LoanTable, LoanWithinPrincipal
  <1>10. tx' \in TxTable
    BY <1>2, <1>3, ReversedRows DEF Inductive
  <1>11. Grows /\ \A u \in TxIds : Exists(u)' /\ ~Exists(u) => Resolves(u)'
    BY <1>2, <1>3, <1>8, <1>10, SameShapeOfItself, ReversingGrows
  <1> QED
    BY <1>5, <1>7, <1>8, <1>9, <1>10, <1>11, EndedStep, StepKeepsInductive

LEMMA CommitUpdateLoanStep ==
    ASSUME Inductive, NEW s \in Sessions, CommitUpdateLoan(s)
    PROVE  Inductive'
  BY EndWithoutEffect DEF CommitUpdateLoan

LEMMA CommitDeleteStep ==
    ASSUME Inductive, NEW s \in Sessions, CommitDelete(s)
    PROVE  Inductive'
  <1> DEFINE root == Root(req[s].tx)
             Deleting(rows, doomed) == [u \in TxIds |-> IF u \in doomed
                                          THEN [rows[u] EXCEPT !.status = "deleted"]
                                          ELSE rows[u]]
  <1>1. root \in TxIds /\ Exists(root)
    <2>1. Ready(s, "delete")
      BY DEF CommitDelete
    <2>2. req[s] \in Request /\ Sound(req[s]) /\ req[s].op = "delete"
      BY <2>1, ReadyRequest DEF Locking
    <2>3. req[s].tx \in TxIds /\ Exists(req[s].tx)
      BY <2>2 DEF Request, Sound
    <2> QED
      BY <2>3, RootIsRow
  <1>2. End(s)
    BY DEF CommitDelete
  <1>3. ASSUME NEW rows \in TxTable, NEW doomed \in SUBSET TxIds,
               \A u \in doomed : rows[u].status # "missing",
               tx' = Deleting(rows, doomed)
        PROVE  tx' \in TxTable /\ \A u \in TxIds : SameShape(rows, u)
    <2>1. ASSUME NEW u \in doomed
          PROVE  /\ rows[u] \in TxRow
                 /\ tx'[u] = [rows[u] EXCEPT !.status = "deleted"]
      BY <1>3 DEF TxTable, Missing
    <2>2. \A u \in TxIds : u \notin doomed => tx'[u] = rows[u]
      BY <1>3
    <2>3. ASSUME NEW u \in TxIds
          PROVE  tx'[u] \in TxRow \cup {Missing} /\ SameShape(rows, u)
      <3>1. CASE u \in doomed
        BY <3>1, <2>1 DEF TxRow, SameShape
      <3>2. CASE u \notin doomed
        BY <3>2, <2>2 DEF SameShape, TxTable
      <3> QED
        BY <3>1, <3>2
    <2>4. tx' = [u \in TxIds |-> tx'[u]]
      BY <1>3
    <2> QED
      BY <2>3, <2>4 DEF TxTable
  <1>4. CASE /\ Posted(root)
             /\ \E f \in Allocations(Legs(root)) :
                    tx' = Deleting(Reversing(Legs(root), f),
                                   Legs(root) \cup {f[u] : u \in Legs(root)})
             /\ UnwindBill(root)
             /\ UnwindLoan(root)
    <2>1. PICK f \in Allocations(Legs(root)) :
             tx' = Deleting(Reversing(Legs(root), f),
                            Legs(root) \cup {f[u] : u \in Legs(root)})
      BY <1>4
    <2>2. UnwindBill(root) /\ UnwindLoan(root)
      BY <1>4
    <2> DEFINE S == Legs(root)
               rows == Reversing(S, f)
               doomed == S \cup {f[u] : u \in S}
    <2>3. S \in SUBSET TxIds /\ \A u \in S : Exists(u)
      BY <1>1, ExistingLegs
    <2> HIDE DEF S, root
    <2>4. rows \in TxTable /\ doomed \in SUBSET TxIds
      BY <2>1, <2>3, ReversedRows DEF Inductive, S
    <2>5. \A u \in doomed : rows[u].status # "missing"
      <3>1. \A u \in S : rows[u] = [tx[u] EXCEPT !.status = "reversed"] /\ tx[u] \in TxRow
        BY <2>1, <2>3, ReversedRows, ExistingRow DEF Inductive, S
      <3>2. \A u \in S : \E g \in TxIds \cup {NoTx} : rows[f[u]] = Reversal(u, g)
        BY <2>1, <2>3, ReversedRows DEF Inductive, S
      <3>3. \A u \in S : rows[f[u]].status = "posted"
        BY <3>2, <2>3, ReversalRow DEF Inductive
      <3> HIDE DEF rows
      <3>4. \A u \in S : rows[u].status = "reversed"
        BY <3>1 DEF TxRow
      <3> QED
        BY <3>3, <3>4
    <2>6. tx' = Deleting(rows, doomed)
      BY <2>1 DEF S
    <2> HIDE DEF rows, doomed
    <2>7. tx' \in TxTable /\ \A u \in TxIds : SameShape(rows, u)
      BY <2>4, <2>5, <2>6, <1>3
    <2>8. /\ bill' \in BillTable /\ BillColumnsAgree'
          /\ loan' \in LoanTable /\ LoanWithinPrincipal' /\ TablesGrow
      BY <1>1, <2>2, UnwindBillStep, UnwindLoanStep DEF TablesGrow
    <2>9. Grows /\ \A u \in TxIds : Exists(u)' /\ ~Exists(u) => Resolves(u)'
      BY <2>1, <2>3, <2>7, <2>8, ReversingGrows DEF rows, S
    <2> QED
      BY <1>2, <2>7, <2>8, <2>9, EndedStep, StepKeepsInductive
  <1>5. CASE tx' = Deleting(tx, Chain(root)) /\ UNCHANGED <<bill, loan>>
    <2>1. Chain(root) \in SUBSET TxIds
      BY <1>1, ChainIsRows
    <2>2. \A u \in Chain(root) : tx[u].status # "missing"
      <3>1. \A u \in RootIds(root) : Exists(u)
        BY <1>1, ExistingLegs DEF RootIds
      <3> QED
        BY <3>1 DEF Chain, ReversalsOf, Exists
    <2>3. tx \in TxTable /\ bill' \in BillTable /\ loan' \in LoanTable
          /\ BillColumnsAgree' /\ LoanWithinPrincipal'
      BY <1>5 DEF Inductive, TypeOK, TxTable, BillTable, LoanTable, BillColumnsAgree,
                  LoanWithinPrincipal
    <2> DEFINE doomed == Chain(root)
    <2>4. tx' = Deleting(tx, doomed)
      BY <1>5
    <2> HIDE DEF doomed, root
    <2>5. tx' \in TxTable /\ \A u \in TxIds : SameShape(tx, u)
      BY <1>3, <2>1, <2>2, <2>3, <2>4 DEF doomed
    <2>6. Grows /\ \A u \in TxIds : Exists(u)' => Exists(u)
      BY <1>5, <2>5 DEF Grows, SameShape, Exists
    <2> QED
      BY <1>2, <2>3, <2>5, <2>6, EndedStep, StepKeepsInductive
  <1> QED
    BY <1>4, <1>5 DEF CommitDelete

----------------------------------------------------------------------------
(* The theorems. *)

LEMMA InitInductive == Init => Inductive
  BY DEF Init, Inductive, TypeOK, BillColumnsAgree, LoanWithinPrincipal, RequestSound,
         Sound, Idle, ReferencesResolve, Exists, Missing

LEMMA InductiveStep == Inductive /\ [Next]_vars => Inductive'
  <1> SUFFICES ASSUME Inductive, [Next]_vars
               PROVE  Inductive'
    OBVIOUS
  <1>1. CASE UNCHANGED vars
    BY <1>1 DEF vars, Inductive, TypeOK, BillColumnsAgree, LoanWithinPrincipal,
                RequestSound, Sound, Exists, PaymentsOf, IsPayment, ReferencesResolve, Resolves
  <1>2. CASE Next
    <2>1. PICK s \in Sessions : Create(s) \/ Start(s) \/ Advance(s) \/ Rollback(s)
      BY <1>2 DEF Next
    <2>2. CASE Create(s)
      BY <2>2, CreateTransactionStep, CreateBillStep, CreateCompanyLoanStep DEF Create
    <2>3. CASE Start(s)
      BY <2>3, StartBillPaymentStep, StartLoanPaymentStep, StartTransferStep,
         StartLockingStep DEF Start
    <2>4. CASE Lock(s) \/ Check(s)
      BY <2>4, LockStep, CheckStep
    <2>5. CASE Refuse(s) \/ Rollback(s)
      BY <2>5, EndWithoutEffect DEF Refuse, Rollback
    <2>6. CASE Commit(s)
      BY <2>6, CommitBillPaymentStep, CommitLoanPaymentStep, CommitTransferStep,
         CommitReverseStep, CommitDeleteStep, CommitVoidStep, CommitUpdateLoanStep DEF Commit
    <2> QED
      BY <2>1, <2>2, <2>3, <2>4, <2>5, <2>6 DEF Advance
  <1> QED
    BY <1>1, <1>2

LEMMA AlwaysInductive == Spec => []Inductive
  BY InitInductive, InductiveStep, PTL DEF Spec

\* Every table keeps its type: in particular no unlocked write ever leaves a
\* negative amount in a bill or a loan, however stale the row it was read from.
THEOREM TypeCorrect == Spec => []TypeOK
  <1>1. Inductive => TypeOK
    BY DEF Inductive
  <1> QED
    BY <1>1, AlwaysInductive, PTL

\* The paid and the balance column of a bill always add up to its total, or
\* the bill is voided and shows zero for both, although payments are computed
\* from unlocked reads.
THEOREM BillColumnsAlwaysAgree == Spec => []BillColumnsAgree
  <1>1. Inductive => BillColumnsAgree
    BY DEF Inductive
  <1> QED
    BY <1>1, AlwaysInductive, PTL

\* A loan never owes more than was borrowed.
THEOREM LoanAlwaysWithinPrincipal == Spec => []LoanWithinPrincipal
  <1>1. Inductive => LoanWithinPrincipal
    BY DEF Inductive
  <1> QED
    BY <1>1, AlwaysInductive, PTL

----------------------------------------------------------------------------
(* Sums over finite sets.  A set of subsets of a finite set has a minimal  *)
(* member: every induction below is an argument about the smallest subset  *)
(* for which a claim fails.                                                *)

LEMMA MinimalSubset ==
    ASSUME NEW S, IsFiniteSet(S), NEW P \in SUBSET SUBSET S, P # {}
    PROVE  \E T \in P : \A U \in P : U \subseteq T => U = T
  <1>1. IsWellFoundedOn(StrictSubsetOrdering(S), FiniteSubsetsOf(S))
    BY FS_StrictSubsetOrderingWellFounded
  <1>2. FiniteSubsetsOf(S) = SUBSET S
    BY FS_FiniteSubsetsOfFinite
  <1>3. PICK T \in P : \A U \in P : <<U, T>> \notin StrictSubsetOrdering(S)
    BY <1>1, <1>2, WFMin
  <1> QED
    BY <1>3 DEF StrictSubsetOrdering

\* The recursion by which MapThenSumSet adds f up over the subsets of S.
First(T) == CHOOSE x \in T : TRUE
Sums(g, f, S) == g = [T \in SUBSET S |-> IF T = {} THEN 0 ELSE f[First(T)] + g[T \ {First(T)}]]

LEMMA FirstIsMember == ASSUME NEW T, T # {} PROVE First(T) \in T
  BY DEF First

\* The sum over T depends only on what is added up over T.
LEMMA SumsAgree ==
    ASSUME NEW S, IsFiniteSet(S), NEW f, NEW g, Sums(g, f, S),
           NEW R, NEW e, NEW h, Sums(h, e, R),
           NEW T \in SUBSET S, T \in SUBSET R, \A x \in T : f[x] = e[x]
    PROVE  g[T] = h[T]
  <1> DEFINE P == {U \in SUBSET S : U \in SUBSET T /\ g[U] # h[U]}
  <1>1. SUFFICES ASSUME P # {}
                 PROVE  FALSE
    OBVIOUS
  <1>2. PICK U \in P : \A V \in P : V \subseteq U => V = U
    <2> HIDE DEF P
    <2>1. P \in SUBSET SUBSET S
      BY DEF P
    <2> QED
      BY <1>1, <2>1, MinimalSubset
  <1>3. g[U] = IF U = {} THEN 0 ELSE f[First(U)] + g[U \ {First(U)}]
    BY DEF Sums
  <1>4. h[U] = IF U = {} THEN 0 ELSE e[First(U)] + h[U \ {First(U)}]
    BY DEF Sums
  <1>5. U # {}
    BY <1>3, <1>4
  <1>6. First(U) \in U
    BY <1>5, FirstIsMember
  <1>7. g[U \ {First(U)}] = h[U \ {First(U)}]
    BY <1>2, <1>6
  <1> QED
    BY <1>2, <1>3, <1>4, <1>7

LEMMA SumsExist ==
    ASSUME NEW S, IsFiniteSet(S), NEW f
    PROVE  \E g : Sums(g, f, S)
  <1> DEFINE G(U) == CHOOSE g : Sums(g, f, U)
             P == {U \in SUBSET S : ~Sums(G(U), f, U)}
  <1>1. SUFFICES P = {}
    OBVIOUS
  <1>2. SUFFICES ASSUME P # {}
                 PROVE  FALSE
    OBVIOUS
  <1>3. PICK T \in P : \A V \in P : V \subseteq T => V = T
    <2> HIDE DEF P
    <2>1. P \in SUBSET SUBSET S
      BY DEF P
    <2> QED
      BY <1>2, <2>1, MinimalSubset
  <1>4. ASSUME NEW V \in SUBSET T, V # T
        PROVE  Sums(G(V), f, V)
    BY <1>3, <1>4
  <1> DEFINE h == [U \in SUBSET T |-> IF U = {} THEN 0 ELSE
                                      f[First(U)] + G(U \ {First(U)})[U \ {First(U)}]]
  <1>5. IsFiniteSet(T)
    BY <1>3, FS_Subset
  <1>6. ASSUME NEW V \in SUBSET T, V # T
        PROVE  h[V] = G(V)[V]
    <2>1. Sums(G(V), f, V) /\ IsFiniteSet(V)
      BY <1>4, <1>5, <1>6, FS_Subset
    <2> DEFINE g == G(V)
               W == V \ {First(V)}
    <2> HIDE DEF g
    <2>2. Sums(g, f, V)
      BY <2>1 DEF g
    <2>3. g[V] = IF V = {} THEN 0 ELSE f[First(V)] + g[W]
      BY <2>2 DEF Sums
    <2>4. h[V] = IF V = {} THEN 0 ELSE f[First(V)] + G(W)[W]
      OBVIOUS
    <2>5. CASE V = {}
      BY <2>3, <2>4, <2>5 DEF g
    <2>6. CASE V # {}
      <3>1. W \in SUBSET T /\ W # T /\ W \in SUBSET V
        BY <1>6
      <3>2. Sums(G(W), f, W)
        BY <1>4, <3>1
      <3>3. g[W] = G(W)[W]
        BY <2>1, <2>2, <3>1, <3>2, SumsAgree
      <3> QED
        BY <2>3, <2>4, <3>3 DEF g
    <2> QED
      BY <2>5, <2>6
  <1>7. ASSUME NEW U \in SUBSET T, U # {}
        PROVE  G(U \ {First(U)})[U \ {First(U)}] = h[U \ {First(U)}]
    <2>1. First(U) \in U
      BY <1>7, FirstIsMember
    <2> QED
      BY <1>6, <2>1
  <1>8. Sums(h, f, T)
    <2> HIDE DEF G
    <2>1. h = [U \in SUBSET T |-> IF U = {} THEN 0 ELSE f[First(U)] + h[U \ {First(U)}]]
      BY <1>7
    <2> QED
      BY <2>1 DEF Sums
  <1> QED
    BY <1>3, <1>8

LEMMA SumsAreIntegers ==
    ASSUME NEW S, IsFiniteSet(S), NEW f, NEW g, Sums(g, f, S), \A x \in S : f[x] \in Int
    PROVE  \A T \in SUBSET S : g[T] \in Int
  <1> DEFINE P == {U \in SUBSET S : g[U] \notin Int}
  <1>1. SUFFICES ASSUME P # {}
                 PROVE  FALSE
    OBVIOUS
  <1>2. PICK U \in P : \A V \in P : V \subseteq U => V = U
    <2> HIDE DEF P
    <2>1. P \in SUBSET SUBSET S
      BY DEF P
    <2> QED
      BY <1>1, <2>1, MinimalSubset
  <1>3. g[U] = IF U = {} THEN 0 ELSE f[First(U)] + g[U \ {First(U)}]
    BY DEF Sums
  <1>4. U # {}
    BY <1>2, <1>3
  <1>5. First(U) \in U
    BY <1>4, FirstIsMember
  <1>6. g[U \ {First(U)}] \in Int
    BY <1>2, <1>5
  <1> QED
    BY <1>2, <1>3, <1>4, <1>5, <1>6

\* Any element may be taken out of a sum first.
LEMMA SumWithout ==
    ASSUME NEW S, IsFiniteSet(S), NEW f, NEW g, Sums(g, f, S), \A x \in S : f[x] \in Int,
           NEW T \in SUBSET S, NEW y \in T
    PROVE  g[T] = f[y] + g[T \ {y}]
  <1> DEFINE P == {U \in SUBSET S : \E z \in U : g[U] # f[z] + g[U \ {z}]}
  <1>1. SUFFICES ASSUME P # {}
                 PROVE  FALSE
    OBVIOUS
  <1>2. PICK U \in P : \A V \in P : V \subseteq U => V = U
    <2> HIDE DEF P
    <2>1. P \in SUBSET SUBSET S
      BY DEF P
    <2> QED
      BY <1>1, <2>1, MinimalSubset
  <1>3. PICK z \in U : g[U] # f[z] + g[U \ {z}]
    BY <1>2
  <1> DEFINE c == First(U)
  <1>4. c \in U
    BY FirstIsMember
  <1>5. g[U] = f[c] + g[U \ {c}]
    BY DEF Sums
  <1> HIDE DEF c
  <1>6. c # z
    BY <1>3, <1>5
  <1>7. U \ {c} \notin P /\ U \ {z} \notin P
    BY <1>2, <1>4
  <1> DEFINE rest == U \ {c, z}
  <1>8. (U \ {c}) \ {z} = rest /\ (U \ {z}) \ {c} = rest /\ rest \in SUBSET S
    OBVIOUS
  <1>9. g[U \ {c}] = f[z] + g[rest]
    BY <1>6, <1>7, <1>8
  <1>10. g[U \ {z}] = f[c] + g[rest]
    BY <1>4, <1>6, <1>7, <1>8
  <1>11. f[c] \in Int /\ f[z] \in Int /\ g[rest] \in Int
    BY <1>4, <1>8, SumsAreIntegers
  <1> QED
    BY <1>3, <1>5, <1>9, <1>10, <1>11

\* What comes in pairs of opposite sign sums to nothing.
LEMMA PairsCancel ==
    ASSUME NEW S, IsFiniteSet(S), NEW f, NEW g, Sums(g, f, S), \A x \in S : f[x] \in Int,
           NEW p \in [S -> S],
           \A x \in S : p[x] # x /\ p[p[x]] = x /\ f[p[x]] = -f[x]
    PROVE  g[S] = 0
  <1>0. \A T \in SUBSET S : \A z \in T : g[T] = f[z] + g[T \ {z}]
    <2>1. \A x \in S : f[x] \in Int
      OBVIOUS
    <2> SUFFICES ASSUME NEW T \in SUBSET S, NEW z \in T
                 PROVE  g[T] = f[z] + g[T \ {z}]
      OBVIOUS
    <2>2. IsFiniteSet(S) /\ Sums(g, f, S)
      OBVIOUS
    <2> QED
      BY ONLY <2>1, <2>2, SumWithout
  <1> DEFINE P == {U \in SUBSET S : (\A x \in U : p[x] \in U) /\ g[U] # 0}
  <1>1. SUFFICES ASSUME P # {}
                 PROVE  FALSE
    OBVIOUS
  <1>2. PICK U \in P : \A V \in P : V \subseteq U => V = U
    <2> HIDE DEF P
    <2>1. P \in SUBSET SUBSET S
      BY DEF P
    <2> QED
      BY <1>1, <2>1, MinimalSubset
  <1>3. U # {}
    BY <1>2 DEF Sums
  <1>4. PICK x \in U : TRUE
    BY <1>3
  <1>5. PICK y \in U : y = p[x]
    OBVIOUS
  <1>6. y # x /\ p[y] = x /\ f[y] = -f[x] /\ f[x] \in Int
    BY <1>5
  <1> DEFINE rest == U \ {x, y}
  <1>7. rest \in SUBSET S /\ rest = (U \ {x}) \ {y} /\ rest # U
    OBVIOUS
  <1>8. \A z \in rest : p[z] \in rest
    BY <1>5, <1>6
  <1>9. g[rest] = 0
    BY <1>2, <1>7, <1>8
  <1>10. g[U] = f[x] + g[U \ {x}]
    BY <1>0
  <1>11. g[U \ {x}] = f[y] + g[rest]
    BY <1>6, <1>7, SumWithout
  <1> QED
    BY <1>6, <1>9, <1>10, <1>11

\* n is what f adds up to over S.
Adds(f, S, n) == \E g : Sums(g, f, S) /\ n = g[S]

LEMMA AddsNothing == ASSUME NEW f, NEW n, Adds(f, {}, n) PROVE n = 0
  BY DEF Adds, Sums

LEMMA AddsNat ==
    ASSUME NEW S, IsFiniteSet(S), NEW f, NEW n, Adds(f, S, n), \A x \in S : f[x] \in Nat
    PROVE  n \in Nat
  <1>1. PICK g : Sums(g, f, S) /\ n = g[S]
    BY DEF Adds
  <1> DEFINE P == {U \in SUBSET S : g[U] \notin Nat}
  <1>2. SUFFICES ASSUME P # {}
                 PROVE  FALSE
    BY <1>1
  <1>3. PICK U \in P : \A V \in P : V \subseteq U => V = U
    <2> HIDE DEF P
    <2>1. P \in SUBSET SUBSET S
      BY DEF P
    <2> QED
      BY <1>2, <2>1, MinimalSubset
  <1>4. g[U] = IF U = {} THEN 0 ELSE f[First(U)] + g[U \ {First(U)}]
    BY <1>1 DEF Sums
  <1>5. U # {}
    BY <1>3, <1>4
  <1>6. First(U) \in U
    BY <1>5, FirstIsMember
  <1>7. g[U \ {First(U)}] \in Nat
    BY <1>3, <1>6
  <1> QED
    BY <1>3, <1>4, <1>5, <1>6, <1>7

LEMMA AddsSame ==
    ASSUME NEW S, IsFiniteSet(S), NEW f, NEW n, Adds(f, S, n), NEW e, NEW m, Adds(e, S, m),
           \A x \in S : f[x] = e[x]
    PROVE  n = m
  <1>1. PICK g : Sums(g, f, S) /\ n = g[S]
    BY DEF Adds
  <1>2. PICK h : Sums(h, e, S) /\ m = h[S]
    BY DEF Adds
  <1>3. g[S] = h[S]
    BY <1>1, <1>2, SumsAgree
  <1> QED
    BY <1>1, <1>2, <1>3

\* Adding an element to a set adds its value to the sum.
LEMMA AddsOne ==
    ASSUME NEW S, IsFiniteSet(S), NEW y, y \notin S,
           NEW f, NEW n, Adds(f, S, n), NEW e, NEW m, Adds(e, S \cup {y}, m),
           \A x \in S : f[x] = e[x], \A x \in S \cup {y} : e[x] \in Int
    PROVE  m = n + e[y]
  <1> DEFINE T == S \cup {y}
  <1>1. PICK g : Sums(g, f, S) /\ n = g[S]
    BY DEF Adds
  <1>2. PICK h : Sums(h, e, T) /\ m = h[T]
    BY DEF Adds
  <1>3. IsFiniteSet(T)
    BY FS_AddElement
  <1>4. S = T \ {y} /\ y \in T /\ T \in SUBSET T /\ S \in SUBSET T
    OBVIOUS
  <1>5. \A x \in T : e[x] \in Int
    OBVIOUS
  <1> HIDE DEF T
  <1>6. h[T] = e[y] + h[T \ {y}]
    BY ONLY <1>2, <1>3, <1>4, <1>5, SumWithout
  <1>7. g[S] = h[S]
    BY <1>1, <1>2, <1>4, SumsAgree
  <1>8. h[S] \in Int /\ e[y] \in Int
    BY <1>2, <1>3, <1>4, <1>5, SumsAreIntegers
  <1> QED
    BY <1>1, <1>2, <1>4, <1>6, <1>7, <1>8

----------------------------------------------------------------------------
(* The invariant: rows are locked by one session, a checked request still has *)
(* the posted rows it will reverse, and transfers stay whole.                 *)

Exclusion == \A s, u \in Sessions : s # u => locks[s] \cap locks[u] = {}

\* The row whose legs the request is about to reverse.
Target(r) == IF r.op = "delete" THEN Root(r.tx) ELSE r.tx
Reverses(r) == /\ r.op \in {"reverse", "reverse_payment", "delete"} /\ r.checked
               /\ r.op = "delete" => Posted(Target(r))
Held(s, t) == \A u \in Legs(t) : u \in locks[s] /\ Posted(u)
CheckedHeld == \A s \in Sessions : Reverses(req[s]) => Held(s, Target(req[s]))

IsReversal(r) == Exists(r) /\ tx[r].reverses # NoTx
OneReversal ==
    /\ \A r, q \in TxIds : IsReversal(r) /\ IsReversal(q) /\ tx[q].reverses = tx[r].reverses
                              => q = r
    /\ \A t \in TxIds : tx[t].status = "reversed"
                           => \E r \in TxIds : IsReversal(r) /\ tx[r].reverses = t
    /\ \A r \in TxIds : IsReversal(r) => ~Posted(tx[r].reverses)

\* Rows t and u are the two legs of a transfer, or the reversals of its legs.
Paired(t, u) ==
    /\ u # t /\ tx[u].group = tx[t].group /\ tx[u].amount = tx[t].amount
    /\ tx[u].direction = Opposite(tx[t].direction) /\ tx[u].status = tx[t].status
    /\ tx[u].reverses = NoTx <=> tx[t].reverses = NoTx
    /\ tx[t].reverses # NoTx => /\ tx[tx[t].reverses].group # NoTx
                                /\ tx[tx[u].reverses].group = tx[tx[t].reverses].group
Grouped(t, u) == Exists(u) /\ tx[u].group # NoTx /\ tx[u].group = tx[t].group
WholeTransfers ==
    \A t \in TxIds : Exists(t) =>
        /\ tx[t].group # NoTx <=> tx[t].source = "account_transfer"
        /\ tx[t].group # NoTx =>
              \E u \in TxIds : /\ Exists(u) /\ Paired(t, u)
                               /\ \A v \in TxIds : Grouped(t, v) => v \in {t, u}

----------------------------------------------------------------------------
(* What every step does to the ledger: the rows of W get a new status, and *)
(* new rows appear.                                                        *)

Whole(W) == \A t \in W, u \in TxIds : Grouped(t, u) => u \in W
Appears(r) == ~Exists(r) /\ Exists(r)'

NewRow(r, W) ==
    /\ tx'[r].status # "reversed"
    /\ tx'[r].reverses # NoTx => tx'[r].reverses \in W /\ Posted(tx'[r].reverses)
    /\ tx'[r].group # NoTx <=> tx'[r].source = "account_transfer"
    /\ tx'[r].group # NoTx =>
          /\ tx'[r].group \in TxIds /\ ~Exists(tx'[r].group)
          /\ \E u \in TxIds : /\ Appears(u) /\ Paired(r, u)'
                              /\ \A v \in TxIds : Appears(v) /\ Grouped(r, v)' => v \in {r, u}

Rewrites(W, status) ==
    /\ W \in SUBSET TxIds /\ Whole(W) /\ status \in {"reversed", "deleted"}
    /\ \A t \in W : Exists(t) /\ tx'[t] = [tx[t] EXCEPT !.status = status]
    /\ status = "reversed" =>
          \A t \in W : Posted(t) /\ \E r \in TxIds : Appears(r) /\ tx'[r].reverses = t
    /\ \A t \in TxIds \ W : Exists(t) => tx'[t] = tx[t]
    /\ \A r \in TxIds : Appears(r) => NewRow(r, W)
    /\ \A r, q \in TxIds : Appears(r) /\ Appears(q) /\ tx'[r].reverses # NoTx
                              /\ tx'[q].reverses = tx'[r].reverses => q = r

\* An existing row keeps everything but its status.
LEMMA RestatedRow ==
    ASSUME NEW row \in TxRow, NEW status \in {"posted", "reversed", "deleted"},
           NEW new, new = [row EXCEPT !.status = status]
    PROVE  /\ new \in TxRow /\ new.status = status
           /\ new.group = row.group /\ new.reverses = row.reverses
           /\ new.source = row.source /\ new.amount = row.amount
           /\ new.direction = row.direction /\ new.ref = row.ref
  BY DEF TxRow

LEMMA RewrittenRow ==
    ASSUME TypeOK, NEW W, NEW status, Rewrites(W, status), NEW t \in TxIds, Exists(t)
    PROVE  /\ Exists(t)'
           /\ tx'[t].status = IF t \in W THEN status ELSE tx[t].status
           /\ tx'[t].group = tx[t].group /\ tx'[t].reverses = tx[t].reverses
           /\ tx'[t].source = tx[t].source /\ tx'[t].amount = tx[t].amount
           /\ tx'[t].direction = tx[t].direction /\ tx'[t].ref = tx[t].ref
  <1>1. tx[t] \in TxRow
    BY ExistingRow
  <1>2. CASE t \in W
    <2>1. tx'[t] = [tx[t] EXCEPT !.status = status] /\ status \in {"reversed", "deleted"}
      BY <1>2 DEF Rewrites
    <2> DEFINE new == tx'[t]
    <2> status \in {"posted", "reversed", "deleted"}
      BY <2>1
    <2>2. /\ new.status = status
          /\ new.group = tx[t].group /\ new.reverses = tx[t].reverses
          /\ new.source = tx[t].source /\ new.amount = tx[t].amount
          /\ new.direction = tx[t].direction /\ new.ref = tx[t].ref
      BY <1>1, <2>1, RestatedRow
    <2> QED
      BY <1>2, <2>1, <2>2 DEF Exists
  <1>3. CASE t \notin W
    BY <1>3 DEF Rewrites, Exists
  <1> QED
    BY <1>2, <1>3

\* No row is ever posted again.
LEMMA PostedBefore ==
    ASSUME TypeOK, NEW W, NEW status, Rewrites(W, status), NEW t \in TxIds, Exists(t),
           Posted(t)'
    PROVE  Posted(t) /\ t \notin W
  BY RewrittenRow DEF Posted, Rewrites

LEMMA LegsKept ==
    ASSUME Inductive, NEW W, NEW status, Rewrites(W, status), NEW t \in TxIds, Exists(t)
    PROVE  Legs(t)' = Legs(t)
  <1>1. Exists(t)' /\ tx'[t].group = tx[t].group
    BY RewrittenRow DEF Inductive
  <1>2. tx[t].group # NoTx => tx[t].group \in TxIds /\ Exists(tx[t].group)
    BY ExistingRow DEF Inductive, ReferencesResolve, Resolves, TxRow
  <1>3. ASSUME NEW u \in TxIds, tx[t].group # NoTx
        PROVE  Exists(u)' /\ tx'[u].group = tx'[t].group
                  <=> Exists(u) /\ tx[u].group = tx[t].group
    <2>1. CASE Exists(u)
      BY <1>1, <2>1, RewrittenRow DEF Inductive
    <2>2. CASE ~Exists(u)
      <3>1. Exists(u)' => tx'[u].group = NoTx \/ ~Exists(tx'[u].group)
        BY <2>2 DEF Rewrites, Appears, NewRow
      <3> QED
        BY <3>1, <2>2, <1>1, <1>2, <1>3
    <2> QED
      BY <2>1, <2>2
  <1> QED
    BY <1>1, <1>3 DEF Legs

LEMMA RootKept ==
    ASSUME TypeOK, NEW W, NEW status, Rewrites(W, status), NEW t \in TxIds, Exists(t)
    PROVE  Root(t)' = Root(t)
  BY RewrittenRow DEF Root

LEMMA OneReversalKept ==
    ASSUME Inductive, OneReversal, NEW W, NEW status, Rewrites(W, status)
    PROVE  OneReversal'
  <1>1. ASSUME NEW r \in TxIds, IsReversal(r)'
        PROVE  \/ IsReversal(r) /\ tx'[r].reverses = tx[r].reverses
                  /\ tx[r].reverses \in TxIds /\ Exists(tx[r].reverses)
               \/ Appears(r) /\ tx'[r].reverses \in W /\ Posted(tx'[r].reverses)
    <2>1. CASE Exists(r)
      <3>1. tx'[r].reverses = tx[r].reverses
        BY <2>1, RewrittenRow DEF Inductive
      <3>2. tx[r].reverses \in TxIds /\ Exists(tx[r].reverses)
        BY <2>1, <3>1, <1>1, ExistingRow DEF Inductive, ReferencesResolve, Resolves, TxRow,
                                           IsReversal
      <3> QED
        BY <2>1, <3>1, <3>2, <1>1 DEF IsReversal
    <2>2. CASE ~Exists(r)
      BY <2>2, <1>1 DEF Rewrites, Appears, NewRow, IsReversal
    <2> QED
      BY <2>1, <2>2
  <1>2. ASSUME NEW r \in TxIds, NEW q \in TxIds, IsReversal(r)', IsReversal(q)',
               tx'[q].reverses = tx'[r].reverses
        PROVE  q = r
    <2>1. IsReversal(r) => ~Posted(tx[r].reverses)
      BY DEF OneReversal
    <2>2. IsReversal(q) => ~Posted(tx[q].reverses)
      BY DEF OneReversal
    <2>3. CASE IsReversal(r) /\ IsReversal(q)
      BY <1>1, <1>2, <2>3 DEF OneReversal, IsReversal, Appears
    <2>4. CASE Appears(r) /\ Appears(q)
      BY <1>2, <2>4 DEF Rewrites, IsReversal
    <2> QED
      BY <1>1, <1>2, <2>1, <2>2, <2>3, <2>4
  <1>3. ASSUME NEW t \in TxIds, tx'[t].status = "reversed"
        PROVE  \E r \in TxIds : IsReversal(r)' /\ tx'[r].reverses = t
    <2>1. Exists(t)
      BY <1>3 DEF Rewrites, Appears, NewRow, Exists
    <2>2. CASE t \in W
      <3>1. status = "reversed"
        BY <1>3, <2>1, <2>2, RewrittenRow DEF Inductive
      <3>2. PICK r \in TxIds : Appears(r) /\ tx'[r].reverses = t
        BY <2>2, <3>1 DEF Rewrites
      <3>3. t # NoTx
        BY LedgerAssumption DEF TxIds, NoTx
      <3> QED
        BY <3>2, <3>3 DEF IsReversal, Appears
    <2>3. CASE t \notin W
      <3>1. tx[t].status = "reversed"
        BY <1>3, <2>1, <2>3, RewrittenRow DEF Inductive
      <3>2. PICK r \in TxIds : IsReversal(r) /\ tx[r].reverses = t
        BY <3>1 DEF OneReversal
      <3> QED
        BY <3>2, RewrittenRow DEF IsReversal, Inductive
    <2> QED
      BY <2>2, <2>3
  <1>4. ASSUME NEW r \in TxIds, IsReversal(r)'
        PROVE  tx'[tx'[r].reverses].status # "posted"
    <2> DEFINE t == tx'[r].reverses
    <2>1. CASE IsReversal(r) /\ t = tx[r].reverses /\ t \in TxIds /\ Exists(t)
      <3>1. ~Posted(t)
        BY <2>1 DEF OneReversal
      <3> QED
        BY <2>1, <3>1, PostedBefore DEF Inductive, Posted
    <2>2. CASE t \in W
      <3>1. t \in TxIds /\ Exists(t)
        BY <2>2 DEF Rewrites
      <3> QED
        BY <2>2, <3>1, PostedBefore DEF Inductive, Posted
    <2> QED
      BY <1>1, <1>4, <2>1, <2>2
  <1> QED
    BY <1>2, <1>3, <1>4 DEF OneReversal, IsReversal, Posted

LEMMA WholeTransfersKept ==
    ASSUME Inductive, WholeTransfers, NEW W, NEW status, Rewrites(W, status)
    PROVE  WholeTransfers'
  <1> SUFFICES ASSUME NEW t \in TxIds, Exists(t)'
               PROVE  /\ tx'[t].group # NoTx <=> tx'[t].source = "account_transfer"
                      /\ tx'[t].group # NoTx =>
                            \E u \in TxIds :
                               /\ Exists(u)' /\ Paired(t, u)'
                               /\ \A v \in TxIds : Grouped(t, v)' => v \in {t, u}
    BY DEF WholeTransfers
  <1>1. CASE Exists(t)
    <2>1. /\ tx'[t].group = tx[t].group /\ tx'[t].source = tx[t].source
          /\ tx[t].group # NoTx <=> tx[t].source = "account_transfer"
      BY <1>1, RewrittenRow DEF Inductive, WholeTransfers
    <2>2. ASSUME tx[t].group # NoTx
          PROVE  \E u \in TxIds : /\ Exists(u)' /\ Paired(t, u)'
                                  /\ \A v \in TxIds : Grouped(t, v)' => v \in {t, u}
      <3>1. PICK u \in TxIds : /\ Exists(u) /\ Paired(t, u)
                               /\ \A v \in TxIds : Grouped(t, v) => v \in {t, u}
        BY <1>1, <2>2 DEF WholeTransfers
      <3>2. t \in W <=> u \in W
        BY <1>1, <2>2, <3>1 DEF Rewrites, Whole, Grouped, Paired
      <3>3. ASSUME NEW r \in {t, u}
            PROVE  tx[r].reverses # NoTx =>
                      /\ tx[r].reverses \in TxIds /\ Exists(tx[r].reverses)
                      /\ tx'[tx[r].reverses].group = tx[tx[r].reverses].group
        <4>1. tx[r].reverses # NoTx => tx[r].reverses \in TxIds /\ Exists(tx[r].reverses)
          BY <1>1, <3>1, ExistingRow DEF Inductive, ReferencesResolve, Resolves, TxRow
        <4> QED
          BY <4>1, RewrittenRow DEF Inductive
      <3>4. \A r \in {t, u} :
               /\ Exists(r)' /\ tx'[r].status = IF r \in W THEN status ELSE tx[r].status
               /\ tx'[r].group = tx[r].group /\ tx'[r].reverses = tx[r].reverses
               /\ tx'[r].amount = tx[r].amount /\ tx'[r].direction = tx[r].direction
        BY <1>1, <3>1, RewrittenRow DEF Inductive
      <3>5. Exists(u)' /\ Paired(t, u)'
        BY <3>1, <3>2, <3>3, <3>4 DEF Paired
      <3>6. ASSUME NEW v \in TxIds, Grouped(t, v)'
            PROVE  v \in {t, u}
        <4>1. Exists(v)' /\ tx'[v].group = tx[t].group
          BY <3>6, <2>1 DEF Grouped
        <4>2. Legs(t)' = Legs(t)
          BY <1>1, LegsKept
        <4>3. Exists(v) /\ tx[v].group = tx[t].group
          BY <4>1, <4>2, <2>1, <2>2 DEF Legs
        <4> QED
          BY <4>3, <2>2, <3>1 DEF Grouped
      <3> QED
        BY <3>5, <3>6
    <2> QED
      BY <2>1, <2>2
  <1>2. CASE ~Exists(t)
    <2>1. Appears(t) /\ NewRow(t, W)
      BY <1>2 DEF Appears, Rewrites
    <2>2. ASSUME tx'[t].group # NoTx
          PROVE  \E u \in TxIds : /\ Exists(u)' /\ Paired(t, u)'
                                  /\ \A v \in TxIds : Grouped(t, v)' => v \in {t, u}
      <3>1. PICK u \in TxIds : /\ Appears(u) /\ Paired(t, u)'
                               /\ \A v \in TxIds : Appears(v) /\ Grouped(t, v)' => v \in {t, u}
        BY <2>1, <2>2 DEF NewRow
      <3>2. ASSUME NEW v \in TxIds, Grouped(t, v)'
            PROVE  Appears(v)
        <4>1. Exists(v)' /\ tx'[v].group = tx'[t].group /\ ~Exists(tx'[t].group)
          BY <2>1, <2>2, <3>2 DEF NewRow, Grouped
        <4>2. Exists(v) => tx[v].group = tx'[v].group
          BY RewrittenRow DEF Inductive
        <4>3. Exists(v) => tx[v].group = NoTx \/ Exists(tx[v].group)
          BY DEF Inductive, ReferencesResolve, Resolves
        <4> QED
          BY <4>1, <4>2, <4>3, <2>2 DEF Appears
      <3> QED
        BY <3>1, <3>2 DEF Appears
    <2> QED
      BY <2>1, <2>2 DEF NewRow
  <1> QED
    BY <1>1, <1>2

----------------------------------------------------------------------------
(* What is left to show of a step. *)

LEMMA HistoryStep ==
    ASSUME Inductive, NEW W, NEW status, Rewrites(W, status), NEW t \in TxIds, Exists(t)
    PROVE  /\ [tx'[t] EXCEPT !.status = "posted"] = [tx[t] EXCEPT !.status = "posted"]
           /\ Rank(tx[t].status) <= Rank(tx'[t].status)
  <1>1. tx[t] \in TxRow
    BY ExistingRow DEF Inductive
  <1>2. \A st \in {"posted", "reversed", "deleted"} :
           /\ Rank("posted") <= Rank(st) /\ Rank(st) <= Rank("deleted")
           /\ Rank(st) <= Rank(st)
    BY DEF Rank
  <1>3. CASE t \in W
    <2>1. /\ tx'[t] = [tx[t] EXCEPT !.status = status] /\ status \in {"reversed", "deleted"}
          /\ status = "deleted" \/ tx[t].status = "posted"
      BY <1>3 DEF Rewrites, Posted
    <2>2. /\ tx'[t].status = status
          /\ [tx'[t] EXCEPT !.status = "posted"] = [tx[t] EXCEPT !.status = "posted"]
      BY <1>1, <2>1 DEF TxRow
    <2>3. tx[t].status \in {"posted", "reversed", "deleted"}
      BY <1>1 DEF TxRow
    <2> QED
      BY <1>2, <2>1, <2>2, <2>3
  <1>4. CASE t \notin W
    <2>1. tx'[t] = tx[t] /\ tx[t].status \in {"posted", "reversed", "deleted"}
      BY <1>1, <1>4 DEF Rewrites, TxRow
    <2> QED
      BY <1>2, <2>1
  <1> QED
    BY <1>3, <1>4

\* A request of another session, or one that goes on, still has its rows.
LEMMA HeldKept ==
    ASSUME Inductive, CheckedHeld, NEW W, NEW status, Rewrites(W, status),
           NEW u \in Sessions, W \cap locks[u] = {}, req'[u] = req[u], locks[u] \subseteq locks'[u],
           Reverses(req[u])'
    PROVE  Held(u, Target(req[u]))'
  <1>1. PICK r \in Request : /\ r = req[u] /\ Sound(r)
                             /\ r.op \in {"reverse", "reverse_payment", "delete"}
    BY DEF Inductive, TypeOK, RequestSound, Reverses, Idle
  <1>2. PICK x \in TxIds : x = r.tx /\ Exists(x)
    BY <1>1 DEF Request, Sound, PaymentsOf
  <1>3. PICK t \in TxIds : t = Target(r) /\ Exists(t)
    BY <1>2, RootIsRow DEF Target
  <1>4. Target(req[u])' = t
    <2>1. Root(x)' = Root(x)
      BY <1>2, RootKept DEF Inductive
    <2>2. req[u]' = r /\ Target(r)' = IF r.op = "delete" THEN Root(x)' ELSE x
      BY <1>1, <1>2 DEF Target
    <2> QED
      BY <2>1, <2>2, <1>2, <1>3 DEF Target
  <1>5. Reverses(r)
    <2>1. r.checked /\ (r.op = "delete" => tx'[t].status = "posted")
      BY <1>1, <1>4 DEF Reverses, Posted
    <2>2. tx'[t].status = "posted" => Posted(t)
      BY <1>3, PostedBefore DEF Inductive, Posted
    <2> QED
      BY <1>1, <1>3, <2>1, <2>2 DEF Reverses
  <1>6. Held(u, t)
    BY <1>1, <1>3, <1>5 DEF CheckedHeld
  <1>7. Legs(t)' = Legs(t) /\ Legs(t) \in SUBSET TxIds /\ \A v \in Legs(t) : Exists(v)
    BY <1>3, LegsKept, ExistingLegs
  <1>8. \A v \in Legs(t) : v \in locks'[u] /\ tx'[v].status = "posted"
    BY <1>6, <1>7, RewrittenRow DEF Held, Posted, Inductive
  <1> QED
    BY <1>4, <1>7, <1>8 DEF Held, Posted

Books == Inductive /\ Exclusion /\ CheckedHeld /\ OneReversal /\ WholeTransfers

\* What every step of the system does.
KeepsBooks == /\ Books'
              /\ \E W \in SUBSET TxIds, status \in {"reversed", "deleted"} : Rewrites(W, status)

LEMMA StepKeepsBooks ==
    ASSUME Books, Inductive', Exclusion', NEW s \in Sessions,
           NEW W \in SUBSET locks[s], NEW status, Rewrites(W, status),
           \A u \in Sessions : u # s => req'[u] = req[u] /\ locks'[u] = locks[u],
           Reverses(req[s])' => Held(s, Target(req[s]))'
    PROVE  KeepsBooks
  <1>1. OneReversal' /\ WholeTransfers'
    BY OneReversalKept, WholeTransfersKept DEF Books
  <1>2. ASSUME NEW u \in Sessions, Reverses(req[u])'
        PROVE  Held(u, Target(req[u]))'
    <2>1. CASE u = s
      BY <1>2, <2>1
    <2>2. CASE u # s
      <3>1. W \cap locks[u] = {}
        BY <2>2 DEF Books, Exclusion
      <3> QED
        BY <1>2, <2>2, <3>1, HeldKept DEF Books
    <2> QED
      BY <2>1, <2>2
  <1>3. CheckedHeld'
    BY <1>2 DEF CheckedHeld
  <1> QED
    BY <1>1, <1>3 DEF Books, KeepsBooks, Rewrites

LEMMA NothingRewritten ==
    ASSUME tx' = tx
    PROVE  Rewrites({}, "deleted")
  BY DEF Rewrites, Whole, Appears, Exists

LEMMA EndExcludes ==
    ASSUME Books, NEW s \in Sessions, req' = [req EXCEPT ![s] = Idle],
           locks' = [locks EXCEPT ![s] = {}] \/ UNCHANGED locks
    PROVE  /\ Exclusion' /\ ~Reverses(req[s])'
           /\ \A u \in Sessions : u # s => req'[u] = req[u] /\ locks'[u] = locks[u]
  BY DEF Books, Inductive, TypeOK, Exclusion, Reverses, Idle

LEMMA EndKeepsBooks ==
    ASSUME Books, Inductive', NEW s \in Sessions, End(s),
           NEW W \in SUBSET locks[s], NEW status, Rewrites(W, status)
    PROVE  KeepsBooks
  BY EndExcludes, StepKeepsBooks DEF End

LEMMA BeginKeepsBooks ==
    ASSUME Books, Inductive', NEW s \in Sessions, NEW op, NEW r, Begin(s, op, r),
           r.op \in {"reverse", "reverse_payment", "delete"} => ~r.checked
    PROVE  KeepsBooks
  <1>1. /\ req' = [req EXCEPT ![s] = r] /\ UNCHANGED <<tx, locks>>
    BY DEF Begin
  <1>2. Exclusion' /\ ~Reverses(req[s])'
        /\ \A u \in Sessions : u # s => req'[u] = req[u] /\ locks'[u] = locks[u]
    BY <1>1 DEF Books, Inductive, TypeOK, Exclusion, Reverses
  <1> QED
    BY <1>1, <1>2, NothingRewritten, StepKeepsBooks

\* One new row that stands for itself.
LEMMA InsertionRewrites ==
    ASSUME Inductive, NEW t \in TxIds, NEW row \in TxRow, Insert(t, row), row.status = "posted",
           row.reverses = NoTx, row.group = NoTx, row.source # "account_transfer"
    PROVE  Rewrites({}, "deleted")
  <1>1. ~Exists(t) /\ tx'[t] = row /\ \A u \in TxIds : u # t => tx'[u] = tx[u]
    BY InsertedRow DEF Inductive
  <1> QED
    BY <1>1 DEF Rewrites, Whole, Appears, NewRow, Exists

LEMMA StagesHeld ==
    ASSUME NEW stages, NEW L, NEW n \in {1, 2, 3}, DOMAIN stages = 1..n,
           (UNION {stages[i] : i \in {i \in DOMAIN stages :
                                       \A j \in 1..(i - 1) : stages[j] \subseteq L}}) \ L = {}
    PROVE  \A i \in 1..n : stages[i] \subseteq L
  <1> DEFINE reached == {i \in DOMAIN stages : \A j \in 1..(i - 1) : stages[j] \subseteq L}
  <1>1. ASSUME NEW i \in reached
        PROVE  stages[i] \subseteq L
    <2> HIDE DEF reached
    <2>1. (UNION {stages[k] : k \in reached}) \ L = {}
      BY DEF reached
    <2> DEFINE U == UNION {stages[k] : k \in reached}
    <2>2. stages[i] \subseteq U
      OBVIOUS
    <2> HIDE DEF U
    <2>3. U \subseteq L
      BY <2>1 DEF U
    <2> QED
      BY <2>2, <2>3
  <1>2. 1 \in reached
    <2>1. 1 \in 1..n /\ \A j \in 1..(1 - 1) : FALSE
      OBVIOUS
    <2> QED
      BY <2>1
  <1>3. 2 \in 1..n => 2 \in reached
    <2>1. 2 \in 1..n => \A j \in 1..(2 - 1) : j = 1
      OBVIOUS
    <2> QED
      BY <1>1, <1>2, <2>1
  <1>4. 3 \in 1..n => 3 \in reached
    <2>1. 3 \in 1..n => 2 \in 1..n /\ \A j \in 1..(3 - 1) : j = 1 \/ j = 2
      OBVIOUS
    <2> QED
      BY <1>1, <1>2, <1>3, <2>1
  <1>5. \A i \in 1..n : i = 1 \/ i = 2 \/ i = 3
    OBVIOUS
  <1> QED
    BY <1>1, <1>2, <1>3, <1>4, <1>5

----------------------------------------------------------------------------
(* Reversing or deleting rows, as a rewriting of them. *)

\* Row r undoes row t.
Undoes(r, t) == /\ r.reverses = t /\ r.source = tx[t].source /\ r.amount = tx[t].amount
                /\ r.direction = Opposite(tx[t].direction)

\* The new rows are the reversals of the rows of W, and are deleted with them.
Undone(W) == /\ \A r \in TxIds : Appears(r) => LET t == tx'[r].reverses IN
                   /\ t \in W /\ Undoes(tx'[r], t)
                   /\ tx'[r].status = "deleted" <=> tx'[t].status = "deleted"
             /\ \A t \in W : \E r \in TxIds : Appears(r) /\ tx'[r].reverses = t

LEMMA ReversingRewrites ==
    ASSUME Inductive, WholeTransfers, NEW S \in SUBSET TxIds, \A t \in S : Posted(t),
           Whole(S), \A t, u \in S : tx[u].group = tx[t].group, NEW f \in Allocations(S),
           NEW old \in {"reversed", "deleted"}, NEW new \in {"posted", "deleted"},
           old = "deleted" <=> new = "deleted",
           \A t \in S : tx'[t] = [tx[t] EXCEPT !.status = old],
           \A t \in S :
              /\ Undoes(tx'[f[t]], t) /\ tx'[f[t]].status = new
              /\ tx'[f[t]].group = IF tx[t].group = NoTx THEN NoTx ELSE NewGroup(S, f),
           \A u \in TxIds : (u \notin S /\ \A t \in S : f[t] # u) => tx'[u] = tx[u]
    PROVE  Rewrites(S, old) /\ Undone(S)
  <1>1. \A t \in S : Exists(t)
    BY DEF Posted, Exists
  <1>2. /\ f \in [S -> TxIds] /\ \A t \in S : ~Exists(f[t])
        /\ \A t, u \in S : f[t] = f[u] => t = u
    BY <1>1, ReversedRows DEF Inductive
  <1>3. \A t \in S : Appears(f[t])
    BY <1>2 DEF Appears, Exists
  <1>4. ASSUME NEW r \in TxIds, Appears(r)
        PROVE  \E t \in S : f[t] = r
    <2>1. r \notin S
      BY <1>1, <1>4 DEF Appears
    <2> QED
      BY <2>1, <1>4 DEF Appears, Exists
  <1>5. S # {} => NewGroup(S, f) \in TxIds /\ ~Exists(NewGroup(S, f))
    <2> SUFFICES ASSUME NEW t \in S
                 PROVE  NewGroup(S, f) \in TxIds /\ ~Exists(NewGroup(S, f))
      OBVIOUS
    <2>1. f[t] \in {f[i] : i \in S}
      OBVIOUS
    <2>2. NewGroup(S, f) \in {f[i] : i \in S}
      BY <2>1 DEF NewGroup
    <2> QED
      BY <2>2, <1>2
  <1>6. NoTx \notin TxIds
    BY LedgerAssumption DEF TxIds, NoTx
  <1>7. ASSUME NEW t \in S
        PROVE  tx'[t].group = tx[t].group /\ tx'[t].status = old
    <2>1. tx[t] \in TxRow /\ tx'[t] = [tx[t] EXCEPT !.status = old]
      BY <1>1, ExistingRow DEF Inductive
    <2> DEFINE row == tx'[t]
    <2> HIDE DEF row
    <2>2. row = [tx[t] EXCEPT !.status = old] /\ old \in {"posted", "reversed", "deleted"}
      BY <2>1 DEF row
    <2>3. row.group = tx[t].group /\ row.status = old
      BY <2>1, <2>2, RestatedRow
    <2> QED
      BY <2>3 DEF row
  <1>8. ASSUME NEW r \in TxIds, Appears(r)
        PROVE  NewRow(r, S)
    <2>1. PICK t \in S : f[t] = r
      BY <1>4, <1>8
    <2>2. /\ tx'[r].status # "reversed" /\ tx'[r].reverses = t /\ Posted(t)
          /\ tx'[r].source = tx[t].source
          /\ tx'[r].group = IF tx[t].group = NoTx THEN NoTx ELSE NewGroup(S, f)
      BY <2>1 DEF Undoes
    <2>3. tx'[r].group # NoTx <=> tx[t].group # NoTx
      BY <2>2, <1>5, <1>6
    <2>4. tx[t].group # NoTx <=> tx[t].source = "account_transfer"
      BY <1>1 DEF WholeTransfers
    <2>5. ASSUME tx'[r].group # NoTx
          PROVE  /\ tx'[r].group \in TxIds /\ ~Exists(tx'[r].group)
                 /\ \E u \in TxIds :
                       /\ Appears(u) /\ Paired(r, u)'
                       /\ \A v \in TxIds : Appears(v) /\ Grouped(r, v)' => v \in {r, u}
      <3>1. tx'[r].group = NewGroup(S, f)
        BY <2>2, <2>5
      <3>2. PICK x \in TxIds : /\ Exists(x) /\ Paired(t, x)
                               /\ \A v \in TxIds : Grouped(t, v) => v \in {t, x}
        BY <1>1, <2>3, <2>5 DEF WholeTransfers
      <3>3. x \in S
        BY <3>2, <2>3, <2>5 DEF Whole, Grouped, Paired
      <3> DEFINE u == f[x]
      <3>4. u \in TxIds /\ Appears(u) /\ u # r
        BY <1>2, <1>3, <2>1, <3>2, <3>3 DEF Paired
      <3>5. Paired(r, u)'
        <4>1. /\ Undoes(tx'[r], t) /\ Undoes(tx'[u], x)
              /\ tx'[r].status = new /\ tx'[u].status = new
              /\ tx'[u].group = NewGroup(S, f)
          BY <2>1, <2>3, <2>5, <3>2, <3>3 DEF Paired
        <4>2. /\ tx[x].amount = tx[t].amount /\ tx[x].group = tx[t].group
              /\ tx[x].direction = Opposite(tx[t].direction)
          BY <3>2 DEF Paired
        <4>3. t # NoTx /\ x # NoTx /\ tx'[t].group # NoTx /\ tx'[x].group = tx'[t].group
          BY <1>6, <1>7, <2>3, <2>5, <3>3, <4>2
        <4> HIDE DEF u
        <4> QED
          BY <3>1, <3>4, <4>1, <4>2, <4>3 DEF Paired, Undoes
      <3>6. ASSUME NEW v \in TxIds, Appears(v), Grouped(r, v)'
            PROVE  v \in {r, u}
        <4>1. PICK w \in S : f[w] = v
          BY <1>4, <3>6
        <4>2. Grouped(t, w)
          BY <1>1, <2>3, <2>5 DEF Grouped
        <4> QED
          BY <2>1, <3>2, <4>1, <4>2
      <3> QED
        BY <3>1, <3>4, <3>5, <3>6, <1>5
    <2> QED
      BY <2>2, <2>3, <2>4, <2>5 DEF NewRow
  <1>9. ASSUME NEW r \in TxIds, NEW q \in TxIds, Appears(r), Appears(q),
               tx'[q].reverses = tx'[r].reverses
        PROVE  q = r
    BY <1>4, <1>9 DEF Undoes
  <1>10. old = "reversed" =>
            \A t \in S : Posted(t) /\ \E r \in TxIds : Appears(r) /\ tx'[r].reverses = t
    BY <1>2, <1>3 DEF Undoes
  <1>11. \A t \in TxIds \ S : Exists(t) => tx'[t] = tx[t]
    BY <1>2
  <1>12. Undone(S)
    <2>1. ASSUME NEW r \in TxIds, Appears(r)
          PROVE  /\ tx'[r].reverses \in S /\ Undoes(tx'[r], tx'[r].reverses)
                 /\ tx'[r].status = "deleted" <=> tx'[tx'[r].reverses].status = "deleted"
      <3>1. PICK t \in S : f[t] = r
        BY <1>4, <2>1
      <3>2. Undoes(tx'[r], t) /\ tx'[r].status = new /\ tx'[t].status = old
        BY <1>7, <3>1
      <3>3. tx'[r].reverses = t
        BY <3>2 DEF Undoes
      <3> QED
        BY <3>2, <3>3
    <2>2. \A t \in S : \E r \in TxIds : Appears(r) /\ tx'[r].reverses = t
      BY <1>2, <1>3 DEF Undoes
    <2> QED
      BY <2>1, <2>2 DEF Undone
  <1> QED
    BY <1>1, <1>8, <1>9, <1>10, <1>11, <1>12 DEF Rewrites

LEMMA LegsAreWhole ==
    ASSUME Inductive, NEW t \in TxIds, Exists(t)
    PROVE  Whole(Legs(t)) /\ \A v, u \in Legs(t) : tx[u].group = tx[v].group
  BY DEF Whole, Legs, Grouped

LEMMA PaymentsAreWhole ==
    ASSUME Inductive, WholeTransfers, NEW S \in SUBSET TxIds,
           \A t \in S : Exists(t) /\ tx[t].source = "bill_payment"
    PROVE  Whole(S) /\ \A t \in S : tx[t].group = NoTx
  BY DEF WholeTransfers, Whole, Grouped

\* A chain holds transfers whole, and the reversals of their legs.
LEMMA ChainIsWhole ==
    ASSUME Inductive, WholeTransfers, NEW t \in TxIds, Exists(t)
    PROVE  Whole(Chain(t)) /\ \A u \in Chain(t) : Exists(u)
  <1>1. \A u \in RootIds(t) : u \in TxIds /\ Exists(u)
    BY ExistingLegs DEF RootIds
  <1>2. \A u \in Chain(t) : u \in TxIds /\ Exists(u)
    BY <1>1 DEF Chain, ReversalsOf
  <1>3. ASSUME NEW u \in RootIds(t), NEW v \in TxIds, Grouped(u, v)
        PROVE  v \in RootIds(t)
    <2>1. tx[u].group # NoTx /\ u \in TxIds /\ Exists(u)
      BY <1>1, <1>3 DEF Grouped
    <2>2. tx[t].group # NoTx /\ tx[u].group = tx[t].group /\ tx[u].reverses = NoTx
      BY <2>1 DEF RootIds, Legs
    <2>3. tx[v].reverses = NoTx
      BY <1>3, <2>1, <2>2 DEF WholeTransfers, Paired
    <2> QED
      BY <1>3, <2>2, <2>3 DEF RootIds, Legs, Grouped
  <1>4. ASSUME NEW w \in RootIds(t), NEW u \in ReversalsOf(w), NEW v \in TxIds, Grouped(u, v)
        PROVE  \E x \in RootIds(t) : v \in ReversalsOf(x)
    <2>1. u \in TxIds /\ Exists(u) /\ tx[u].reverses = w /\ tx[u].group # NoTx
      BY <1>4 DEF ReversalsOf, Grouped
    <2>2. PICK p \in TxIds : /\ Exists(p) /\ Paired(u, p)
                             /\ \A y \in TxIds : Grouped(u, y) => y \in {u, p}
      BY <2>1 DEF WholeTransfers
    <2>3. CASE v = u
      BY <2>3
    <2>4. CASE v = p
      <3> DEFINE x == tx[p].reverses
      <3>1. w # NoTx
        BY <1>1, LedgerAssumption DEF TxIds, NoTx
      <3>2. x # NoTx /\ tx[w].group # NoTx /\ tx[x].group = tx[w].group
        BY <2>1, <2>2, <3>1 DEF Paired
      <3>3. x \in TxIds /\ Exists(x)
        BY <2>2, <3>2, ExistingRow DEF Inductive, ReferencesResolve, Resolves, TxRow
      <3>4. x \in RootIds(t)
        BY <1>3, <3>2, <3>3 DEF Grouped
      <3> QED
        BY <2>2, <2>4, <3>4 DEF ReversalsOf
    <2> QED
      BY <1>4, <2>2, <2>3, <2>4
  <1>5. Whole(Chain(t))
    BY <1>3, <1>4 DEF Whole, Chain
  <1> QED
    BY <1>2, <1>5

----------------------------------------------------------------------------
(* The requests commit. *)

LEMMA ReversingRows ==
    ASSUME Inductive, WholeTransfers, NEW S \in SUBSET TxIds, \A t \in S : Posted(t),
           Whole(S), \A t, u \in S : tx[u].group = tx[t].group, NEW f \in Allocations(S),
           tx' = Reversing(S, f)
    PROVE  Rewrites(S, "reversed") /\ Undone(S)
  <1>1. \A t \in S : Exists(t)
    BY DEF Posted, Exists
  <1>2. ASSUME NEW t \in S
        PROVE  /\ Undoes(tx'[f[t]], t) /\ tx'[f[t]].status = "posted"
               /\ tx'[f[t]].group = IF tx[t].group = NoTx THEN NoTx ELSE NewGroup(S, f)
    <2>1. PICK g \in TxIds \cup {NoTx} :
             /\ tx'[f[t]] = Reversal(t, g)
             /\ g = IF tx[t].group = NoTx THEN NoTx ELSE NewGroup(S, f)
      BY <1>1, ReversedRows DEF Inductive
    <2> QED
      BY <1>1, <2>1, ReversalRow DEF Inductive, Undoes
  <1>3. /\ \A t \in S : tx'[t] = [tx[t] EXCEPT !.status = "reversed"]
        /\ \A u \in TxIds : (u \notin S /\ \A t \in S : f[t] # u) => tx'[u] = tx[u]
    BY <1>1, ReversedRows DEF Inductive
  <1> QED
    BY <1>2, <1>3, ReversingRewrites

LEMMA CommitReverseRewrites ==
    ASSUME Books, NEW s \in Sessions, CommitReverse(s), NEW t, t = req[s].tx,
           NEW S, S = Legs(t)
    PROVE  /\ t \in TxIds /\ Reverses(req[s]) /\ Held(s, t)
           /\ S \in SUBSET locks[s] /\ Rewrites(S, "reversed") /\ Undone(S)
  <1>1. PICK op \in {"reverse", "reverse_payment"} : Ready(s, op)
    BY DEF CommitReverse
  <1>2. /\ req[s] \in Request /\ Sound(req[s]) /\ req[s].op = op
    BY <1>1, ReadyRequest DEF Locking, Books
  <1>3. t \in TxIds /\ Exists(t)
    BY <1>2 DEF Request, Sound, PaymentsOf
  <1>4. Reverses(req[s]) /\ Held(s, t)
    BY <1>1, <1>2 DEF Books, CheckedHeld, Reverses, Target, Ready
  <1>5. PICK f \in Allocations(S) : tx' = Reversing(S, f)
    BY DEF CommitReverse
  <1>7. /\ S \in SUBSET TxIds /\ S \in SUBSET locks[s] /\ \A u \in S : Posted(u)
        /\ Whole(S) /\ \A v, u \in S : tx[u].group = tx[v].group
    BY <1>3, <1>4, ExistingLegs, LegsAreWhole DEF Held, Books
  <1>8. Rewrites(S, "reversed") /\ Undone(S)
    BY <1>5, <1>7, ReversingRows DEF Books
  <1> QED
    BY <1>3, <1>4, <1>7, <1>8

LEMMA CommitReverseKeepsBooks ==
    ASSUME Books, Inductive', NEW s \in Sessions, CommitReverse(s)
    PROVE  KeepsBooks
  <1>1. PICK S : S \in SUBSET locks[s] /\ Rewrites(S, "reversed")
    BY CommitReverseRewrites
  <1> QED
    BY <1>1, EndKeepsBooks DEF CommitReverse

LEMMA CommitVoidRewrites ==
    ASSUME Books, NEW s \in Sessions, CommitVoid(s), NEW S, S = LivePayments(req[s].bill)
    PROVE  S \in SUBSET locks[s] /\ Rewrites(S, "reversed") /\ Undone(S)
  <1> DEFINE stages == <<S>>
  <1>1. /\ req[s].op = "void" /\ req[s].checked /\ NextRows(s) = {}
    BY DEF CommitVoid, Ready
  <1>2. S \subseteq locks[s]
    <2>1. EffectStages(req[s]) = stages
      BY <1>1 DEF EffectStages
    <2>2. (UNION {stages[i] : i \in {i \in DOMAIN stages :
                                 \A j \in 1..(i - 1) : stages[j] \subseteq locks[s]}})
              \ locks[s] = {}
      BY <1>1, <2>1 DEF NextRows
    <2>3. DOMAIN stages = 1..1 /\ stages[1] = S
      OBVIOUS
    <2> HIDE DEF stages
    <2>4. \A i \in 1..1 : stages[i] \subseteq locks[s]
      BY <2>2, <2>3, StagesHeld
    <2> QED
      BY <2>3, <2>4
  <1>3. PICK f \in Allocations(S) : tx' = Reversing(S, f)
    BY DEF CommitVoid
  <1>4. /\ S \in SUBSET TxIds /\ S \in SUBSET locks[s]
        /\ \A t \in S : Posted(t) /\ Exists(t) /\ tx[t].source = "bill_payment"
    BY <1>2 DEF LivePayments, PaymentsOf, IsPayment
  <1>5. Whole(S) /\ \A t, u \in S : tx[u].group = tx[t].group
    BY <1>4, PaymentsAreWhole DEF Books
  <1>6. Rewrites(S, "reversed") /\ Undone(S)
    BY <1>3, <1>4, <1>5, ReversingRows DEF Books
  <1> QED
    BY <1>4, <1>6

LEMMA CommitVoidKeepsBooks ==
    ASSUME Books, Inductive', NEW s \in Sessions, CommitVoid(s)
    PROVE  KeepsBooks
  <1>1. PICK S : S \in SUBSET locks[s] /\ Rewrites(S, "reversed")
    BY CommitVoidRewrites
  <1> QED
    BY <1>1, EndKeepsBooks DEF CommitVoid

\* Reversing rows and deleting them with their reversals, in one transaction.
LEMMA DeletingReversedRows ==
    ASSUME Inductive, WholeTransfers, NEW S \in SUBSET TxIds, \A t \in S : Posted(t),
           Whole(S), \A t, u \in S : tx[u].group = tx[t].group, NEW f \in Allocations(S),
           tx' = [u \in TxIds |-> IF u \in S \cup {f[t] : t \in S}
                                  THEN [Reversing(S, f)[u] EXCEPT !.status = "deleted"]
                                  ELSE Reversing(S, f)[u]]
    PROVE  Rewrites(S, "deleted") /\ Undone(S)
  <1> DEFINE R == Reversing(S, f)
  <1>1. \A t \in S : Exists(t)
    BY DEF Posted, Exists
  <1>2. /\ f \in [S -> TxIds]
        /\ \A t \in S : R[t] = [tx[t] EXCEPT !.status = "reversed"]
        /\ \A t \in S : \E g \in TxIds \cup {NoTx} :
              /\ R[f[t]] = Reversal(t, g)
              /\ g = IF tx[t].group = NoTx THEN NoTx ELSE NewGroup(S, f)
        /\ \A u \in TxIds : (u \notin S /\ \A t \in S : f[t] # u) => R[u] = tx[u]
    BY <1>1, ReversedRows DEF Inductive
  <1> HIDE DEF R
  <1>3. \A u \in TxIds : tx'[u] = IF u \in S \cup {f[t] : t \in S}
                                  THEN [R[u] EXCEPT !.status = "deleted"] ELSE R[u]
    BY DEF R
  <1>4. ASSUME NEW t \in S
        PROVE  tx'[t] = [tx[t] EXCEPT !.status = "deleted"]
    <2>1. tx'[t] = [R[t] EXCEPT !.status = "deleted"]
      BY <1>3
    <2>2. PICK row \in TxRow : row = tx[t]
      BY <1>1, ExistingRow DEF Inductive
    <2>3. R[t] = [row EXCEPT !.status = "reversed"]
      BY <1>2, <2>2
    <2>4. [[row EXCEPT !.status = "reversed"] EXCEPT !.status = "deleted"]
             = [row EXCEPT !.status = "deleted"]
      BY DEF TxRow
    <2> QED
      BY <2>1, <2>2, <2>3, <2>4
  <1>5. ASSUME NEW t \in S
        PROVE  /\ Undoes(tx'[f[t]], t) /\ tx'[f[t]].status = "deleted"
               /\ tx'[f[t]].group = IF tx[t].group = NoTx THEN NoTx ELSE NewGroup(S, f)
    <2>1. PICK g \in TxIds \cup {NoTx} :
             /\ R[f[t]] = Reversal(t, g)
             /\ g = IF tx[t].group = NoTx THEN NoTx ELSE NewGroup(S, f)
      BY <1>2
    <2>2. PICK row \in TxRow :
             /\ row = Reversal(t, g) /\ row.group = g /\ Undoes(row, t)
      BY <1>1, ReversalRow DEF Inductive, Undoes
    <2>3. tx'[f[t]] = [row EXCEPT !.status = "deleted"]
      BY <1>2, <1>3, <2>1, <2>2
    <2>4. PICK new : new = tx'[f[t]]
      OBVIOUS
    <2>5. new \in TxRow /\ new.status = "deleted" /\ new.group = row.group
          /\ new.reverses = row.reverses /\ new.source = row.source
          /\ new.amount = row.amount /\ new.direction = row.direction
      BY <2>3, <2>4, RestatedRow
    <2> QED
      BY <2>1, <2>2, <2>4, <2>5 DEF Undoes
  <1>6. \A u \in TxIds : (u \notin S /\ \A t \in S : f[t] # u) => tx'[u] = tx[u]
    BY <1>2, <1>3
  <1> QED
    BY <1>4, <1>5, <1>6, ReversingRewrites

LEMMA CommitDeleteRewrites ==
    ASSUME Books, NEW s \in Sessions, CommitDelete(s), NEW root, root = Root(req[s].tx)
    PROVE  /\ root \in TxIds /\ Exists(root)
           /\ \E S \in SUBSET locks[s] :
                 /\ Rewrites(S, "deleted")
                 /\ \/ /\ Posted(root) /\ Reverses(req[s]) /\ Held(s, root)
                       /\ S = Legs(root) /\ Undone(S)
                       /\ UnwindBill(root) /\ UnwindLoan(root)
                    \/ /\ ~Posted(root) /\ S = Chain(root) /\ \A r \in TxIds : ~Appears(r)
                       /\ UNCHANGED <<bill, loan>>
  <1> DEFINE Deleting(rows, doomed) == [u \in TxIds |-> IF u \in doomed
                                          THEN [rows[u] EXCEPT !.status = "deleted"]
                                          ELSE rows[u]]
  <1>1. req[s].op = "delete" /\ req[s].checked /\ NextRows(s) = {}
    BY DEF CommitDelete, Ready
  <1>2. root \in TxIds /\ Exists(root)
    <2>1. req[s] \in Request /\ Sound(req[s])
      BY <1>1, ReadyRequest DEF Locking, Books, Ready
    <2>2. req[s].tx \in TxIds /\ Exists(req[s].tx)
      BY <1>1, <2>1 DEF Request, Sound
    <2> QED
      BY <2>2, RootIsRow DEF Books
  <1>3. CASE /\ Posted(root)
             /\ \E f \in Allocations(Legs(root)) :
                    tx' = Deleting(Reversing(Legs(root), f),
                                   Legs(root) \cup {f[u] : u \in Legs(root)})
             /\ UnwindBill(root) /\ UnwindLoan(root)
    <2>1. Reverses(req[s]) /\ Held(s, root)
      BY <1>1, <1>3 DEF Books, CheckedHeld, Reverses, Target
    <2> DEFINE S == Legs(root)
    <2>2. PICK f \in Allocations(S) :
             tx' = Deleting(Reversing(S, f), S \cup {f[u] : u \in S})
      BY <1>3
    <2>3. /\ S \in SUBSET TxIds /\ S \in SUBSET locks[s] /\ \A u \in S : Posted(u)
          /\ Whole(S) /\ \A v, u \in S : tx[u].group = tx[v].group
      BY <1>2, <2>1, ExistingLegs, LegsAreWhole DEF Held, Books
    <2> HIDE DEF S
    <2>4. Rewrites(S, "deleted") /\ Undone(S)
      BY <2>2, <2>3, DeletingReversedRows DEF Books
    <2> QED
      BY <1>2, <1>3, <2>1, <2>3, <2>4 DEF S
  <1>4. CASE ~Posted(root) /\ tx' = Deleting(tx, Chain(root)) /\ UNCHANGED <<bill, loan>>
    <2> DEFINE S == Chain(root)
               stages == <<{}, RootIds(root), S>>
    <2>1. S \subseteq locks[s]
      <3>1. EffectStages(req[s]) = stages
        BY <1>1, <1>4 DEF EffectStages
      <3>2. (UNION {stages[i] : i \in {i \in DOMAIN stages :
                                   \A j \in 1..(i - 1) : stages[j] \subseteq locks[s]}})
                \ locks[s] = {}
        BY <1>1, <3>1 DEF NextRows
      <3> HIDE DEF S
      <3>3. DOMAIN stages = 1..3 /\ stages[3] = S
        OBVIOUS
      <3> HIDE DEF stages
      <3>4. \A i \in 1..3 : stages[i] \subseteq locks[s]
        BY <3>2, <3>3, StagesHeld
      <3> QED
        BY <3>3, <3>4
    <2>2. S \in SUBSET TxIds /\ Whole(S) /\ \A u \in S : Exists(u)
      BY <1>2, ChainIsRows, ChainIsWhole DEF Books
    <2>3. tx' = Deleting(tx, S)
      BY <1>4
    <2> HIDE DEF S
    <2>4. /\ \A u \in S : tx'[u] = [tx[u] EXCEPT !.status = "deleted"]
          /\ \A u \in TxIds \ S : tx'[u] = tx[u]
      BY <2>2, <2>3
    <2>5. \A u \in TxIds : ~Appears(u)
      BY <2>2, <2>4 DEF Appears, Exists
    <2>6. Rewrites(S, "deleted")
      BY <2>2, <2>4, <2>5 DEF Rewrites
    <2> QED
      BY <1>2, <1>4, <2>1, <2>5, <2>6 DEF S
  <1> QED
    BY <1>3, <1>4 DEF CommitDelete

LEMMA CommitDeleteKeepsBooks ==
    ASSUME Books, Inductive', NEW s \in Sessions, CommitDelete(s)
    PROVE  KeepsBooks
  <1>1. PICK S \in SUBSET locks[s] : Rewrites(S, "deleted")
    BY CommitDeleteRewrites
  <1> QED
    BY <1>1, EndKeepsBooks DEF CommitDelete

LEMMA CommitTransferRewrites ==
    ASSUME Books, NEW s \in Sessions, CommitTransfer(s)
    PROVE  /\ Rewrites({}, "deleted")
           /\ \A r \in TxIds : Appears(r) => tx'[r].source = "account_transfer"
  <1> DEFINE q == req[s]
             Leg(direction, a, g) == Row(direction, a, q.amount, "account_transfer", "none", g)
  <1>1. q \in Request /\ q.op = "transfer"
    BY DEF Books, Inductive, TypeOK, CommitTransfer, Idle
  <1>2. q.from \in Accounts /\ q.to \in Accounts /\ q.amount \in Nat
    BY <1>1 DEF Request
  <1>3. PICK i \in NewIds(2), j \in NewIds(2) :
           /\ i < j
           /\ tx' = [tx EXCEPT ![i] = Leg("debit", q.from, i), ![j] = Leg("credit", q.to, i)]
    BY DEF CommitTransfer
  <1>4. i \in TxIds /\ j \in TxIds /\ ~Exists(i) /\ ~Exists(j) /\ i # j
    BY <1>3 DEF NewIds, TxIds
  <1>5. \A d \in {"credit", "debit"}, a \in Accounts :
           /\ Leg(d, a, i) \in TxRow /\ Leg(d, a, i).status = "posted"
           /\ Leg(d, a, i).source = "account_transfer" /\ Leg(d, a, i).direction = d
           /\ Leg(d, a, i).reverses = NoTx /\ Leg(d, a, i).group = i
           /\ Leg(d, a, i).amount = q.amount
    BY <1>2, <1>4 DEF Row, TxRow
  <1>6. PICK x \in TxRow, y \in TxRow :
           /\ x = Leg("debit", q.from, i) /\ y = Leg("credit", q.to, i)
           /\ x.direction = "debit" /\ y.direction = "credit"
           /\ \A z \in {x, y} : /\ z.status = "posted" /\ z.source = "account_transfer"
                                /\ z.reverses = NoTx /\ z.group = i /\ z.amount = q.amount
    BY <1>2, <1>5
  <1> HIDE DEF Leg
  <1>7. tx'[i] = x /\ tx'[j] = y /\ \A u \in TxIds : u # i /\ u # j => tx'[u] = tx[u]
    BY <1>3, <1>4, <1>6 DEF Books, Inductive, TypeOK
  <1>8. \A u \in TxIds : Appears(u) <=> u \in {i, j}
    BY <1>4, <1>6, <1>7 DEF Appears, Exists
  <1>9. i # NoTx
    BY <1>4, LedgerAssumption DEF TxIds, NoTx
  <1>10. ASSUME NEW r \in {i, j}
         PROVE  NewRow(r, {})
    <2>1. PICK u \in {i, j} : u # r
      BY <1>4
    <2>2. /\ tx'[r].status = "posted" /\ tx'[r].source = "account_transfer"
          /\ tx'[r].reverses = NoTx /\ tx'[r].group = i
      BY <1>6, <1>7
    <2>3. Paired(r, u)'
      BY <2>1, <1>4, <1>6, <1>7 DEF Paired, Opposite
    <2>4. \A v \in TxIds : Appears(v) => v \in {r, u}
      BY <2>1, <1>8
    <2> QED
      BY <2>1, <2>2, <2>3, <2>4, <1>4, <1>8, <1>9 DEF NewRow
  <1>11. \A r \in TxIds : Appears(r) => tx'[r].reverses = NoTx
    BY <1>6, <1>7, <1>8
  <1>12. \A t \in TxIds : Exists(t) => tx'[t] = tx[t]
    BY <1>4, <1>7
  <1>13. Rewrites({}, "deleted")
    BY <1>8, <1>10, <1>11, <1>12 DEF Rewrites, Whole
  <1> QED
    BY <1>6, <1>7, <1>8, <1>13

LEMMA CommitTransferKeepsBooks ==
    ASSUME Books, Inductive', NEW s \in Sessions, CommitTransfer(s)
    PROVE  KeepsBooks
  BY CommitTransferRewrites, EndKeepsBooks DEF CommitTransfer

LEMMA PaymentKeepsBooks ==
    ASSUME Books, Inductive', NEW s \in Sessions,
           CommitBillPayment(s) \/ CommitLoanPayment(s)
    PROVE  KeepsBooks
  <1> DEFINE q == req[s]
  <1>1. End(s)
    BY DEF CommitBillPayment, CommitLoanPayment
  <1>2. /\ q \in Request
        /\ \/ q.op = "pay_bill" /\ q.bill \in Bills
           \/ q.op = "pay_loan" /\ q.loan \in Loans
        /\ q.account \in Accounts /\ q.amount \in Nat
    BY DEF Books, Inductive, TypeOK, CommitBillPayment, CommitLoanPayment, Idle, Request
  <1>3. PICK d \in {"credit", "debit"}, source \in {"bill_payment", "company_loan_repayment"},
             ref \in Bills \cup Loans, t \in TxIds :
             Insert(t, Row(d, q.account, q.amount, source, ref, NoTx))
    BY <1>2 DEF CommitBillPayment, CommitLoanPayment
  <1> HIDE DEF q
  <1>4. PICK row \in TxRow : row = Row(d, q.account, q.amount, source, ref, NoTx)
    BY <1>2 DEF Row, TxRow
  <1>5. Rewrites({}, "deleted")
    BY <1>3, <1>4, InsertionRewrites DEF Books, Row
  <1> QED
    BY <1>1, <1>5, EndKeepsBooks

----------------------------------------------------------------------------
(* The other steps. *)

LEMMA CreationKeepsBooks ==
    ASSUME Books, Inductive', NEW s \in Sessions, Create(s)
    PROVE  KeepsBooks
  <1>1. ~Active(s) /\ UNCHANGED <<req, locks>>
    BY DEF Create, CreateTransaction, CreateBill, CreateCompanyLoan
  <1>2. Exclusion' /\ ~Reverses(req[s])'
        /\ \A u \in Sessions : u # s => req'[u] = req[u] /\ locks'[u] = locks[u]
    BY <1>1 DEF Books, Exclusion, Active, Reverses
  <1>3. Rewrites({}, "deleted")
    <2>1. CASE UNCHANGED tx
      BY <2>1, NothingRewritten
    <2>2. CASE \E d \in {"credit", "debit"}, a \in Accounts, n \in Nat,
                  source \in {"manual_adjustment", "company_loan_disbursement"},
                  ref \in Loans \cup {"none"}, t \in TxIds :
                  Insert(t, Row(d, a, n, source, ref, NoTx))
      <3>1. PICK d \in {"credit", "debit"}, a \in Accounts, n \in Nat,
                 source \in {"manual_adjustment", "company_loan_disbursement"},
                 ref \in Loans \cup {"none"}, t \in TxIds :
                 Insert(t, Row(d, a, n, source, ref, NoTx))
        BY <2>2
      <3>2. PICK row \in TxRow : row = Row(d, a, n, source, ref, NoTx)
        BY DEF Row, TxRow
      <3> QED
        BY <3>1, <3>2, InsertionRewrites DEF Books, Row
    <2>3. Amounts \subseteq Nat /\ Totals \subseteq Nat
      BY LedgerAssumption
    <2>4. ASSUME NEW d \in {"credit", "debit"}, NEW a \in Accounts, NEW n \in Amounts,
                 CreateTransaction(s, d, a, n)
          PROVE  Rewrites({}, "deleted")
      BY <2>2, <2>3, <2>4 DEF CreateTransaction
    <2>5. ASSUME NEW l \in Loans, NEW a \in Accounts, NEW n \in Totals,
                 CreateCompanyLoan(s, l, a, n)
          PROVE  Rewrites({}, "deleted")
      BY <2>2, <2>3, <2>5 DEF CreateCompanyLoan
    <2> QED
      BY <2>1, <2>4, <2>5 DEF Create, CreateBill
  <1> QED
    BY <1>2, <1>3, StepKeepsBooks

LEMMA StartKeepsBooks ==
    ASSUME Books, Inductive', NEW s \in Sessions, Start(s)
    PROVE  KeepsBooks
  <1>1. ASSUME NEW op, NEW r, Begin(s, op, r),
               r.op \in {"reverse", "reverse_payment", "delete"} => ~r.checked
        PROVE  KeepsBooks
    BY <1>1, BeginKeepsBooks
  <1>2. CASE \E b \in Bills, a \in Accounts, n \in Amounts : StartBillPayment(s, b, a, n)
    BY <1>1, <1>2 DEF StartBillPayment
  <1>3. CASE \E l \in Loans, a \in Accounts, n \in Amounts : StartLoanPayment(s, l, a, n)
    BY <1>1, <1>3 DEF StartLoanPayment
  <1>4. CASE \E a, c \in Accounts, n \in Amounts : StartTransfer(s, a, c, n)
    BY <1>1, <1>4 DEF StartTransfer
  <1>5. CASE StartLocking(s)
    BY <1>1, <1>5 DEF StartLocking
  <1> QED
    BY <1>2, <1>3, <1>4, <1>5 DEF Start

LEMMA LockKeepsBooks ==
    ASSUME Books, Inductive', NEW s \in Sessions, Lock(s)
    PROVE  KeepsBooks
  <1>1. PICK row \in NextRows(s) : /\ \A u \in Sessions : row \notin locks[u]
                                   /\ locks' = [locks EXCEPT ![s] = @ \cup {row}]
    BY DEF Lock
  <1>2. UNCHANGED <<tx, req>>
    BY DEF Lock
  <1>3. /\ locks'[s] = locks[s] \cup {row}
        /\ \A u \in Sessions : u # s => req'[u] = req[u] /\ locks'[u] = locks[u]
    BY <1>1, <1>2 DEF Books, Inductive, TypeOK
  <1>4. Exclusion'
    BY <1>1, <1>3 DEF Books, Exclusion
  <1>5. Rewrites({}, "deleted")
    BY <1>2, NothingRewritten
  <1>6. ASSUME Reverses(req[s])'
        PROVE  Held(s, Target(req[s]))'
    BY <1>2, <1>3, <1>5, <1>6, HeldKept DEF Books
  <1> QED
    BY <1>3, <1>4, <1>5, <1>6, StepKeepsBooks

\* What a request checked, it checked on posted rows that it holds.
LEMMA CheckKeepsBooks ==
    ASSUME Books, Inductive', NEW s \in Sessions, Check(s)
    PROVE  KeepsBooks
  <1> DEFINE r == req[s]
             L == locks[s]
  <1>1. r \in Request /\ Sound(r) /\ r.op \in Locking /\ ~r.checked
    BY DEF Books, Inductive, TypeOK, RequestSound, Check, Locking, Idle
  <1>2. /\ NextRows(s) = {} /\ Fit(r) /\ UNCHANGED <<tx, locks>>
        /\ req' = [req EXCEPT ![s] = [r EXCEPT !.checked = TRUE]]
    BY DEF Check
  <1>3. Exclusion' /\ \A u \in Sessions : u # s => req'[u] = req[u] /\ locks'[u] = locks[u]
    BY <1>2 DEF Books, Exclusion, Inductive, TypeOK
  <1>4. PICK new : new = [r EXCEPT !.checked = TRUE]
    OBVIOUS
  <1>5. /\ new.op = r.op /\ (r.op # "void" /\ r.op # "update_loan" => new.tx = r.tx)
        /\ req'[s] = new
    BY <1>1, <1>2, <1>4 DEF Request, Locking, Books, Inductive, TypeOK
  <1> DEFINE stages == GuardStages(r)
  <1>6. (UNION {stages[i] : i \in {i \in DOMAIN stages :
                               \A j \in 1..(i - 1) : stages[j] \subseteq L}}) \ L = {}
    BY <1>1, <1>2 DEF NextRows
  <1> HIDE DEF r
  <1>7. ASSUME Reverses(new)
        PROVE  Held(s, Target(new))
    <2>1. /\ r.tx \in TxIds /\ Exists(r.tx) /\ new.op = r.op /\ new.tx = r.tx
          /\ r.op \in {"reverse", "reverse_payment", "delete"}
      BY <1>1, <1>5, <1>7 DEF Reverses, Request, Sound, PaymentsOf
    <2>2. CASE r.op = "reverse"
      <3>1. stages = <<{r.tx}, Legs(r.tx)>>
        BY <2>2 DEF GuardStages
      <3> HIDE DEF stages
      <3>2. DOMAIN stages = 1..2 /\ stages[2] = Legs(r.tx)
        BY <3>1
      <3>3. \A i \in 1..2 : stages[i] \subseteq L
        BY <1>6, <3>2, StagesHeld
      <3>4. \A u \in Legs(r.tx) : Posted(u)
        BY <1>2, <2>2 DEF Fit, LegsReversible, Reversible
      <3> QED
        BY <2>1, <2>2, <3>2, <3>3, <3>4 DEF Held, Target
    <2>3. CASE r.op = "delete"
      <3> DEFINE root == Root(r.tx)
      <3>1. Posted(root)
        BY <1>7, <2>1, <2>3 DEF Reverses, Target
      <3>2. stages = <<{r.tx}, {root}, Legs(root)>>
        BY <2>3, <3>1 DEF GuardStages
      <3>3. \A u \in Legs(root) : Posted(u)
        BY <1>2, <2>3, <3>1 DEF Fit, LegsReversible, Reversible, Posted
      <3> HIDE DEF stages, root
      <3>4. DOMAIN stages = 1..3 /\ stages[3] = Legs(root)
        BY <3>2
      <3>5. \A i \in 1..3 : stages[i] \subseteq L
        BY <1>6, <3>4, StagesHeld
      <3> QED
        BY <2>1, <2>3, <3>3, <3>4, <3>5 DEF Held, Target, root
    <2>4. CASE r.op = "reverse_payment"
      <3>1. stages = <<{r.bill}, {r.tx}>>
        BY <2>4 DEF GuardStages
      <3> HIDE DEF stages
      <3>2. DOMAIN stages = 1..2 /\ stages[2] = {r.tx}
        BY <3>1
      <3>3. \A i \in 1..2 : stages[i] \subseteq L
        BY <1>6, <3>2, StagesHeld
      <3>4. \A u \in Legs(r.tx) : Posted(u)
        BY <1>2, <2>4 DEF Fit, LegsReversible, Reversible
      <3>5. tx[r.tx].source = "bill_payment"
        BY <1>1, <2>4 DEF Sound, PaymentsOf, IsPayment
      <3>6. Legs(r.tx) = {r.tx}
        BY <2>1, <3>5 DEF Books, WholeTransfers, Legs
      <3> QED
        BY <2>1, <2>4, <3>2, <3>3, <3>4, <3>6 DEF Held, Target
    <2> QED
      BY <2>1, <2>2, <2>3, <2>4
  <1>8. ASSUME Reverses(req[s])'
        PROVE  Held(s, Target(req[s]))'
    BY <1>2, <1>5, <1>7, <1>8 DEF Reverses, Target, Held, Root, Legs, Posted, Exists
  <1>9. Rewrites({}, "deleted")
    BY <1>2, NothingRewritten
  <1> QED
    BY <1>3, <1>8, <1>9, StepKeepsBooks

LEMMA EndingKeepsBooks ==
    ASSUME Books, Inductive', NEW s \in Sessions, End(s), UNCHANGED tx
    PROVE  KeepsBooks
  BY NothingRewritten, EndKeepsBooks

LEMMA CommitKeepsBooks ==
    ASSUME Books, Inductive', NEW s \in Sessions, Commit(s)
    PROVE  KeepsBooks
  <1>1. CommitUpdateLoan(s) => KeepsBooks
    BY EndingKeepsBooks DEF CommitUpdateLoan
  <1> QED
    BY <1>1, PaymentKeepsBooks, CommitTransferKeepsBooks, CommitReverseKeepsBooks,
       CommitDeleteKeepsBooks, CommitVoidKeepsBooks DEF Commit

LEMMA InitBooks == Init => Books
  <1> SUFFICES ASSUME Init
               PROVE  Books
    OBVIOUS
  <1>1. \A t \in TxIds : tx[t].status = "missing"
    BY DEF Init, Missing
  <1>2. OneReversal /\ WholeTransfers
    BY <1>1 DEF OneReversal, WholeTransfers, IsReversal, Exists
  <1>3. Exclusion /\ CheckedHeld
    BY DEF Init, Exclusion, CheckedHeld, Reverses, Idle
  <1> QED
    BY <1>2, <1>3, InitInductive DEF Books

LEMMA NextKeepsBooks ==
    ASSUME Books, Next
    PROVE  KeepsBooks
  <1>1. Inductive'
    BY InductiveStep DEF Books
  <1>2. PICK s \in Sessions : Create(s) \/ Start(s) \/ Advance(s) \/ Rollback(s)
    BY DEF Next
  <1>3. CASE Refuse(s) \/ Rollback(s)
    BY <1>1, <1>3, EndingKeepsBooks DEF Refuse, Rollback
  <1> QED
    BY <1>1, <1>2, <1>3, CreationKeepsBooks, StartKeepsBooks, LockKeepsBooks,
       CheckKeepsBooks, CommitKeepsBooks DEF Advance

LEMMA BooksStep == Books /\ [Next]_vars => Books'
  <1> SUFFICES ASSUME Books, [Next]_vars
               PROVE  Books'
    OBVIOUS
  <1>1. Inductive'
    BY InductiveStep DEF Books
  <1>2. CASE UNCHANGED vars
    BY <1>1, <1>2 DEF vars, Books, Exclusion, CheckedHeld, Reverses, Held, Target, Root, Legs,
                      Posted, Exists, OneReversal, IsReversal, WholeTransfers, Paired, Grouped
  <1>3. CASE Next
    BY <1>3, NextKeepsBooks DEF KeepsBooks
  <1> QED
    BY <1>2, <1>3

LEMMA AlwaysBooks == Spec => []Books
  BY InitBooks, BooksStep, PTL DEF Spec

\* Two requests never reverse the same row, however reverse_transaction,
\* reverse_bill_payment, delete_transaction and void_bill interleave, and no
\* row is reversed without the row that says so.
THEOREM AlwaysReversedOnce == Spec => []ReversedOnce
  <1>1. Books => ReversedOnce
    <2> SUFFICES ASSUME Books, NEW t \in TxIds, Exists(t)
                 PROVE  /\ Cardinality(ReversalsOf(t)) <= 1
                        /\ tx[t].status = "reversed" => ReversalsOf(t) # {}
                        /\ ReversalsOf(t) # {} => ~Posted(t)
      BY DEF ReversedOnce
    <2>1. t # NoTx
      BY LedgerAssumption DEF TxIds, NoTx
    <2>2. \A r \in ReversalsOf(t) : r \in TxIds /\ IsReversal(r) /\ tx[r].reverses = t
      BY <2>1 DEF ReversalsOf, IsReversal
    <2>3. Cardinality(ReversalsOf(t)) <= 1
      <3>1. CASE ReversalsOf(t) = {}
        BY <3>1, FS_EmptySet
      <3>2. CASE ReversalsOf(t) # {}
        <4>1. PICK r : r \in ReversalsOf(t)
          BY <3>2
        <4>2. ReversalsOf(t) = {r}
          BY <2>2, <4>1 DEF Books, OneReversal
        <4> QED
          BY <4>2, FS_Singleton
      <3> QED
        BY <3>1, <3>2
    <2>4. tx[t].status = "reversed" => ReversalsOf(t) # {}
      BY DEF Books, OneReversal, ReversalsOf, IsReversal
    <2>5. ReversalsOf(t) # {} => ~Posted(t)
      BY <2>2 DEF Books, OneReversal
    <2> QED
      BY <2>3, <2>4, <2>5
  <1> QED
    BY <1>1, AlwaysBooks, PTL

\* No request ever rewrites a row of the ledger: it can only move its status
\* forward, from posted to reversed to deleted.
THEOREM HistoryAlwaysKept == Spec => HistoryKept
  <1>1. ASSUME Books, [Next]_vars, tx' # tx, NEW t \in TxIds, Exists(t)
        PROVE  /\ [tx'[t] EXCEPT !.status = "posted"] = [tx[t] EXCEPT !.status = "posted"]
               /\ Rank(tx[t].status) <= Rank(tx'[t].status)
    <2>1. Next
      BY <1>1 DEF vars
    <2>2. PICK W \in SUBSET TxIds, status \in {"reversed", "deleted"} : Rewrites(W, status)
      BY <1>1, <2>1, NextKeepsBooks DEF KeepsBooks
    <2> QED
      BY <1>1, <2>2, HistoryStep DEF Books
  <1>2. Books /\ [Next]_vars =>
          [\A t \in TxIds : Exists(t) =>
             /\ [tx'[t] EXCEPT !.status = "posted"] = [tx[t] EXCEPT !.status = "posted"]
             /\ Rank(tx[t].status) <= Rank(tx'[t].status)]_tx
    BY <1>1
  <1> QED
    BY <1>2, AlwaysBooks, PTL DEF Spec, HistoryKept

----------------------------------------------------------------------------
(* Transfers conserve money: the two legs of each cancel. *)

LEMMA SignedAdds ==
    ASSUME NEW S, IsFiniteSet(S), NEW f, \A t \in S : f[t] = Signed(t)
    PROVE  Adds(f, S, MapThenSumSet(Signed, S))
  <1> DEFINE Sum == CHOOSE g : g = [T \in SUBSET S |->
                 IF T = {} THEN 0
                 ELSE Signed(CHOOSE x \in T : TRUE) + g[T \ {CHOOSE x \in T : TRUE}]]
  <1>1. MapThenSumSet(Signed, S) = Sum[S]
    BY DEF MapThenSumSet, MapThenFoldSet
  <1>2. \A T \in SUBSET S : T # {} => f[First(T)] = Signed(CHOOSE x \in T : TRUE)
    BY FirstIsMember DEF First
  <1>3. PICK g : Sums(g, f, S)
    BY SumsExist
  <1>4. g = [T \in SUBSET S |->
               IF T = {} THEN 0
               ELSE Signed(CHOOSE x \in T : TRUE) + g[T \ {CHOOSE x \in T : TRUE}]]
    BY <1>2, <1>3 DEF Sums, First
  <1>5. Sum = [T \in SUBSET S |->
                 IF T = {} THEN 0
                 ELSE Signed(CHOOSE x \in T : TRUE) + Sum[T \ {CHOOSE x \in T : TRUE}]]
    BY <1>4
  <1> HIDE DEF Sum
  <1>6. Sums(Sum, f, S)
    BY <1>2, <1>5 DEF Sums, First
  <1> QED
    BY <1>1, <1>6 DEF Adds

InTransfer(t) == Exists(t) /\ Counted(t) /\ tx[t].source = "account_transfer"
Partners(t, u) == /\ Exists(u) /\ Paired(t, u)
                  /\ \A v \in TxIds : Grouped(t, v) => v \in {t, u}
Partner(t) == CHOOSE u \in TxIds : Partners(t, u)

LEMMA PartnerCancels ==
    ASSUME Books, NEW t \in TxIds, InTransfer(t)
    PROVE  /\ Partner(t) \in TxIds /\ InTransfer(Partner(t)) /\ Partner(t) # t
           /\ Partner(Partner(t)) = t
           /\ Signed(Partner(t)) = -Signed(t) /\ Signed(t) \in Int
  <1>1. tx[t].group # NoTx /\ Exists(t)
    BY DEF Books, WholeTransfers, InTransfer
  <1>2. \E u \in TxIds : Partners(t, u)
    BY <1>1 DEF Books, WholeTransfers, Partners
  <1>3. PICK u \in TxIds : u = Partner(t) /\ Partners(t, u)
    BY <1>2 DEF Partner
  <1>4. /\ Exists(u) /\ u # t /\ tx[u].group = tx[t].group /\ tx[u].amount = tx[t].amount
        /\ tx[u].direction = Opposite(tx[t].direction) /\ tx[u].status = tx[t].status
        /\ \A v \in TxIds : Grouped(t, v) => v \in {t, u}
    BY <1>3 DEF Partners, Paired
  <1>5. \E w \in TxIds : Partners(u, w)
    BY <1>1, <1>4 DEF Books, WholeTransfers, Partners
  <1>6. PICK w \in TxIds : w = Partner(u) /\ Partners(u, w)
    BY <1>5 DEF Partner
  <1>7. w = t
    BY <1>1, <1>4, <1>6 DEF Partners, Paired, Grouped
  <1>8. InTransfer(u)
    BY <1>1, <1>4 DEF InTransfer, Counted, Books, WholeTransfers
  <1>9. tx[t] \in TxRow
    BY <1>1, ExistingRow DEF Books, Inductive
  <1>10. Signed(u) = -Signed(t) /\ Signed(t) \in Int
    BY <1>4, <1>9 DEF Signed, Opposite, TxRow
  <1> QED
    BY <1>3, <1>4, <1>6, <1>7, <1>8, <1>10

\* Money moved between the company's own accounts is never created or lost,
\* whatever reversals and deletions of the legs of a transfer interleave.
THEOREM TransfersAlwaysConserveMoney == Spec => []TransfersConserveMoney
  <1>1. Books => TransfersConserveMoney
    <2> SUFFICES ASSUME Books
                 PROVE  TransfersConserveMoney
      OBVIOUS
    <2> DEFINE S == {t \in TxIds : Exists(t) /\ Counted(t) /\ tx[t].source = "account_transfer"}
               f == [t \in TxIds |-> Signed(t)]
               p == [t \in S |-> Partner(t)]
    <2>1. S \subseteq TxIds /\ \A t \in S : InTransfer(t)
      BY DEF InTransfer
    <2>2. IsFiniteSet(S)
      <3>1. IsFiniteSet(TxIds)
        BY LedgerAssumption, FS_Interval DEF TxIds
      <3> HIDE DEF S
      <3> QED
        BY <2>1, <3>1, FS_Subset
    <2>3. /\ p \in [S -> S]
          /\ \A t \in S : p[t] # t /\ p[p[t]] = t /\ f[p[t]] = -f[t] /\ f[t] \in Int
      <3>1. \A t \in S : Partner(t) \in S
        BY <2>1, PartnerCancels DEF InTransfer
      <3> HIDE DEF S
      <3> QED
        BY <2>1, <3>1, PartnerCancels
    <2>4. \A t \in S : f[t] = Signed(t)
      BY <2>1
    <2> HIDE DEF S, f, p
    <2>5. PICK n, g : n = MapThenSumSet(Signed, S) /\ Sums(g, f, S) /\ n = g[S]
      BY <2>2, <2>4, SignedAdds DEF Adds
    <2>6. g[S] = 0
      BY <2>2, <2>3, <2>5, PairsCancel
    <2> QED
      BY <2>5, <2>6 DEF S, TransfersConserveMoney
  <1> QED
    BY <1>1, AlwaysBooks, PTL

----------------------------------------------------------------------------
(* Bills and loans against the ledger.  What their columns add up to can   *)
(* only be lost through a stale read: a payment that writes back a row     *)
(* somebody has changed, or a disbursement that is reversed although a     *)
(* repayment came in after the check.                                      *)

\* What a request read still holds.
Fresh(r) ==
    /\ r.op = "pay_bill" => r.seen = bill[r.bill]
    /\ r.op = "pay_loan" => r.seen = loan[r.loan]
    /\ Reverses(r) => Unencumbered(Target(r))
NoStaleReads == \A s \in Sessions : Fresh(req[s])

\* What a request was admitted with.
Admitted(r) ==
    /\ r.op = "pay_bill" => r.amount > 0 /\ r.seen.status = "issued"
    /\ r.op = "pay_loan" => r.seen.status = "active"

----------------------------------------------------------------------------
(* Rows in force and what they add up to. *)

TotalOf(a, S) == MapThenSumSet(LAMBDA t : a[t].amount, S)

LEMMA TotalAdds ==
    ASSUME NEW a, NEW S, IsFiniteSet(S), NEW f, \A t \in S : f[t] = a[t].amount
    PROVE  Adds(f, S, TotalOf(a, S))
  <1> DEFINE Sum == CHOOSE g : g = [T \in SUBSET S |->
                 IF T = {} THEN 0
                 ELSE a[CHOOSE x \in T : TRUE].amount + g[T \ {CHOOSE x \in T : TRUE}]]
  <1>1. TotalOf(a, S) = Sum[S]
    BY DEF TotalOf, MapThenSumSet, MapThenFoldSet
  <1>2. \A T \in SUBSET S : T # {} => f[First(T)] = a[CHOOSE x \in T : TRUE].amount
    BY FirstIsMember DEF First
  <1>3. PICK g : Sums(g, f, S)
    BY SumsExist
  <1>4. g = [T \in SUBSET S |->
               IF T = {} THEN 0
               ELSE a[CHOOSE x \in T : TRUE].amount + g[T \ {CHOOSE x \in T : TRUE}]]
    BY <1>2, <1>3 DEF Sums, First
  <1>5. Sum = [T \in SUBSET S |->
                 IF T = {} THEN 0
                 ELSE a[CHOOSE x \in T : TRUE].amount + Sum[T \ {CHOOSE x \in T : TRUE}]]
    BY <1>4
  <1> HIDE DEF Sum
  <1>6. Sums(Sum, f, S)
    BY <1>2, <1>5 DEF Sums, First
  <1> QED
    BY <1>1, <1>6 DEF Adds

LEMMA LedgerIsFinite == \A S \in SUBSET TxIds : IsFiniteSet(S)
  <1>1. IsFiniteSet(TxIds)
    BY LedgerAssumption, FS_Interval DEF TxIds
  <1> QED
    BY <1>1, FS_Subset

LEMMA TotalOfNothing == ASSUME NEW a PROVE TotalOf(a, {}) = 0
  <1> DEFINE f == [t \in {} |-> a[t].amount]
  <1>1. Adds(f, {}, TotalOf(a, {}))
    BY TotalAdds, FS_EmptySet
  <1> QED
    BY <1>1, AddsNothing

LEMMA TotalIsNat ==
    ASSUME NEW a, NEW S \in SUBSET TxIds, \A t \in S : a[t].amount \in Nat
    PROVE  TotalOf(a, S) \in Nat
  <1> DEFINE f == [t \in S |-> a[t].amount]
  <1>1. \A t \in S : f[t] = a[t].amount /\ f[t] \in Nat
    OBVIOUS
  <1> HIDE DEF f
  <1>2. Adds(f, S, TotalOf(a, S)) /\ IsFiniteSet(S)
    BY <1>1, TotalAdds, LedgerIsFinite
  <1> QED
    BY <1>1, <1>2, AddsNat

LEMMA TotalKept ==
    ASSUME NEW a, NEW b, NEW S \in SUBSET TxIds, \A t \in S : a[t].amount = b[t].amount
    PROVE  TotalOf(a, S) = TotalOf(b, S)
  <1> DEFINE f == [t \in S |-> a[t].amount]
  <1>1. \A t \in S : f[t] = a[t].amount /\ f[t] = b[t].amount
    OBVIOUS
  <1> HIDE DEF f
  <1>2. Adds(f, S, TotalOf(a, S)) /\ Adds(f, S, TotalOf(b, S)) /\ IsFiniteSet(S)
    BY <1>1, TotalAdds, LedgerIsFinite
  <1> QED
    BY <1>2, AddsSame

LEMMA TotalWithOne ==
    ASSUME NEW a, NEW b, NEW S \in SUBSET TxIds, NEW y \in TxIds \ S,
           \A t \in S : a[t].amount = b[t].amount,
           \A t \in S \cup {y} : b[t].amount \in Nat
    PROVE  TotalOf(b, S \cup {y}) = TotalOf(a, S) + b[y].amount
  <1> DEFINE T == S \cup {y}
             f == [t \in T |-> b[t].amount]
  <1>1. /\ \A t \in T : f[t] = b[t].amount /\ f[t] \in Int
        /\ \A t \in S : f[t] = a[t].amount
    OBVIOUS
  <1> HIDE DEF f
  <1>2. T \in SUBSET TxIds /\ y \in T
    OBVIOUS
  <1>3. Adds(f, S, TotalOf(a, S)) /\ Adds(f, T, TotalOf(b, T)) /\ IsFiniteSet(S)
    BY <1>1, <1>2, TotalAdds, LedgerIsFinite
  <1>4. PICK m : m = TotalOf(b, T)
    OBVIOUS
  <1>5. PICK n : n = TotalOf(a, S)
    OBVIOUS
  <1>6. m = n + f[y]
    <2>1. /\ IsFiniteSet(S) /\ y \notin S /\ Adds(f, S, n) /\ Adds(f, S \cup {y}, m)
          /\ \A x \in S : f[x] = f[x]
          /\ \A x \in S \cup {y} : f[x] \in Int
      BY <1>1, <1>3, <1>4, <1>5
    <2> QED
      BY ONLY <2>1, AddsOne
  <1> QED
    BY <1>1, <1>2, <1>4, <1>5, <1>6

\* Posted rows of one kind for one bill or loan, and those that just appeared.
Live(source, ref) ==
    {t \in TxIds : Posted(t) /\ tx[t].reverses = NoTx /\ tx[t].source = source
                   /\ tx[t].ref = ref}
Entered(source, ref) ==
    {t \in TxIds : Appears(t) /\ Posted(t)' /\ tx'[t].reverses = NoTx
                   /\ tx'[t].source = source /\ tx'[t].ref = ref}

LiveTotal(source, ref) == TotalOf(tx, Live(source, ref))

LEMMA LiveRows ==
    /\ \A b : LivePayments(b) = Live("bill_payment", b)
    /\ \A l : LiveRepayments(l) = Live("company_loan_repayment", l)
  BY DEF LivePayments, LiveRepayments, Live, PaymentsOf, IsPayment, Posted, Exists

LEMMA LiveAfter ==
    ASSUME TypeOK, NEW W, NEW status, Rewrites(W, status), NEW source, NEW ref
    PROVE  /\ Live(source, ref)' = (Live(source, ref) \ W) \cup Entered(source, ref)
           /\ \A t \in Live(source, ref) : /\ t \in TxIds /\ tx'[t].amount = tx[t].amount
                                           /\ tx[t].amount \in Nat
           /\ \A t \in Entered(source, ref) : t \notin Live(source, ref)
  <1>1. ASSUME NEW t \in TxIds, Exists(t)
        PROVE  t \in Live(source, ref)' <=> t \in Live(source, ref) /\ t \notin W
    <2>1. /\ tx'[t].status = IF t \in W THEN status ELSE tx[t].status
          /\ tx'[t].reverses = tx[t].reverses /\ tx'[t].source = tx[t].source
          /\ tx'[t].ref = tx[t].ref /\ status \in {"reversed", "deleted"}
      BY <1>1, RewrittenRow DEF Rewrites
    <2> QED
      BY <1>1, <2>1 DEF Live, Posted
  <1>2. ASSUME NEW t \in TxIds, ~Exists(t)
        PROVE  /\ t \in Live(source, ref)' <=> t \in Entered(source, ref)
               /\ t \notin Live(source, ref)
    BY <1>2 DEF Live, Entered, Posted, Appears, Exists
  <1>3. \A t \in Entered(source, ref) : t \in TxIds /\ ~Exists(t)
    BY DEF Entered, Appears
  <1>4. \A t \in Live(source, ref) : t \in TxIds /\ Exists(t)
    BY DEF Live, Posted, Exists
  <1>5. Live(source, ref)' = (Live(source, ref) \ W) \cup Entered(source, ref)
    <2>1. \A t \in Live(source, ref)' : t \in TxIds
      BY DEF Live
    <2> QED
      BY <1>1, <1>2, <1>3, <1>4, <2>1
  <1>6. \A t \in Live(source, ref) : tx'[t].amount = tx[t].amount /\ tx[t].amount \in Nat
    BY <1>4, RewrittenRow, ExistingRow DEF TxRow
  <1> QED
    BY <1>2, <1>3, <1>4, <1>5, <1>6

LEMMA LiveKept ==
    ASSUME TypeOK, NEW W, NEW status, Rewrites(W, status), NEW source, NEW ref,
           Live(source, ref) \cap W = {}, Entered(source, ref) = {}
    PROVE  /\ Live(source, ref)' = Live(source, ref)
           /\ LiveTotal(source, ref)' = LiveTotal(source, ref)
  <1>1. PICK L \in SUBSET TxIds : L = Live(source, ref)
    BY DEF Live
  <1>2. Live(source, ref)' = L /\ \A t \in L : tx'[t].amount = tx[t].amount
    <2>1. /\ Live(source, ref)' = (Live(source, ref) \ W) \cup Entered(source, ref)
          /\ \A t \in Live(source, ref) : tx'[t].amount = tx[t].amount
      BY LiveAfter
    <2> QED
      BY <1>1, <2>1
  <1>3. TotalOf(tx', L) = TotalOf(tx, L)
    BY <1>2, TotalKept
  <1> QED
    BY <1>1, <1>2, <1>3 DEF LiveTotal

LEMMA LiveLess ==
    ASSUME TypeOK, NEW W, NEW status, Rewrites(W, status), NEW source, NEW ref,
           NEW t \in Live(source, ref), t \in W, \A u \in Live(source, ref) : u \in W => u = t,
           Entered(source, ref) = {}
    PROVE  /\ LiveTotal(source, ref)' \in Nat
           /\ LiveTotal(source, ref) = LiveTotal(source, ref)' + tx[t].amount
  <1>1. PICK L \in SUBSET TxIds : L = Live(source, ref)
    BY DEF Live
  <1> DEFINE K == L \ {t}
  <1>2. /\ Live(source, ref)' = K /\ t \in L
        /\ \A u \in L : tx'[u].amount = tx[u].amount /\ tx[u].amount \in Nat
    BY <1>1, LiveAfter
  <1>3. K \in SUBSET TxIds /\ t \in TxIds \ K /\ K \cup {t} = L
    BY <1>2
  <1> HIDE DEF K
  <1>4. TotalOf(tx, K \cup {t}) = TotalOf(tx', K) + tx[t].amount
    BY <1>2, <1>3, TotalWithOne
  <1>5. TotalOf(tx', K) \in Nat
    BY <1>2, <1>3, TotalIsNat
  <1> QED
    BY <1>1, <1>2, <1>3, <1>4, <1>5 DEF LiveTotal

LEMMA LiveMore ==
    ASSUME TypeOK, NEW W, NEW status, Rewrites(W, status), NEW source, NEW ref,
           NEW t, Live(source, ref) \cap W = {}, Entered(source, ref) = {t},
           tx'[t].amount \in Nat
    PROVE  LiveTotal(source, ref)' = LiveTotal(source, ref) + tx'[t].amount
  <1>1. PICK L \in SUBSET TxIds : L = Live(source, ref)
    BY DEF Live
  <1>2. /\ Live(source, ref)' = L \cup {t} /\ t \in TxIds \ L
        /\ \A u \in L : tx'[u].amount = tx[u].amount /\ tx[u].amount \in Nat
    <2>1. t \in TxIds
      BY DEF Entered
    <2> QED
      BY <1>1, <2>1, LiveAfter
  <1>3. TotalOf(tx', L \cup {t}) = TotalOf(tx, L) + tx'[t].amount
    BY <1>2, TotalWithOne
  <1> QED
    BY <1>1, <1>2, <1>3 DEF LiveTotal

----------------------------------------------------------------------------
(* Bills *)

BillAgrees(row, payments, paid) ==
    IF row.status = "cancelled" THEN payments = {}
    ELSE /\ row.paid = paid /\ row.paid <= row.total
         /\ row.payment = PaymentState(row.paid, row.balance)
BillsAgree == \A b \in Bills : bill[b] # Missing =>
                 BillAgrees(bill[b], Live("bill_payment", b), LiveTotal("bill_payment", b))

LEMMA BillsMatch == BillMatchesPayments <=> BillsAgree
  <1>1. \A b : LivePayments(b) = Live("bill_payment", b)
    BY LiveRows
  <1>2. \A b : Total(LivePayments(b)) = LiveTotal("bill_payment", b)
    BY <1>1 DEF Total, LiveTotal, TotalOf
  <1> QED
    BY <1>1, <1>2 DEF BillMatchesPayments, BillsAgree, BillAgrees

\* Only transfers have a second leg.
LEMMA LoneLeg ==
    ASSUME Books, NEW t \in TxIds, Exists(t), NEW source, source # "account_transfer",
           NEW u \in Legs(t), tx[u].source = source
    PROVE  u = t /\ Legs(t) = {t}
  BY DEF Books, WholeTransfers, Legs

LEMMA NothingEnters ==
    ASSUME NEW W \in SUBSET TxIds, Undone(W), NEW source, NEW ref
    PROVE  Entered(source, ref) = {}
  <1>1. NoTx \notin TxIds
    BY LedgerAssumption DEF TxIds, NoTx
  <1> QED
    BY <1>1 DEF Undone, Entered

\* A bill that nothing in the step concerns.
LEMMA BillKept ==
    ASSUME TypeOK, BillsAgree, NEW W, NEW status, Rewrites(W, status),
           NEW b \in Bills, bill'[b] = bill[b], bill[b] # Missing,
           Live("bill_payment", b) \cap W = {}, Entered("bill_payment", b) = {}
    PROVE  BillAgrees(bill'[b], Live("bill_payment", b)', LiveTotal("bill_payment", b)')
  <1>1. /\ Live("bill_payment", b)' = Live("bill_payment", b)
        /\ LiveTotal("bill_payment", b)' = LiveTotal("bill_payment", b)
    BY LiveKept DEF LiveTotal
  <1>2. BillAgrees(bill[b], Live("bill_payment", b), LiveTotal("bill_payment", b))
    BY DEF BillsAgree
  <1> QED
    BY <1>1, <1>2

LEMMA UnwoundBills ==
    ASSUME Books, BillsAgree, NEW t \in TxIds, Posted(t), NEW status,
           Rewrites(Legs(t), status), Undone(Legs(t)), UnwindBill(t)
    PROVE  BillsAgree'
  <1>1. Exists(t) /\ Legs(t) \in SUBSET TxIds
    BY LegsAreRows DEF Posted, Exists
  <1>2. \A b : Entered("bill_payment", b) = {}
    BY <1>1, NothingEnters
  <1>3. CASE IsPayment(t)
    <2>0. tx[t].ref \in Bills /\ bill[tx[t].ref] \in BillRow /\ tx[t].amount \in Nat
      BY <1>1, <1>3, ExistingRow, ExistingBill
         DEF Books, Inductive, ReferencesResolve, Resolves, IsPayment, TxRow
    <2>1. PICK c \in Bills, old \in BillRow, n \in Nat :
             c = tx[t].ref /\ old = bill[c] /\ n = tx[t].amount
      BY <2>0
    <2>2. Legs(t) = {t}
      BY <1>1, <1>3, LoneLeg DEF IsPayment, Legs
    <2>3. t \in Live("bill_payment", c) /\ \A b : b # c => t \notin Live("bill_payment", b)
      BY <1>3, <2>1 DEF Live, IsPayment
    <2>4. /\ bill'[c] = WithoutPayment(old, n)
          /\ \A b \in Bills : b # c => bill'[b] = bill[b]
      BY <1>3, <2>1 DEF UnwindBill, Books, Inductive, TypeOK
    <2>5. ASSUME NEW b \in Bills, bill'[b] # Missing, b # c
          PROVE  BillAgrees(bill'[b], Live("bill_payment", b)', LiveTotal("bill_payment", b)')
      <3>1. /\ bill'[b] = bill[b] /\ bill[b] # Missing
            /\ Live("bill_payment", b) \cap Legs(t) = {} /\ Entered("bill_payment", b) = {}
        BY <1>2, <2>2, <2>3, <2>4, <2>5
      <3> QED
        BY <3>1, BillKept DEF Books, Inductive
    <2>6. BillAgrees(bill'[c], Live("bill_payment", c)', LiveTotal("bill_payment", c)')
      <3>1. PICK L : L = Live("bill_payment", c)
        OBVIOUS
      <3>2. /\ t \in L /\ t \in Legs(t) /\ \A u \in L : u \in Legs(t) => u = t
            /\ Entered("bill_payment", c) = {}
        BY <1>2, <2>2, <2>3, <3>1
      <3>3. PICK rest \in Nat : /\ rest = LiveTotal("bill_payment", c)'
                                /\ LiveTotal("bill_payment", c) = rest + n
        <4>1. TypeOK
          BY DEF Books, Inductive
        <4> QED
          BY <2>1, <3>1, <3>2, <4>1, LiveLess
      <3>4. BillAgrees(old, L, rest + n)
        BY <2>1, <3>1, <3>3 DEF BillsAgree, BillRow, Missing
      <3>5. old.status # "cancelled" /\ old.paid = rest + n /\ old.paid <= old.total
        BY <3>2, <3>4 DEF BillAgrees
      <3>6. old.total \in Nat
        BY <2>1 DEF BillRow
      <3>7. AtLeastZero(old.paid - n) = rest /\ AtLeastZero(old.total - rest) = old.total - rest
        <4>1. PICK p, d : p = old.paid - n /\ d = old.total - rest
          OBVIOUS
        <4>2. p = rest /\ d \in Nat
          BY <3>5, <3>6, <4>1
        <4> QED
          BY <4>1, <4>2 DEF AtLeastZero
      <3>8. WithoutPayment(old, n) = [old EXCEPT !.paid = rest, !.balance = old.total - rest,
                                          !.payment = PaymentState(rest, old.total - rest)]
        BY <3>7 DEF WithoutPayment
      <3>9. PICK row : row = bill'[c]
        OBVIOUS
      <3>10. /\ row.status = old.status /\ row.total = old.total /\ row.paid = rest
             /\ row.balance = old.total - rest
             /\ row.payment = PaymentState(rest, old.total - rest)
        <4>1. old \in BillRow /\ row = [old EXCEPT !.paid = rest, !.balance = old.total - rest,
                                          !.payment = PaymentState(rest, old.total - rest)]
          BY <2>1, <2>4, <3>8, <3>9
        <4> QED
          BY <4>1 DEF BillRow
      <3>11. rest <= old.total
        BY <3>5, <3>6
      <3> QED
        BY <3>3, <3>5, <3>9, <3>10, <3>11 DEF BillAgrees
    <2> QED
      <3>1. \A b \in Bills : bill'[b] # Missing =>
               BillAgrees(bill'[b], Live("bill_payment", b)', LiveTotal("bill_payment", b)')
        BY <2>5, <2>6
      <3> QED
        BY <3>1 DEF BillsAgree
  <1>4. CASE ~IsPayment(t)
    <2>1. bill' = bill
      BY <1>4 DEF UnwindBill
    <2>2. ASSUME NEW b
          PROVE  Live("bill_payment", b) \cap Legs(t) = {}
      <3>1. \A u \in Live("bill_payment", b) : tx[u].source = "bill_payment" /\ IsPayment(u)
        BY DEF Live, IsPayment
      <3> QED
        BY <1>1, <1>4, <3>1, LoneLeg
    <2> QED
      BY <1>2, <2>1, <2>2, BillKept DEF BillsAgree, Books, Inductive
  <1> QED
    BY <1>3, <1>4

----------------------------------------------------------------------------
(* Loans *)

LoanAgrees(row, repayments, repaid) ==
    IF row.status = "cancelled" THEN repayments = {}
    ELSE /\ row.outstanding = row.principal - repaid
         /\ row.status = IF row.outstanding = 0 THEN "closed" ELSE "active"
LoansAgree ==
    \A l \in Loans : loan[l] # Missing /\ ~ReversedTwice(l) =>
        LoanAgrees(loan[l], Live("company_loan_repayment", l),
                   LiveTotal("company_loan_repayment", l))

LEMMA LoansMatch == LoanMatchesRepayments <=> LoansAgree
  <1>1. \A l : LiveRepayments(l) = Live("company_loan_repayment", l)
    BY LiveRows
  <1>2. \A l : Total(LiveRepayments(l)) = LiveTotal("company_loan_repayment", l)
    BY <1>1 DEF Total, LiveTotal, TotalOf
  <1> QED
    BY <1>1, <1>2 DEF LoanMatchesRepayments, LoansAgree, LoanAgrees

LEMMA TwiceStays ==
    ASSUME TypeOK, NEW W, NEW status, Rewrites(W, status), NEW l, ReversedTwice(l)
    PROVE  ReversedTwice(l)'
  <1>1. PICK t \in TxIds : /\ Exists(t) /\ tx[t].ref = l
                           /\ tx[t].reverses # NoTx /\ ReversalsOf(t) # {}
    BY DEF ReversedTwice
  <1>2. PICK r \in TxIds : Exists(r) /\ tx[r].reverses = t
    BY <1>1 DEF ReversalsOf
  <1>3. /\ Exists(t)' /\ tx'[t].ref = l /\ tx'[t].reverses # NoTx
        /\ Exists(r)' /\ tx'[r].reverses = t
    BY <1>1, <1>2, RewrittenRow
  <1> QED
    BY <1>3 DEF ReversedTwice, ReversalsOf

LEMMA TwiceNow ==
    ASSUME TypeOK, NEW W, NEW status, Rewrites(W, status), Undone(W), NEW t \in TxIds,
           t \in W, Exists(t), tx[t].reverses # NoTx, NEW l, tx[t].ref = l
    PROVE  ReversedTwice(l)'
  <1>1. PICK r \in TxIds : Appears(r) /\ tx'[r].reverses = t
    BY DEF Undone
  <1>2. Exists(t)' /\ tx'[t].ref = l /\ tx'[t].reverses # NoTx
    BY RewrittenRow
  <1> QED
    BY <1>1, <1>2 DEF ReversedTwice, ReversalsOf, Appears

LEMMA LoanKept ==
    ASSUME TypeOK, LoansAgree, NEW W, NEW status, Rewrites(W, status),
           NEW l \in Loans, loan'[l] = loan[l], loan[l] # Missing, ~ReversedTwice(l)',
           Live("company_loan_repayment", l) \cap W = {},
           Entered("company_loan_repayment", l) = {}
    PROVE  LoanAgrees(loan'[l], Live("company_loan_repayment", l)',
                      LiveTotal("company_loan_repayment", l)')
  <1>1. /\ Live("company_loan_repayment", l)' = Live("company_loan_repayment", l)
        /\ LiveTotal("company_loan_repayment", l)' = LiveTotal("company_loan_repayment", l)
    BY LiveKept
  <1>2. ~ReversedTwice(l)
    BY TwiceStays
  <1>3. LoanAgrees(loan[l], Live("company_loan_repayment", l),
                   LiveTotal("company_loan_repayment", l))
    BY <1>2 DEF LoansAgree
  <1> QED
    BY <1>1, <1>3

LEMMA UnwoundLoans ==
    ASSUME Books, LoansAgree, NEW t \in TxIds, Posted(t), Unencumbered(t), NEW status,
           Rewrites(Legs(t), status), Undone(Legs(t)), UnwindLoan(t)
    PROVE  LoansAgree'
  <1>1. Exists(t) /\ Legs(t) \in SUBSET TxIds /\ t \in Legs(t)
    BY LegsAreRows DEF Posted, Exists, Legs
  <1>2. \A l : Entered("company_loan_repayment", l) = {}
    BY <1>1, NothingEnters
  <1> SUFFICES ASSUME NEW l \in Loans, loan'[l] # Missing, ~ReversedTwice(l)'
               PROVE  LoanAgrees(loan'[l], Live("company_loan_repayment", l)',
                                 LiveTotal("company_loan_repayment", l)')
    BY DEF LoansAgree
  <1>3. TypeOK
    BY DEF Books, Inductive
  <1>4. CASE /\ tx[t].source \in {"company_loan_repayment", "company_loan_disbursement"}
             /\ tx[t].ref = l
    <2>1. tx[t].reverses = NoTx
      BY <1>1, <1>3, <1>4, TwiceNow
    <2>2. Legs(t) = {t}
      BY <1>1, <1>4, LoneLeg
    <2>3. PICK old \in LoanRow : old = loan[l] /\ loan[l] # Missing
      BY <1>1, <1>3, <1>4, ExistingLoan DEF Books, Inductive, ReferencesResolve, Resolves
    <2>4. PICK n \in Nat : n = tx[t].amount
      BY <1>1, <1>3, ExistingRow DEF TxRow
    <2>5. PICK L : L = Live("company_loan_repayment", l)
      OBVIOUS
    <2>6. ~ReversedTwice(l) /\ LoanAgrees(old, L, LiveTotal("company_loan_repayment", l))
      BY <1>3, <2>3, <2>5, TwiceStays DEF LoansAgree
    <2>7. CASE tx[t].source = "company_loan_repayment"
      <3>1. loan'[l] = WithoutRepayment(old, n)
        BY <1>3, <1>4, <2>3, <2>4, <2>7 DEF UnwindLoan, TypeOK
      <3>2. /\ t \in L /\ \A u \in L : u \in Legs(t) => u = t
        BY <1>4, <2>1, <2>2, <2>5, <2>7 DEF Live
      <3>3. PICK rest \in Nat : /\ rest = LiveTotal("company_loan_repayment", l)'
                                /\ LiveTotal("company_loan_repayment", l) = rest + n
        BY <1>1, <1>2, <1>3, <2>4, <2>5, <3>2, LiveLess
      <3>4. old.outstanding = old.principal - (rest + n) /\ old.status # "cancelled"
        BY <2>6, <3>2, <3>3 DEF LoanAgrees
      <3>5. old.principal \in Nat /\ old.outstanding \in Nat
        BY <2>3 DEF LoanRow
      <3>6. PICK o \in Nat : o = old.principal - rest
        BY <3>4, <3>5
      <3>7. (IF old.outstanding + n < old.principal THEN old.outstanding + n
             ELSE old.principal) = o
        BY <3>4, <3>5, <3>6
      <3>8. loan'[l] = [old EXCEPT !.outstanding = o,
                                   !.status = IF o > 0 THEN "active" ELSE "closed"]
        BY <3>1, <3>7 DEF WithoutRepayment
      <3>9. PICK row : row = loan'[l]
        OBVIOUS
      <3>10. /\ row.outstanding = o /\ row.principal = old.principal
             /\ row.status = IF o > 0 THEN "active" ELSE "closed"
        BY <2>3, <3>8, <3>9 DEF LoanRow
      <3>11. o > 0 <=> o # 0
        OBVIOUS
      <3> QED
        BY <3>3, <3>6, <3>9, <3>10, <3>11 DEF LoanAgrees
    <2>8. CASE tx[t].source = "company_loan_disbursement"
      <3>1. PICK row : row = loan'[l] /\ row.status = "cancelled"
        <4>1. loan' = [loan EXCEPT ![l].outstanding = 0, ![l].status = "cancelled"]
          BY <1>4, <2>8 DEF UnwindLoan
        <4>2. loan'[l] = [[old EXCEPT !.outstanding = 0] EXCEPT !.status = "cancelled"]
          BY <1>3, <2>3, <4>1 DEF TypeOK
        <4>3. [[old EXCEPT !.outstanding = 0] EXCEPT !.status = "cancelled"].status = "cancelled"
          BY <2>3 DEF LoanRow
        <4> QED
          BY <4>2, <4>3
      <3>2. L = {}
        BY <1>4, <2>5, <2>8, LiveRows DEF Unencumbered
      <3>3. Live("company_loan_repayment", l)' = {}
        BY <1>2, <1>3, <2>5, <3>2, LiveKept
      <3> QED
        BY <3>1, <3>3 DEF LoanAgrees
    <2> QED
      BY <1>4, <2>7, <2>8
  <1>5. CASE ~(/\ tx[t].source \in {"company_loan_repayment", "company_loan_disbursement"}
               /\ tx[t].ref = l)
    <2>1. loan'[l] = loan[l]
      BY <1>3, <1>5 DEF UnwindLoan, TypeOK
    <2>2. Live("company_loan_repayment", l) \cap Legs(t) = {}
      <3>1. \A u \in Live("company_loan_repayment", l) :
               tx[u].source = "company_loan_repayment" /\ tx[u].ref = l
        BY DEF Live
      <3> QED
        BY <1>1, <1>5, <3>1, LoneLeg
    <2> QED
      BY <1>2, <1>3, <2>1, <2>2, LoanKept
  <1> QED
    BY <1>4, <1>5

\* A chain whose root is no longer posted has nothing in force to delete.
LEMMA ChainHoldsNothingLive ==
    ASSUME Books, NEW root \in TxIds, Exists(root), ~Posted(root),
           NEW source, source # "account_transfer", NEW ref
    PROVE  Live(source, ref) \cap Chain(root) = {}
  <1> SUFFICES ASSUME NEW u \in Live(source, ref), u \in Chain(root)
               PROVE  FALSE
    OBVIOUS
  <1>1. /\ u \in TxIds /\ Posted(u) /\ Exists(u) /\ tx[u].reverses = NoTx
        /\ tx[u].source = source
    BY DEF Live, Posted, Exists
  <1>2. CASE u \in RootIds(root)
    <2>1. u \in Legs(root)
      BY <1>2 DEF RootIds, Legs
    <2> QED
      BY <1>1, <2>1, LoneLeg
  <1>3. CASE u \notin RootIds(root)
    <2>1. PICK w \in RootIds(root) : u \in ReversalsOf(w)
      BY <1>3 DEF Chain
    <2>2. w \in TxIds /\ tx[u].reverses = w
      BY <2>1, ChainIsRows DEF ReversalsOf
    <2> QED
      BY <1>1, <2>2, LedgerAssumption DEF TxIds, NoTx
  <1> QED
    BY <1>2, <1>3

----------------------------------------------------------------------------
(* No step makes the tables disagree unless it writes what it read too early. *)

Agree == BillsAgree /\ LoansAgree

LEMMA BillsKept ==
    ASSUME TypeOK, BillsAgree, NEW W, NEW status, Rewrites(W, status), UNCHANGED bill,
           \A b : Live("bill_payment", b) \cap W = {} /\ Entered("bill_payment", b) = {}
    PROVE  BillsAgree'
  BY BillKept DEF BillsAgree

LEMMA LoansKept ==
    ASSUME TypeOK, LoansAgree, NEW W, NEW status, Rewrites(W, status), UNCHANGED loan,
           \A l : /\ Live("company_loan_repayment", l) \cap W = {}
                  /\ Entered("company_loan_repayment", l) = {}
    PROVE  LoansAgree'
  BY LoanKept DEF LoansAgree

LEMMA UnchangedAgree ==
    ASSUME TypeOK, Agree, UNCHANGED <<tx, bill, loan>>
    PROVE  Agree'
  <1>1. Rewrites({}, "deleted") /\ \A source, ref : Entered(source, ref) = {}
    BY NothingRewritten DEF Entered, Appears, Exists
  <1> QED
    BY <1>1, BillsKept, LoansKept DEF Agree

LEMMA InsertionEnters ==
    ASSUME Books, NEW t \in TxIds, NEW row \in TxRow, Insert(t, row), row.status = "posted",
           row.reverses = NoTx, row.group = NoTx, row.source # "account_transfer"
    PROVE  /\ Rewrites({}, "deleted") /\ tx'[t] = row
           /\ Entered(row.source, row.ref) = {t}
           /\ \A source, ref : source # row.source \/ ref # row.ref
                                  => Entered(source, ref) = {}
  <1>1. ~Exists(t) /\ tx'[t] = row /\ \A u \in TxIds : u # t => tx'[u] = tx[u]
    BY InsertedRow DEF Books, Inductive
  <1>2. \A u \in TxIds : Appears(u) <=> u = t
    BY <1>1 DEF Appears, Exists
  <1> QED
    BY <1>1, <1>2, InsertionRewrites DEF Entered, Posted, Books

LEMMA CreationAgrees ==
    ASSUME Books, Agree, NEW s \in Sessions, Create(s)
    PROVE  Agree'
  <1>1. TypeOK
    BY DEF Books, Inductive
  <1>2. ASSUME NEW d \in {"credit", "debit"}, NEW a \in Accounts, NEW n \in Amounts,
               CreateTransaction(s, d, a, n)
        PROVE  Agree'
    <2>1. PICK t \in TxIds : Insert(t, Row(d, a, n, "manual_adjustment", "none", NoTx))
      BY <1>2 DEF CreateTransaction
    <2>2. PICK row \in TxRow : row = Row(d, a, n, "manual_adjustment", "none", NoTx)
      BY LedgerAssumption DEF Row, TxRow
    <2>3. /\ row.status = "posted" /\ row.reverses = NoTx /\ row.group = NoTx
          /\ row.source = "manual_adjustment"
      BY <2>2 DEF Row
    <2>4. Rewrites({}, "deleted") /\ \A source, ref : source # "manual_adjustment"
                                        => Entered(source, ref) = {}
      BY <2>1, <2>2, <2>3, InsertionEnters
    <2> QED
      BY <1>1, <1>2, <2>4, BillsKept, LoansKept DEF CreateTransaction, Agree
  <1>3. ASSUME NEW b \in Bills, NEW k \in {"sales", "purchase"}, NEW n \in Totals,
               CreateBill(s, b, k, n)
        PROVE  Agree'
    <2>1. Rewrites({}, "deleted") /\ \A source, ref : Entered(source, ref) = {}
      BY <1>3, NothingRewritten DEF CreateBill, Entered, Appears, Exists
    <2>2. LoansAgree'
      BY <1>1, <1>3, <2>1, LoansKept DEF CreateBill, Agree
    <2>3. ASSUME NEW c \in Bills, c # b, bill'[c] # Missing
          PROVE  BillAgrees(bill'[c], Live("bill_payment", c)', LiveTotal("bill_payment", c)')
      <3>1. bill'[c] = bill[c]
        BY <1>1, <1>3, <2>3 DEF CreateBill, TypeOK
      <3> QED
        BY <1>1, <2>1, <2>3, <3>1, BillKept DEF Agree
    <2>4. Live("bill_payment", b) = {}
      BY <1>3 DEF CreateBill, Live, Posted, Exists, Books, Inductive, ReferencesResolve, Resolves
    <2>5. Live("bill_payment", b)' = {} /\ LiveTotal("bill_payment", b)' = 0
      <3>1. LiveTotal("bill_payment", b) = 0
        BY <2>4, TotalOfNothing DEF LiveTotal
      <3> QED
        BY <1>1, <2>1, <2>4, <3>1, LiveKept
    <2>6. PICK row : /\ row = bill'[b] /\ row.paid = 0 /\ row.total = n
                     /\ row.payment = "unpaid" /\ row.status = "issued"
      BY <1>1, <1>3 DEF CreateBill, TypeOK
    <2>7. n \in Nat
      BY LedgerAssumption
    <2>8. BillAgrees(bill'[b], Live("bill_payment", b)', LiveTotal("bill_payment", b)')
      BY <2>5, <2>6, <2>7 DEF BillAgrees, PaymentState
    <2> QED
      BY <2>2, <2>3, <2>8 DEF Agree, BillsAgree
  <1>4. ASSUME NEW l \in Loans, NEW a \in Accounts, NEW n \in Totals,
               CreateCompanyLoan(s, l, a, n)
        PROVE  Agree'
    <2>1. PICK t \in TxIds : Insert(t, Row("credit", a, n, "company_loan_disbursement", l, NoTx))
      BY <1>4 DEF CreateCompanyLoan
    <2>2. PICK entry \in TxRow :
             entry = Row("credit", a, n, "company_loan_disbursement", l, NoTx)
      BY LedgerAssumption DEF Row, TxRow
    <2>3. /\ entry.status = "posted" /\ entry.reverses = NoTx /\ entry.group = NoTx
          /\ entry.source = "company_loan_disbursement"
      BY <2>2 DEF Row
    <2>4. Rewrites({}, "deleted") /\ \A source, ref : source # "company_loan_disbursement"
                                        => Entered(source, ref) = {}
      BY <2>1, <2>2, <2>3, InsertionEnters
    <2>5. BillsAgree'
      BY <1>1, <1>4, <2>4, BillsKept DEF CreateCompanyLoan, Agree
    <2>6. ASSUME NEW m \in Loans, m # l, loan'[m] # Missing, ~ReversedTwice(m)'
          PROVE  LoanAgrees(loan'[m], Live("company_loan_repayment", m)',
                            LiveTotal("company_loan_repayment", m)')
      <3>1. loan'[m] = loan[m]
        BY <1>1, <1>4, <2>6 DEF CreateCompanyLoan, TypeOK
      <3> QED
        BY <1>1, <2>4, <2>6, <3>1, LoanKept DEF Agree
    <2>7. Live("company_loan_repayment", l) = {}
      BY <1>4 DEF CreateCompanyLoan, Live, Posted, Exists, Books, Inductive,
                  ReferencesResolve, Resolves
    <2>8. Live("company_loan_repayment", l)' = {} /\ LiveTotal("company_loan_repayment", l)' = 0
      <3>1. LiveTotal("company_loan_repayment", l) = 0
        BY <2>7, TotalOfNothing DEF LiveTotal
      <3> QED
        BY <1>1, <2>4, <2>7, <3>1, LiveKept
    <2>9. PICK row : /\ row = loan'[l] /\ row.principal = n /\ row.outstanding = n
                     /\ row.status = "active"
      BY <1>1, <1>4 DEF CreateCompanyLoan, TypeOK
    <2>10. n \in Nat \ {0}
      BY LedgerAssumption
    <2>11. LoanAgrees(loan'[l], Live("company_loan_repayment", l)',
                      LiveTotal("company_loan_repayment", l)')
      BY <2>8, <2>9, <2>10 DEF LoanAgrees
    <2> QED
      BY <2>5, <2>6, <2>11 DEF Agree, LoansAgree
  <1> QED
    BY <1>2, <1>3, <1>4 DEF Create

LEMMA CommitBillPaymentAgrees ==
    ASSUME Books, Agree, NEW s \in Sessions, CommitBillPayment(s), Fresh(req[s]), Admitted(req[s])
    PROVE  Agree'
  <1>1. TypeOK
    BY DEF Books, Inductive
  <1>2. PICK q \in Request : q = req[s] /\ Sound(q) /\ q.op = "pay_bill" /\ Fresh(q) /\ Admitted(q)
    BY DEF Books, Inductive, TypeOK, RequestSound, CommitBillPayment, Idle
  <1>3. PICK c \in Bills, old \in BillRow, n \in Nat, a \in Accounts :
           /\ c = q.bill /\ old = q.seen /\ n = q.amount /\ a = q.account
           /\ bill[c] = old /\ bill[c] # Missing
           /\ n > 0 /\ old.status = "issued" /\ n <= old.balance
    BY <1>2 DEF Request, Sound, Fresh, Admitted
  <1>4. old.paid + old.balance = old.total
    BY <1>3 DEF Books, Inductive, BillColumnsAgree
  <1>5. PICK d \in {"credit", "debit"}, t \in TxIds :
           Insert(t, Row(d, a, n, "bill_payment", c, NoTx))
    BY <1>2, <1>3 DEF CommitBillPayment
  <1>6. PICK row \in TxRow : row = Row(d, a, n, "bill_payment", c, NoTx)
    BY DEF Row, TxRow
  <1>7. /\ row.status = "posted" /\ row.reverses = NoTx /\ row.group = NoTx
        /\ row.source = "bill_payment" /\ row.ref = c /\ row.amount = n
    BY <1>6 DEF Row
  <1>8. /\ Rewrites({}, "deleted") /\ tx'[t] = row /\ Entered("bill_payment", c) = {t}
        /\ \A source, ref : source # "bill_payment" \/ ref # c => Entered(source, ref) = {}
    BY <1>5, <1>6, <1>7, InsertionEnters
  <1>9. LoansAgree'
    BY <1>1, <1>8, LoansKept DEF CommitBillPayment, Agree
  <1>10. /\ \A b \in Bills : b # c => bill'[b] = bill[b]
         /\ bill'[c] = [old EXCEPT !.paid = old.paid + n, !.balance = old.total - (old.paid + n),
                          !.payment = IF old.total - (old.paid + n) <= 0
                                      THEN "paid" ELSE "partially_paid"]
    BY <1>1, <1>2, <1>3 DEF CommitBillPayment, TypeOK, BillRow
  <1>11. ASSUME NEW b \in Bills, b # c, bill'[b] # Missing
         PROVE  BillAgrees(bill'[b], Live("bill_payment", b)', LiveTotal("bill_payment", b)')
    BY <1>1, <1>8, <1>10, <1>11, BillKept DEF Agree
  <1>12. LiveTotal("bill_payment", c)' = LiveTotal("bill_payment", c) + n
    BY <1>1, <1>7, <1>8, LiveMore
  <1>13. BillAgrees(old, Live("bill_payment", c), LiveTotal("bill_payment", c))
    BY <1>3 DEF Agree, BillsAgree
  <1>14. PICK p \in Nat, left \in Nat :
            /\ p = old.paid + n /\ left = old.total - p /\ p > 0 /\ p <= old.total
    BY <1>3, <1>4 DEF BillRow
  <1>15. LiveTotal("bill_payment", c)' = p
    BY <1>3, <1>12, <1>13, <1>14 DEF BillAgrees
  <1>16. PICK new : new = bill'[c]
    OBVIOUS
  <1>17. /\ new.paid = p /\ new.balance = left /\ new.total = old.total
         /\ new.status = "issued" /\ new.payment = IF left <= 0 THEN "paid" ELSE "partially_paid"
    BY <1>3, <1>10, <1>14, <1>16 DEF BillRow
  <1>18. new.payment = PaymentState(p, left)
    BY <1>14, <1>17 DEF PaymentState
  <1>19. BillAgrees(bill'[c], Live("bill_payment", c)', LiveTotal("bill_payment", c)')
    BY <1>14, <1>15, <1>16, <1>17, <1>18 DEF BillAgrees
  <1> QED
    BY <1>9, <1>11, <1>19 DEF Agree, BillsAgree

LEMMA CommitLoanPaymentAgrees ==
    ASSUME Books, Agree, NEW s \in Sessions, CommitLoanPayment(s), Fresh(req[s]), Admitted(req[s])
    PROVE  Agree'
  <1>1. TypeOK
    BY DEF Books, Inductive
  <1>2. PICK q \in Request : q = req[s] /\ Sound(q) /\ q.op = "pay_loan" /\ Fresh(q) /\ Admitted(q)
    BY DEF Books, Inductive, TypeOK, RequestSound, CommitLoanPayment, Idle
  <1>3. PICK c \in Loans, old \in LoanRow, n \in Nat, a \in Accounts :
           /\ c = q.loan /\ old = q.seen /\ n = q.amount /\ a = q.account
           /\ loan[c] = old /\ loan[c] # Missing
           /\ old.status = "active" /\ n <= old.outstanding
    BY <1>2 DEF Request, Sound, Fresh, Admitted
  <1>4. PICK t \in TxIds : Insert(t, Row("debit", a, n, "company_loan_repayment", c, NoTx))
    BY <1>2, <1>3 DEF CommitLoanPayment
  <1>5. PICK row \in TxRow : row = Row("debit", a, n, "company_loan_repayment", c, NoTx)
    BY DEF Row, TxRow
  <1>6. /\ row.status = "posted" /\ row.reverses = NoTx /\ row.group = NoTx
        /\ row.source = "company_loan_repayment" /\ row.ref = c /\ row.amount = n
    BY <1>5 DEF Row
  <1>7. /\ Rewrites({}, "deleted") /\ tx'[t] = row /\ Entered("company_loan_repayment", c) = {t}
        /\ \A source, ref : source # "company_loan_repayment" \/ ref # c
                               => Entered(source, ref) = {}
    BY <1>4, <1>5, <1>6, InsertionEnters
  <1>8. BillsAgree'
    BY <1>1, <1>7, BillsKept DEF CommitLoanPayment, Agree
  <1>9. PICK left \in Nat : left = old.outstanding - n
    BY <1>3 DEF LoanRow
  <1>10. /\ \A l \in Loans : l # c => loan'[l] = loan[l]
         /\ loan'[c] = [old EXCEPT !.outstanding = left,
                                   !.status = IF left <= 0 THEN "closed" ELSE "active"]
    BY <1>1, <1>2, <1>3, <1>9 DEF CommitLoanPayment, TypeOK, LoanRow
  <1> SUFFICES ASSUME NEW l \in Loans, loan'[l] # Missing, ~ReversedTwice(l)'
               PROVE  LoanAgrees(loan'[l], Live("company_loan_repayment", l)',
                                 LiveTotal("company_loan_repayment", l)')
    BY <1>8 DEF Agree, LoansAgree
  <1>11. CASE l # c
    BY <1>1, <1>7, <1>10, <1>11, LoanKept DEF Agree
  <1>12. CASE l = c
    <2>1. LiveTotal("company_loan_repayment", c)' = LiveTotal("company_loan_repayment", c) + n
      BY <1>1, <1>6, <1>7, LiveMore
    <2>2. ~ReversedTwice(c)
      BY <1>1, <1>7, <1>12, TwiceStays
    <2>3. LoanAgrees(old, Live("company_loan_repayment", c),
                     LiveTotal("company_loan_repayment", c))
      BY <1>3, <2>2 DEF Agree, LoansAgree
    <2>4. PICK repaid \in Int : repaid = LiveTotal("company_loan_repayment", c)
      <3>1. \A u \in Live("company_loan_repayment", c) : tx[u].amount \in Nat
        BY <1>1, <1>7, LiveAfter
      <3>2. Live("company_loan_repayment", c) \in SUBSET TxIds
        BY DEF Live
      <3> QED
        BY <3>1, <3>2, TotalIsNat DEF LiveTotal
    <2>5. old.outstanding = old.principal - repaid /\ old.principal \in Nat
      BY <1>3, <2>3, <2>4 DEF LoanAgrees, LoanRow
    <2>6. PICK new : new = loan'[c]
      OBVIOUS
    <2>7. /\ new.outstanding = left /\ new.principal = old.principal
          /\ new.status = IF left <= 0 THEN "closed" ELSE "active"
      BY <1>10, <2>6 DEF LoanRow
    <2>8. left = old.principal - (repaid + n) /\ (left <= 0 <=> left = 0)
      BY <1>9, <2>5
    <2> QED
      BY <1>12, <2>1, <2>4, <2>6, <2>7, <2>8 DEF LoanAgrees
  <1> QED
    BY <1>11, <1>12

LEMMA CommitTransferAgrees ==
    ASSUME Books, Agree, NEW s \in Sessions, CommitTransfer(s)
    PROVE  Agree'
  <1>1. /\ Rewrites({}, "deleted")
        /\ \A r \in TxIds : Appears(r) => tx'[r].source = "account_transfer"
    BY CommitTransferRewrites
  <1>2. \A ref : /\ Entered("bill_payment", ref) = {}
                 /\ Entered("company_loan_repayment", ref) = {}
    BY <1>1 DEF Entered
  <1> QED
    BY <1>1, <1>2, BillsKept, LoansKept DEF CommitTransfer, Agree, Books, Inductive

LEMMA CommitReverseAgrees ==
    ASSUME Books, Agree, NEW s \in Sessions, CommitReverse(s), Fresh(req[s])
    PROVE  Agree'
  <1>1. PICK t \in TxIds : /\ t = req[s].tx /\ Reverses(req[s]) /\ Held(s, t)
                           /\ Rewrites(Legs(t), "reversed") /\ Undone(Legs(t))
    BY CommitReverseRewrites
  <1>2. Target(req[s]) = t
    BY <1>1 DEF CommitReverse, Ready, Target
  <1>3. Unencumbered(t)
    BY <1>1, <1>2 DEF Fresh
  <1>4. Posted(t)
    <2>1. Sound(req[s]) /\ req[s].op \in {"reverse", "reverse_payment"}
      BY DEF CommitReverse, Ready, Books, Inductive, RequestSound
    <2>2. Exists(t)
      BY <1>1, <2>1 DEF Sound, PaymentsOf
    <2> QED
      BY <1>1, <2>2 DEF Held, Legs
  <1>5. UnwindBill(t) /\ UnwindLoan(t)
    BY <1>1 DEF CommitReverse
  <1> QED
    BY <1>1, <1>3, <1>4, <1>5, UnwoundBills, UnwoundLoans DEF Agree

LEMMA CommitDeleteAgrees ==
    ASSUME Books, Agree, NEW s \in Sessions, CommitDelete(s), Fresh(req[s])
    PROVE  Agree'
  <1>1. PICK root \in TxIds, S \in SUBSET locks[s] :
           /\ root = Root(req[s].tx) /\ Exists(root) /\ Rewrites(S, "deleted")
           /\ \/ /\ Posted(root) /\ Reverses(req[s]) /\ Held(s, root)
                 /\ S = Legs(root) /\ Undone(S)
                 /\ UnwindBill(root) /\ UnwindLoan(root)
              \/ /\ ~Posted(root) /\ S = Chain(root) /\ \A r \in TxIds : ~Appears(r)
                 /\ UNCHANGED <<bill, loan>>
    BY CommitDeleteRewrites
  <1>2. CASE /\ Posted(root) /\ Reverses(req[s]) /\ S = Legs(root) /\ Undone(S)
             /\ UnwindBill(root) /\ UnwindLoan(root)
    <2>1. Target(req[s]) = root
      BY <1>1 DEF CommitDelete, Ready, Target
    <2>2. Unencumbered(root)
      BY <1>2, <2>1 DEF Fresh
    <2> QED
      BY <1>1, <1>2, <2>2, UnwoundBills, UnwoundLoans DEF Agree
  <1>3. CASE /\ ~Posted(root) /\ S = Chain(root) /\ \A r \in TxIds : ~Appears(r)
             /\ UNCHANGED <<bill, loan>>
    <2>1. \A source, ref : Entered(source, ref) = {}
      BY <1>3 DEF Entered
    <2>2. \A ref : /\ Live("bill_payment", ref) \cap S = {}
                   /\ Live("company_loan_repayment", ref) \cap S = {}
      BY <1>1, <1>3, ChainHoldsNothingLive
    <2> QED
      BY <1>1, <1>3, <2>1, <2>2, BillsKept, LoansKept DEF Agree, Books, Inductive
  <1> QED
    BY <1>1, <1>2, <1>3

LEMMA CommitVoidAgrees ==
    ASSUME Books, Agree, NEW s \in Sessions, CommitVoid(s)
    PROVE  Agree'
  <1>1. TypeOK
    BY DEF Books, Inductive
  <1>2. PICK c \in Bills : c = req[s].bill /\ bill[c] # Missing
    <2>1. req[s] \in Request /\ Sound(req[s]) /\ req[s].op = "void"
      BY ReadyRequest DEF CommitVoid, Locking, Books
    <2> QED
      BY <2>1 DEF Request, Sound
  <1>3. PICK S : /\ S = Live("bill_payment", c) /\ S \in SUBSET TxIds
                 /\ Rewrites(S, "reversed") /\ Undone(S)
    <2>1. LivePayments(c) = Live("bill_payment", c)
      BY LiveRows
    <2> QED
      BY <1>2, <2>1, CommitVoidRewrites DEF Live
  <1>4. \A source, ref : Entered(source, ref) = {}
    BY <1>3, NothingEnters
  <1>5. LoansAgree'
    <2>1. \A ref : Live("company_loan_repayment", ref) \cap S = {}
      BY <1>3 DEF Live
    <2> QED
      BY <1>1, <1>3, <1>4, <2>1, LoansKept DEF CommitVoid, Agree
  <1>6. PICK old \in BillRow : old = bill[c]
    BY <1>1, <1>2, ExistingBill
  <1>7. /\ \A b \in Bills : b # c => bill'[b] = bill[b]
        /\ bill'[c].status = "cancelled"
    <2>1. \A b \in Bills : b # c => bill'[b] = bill[b]
      BY <1>1, <1>2 DEF CommitVoid, TypeOK
    <2>2. bill'[c] = [[[[old EXCEPT !.status = "cancelled"] EXCEPT !.payment = "void"]
                         EXCEPT !.paid = 0] EXCEPT !.balance = 0]
      BY <1>1, <1>2, <1>6 DEF CommitVoid, TypeOK
    <2>3. [[[[old EXCEPT !.status = "cancelled"] EXCEPT !.payment = "void"]
                         EXCEPT !.paid = 0] EXCEPT !.balance = 0].status = "cancelled"
      BY <1>6 DEF BillRow
    <2> QED
      BY <2>1, <2>2, <2>3
  <1>8. ASSUME NEW b \in Bills, b # c, bill'[b] # Missing
        PROVE  BillAgrees(bill'[b], Live("bill_payment", b)', LiveTotal("bill_payment", b)')
    <2>1. Live("bill_payment", b) \cap S = {}
      BY <1>3, <1>8 DEF Live
    <2> QED
      BY <1>1, <1>3, <1>4, <1>7, <1>8, <2>1, BillKept DEF Agree
  <1>9. Live("bill_payment", c)' = {}
    <2>1. Live("bill_payment", c)' = (Live("bill_payment", c) \ S) \cup Entered("bill_payment", c)
      BY <1>1, <1>3, LiveAfter
    <2> QED
      BY <1>3, <1>4, <2>1
  <1>10. BillAgrees(bill'[c], Live("bill_payment", c)', LiveTotal("bill_payment", c)')
    BY <1>7, <1>9 DEF BillAgrees
  <1> QED
    BY <1>5, <1>8, <1>10 DEF Agree, BillsAgree

\* The requests whose effect depends on what they read earlier commit only
\* while that is still so.
FreshCommits == [][\A s \in Sessions : Commit(s) => Fresh(req[s])]_vars

Matched == Books /\ Agree /\ \A s \in Sessions : Admitted(req[s])

LEMMA AdmittedStep ==
    ASSUME Books, Next, \A u \in Sessions : Admitted(req[u])
    PROVE  \A u \in Sessions : Admitted(req'[u])
  <1>1. TypeOK
    BY DEF Books, Inductive
  <1>2. PICK s \in Sessions : Create(s) \/ Start(s) \/ Advance(s) \/ Rollback(s)
    BY DEF Next
  <1> SUFFICES ASSUME Admitted(req'[s]) \/ UNCHANGED req,
                      \A u \in Sessions : u # s => req'[u] = req[u]
               PROVE  \A u \in Sessions : Admitted(req'[u])
    <2>1. Create(s) \/ Lock(s) => UNCHANGED req
      BY DEF Create, CreateTransaction, CreateBill, CreateCompanyLoan, Lock
    <2>2. ASSUME End(s)
          PROVE  /\ Admitted(req'[s])
                 /\ \A u \in Sessions : u # s => req'[u] = req[u]
      BY <1>1, <2>2 DEF End, TypeOK, Admitted, Idle
    <2>3. ASSUME NEW op, NEW r, Begin(s, op, r), Admitted(r)
          PROVE  /\ Admitted(req'[s])
                 /\ \A u \in Sessions : u # s => req'[u] = req[u]
      BY <1>1, <2>3 DEF Begin, TypeOK
    <2>4. ASSUME Start(s)
          PROVE  /\ Admitted(req'[s])
                 /\ \A u \in Sessions : u # s => req'[u] = req[u]
      <3>1. CASE \E b \in Bills, a \in Accounts, n \in Amounts : StartBillPayment(s, b, a, n)
        <4>1. PICK b \in Bills, a \in Accounts, n \in Amounts : StartBillPayment(s, b, a, n)
          BY <3>1
        <4>2. n > 0 /\ bill[b].status = "issued"
          BY <1>1, <4>1, LedgerAssumption, ExistingBill DEF StartBillPayment, BillRow
        <4> QED
          BY <2>3, <4>1, <4>2 DEF StartBillPayment, Admitted
      <3>2. CASE \E l \in Loans, a \in Accounts, n \in Amounts : StartLoanPayment(s, l, a, n)
        BY <2>3, <3>2 DEF StartLoanPayment, Admitted
      <3>3. CASE \E a, c \in Accounts, n \in Amounts : StartTransfer(s, a, c, n)
        BY <2>3, <3>3 DEF StartTransfer, Admitted
      <3>4. CASE StartLocking(s)
        BY <2>3, <3>4 DEF StartLocking, Admitted
      <3> QED
        BY <2>4, <3>1, <3>2, <3>3, <3>4 DEF Start
    <2>5. ASSUME Check(s)
          PROVE  /\ Admitted(req'[s])
                 /\ \A u \in Sessions : u # s => req'[u] = req[u]
      <3>1. PICK q : q = req[s] /\ q \in Request /\ q.op \in Locking
        BY <1>1, <2>5 DEF Check, TypeOK, Locking, Idle
      <3>2. req' = [req EXCEPT ![s] = [q EXCEPT !.checked = TRUE]]
        BY <2>5, <3>1 DEF Check
      <3>3. [q EXCEPT !.checked = TRUE].op \in Locking
        BY <3>1 DEF Request, Locking
      <3> QED
        BY <1>1, <3>2, <3>3 DEF TypeOK, Admitted, Locking
    <2>6. Refuse(s) \/ Commit(s) \/ Rollback(s) => End(s)
      BY DEF Refuse, Rollback, Commit, CommitBillPayment, CommitLoanPayment, CommitTransfer,
             CommitReverse, CommitDelete, CommitVoid, CommitUpdateLoan
    <2> QED
      BY <1>2, <2>1, <2>2, <2>4, <2>5, <2>6 DEF Advance
  <1> QED
    OBVIOUS

LEMMA CommitAgrees ==
    ASSUME Matched, NEW s \in Sessions, Commit(s), Fresh(req[s])
    PROVE  Agree'
  <1>1. CommitUpdateLoan(s) => Agree'
    BY UnchangedAgree DEF CommitUpdateLoan, Matched, Books, Inductive
  <1> QED
    BY <1>1, CommitBillPaymentAgrees, CommitLoanPaymentAgrees, CommitTransferAgrees,
       CommitReverseAgrees, CommitDeleteAgrees, CommitVoidAgrees DEF Commit, Matched

LEMMA MatchedStep ==
    ASSUME Matched, [Next]_vars, [\A s \in Sessions : Commit(s) => Fresh(req[s])]_vars
    PROVE  Matched'
  <1>1. Books'
    BY BooksStep DEF Matched
  <1>2. TypeOK
    BY DEF Matched, Books, Inductive
  <1>3. CASE UNCHANGED vars
    BY <1>1, <1>2, <1>3, UnchangedAgree DEF vars, Matched
  <1>4. CASE Next /\ vars' # vars
    <2>1. PICK s \in Sessions : Create(s) \/ Start(s) \/ Advance(s) \/ Rollback(s)
      BY <1>4 DEF Next
    <2>2. Commit(s) => Fresh(req[s])
      BY <1>4
    <2>3. Start(s) \/ Lock(s) \/ Check(s) \/ Refuse(s) \/ Rollback(s) => UNCHANGED <<tx, bill, loan>>
      BY DEF Start, StartBillPayment, StartLoanPayment, StartTransfer, StartLocking, Begin,
             Lock, Check, Refuse, Rollback
    <2>4. Agree'
      BY <1>2, <2>1, <2>2, <2>3, UnchangedAgree, CreationAgrees, CommitAgrees
         DEF Advance, Matched
    <2>5. \A u \in Sessions : Admitted(req'[u])
      BY <1>4, AdmittedStep DEF Matched
    <2> QED
      BY <1>1, <2>4, <2>5 DEF Matched, Admitted
  <1> QED
    BY <1>3, <1>4

LEMMA InitMatched == Init => Matched
  <1> SUFFICES ASSUME Init
               PROVE  Matched
    OBVIOUS
  <1>1. Agree
    BY DEF Init, Agree, BillsAgree, LoansAgree
  <1>2. \A s \in Sessions : Admitted(req[s])
    BY DEF Init, Admitted, Idle
  <1> QED
    BY <1>1, <1>2, InitBooks DEF Matched

LEMMA FreshlyMatched == Spec /\ FreshCommits => []Matched
  BY InitMatched, MatchedStep, PTL DEF Spec, FreshCommits

LEMMA MatchedBooks == Matched => BillMatchesPayments /\ LoanMatchesRepayments
  BY BillsMatch, LoansMatch DEF Matched, Agree

\* Interleaved requests can only make a bill disagree with its payments when a
\* payment writes back a row that changed since record_bill_payment read it:
\* nothing else the endpoints do, in any order, ever does.
THEOREM OnlyStaleReadsUnmatchBills == Spec /\ FreshCommits => []BillMatchesPayments
  BY FreshlyMatched, MatchedBooks, PTL

\* The same for loans, where the other thing to be overtaken is the check that
\* a disbursement to reverse has no repayments.
THEOREM OnlyStaleReadsUnmatchLoans == Spec /\ FreshCommits => []LoanMatchesRepayments
  BY FreshlyMatched, MatchedBooks, PTL

----------------------------------------------------------------------------
(* Requests that come one at a time read nothing stale. *)

OneAtATime == \A s, u \in Sessions : s = u

LEMMA NothingGoesStale ==
    ASSUME OneAtATime, Books, NoStaleReads, [Next]_vars
    PROVE  NoStaleReads'
  <1>1. TypeOK
    BY DEF Books, Inductive
  <1>2. ASSUME NEW s \in Sessions, UNCHANGED <<tx, bill, loan, req>>
        PROVE  Fresh(req[s])'
    BY <1>2 DEF NoStaleReads, Fresh, Reverses, Target, Root, Posted, Unencumbered, LiveRepayments
  <1>3. CASE UNCHANGED vars
    BY <1>2, <1>3 DEF vars, NoStaleReads
  <1>4. CASE Next
    <2>1. PICK s \in Sessions : Create(s) \/ Start(s) \/ Advance(s) \/ Rollback(s)
      BY <1>4 DEF Next
    <2> SUFFICES Fresh(req[s])'
      BY DEF NoStaleReads, OneAtATime
    <2>2. ASSUME req'[s] = Idle
          PROVE  Fresh(req[s])'
      BY <2>2 DEF Fresh, Reverses, Idle
    <2>3. CASE Create(s)
      <3>1. req'[s].op = "idle"
        BY <2>3 DEF Create, CreateTransaction, CreateBill, CreateCompanyLoan, Active
      <3> QED
        BY <3>1 DEF Fresh, Reverses
    <2>4. CASE Start(s)
      <3>1. ASSUME NEW op, NEW r, Begin(s, op, r)
            PROVE  req'[s] = r /\ UNCHANGED <<bill, loan>>
        BY <1>1, <3>1 DEF Begin, TypeOK
      <3>2. CASE \E b \in Bills, a \in Accounts, n \in Amounts : StartBillPayment(s, b, a, n)
        BY <3>1, <3>2 DEF StartBillPayment, Fresh, Reverses
      <3>3. CASE \E l \in Loans, a \in Accounts, n \in Amounts : StartLoanPayment(s, l, a, n)
        BY <3>1, <3>3 DEF StartLoanPayment, Fresh, Reverses
      <3>4. CASE \E a, c \in Accounts, n \in Amounts : StartTransfer(s, a, c, n)
        BY <3>1, <3>4 DEF StartTransfer, Fresh, Reverses
      <3>5. CASE StartLocking(s)
        <4>1. ASSUME NEW op, NEW r, Begin(s, op, r), r.op \in Locking, ~r.checked
              PROVE  Fresh(req[s])'
          BY <3>1, <4>1 DEF Fresh, Reverses, Locking
        <4> QED
          <5>1. CASE \E op \in {"reverse", "delete"}, t \in TxIds :
                        Begin(s, op, [op |-> op, tx |-> t, checked |-> FALSE])
            BY <4>1, <5>1 DEF Locking
          <5>2. CASE \E b \in Bills, t \in TxIds :
                        Begin(s, "reverse_payment", [op |-> "reverse_payment", bill |-> b,
                                                     tx |-> t, checked |-> FALSE])
            BY <4>1, <5>2 DEF Locking
          <5>3. CASE \E b \in Bills :
                        Begin(s, "void", [op |-> "void", bill |-> b, checked |-> FALSE])
            BY <4>1, <5>3 DEF Locking
          <5>4. CASE \E l \in Loans :
                        Begin(s, "update_loan", [op |-> "update_loan", loan |-> l,
                                                 checked |-> FALSE])
            BY <4>1, <5>4 DEF Locking
          <5> QED
            BY <3>5, <5>1, <5>2, <5>3, <5>4 DEF StartLocking
      <3> QED
        BY <2>4, <3>2, <3>3, <3>4, <3>5 DEF Start
    <2>5. CASE Lock(s)
      BY <1>2, <2>5 DEF Lock
    <2>6. CASE Check(s)
      <3>1. PICK q \in Request : q = req[s] /\ q.op \in Locking
        BY <1>1, <2>6 DEF Check, TypeOK, Locking, Idle
      <3>2. PICK new : new = [q EXCEPT !.checked = TRUE]
        OBVIOUS
      <3>3. req'[s] = new /\ Fit(q) /\ UNCHANGED <<tx, bill, loan>>
        BY <1>1, <2>6, <3>1, <3>2 DEF Check, TypeOK
      <3>4. new.op = q.op /\ (q.op \in {"reverse", "reverse_payment", "delete"} => new.tx = q.tx)
        BY <3>1, <3>2 DEF Request, Locking
      <3>5. ASSUME Reverses(new)
            PROVE  Unencumbered(Target(new))
        <4>1. CASE q.op = "delete"
          BY <3>3, <3>4, <3>5, <4>1 DEF Reverses, Target, Fit, Posted
        <4>2. CASE q.op \in {"reverse", "reverse_payment"}
          BY <3>3, <3>4, <4>2 DEF Target, Fit
        <4> QED
          BY <3>4, <3>5, <4>1, <4>2 DEF Reverses
      <3>6. Reverses(new)' => Unencumbered(Target(new))'
        BY <3>3, <3>5 DEF Reverses, Target, Root, Posted, Unencumbered, LiveRepayments
      <3> QED
        BY <3>1, <3>3, <3>4, <3>6 DEF Fresh, Locking
    <2>7. CASE Refuse(s) \/ Commit(s) \/ Rollback(s)
      <3>1. End(s)
        BY <2>7 DEF Refuse, Rollback, Commit, CommitBillPayment, CommitLoanPayment,
             CommitTransfer, CommitReverse, CommitDelete, CommitVoid, CommitUpdateLoan
      <3> QED
        BY <1>1, <2>2, <3>1 DEF End, TypeOK
    <2> QED
      BY <2>1, <2>3, <2>4, <2>5, <2>6, <2>7 DEF Advance
  <1> QED
    BY <1>3, <1>4

LEMMA OneAtATimeIsFresh ==
    ASSUME OneAtATime
    PROVE  Spec => FreshCommits
  <1>1. Init => NoStaleReads
    BY DEF Init, NoStaleReads, Fresh, Reverses, Idle
  <1>2. Books /\ NoStaleReads /\ [Next]_vars => NoStaleReads'
    BY NothingGoesStale
  <1>3. NoStaleReads => [\A s \in Sessions : Commit(s) => Fresh(req[s])]_vars
    BY DEF NoStaleReads
  <1> QED
    BY <1>1, <1>2, <1>3, AlwaysBooks, PTL DEF Spec, FreshCommits

\* With requests that come one at a time, a bill always shows exactly what the
\* payments in force add up to, and a voided bill has none.
THEOREM BillsMatchOneAtATime ==
    ASSUME OneAtATime
    PROVE  Spec => []BillMatchesPayments
  BY OneAtATimeIsFresh, OnlyStaleReadsUnmatchBills, PTL

\* And a loan always owes its principal less the repayments in force.
THEOREM LoansMatchOneAtATime ==
    ASSUME OneAtATime
    PROVE  Spec => []LoanMatchesRepayments
  BY OneAtATimeIsFresh, OnlyStaleReadsUnmatchLoans, PTL

----------------------------------------------------------------------------
(* More about sums: over two sets, of two functions, by keys. *)

\* A sum over two sets that share nothing.
LEMMA SumOfTwo ==
    ASSUME NEW S, IsFiniteSet(S), NEW f, NEW g, Sums(g, f, S), \A x \in S : f[x] \in Int,
           NEW R \in SUBSET S, NEW T \in SUBSET S, R \cap T = {}
    PROVE  g[R \cup T] = g[R] + g[T]
  <1>0. \A U \in SUBSET S : \A z \in U : g[U] = f[z] + g[U \ {z}]
    <2>1. IsFiniteSet(S) /\ Sums(g, f, S) /\ \A x \in S : f[x] \in Int
      OBVIOUS
    <2> SUFFICES ASSUME NEW U \in SUBSET S, NEW z \in U
                 PROVE  g[U] = f[z] + g[U \ {z}]
      OBVIOUS
    <2> QED
      BY ONLY <2>1, SumWithout
  <1>1. \A U \in SUBSET S : g[U] \in Int
    BY SumsAreIntegers
  <1> DEFINE P == {U \in SUBSET S : U \subseteq T /\ g[R \cup U] # g[R] + g[U]}
  <1>2. SUFFICES ASSUME P # {}
                 PROVE  FALSE
    OBVIOUS
  <1>3. PICK U \in P : \A V \in P : V \subseteq U => V = U
    <2> HIDE DEF P
    <2>1. P \in SUBSET SUBSET S
      BY DEF P
    <2> QED
      BY <1>2, <2>1, MinimalSubset
  <1>4. U # {}
    <2> SUFFICES ASSUME U = {}
                 PROVE  FALSE
      OBVIOUS
    <2>1. g[U] = 0 /\ R \cup U = R
      BY DEF Sums
    <2>2. g[R] \in Int
      BY <1>1
    <2> QED
      BY <1>3, <2>1, <2>2
  <1>5. PICK x \in U : TRUE
    BY <1>4
  <1> DEFINE V == U \ {x}
  <1>6. V \notin P
    BY <1>3
  <1>7. V \in SUBSET S /\ V \subseteq T /\ (R \cup U) \ {x} = R \cup V /\ x \in R \cup U
    BY <1>3
  <1>8. g[R \cup V] = g[R] + g[V]
    BY <1>6, <1>7
  <1>9. g[U] = f[x] + g[V] /\ g[R \cup U] = f[x] + g[R \cup V]
    BY <1>0, <1>3, <1>7
  <1>10. f[x] \in Int /\ g[R] \in Int /\ g[V] \in Int
    BY <1>1, <1>3, <1>7
  <1> QED
    BY <1>3, <1>8, <1>9, <1>10

\* Adding up what is the difference of two functions.
LEMMA SumOfDifference ==
    ASSUME NEW S, IsFiniteSet(S), NEW f, NEW g, Sums(g, f, S), NEW e, NEW h, Sums(h, e, S),
           NEW d, NEW k, Sums(k, d, S),
           \A x \in S : f[x] \in Int /\ e[x] \in Int /\ d[x] = f[x] - e[x]
    PROVE  \A T \in SUBSET S : k[T] = g[T] - h[T]
  <1>1. \A T \in SUBSET S : g[T] \in Int /\ h[T] \in Int
    BY SumsAreIntegers
  <1> DEFINE P == {U \in SUBSET S : k[U] # g[U] - h[U]}
  <1>2. SUFFICES ASSUME P # {}
                 PROVE  FALSE
    OBVIOUS
  <1>3. PICK U \in P : \A V \in P : V \subseteq U => V = U
    <2> HIDE DEF P
    <2>1. P \in SUBSET SUBSET S
      BY DEF P
    <2> QED
      BY <1>2, <2>1, MinimalSubset
  <1>4. /\ g[U] = IF U = {} THEN 0 ELSE f[First(U)] + g[U \ {First(U)}]
        /\ h[U] = IF U = {} THEN 0 ELSE e[First(U)] + h[U \ {First(U)}]
        /\ k[U] = IF U = {} THEN 0 ELSE d[First(U)] + k[U \ {First(U)}]
    BY DEF Sums
  <1>5. U # {}
    BY <1>3, <1>4
  <1> DEFINE x == First(U)
             V == U \ {x}
  <1>6. x \in U
    BY <1>5, FirstIsMember
  <1>7. V \in SUBSET S /\ V # U /\ V \subseteq U
    BY <1>6
  <1>8. k[V] = g[V] - h[V]
    BY <1>3, <1>7
  <1>9. g[U] = f[x] + g[V] /\ h[U] = e[x] + h[V] /\ k[U] = d[x] + k[V]
    BY <1>4, <1>5
  <1>10. /\ f[x] \in Int /\ e[x] \in Int /\ d[x] = f[x] - e[x]
         /\ g[V] \in Int /\ h[V] \in Int
    BY <1>1, <1>6, <1>7
  <1> HIDE DEF x, V
  <1> QED
    BY <1>3, <1>8, <1>9, <1>10

\* Adding up by keys first, and then over the keys.
LEMMA SumByKey ==
    ASSUME NEW S, IsFiniteSet(S), NEW f, NEW g, Sums(g, f, S), \A x \in S : f[x] \in Int,
           NEW B, IsFiniteSet(B), NEW key, \A x \in S : key[x] \in B,
           NEW h, \A b \in B : h[b] = g[{x \in S : key[x] = b}],
           NEW k, Sums(k, h, B)
    PROVE  k[B] = g[S]
  <1> DEFINE Of(C) == {x \in S : key[x] \in C}
             P == {C \in SUBSET B : k[C] # g[Of(C)]}
  <1>1. SUFFICES P = {}
    <2>1. Of(B) = S
      OBVIOUS
    <2> QED
      BY <2>1
  <1>2. SUFFICES ASSUME P # {}
                 PROVE  FALSE
    OBVIOUS
  <1>3. PICK C \in P : \A D \in P : D \subseteq C => D = C
    <2> HIDE DEF P
    <2>1. P \in SUBSET SUBSET B
      BY DEF P
    <2> QED
      BY <1>2, <2>1, MinimalSubset
  <1>4. k[C] = IF C = {} THEN 0 ELSE h[First(C)] + k[C \ {First(C)}]
    BY DEF Sums
  <1>5. C # {}
    <2>1. Of({}) = {} /\ g[{}] = 0 /\ k[{}] = 0
      BY DEF Sums
    <2> QED
      BY <1>3, <2>1
  <1>6. PICK c \in C : c = First(C)
    BY <1>5, FirstIsMember
  <1> DEFINE D == C \ {c}
             K == {x \in S : key[x] = c}
  <1>7. k[C] = h[c] + k[D] /\ h[c] = g[K]
    BY <1>4, <1>5, <1>6
  <1>8. D \in SUBSET B /\ D # C /\ D \subseteq C
    OBVIOUS
  <1>9. k[D] = g[Of(D)]
    BY <1>3, <1>8
  <1>10. Of(C) = K \cup Of(D) /\ K \cap Of(D) = {} /\ K \in SUBSET S /\ Of(D) \in SUBSET S
    OBVIOUS
  <1>11. g[Of(C)] = g[K] + g[Of(D)]
    <2>1. PICK Q \in SUBSET S, R \in SUBSET S :
             Q = K /\ R = Of(D) /\ Q \cap R = {} /\ Q \cup R = Of(C)
      BY <1>10
    <2>2. IsFiniteSet(S) /\ Sums(g, f, S) /\ \A x \in S : f[x] \in Int
      OBVIOUS
    <2>3. g[Q \cup R] = g[Q] + g[R]
      BY ONLY <2>1, <2>2, SumOfTwo
    <2> QED
      BY <2>1, <2>3
  <1> QED
    BY <1>3, <1>7, <1>9, <1>11

LEMMA SumOfZeros ==
    ASSUME NEW S, IsFiniteSet(S), NEW f, NEW g, Sums(g, f, S), NEW T \in SUBSET S,
           \A x \in T : f[x] = 0
    PROVE  g[T] = 0
  <1> DEFINE P == {U \in SUBSET S : U \subseteq T /\ g[U] # 0}
  <1>1. SUFFICES ASSUME P # {}
                 PROVE  FALSE
    OBVIOUS
  <1>2. PICK U \in P : \A V \in P : V \subseteq U => V = U
    <2> HIDE DEF P
    <2>1. P \in SUBSET SUBSET S
      BY DEF P
    <2> QED
      BY <1>1, <2>1, MinimalSubset
  <1>3. g[U] = IF U = {} THEN 0 ELSE f[First(U)] + g[U \ {First(U)}]
    BY DEF Sums
  <1>4. U # {}
    BY <1>2, <1>3
  <1>5. First(U) \in U
    BY <1>4, FirstIsMember
  <1>6. g[U \ {First(U)}] = 0
    BY <1>2, <1>5
  <1> QED
    BY <1>2, <1>3, <1>4, <1>5, <1>6

LEMMA SumNegated ==
    ASSUME NEW S, IsFiniteSet(S), NEW f, NEW g, Sums(g, f, S), NEW e, NEW h, Sums(h, e, S),
           \A x \in S : f[x] \in Int /\ e[x] = -f[x]
    PROVE  h[S] = -g[S] /\ g[S] \in Int
  <1> DEFINE z == [x \in S |-> 0]
  <1>1. PICK k : Sums(k, z, S)
    BY SumsExist
  <1>2. \A x \in S : z[x] \in Int /\ z[x] = 0 /\ e[x] = z[x] - f[x]
    OBVIOUS
  <1> HIDE DEF z
  <1>3. k[S] = 0
    BY <1>1, <1>2, SumOfZeros
  <1>4. \A T \in SUBSET S : h[T] = k[T] - g[T]
    <2>1. \A x \in S : z[x] \in Int /\ f[x] \in Int /\ e[x] = z[x] - f[x]
      BY <1>2
    <2> QED
      BY <1>1, <2>1, SumOfDifference
  <1>5. g[S] \in Int
    BY SumsAreIntegers
  <1> QED
    BY <1>3, <1>4, <1>5

\* What is added up over a part of S, by the sums over S.
LEMMA AddsPart ==
    ASSUME NEW S, IsFiniteSet(S), NEW f, NEW g, Sums(g, f, S), NEW T \in SUBSET S,
           NEW e, NEW n, Adds(e, T, n), \A x \in T : e[x] = f[x]
    PROVE  n = g[T]
  <1>1. PICK h : Sums(h, e, T) /\ n = h[T]
    BY DEF Adds
  <1>2. IsFiniteSet(T)
    BY FS_Subset
  <1> QED
    BY <1>1, <1>2, SumsAgree

LEMMA AddsNegated ==
    ASSUME NEW S, IsFiniteSet(S), NEW f, NEW g, Sums(g, f, S), NEW T \in SUBSET S,
           NEW e, NEW n, Adds(e, T, n), \A x \in T : f[x] \in Int /\ e[x] = -f[x]
    PROVE  n = -g[T] /\ g[T] \in Int
  <1>1. PICK h : Sums(h, e, T) /\ n = h[T]
    BY DEF Adds
  <1>2. IsFiniteSet(T)
    BY FS_Subset
  <1>3. PICK k : Sums(k, f, T)
    BY <1>2, SumsExist
  <1>4. h[T] = -k[T] /\ k[T] \in Int
    BY <1>1, <1>2, <1>3, SumNegated
  <1>5. k[T] = g[T]
    BY <1>2, <1>3, SumsAgree
  <1> QED
    BY <1>1, <1>4, <1>5

----------------------------------------------------------------------------
(* What the queries add up. *)

LEMMA BalanceAdds ==
    ASSUME NEW S, IsFiniteSet(S), NEW f, \A b \in S : f[b] = bill[b].balance
    PROVE  Adds(f, S, MapThenSumSet(LAMBDA b : bill[b].balance, S))
  <1> DEFINE Sum == CHOOSE g : g = [T \in SUBSET S |->
                 IF T = {} THEN 0
                 ELSE bill[CHOOSE x \in T : TRUE].balance + g[T \ {CHOOSE x \in T : TRUE}]]
  <1>1. MapThenSumSet(LAMBDA b : bill[b].balance, S) = Sum[S]
    BY DEF MapThenSumSet, MapThenFoldSet
  <1>2. \A T \in SUBSET S : T # {} => f[First(T)] = bill[CHOOSE x \in T : TRUE].balance
    BY FirstIsMember DEF First
  <1>3. PICK g : Sums(g, f, S)
    BY SumsExist
  <1>4. g = [T \in SUBSET S |->
               IF T = {} THEN 0
               ELSE bill[CHOOSE x \in T : TRUE].balance + g[T \ {CHOOSE x \in T : TRUE}]]
    BY <1>2, <1>3 DEF Sums, First
  <1>5. Sum = [T \in SUBSET S |->
                 IF T = {} THEN 0
                 ELSE bill[CHOOSE x \in T : TRUE].balance + Sum[T \ {CHOOSE x \in T : TRUE}]]
    BY <1>4
  <1> HIDE DEF Sum
  <1>6. Sums(Sum, f, S)
    BY <1>2, <1>5 DEF Sums, First
  <1> QED
    BY <1>1, <1>6 DEF Adds

LEMMA ValueAdds ==
    ASSUME NEW S, IsFiniteSet(S), NEW f, \A b \in S : f[b] = bill[b].total
    PROVE  Adds(f, S, MapThenSumSet(LAMBDA b : bill[b].total, S))
  <1> DEFINE Sum == CHOOSE g : g = [T \in SUBSET S |->
                 IF T = {} THEN 0
                 ELSE bill[CHOOSE x \in T : TRUE].total + g[T \ {CHOOSE x \in T : TRUE}]]
  <1>1. MapThenSumSet(LAMBDA b : bill[b].total, S) = Sum[S]
    BY DEF MapThenSumSet, MapThenFoldSet
  <1>2. \A T \in SUBSET S : T # {} => f[First(T)] = bill[CHOOSE x \in T : TRUE].total
    BY FirstIsMember DEF First
  <1>3. PICK g : Sums(g, f, S)
    BY SumsExist
  <1>4. g = [T \in SUBSET S |->
               IF T = {} THEN 0
               ELSE bill[CHOOSE x \in T : TRUE].total + g[T \ {CHOOSE x \in T : TRUE}]]
    BY <1>2, <1>3 DEF Sums, First
  <1>5. Sum = [T \in SUBSET S |->
                 IF T = {} THEN 0
                 ELSE bill[CHOOSE x \in T : TRUE].total + Sum[T \ {CHOOSE x \in T : TRUE}]]
    BY <1>4
  <1> HIDE DEF Sum
  <1>6. Sums(Sum, f, S)
    BY <1>2, <1>5 DEF Sums, First
  <1> QED
    BY <1>1, <1>6 DEF Adds

SumOf(f, S) == MapThenSumSet(LAMBDA x : f[x], S)

LEMMA FunctionAdds ==
    ASSUME NEW S, IsFiniteSet(S), NEW f
    PROVE  Adds(f, S, SumOf(f, S))
  <1> DEFINE Sum == CHOOSE g : g = [T \in SUBSET S |->
                 IF T = {} THEN 0
                 ELSE f[CHOOSE x \in T : TRUE] + g[T \ {CHOOSE x \in T : TRUE}]]
  <1>1. SumOf(f, S) = Sum[S]
    BY DEF SumOf, MapThenSumSet, MapThenFoldSet
  <1>2. PICK g : Sums(g, f, S)
    BY SumsExist
  <1>3. g = [T \in SUBSET S |->
               IF T = {} THEN 0
               ELSE f[CHOOSE x \in T : TRUE] + g[T \ {CHOOSE x \in T : TRUE}]]
    BY <1>2 DEF Sums, First
  <1>4. Sum = [T \in SUBSET S |->
                 IF T = {} THEN 0
                 ELSE f[CHOOSE x \in T : TRUE] + Sum[T \ {CHOOSE x \in T : TRUE}]]
    BY <1>3
  <1> HIDE DEF Sum
  <1>5. Sums(Sum, f, S)
    BY <1>4 DEF Sums, First
  <1> QED
    BY <1>1, <1>5 DEF Adds

----------------------------------------------------------------------------
(* Cash flows and balances. *)

LEMMA ReportedRow ==
    ASSUME TypeOK, NEW t \in Reported
    PROVE  /\ t \in TxIds /\ Exists(t) /\ Counted(t) /\ tx[t] \in TxRow
           /\ tx[t].direction \in {"credit", "debit"} /\ tx[t].amount \in Nat
           /\ Signed(t) \in Int
  BY ExistingRow DEF Reported, TxRow, Signed

LEMMA FlowsAdd ==
    ASSUME TypeOK, NEW S \in SUBSET Reported, NEW f, NEW g, Sums(g, f, S),
           \A t \in S : f[t] = Signed(t), NEW T \in SUBSET S
    PROVE  Flow(T, "credit") - Flow(T, "debit") = g[T] /\ g[T] \in Int
  <1>1. IsFiniteSet(S) /\ \A t \in S : f[t] \in Int
    BY LedgerIsFinite, ReportedRow DEF Reported
  <1> DEFINE C == {t \in T : tx[t].direction = "credit"}
             D == {t \in T : tx[t].direction = "debit"}
             e == [t \in S |-> tx[t].amount]
  <1>2. C \in SUBSET S /\ D \in SUBSET S /\ C \cap D = {} /\ C \cup D = T
    BY ReportedRow
  <1>3. /\ \A t \in C : e[t] = tx[t].amount /\ e[t] = f[t]
        /\ \A t \in D : e[t] = tx[t].amount /\ e[t] = -f[t] /\ f[t] \in Int
    BY <1>1, ReportedRow DEF Signed
  <1>4. Flow(T, "credit") = TotalOf(tx, C) /\ Flow(T, "debit") = TotalOf(tx, D)
    BY DEF Flow, Total, TotalOf
  <1> HIDE DEF C, D, e
  <1>5. IsFiniteSet(C) /\ IsFiniteSet(D)
    BY <1>1, <1>2, FS_Subset
  <1>6. Adds(e, C, TotalOf(tx, C)) /\ Adds(e, D, TotalOf(tx, D))
    BY <1>3, <1>5, TotalAdds
  <1>7. PICK n : n = TotalOf(tx, C)
    OBVIOUS
  <1>8. PICK m : m = TotalOf(tx, D)
    OBVIOUS
  <1>9. n = g[C]
    BY <1>1, <1>2, <1>3, <1>6, <1>7, AddsPart
  <1>10. m = -g[D] /\ g[D] \in Int
    BY <1>1, <1>2, <1>3, <1>6, <1>8, AddsNegated
  <1>11. g[T] = g[C] + g[D] /\ g[C] \in Int
    BY <1>1, <1>2, SumOfTwo, SumsAreIntegers
  <1> QED
    BY <1>4, <1>7, <1>8, <1>9, <1>10, <1>11

\* The list of accounts and the summary of an account show one balance.
LEMMA BalancesListed ==
    ASSUME TypeOK, NEW a \in Accounts, NEW f, NEW g, Sums(g, f, Reported),
           \A t \in Reported : f[t] = Signed(t)
    PROVE  /\ ListedBalance[a] = Opening[a] + g[{t \in Reported : tx[t].account = a}]
           /\ ListedBalance[a] = Balance(a)
           /\ g[{t \in Reported : tx[t].account = a}] \in Int
  <1> DEFINE T == {t \in Reported : tx[t].account = a}
  <1>1. T \in SUBSET Reported /\ IsFiniteSet(T) /\ IsFiniteSet(Reported)
    BY LedgerIsFinite DEF Reported
  <1>2. ListedBalance[a] = Opening[a] + Flow(T, "credit") - Flow(T, "debit")
    BY DEF ListedBalance
  <1>3. T = {t \in TxIds : Counted(t) /\ tx[t].account = a}
    BY DEF Reported, Counted, Exists
  <1>4. Balance(a) = Opening[a] + MapThenSumSet(Signed, T)
    BY <1>3 DEF Balance
  <1>5. \A t \in T : f[t] = Signed(t)
    OBVIOUS
  <1> HIDE DEF T
  <1>6. Adds(f, T, MapThenSumSet(Signed, T))
    BY <1>1, <1>5, SignedAdds
  <1>7. PICK n : n = MapThenSumSet(Signed, T)
    OBVIOUS
  <1>8. n = g[T]
    BY <1>1, <1>6, <1>7, AddsPart
  <1>9. Flow(T, "credit") - Flow(T, "debit") = g[T] /\ g[T] \in Int
    BY <1>1, FlowsAdd
  <1>10. Flow(T, "credit") \in Int /\ Flow(T, "debit") \in Int
    <2>1. \A d : Flow(T, d) \in Nat
      <3> SUFFICES ASSUME NEW d
                   PROVE  Flow(T, d) \in Nat
        OBVIOUS
      <3> DEFINE U == {t \in T : tx[t].direction = d}
      <3>1. U \in SUBSET TxIds /\ \A t \in U : tx[t].amount \in Nat
        BY <1>1, ReportedRow
      <3>2. Flow(T, d) = TotalOf(tx, U)
        BY DEF Flow, Total, TotalOf
      <3> HIDE DEF U
      <3> QED
        BY <3>1, <3>2, TotalIsNat
    <2> QED
      BY <2>1
  <1>11. Opening[a] \in Nat
    BY LedgerAssumption
  <1> QED
    BY <1>2, <1>4, <1>7, <1>8, <1>9, <1>10, <1>11 DEF T

\* The money in the accounts has changed by the net cash flow.
LEMMA AccountsHoldTheFlow ==
    ASSUME TypeOK, NEW f, NEW g, Sums(g, f, Reported), \A t \in Reported : f[t] = Signed(t)
    PROVE  /\ InAccounts - MapThenSumSet(LAMBDA a : Opening[a], Accounts) = NetCashFlow
           /\ NetCashFlow = g[Reported]
  <1>1. IsFiniteSet(Reported) /\ IsFiniteSet(Accounts)
    BY LedgerIsFinite, ReportsAssumption DEF Reported
  <1>2. NetCashFlow = g[Reported] /\ g[Reported] \in Int
    BY FlowsAdd DEF NetCashFlow
  <1> DEFINE Of(a) == {t \in Reported : tx[t].account = a}
             h == [a \in Accounts |-> g[Of(a)]]
             key == [t \in Reported |-> tx[t].account]
  <1>3. PICK k : Sums(k, h, Accounts)
    BY <1>1, SumsExist
  <1>4. k[Accounts] = g[Reported]
    <2>1. \A t \in Reported : key[t] \in Accounts /\ f[t] \in Int
      BY ReportedRow DEF TxRow
    <2>2. \A a \in Accounts : h[a] = g[{t \in Reported : key[t] = a}]
      <3>1. \A a \in Accounts : Of(a) = {t \in Reported : key[t] = a}
        OBVIOUS
      <3> QED
        BY <3>1
    <2> HIDE DEF h, key
    <2> QED
      BY <1>1, <1>3, <2>1, <2>2, SumByKey
  <1>5. Adds(ListedBalance, Accounts, InAccounts)
    <2>1. InAccounts = SumOf(ListedBalance, Accounts)
      BY DEF InAccounts, SumOf
    <2> QED
      BY <1>1, <2>1, FunctionAdds
  <1>6. PICK n, l : n = InAccounts /\ Sums(l, ListedBalance, Accounts) /\ n = l[Accounts]
    BY <1>5 DEF Adds
  <1>7. PICK m, o : /\ m = MapThenSumSet(LAMBDA a : Opening[a], Accounts)
                    /\ Sums(o, Opening, Accounts) /\ m = o[Accounts]
    <2>1. MapThenSumSet(LAMBDA a : Opening[a], Accounts) = SumOf(Opening, Accounts)
      BY DEF SumOf
    <2> QED
      BY <1>1, <2>1, FunctionAdds DEF Adds
  <1>8. \A a \in Accounts : /\ ListedBalance[a] \in Int /\ Opening[a] \in Int
                            /\ h[a] = ListedBalance[a] - Opening[a]
    BY BalancesListed, LedgerAssumption
  <1> HIDE DEF h
  <1>9. \A T \in SUBSET Accounts : k[T] = l[T] - o[T]
    BY <1>1, <1>3, <1>6, <1>7, <1>8, SumOfDifference
  <1> QED
    BY <1>2, <1>4, <1>6, <1>7, <1>9

----------------------------------------------------------------------------
(* Bills and what their payments move. *)

DirectionOf(kind) == IF kind = "sales" THEN "credit" ELSE "debit"
BillsFiled == \A b \in Bills : bill[b] # Missing =>
                 /\ bill[b].total > 0
                 /\ bill[b].status = "cancelled" => bill[b].payment = "void"
PaymentsFiled == \A t \in TxIds : Exists(t) /\ IsPayment(t)
                    => tx[t].direction = DirectionOf(bill[tx[t].ref].kind)
ReversalsFiled == \A r \in TxIds : IsReversal(r) => Undoes(tx[r], tx[r].reverses)
PairsFiled == ~PaidBehindTheBill =>
                 \A r \in TxIds : IsReversal(r) /\ tx[r].source = "bill_payment"
                                     => (Counted(r) <=> Counted(tx[r].reverses))
Filed == BillsFiled /\ PaymentsFiled /\ ReversalsFiled /\ PairsFiled

PaymentRows == {t \in Reported : tx[t].source = "bill_payment"}
InForce == {t \in PaymentRows : Posted(t) /\ tx[t].reverses = NoTx}

\* A payment that was reversed and the row that reverses it.
Undoing(t, r) == IsReversal(r) /\ tx[r].reverses = t
Mirror(t) == IF tx[t].reverses = NoTx THEN CHOOSE r \in TxIds : Undoing(t, r) ELSE tx[t].reverses

LEMMA MirrorCancels ==
    ASSUME Books, ReversalsFiled, PairsFiled, ~PaidBehindTheBill,
           NEW S, S = PaymentRows \ InForce, NEW t \in S
    PROVE  /\ Mirror(t) \in S /\ Mirror(t) # t /\ Mirror(Mirror(t)) = t
           /\ Signed(Mirror(t)) = -Signed(t) /\ Signed(t) \in Int
  <1>1. /\ t \in TxIds /\ t \in Reported /\ Exists(t) /\ Counted(t) /\ tx[t] \in TxRow
        /\ tx[t].direction \in {"credit", "debit"} /\ tx[t].amount \in Nat
        /\ Signed(t) \in Int /\ tx[t].source = "bill_payment"
    BY ReportedRow DEF PaymentRows, Books, Inductive
  <1>2. \A x \in TxIds : x # NoTx
    BY LedgerAssumption DEF TxIds, NoTx
  <1>3. \A x \in TxIds : Exists(x) /\ Counted(x) /\ tx[x].source = "bill_payment"
                            => x \in PaymentRows
    BY DEF PaymentRows, Reported
  <1>4. \A u, r \in TxIds : Undoing(u, r) /\ tx[r].source = "bill_payment" /\ Exists(u) =>
           /\ tx[u].source = "bill_payment" /\ tx[r].amount = tx[u].amount
           /\ tx[r].direction = Opposite(tx[u].direction)
           /\ Counted(r) <=> Counted(u)
           /\ tx[u].reverses = NoTx /\ ~Posted(u) /\ r # u
    <2> SUFFICES ASSUME NEW u \in TxIds, NEW r \in TxIds, Undoing(u, r),
                        tx[r].source = "bill_payment", Exists(u)
                 PROVE  /\ tx[u].source = "bill_payment" /\ tx[r].amount = tx[u].amount
                        /\ tx[r].direction = Opposite(tx[u].direction)
                        /\ Counted(r) <=> Counted(u)
                        /\ tx[u].reverses = NoTx /\ ~Posted(u) /\ r # u
      OBVIOUS
    <2>1. IsReversal(r) /\ Exists(r) /\ tx[r].reverses = u /\ tx[r].reverses # NoTx
      BY DEF Undoing, IsReversal
    <2>2. /\ tx[u].source = "bill_payment" /\ tx[r].amount = tx[u].amount
          /\ tx[r].direction = Opposite(tx[u].direction)
      BY <2>1 DEF ReversalsFiled, Undoes
    <2>3. Counted(r) <=> Counted(u)
      BY <2>1 DEF PairsFiled
    <2>4. ~Posted(u)
      BY <2>1 DEF Books, OneReversal
    <2>5. tx[u].reverses = NoTx
      BY <2>1, <2>2 DEF PaidBehindTheBill, ReversalsOf
    <2> QED
      BY <2>1, <2>2, <2>3, <2>4, <2>5
  <1>5. \A u, r \in TxIds : Undoing(u, r) /\ Exists(u) /\ tx[r].source = "bill_payment"
                            /\ Counted(r) /\ Counted(u) => r \in S /\ u \in S
    BY <1>3, <1>4 DEF Undoing, IsReversal, InForce
  <1>6. \A u, r \in TxIds : Undoing(u, r) /\ Exists(u) /\ tx[r].source = "bill_payment"
                               => Mirror(u) = r /\ Mirror(r) = u
    <2> SUFFICES ASSUME NEW u \in TxIds, NEW r \in TxIds, Undoing(u, r),
                        tx[r].source = "bill_payment", Exists(u)
                 PROVE  Mirror(u) = r /\ Mirror(r) = u
      OBVIOUS
    <2>1. \A q \in TxIds : Undoing(u, q) => q = r
      BY DEF Undoing, Books, OneReversal
    <2>2. (CHOOSE q \in TxIds : Undoing(u, q)) = r
      BY <2>1
    <2> QED
      BY <1>4, <2>2 DEF Mirror, Undoing, IsReversal
  <1>7. \A u, r \in TxIds : Undoing(u, r) /\ Exists(u) /\ tx[r].source = "bill_payment"
                            /\ tx[u] \in TxRow /\ tx[r] \in TxRow
                               => Signed(r) = -Signed(u) /\ Signed(u) = -Signed(r)
    BY <1>4 DEF Signed, Opposite, TxRow
  <1>8. CASE tx[t].reverses = NoTx
    <2>1. tx[t].status = "reversed"
      BY <1>1, <1>8 DEF Counted, InForce, Posted
    <2>2. PICK r \in TxIds : Undoing(t, r)
      BY <1>1, <2>1 DEF Books, OneReversal, Undoing
    <2>3. Exists(r) /\ tx[r] \in TxRow /\ tx[r].source = "bill_payment"
      <3>1. IsReversal(r) /\ tx[r].reverses = t
        BY <2>2 DEF Undoing
      <3> QED
        BY <1>1, <3>1, ExistingRow DEF IsReversal, ReversalsFiled, Undoes, Books, Inductive
    <2> QED
      BY <1>1, <1>4, <1>5, <1>6, <1>7, <2>2, <2>3
  <1>9. CASE tx[t].reverses # NoTx
    <2>1. PICK u \in TxIds : u = tx[t].reverses /\ Exists(u)
      BY <1>1, <1>9 DEF Books, Inductive, ReferencesResolve, Resolves, TxRow
    <2>2. Undoing(u, t)
      BY <1>1, <1>9, <2>1 DEF Undoing, IsReversal
    <2>3. tx[u] \in TxRow
      BY <2>1, ExistingRow DEF Books, Inductive
    <2> QED
      BY <1>1, <1>4, <1>5, <1>6, <1>7, <2>1, <2>2, <2>3
  <1> QED
    BY <1>8, <1>9

\* Of the rows of bill payments only those in force change what is in the accounts.
LEMMA PaymentsInForceCount ==
    ASSUME Books, ReversalsFiled, PairsFiled, ~PaidBehindTheBill,
           NEW f, NEW g, Sums(g, f, Reported), \A t \in Reported : f[t] = Signed(t)
    PROVE  g[PaymentRows] = g[InForce] /\ g[InForce] \in Int
  <1> DEFINE S == PaymentRows \ InForce
             p == [t \in S |-> Mirror(t)]
  <1>1. TypeOK
    BY DEF Books, Inductive
  <1>2. IsFiniteSet(Reported) /\ \A t \in Reported : f[t] \in Int
    BY <1>1, LedgerIsFinite, ReportedRow DEF Reported
  <1>3. /\ S \in SUBSET Reported /\ InForce \in SUBSET Reported
        /\ PaymentRows = InForce \cup S /\ InForce \cap S = {}
    BY DEF PaymentRows, InForce
  <1>4. /\ p \in [S -> S]
        /\ \A t \in S : p[t] # t /\ p[p[t]] = t /\ f[p[t]] = -f[t] /\ f[t] \in Int
    <2>1. \A t \in S : /\ Mirror(t) \in S /\ Mirror(t) # t /\ Mirror(Mirror(t)) = t
                       /\ Signed(Mirror(t)) = -Signed(t) /\ Signed(t) \in Int
      <3> HIDE DEF S
      <3>1. S = PaymentRows \ InForce
        BY DEF S
      <3> QED
        BY <3>1, MirrorCancels
    <2>2. \A t \in S : f[t] = Signed(t)
      BY <1>3
    <2> HIDE DEF S
    <2> QED
      BY <2>1, <2>2
  <1> HIDE DEF S, p
  <1>5. IsFiniteSet(S)
    BY <1>2, <1>3, FS_Subset
  <1>6. PICK k : Sums(k, f, S)
    BY <1>5, SumsExist
  <1>7. k[S] = 0
    <2>1. /\ \A t \in S : f[t] \in Int
          /\ \A t \in S : p[t] # t /\ p[p[t]] = t /\ f[p[t]] = -f[t]
      BY <1>4
    <2> QED
      BY ONLY <1>4, <1>5, <1>6, <2>1, PairsCancel
  <1>8. g[S] = k[S]
    BY <1>2, <1>3, <1>5, <1>6, SumsAgree
  <1>9. g[InForce \cup S] = g[InForce] + g[S] /\ g[InForce] \in Int
    BY <1>2, <1>3, SumOfTwo, SumsAreIntegers
  <1> QED
    BY <1>3, <1>7, <1>8, <1>9

\* What the payments in force of one bill move.
LEMMA InForceOfBill ==
    ASSUME Books, BillsAgree, PaymentsFiled, NEW b \in Bills,
           NEW f, NEW g, Sums(g, f, Reported), \A t \in Reported : f[t] = Signed(t),
           NEW T, T = {t \in InForce : tx[t].ref = b}
    PROVE  /\ b \in Standing("sales") => g[T] = bill[b].paid
           /\ b \in Standing("purchase") => g[T] = -bill[b].paid
           /\ b \notin Standing("sales") \cup Standing("purchase") => g[T] = 0
  <1>1. TypeOK
    BY DEF Books, Inductive
  <1>2. IsFiniteSet(Reported) /\ \A t \in Reported : f[t] \in Int
    BY <1>1, LedgerIsFinite, ReportedRow DEF Reported
  <1>3. T = Live("bill_payment", b) /\ T \in SUBSET Reported
    BY DEF InForce, PaymentRows, Reported, Live, Posted, Exists, Counted
  <1>4. \A t \in T : /\ tx[t].direction = DirectionOf(bill[b].kind) /\ Exists(t)
                     /\ bill[b] # Missing /\ tx[t].amount \in Nat
    BY <1>1, <1>3, ReportedRow
       DEF InForce, PaymentRows, PaymentsFiled, IsPayment, Books, Inductive, ReferencesResolve,
           Resolves
  <1>5. bill[b] # Missing => BillAgrees(bill[b], T, TotalOf(tx, T))
    BY <1>3 DEF BillsAgree, LiveTotal
  <1> DEFINE e == [t \in T |-> tx[t].amount]
  <1>6. \A t \in T : e[t] = tx[t].amount
    OBVIOUS
  <1> HIDE DEF e
  <1>7. IsFiniteSet(T)
    BY <1>2, <1>3, FS_Subset
  <1>8. PICK n : n = TotalOf(tx, T) /\ Adds(e, T, n)
    BY <1>6, <1>7, TotalAdds
  <1>9. ASSUME b \in Standing("sales")
        PROVE  g[T] = bill[b].paid
    <2>1. \A t \in T : e[t] = f[t]
      BY <1>3, <1>4, <1>6, <1>9 DEF Standing, DirectionOf, Signed
    <2>2. n = g[T]
      BY <1>2, <1>3, <1>8, <2>1, AddsPart
    <2> QED
      BY <1>5, <1>8, <1>9, <2>2 DEF Standing, BillAgrees
  <1>10. ASSUME b \in Standing("purchase")
         PROVE  g[T] = -bill[b].paid
    <2>1. \A t \in T : e[t] = -f[t] /\ f[t] \in Int
      BY <1>2, <1>3, <1>4, <1>6, <1>10 DEF Standing, DirectionOf, Signed
    <2>2. n = -g[T] /\ g[T] \in Int
      BY <1>2, <1>3, <1>8, <2>1, AddsNegated
    <2> QED
      BY <1>5, <1>8, <1>10, <2>2 DEF Standing, BillAgrees
  <1>11. ASSUME b \notin Standing("sales") \cup Standing("purchase")
         PROVE  g[T] = 0
    <2>1. bill[b] = Missing \/ bill[b].status = "cancelled"
      BY <1>1, <1>11, ExistingBill DEF Standing, BillRow
    <2>2. T = {}
      BY <1>4, <1>5, <2>1 DEF BillAgrees
    <2> QED
      BY <2>2 DEF Sums
  <1> QED
    BY <1>9, <1>10, <1>11

\* What the bills of a kind have settled is what has been paid on them.
LEMMA SettledIsPaid ==
    ASSUME TypeOK, BillColumnsAgree, NEW kind, NEW S, S = Standing(kind),
           NEW e, NEW n, Adds(e, S, n), \A b \in S : e[b] = bill[b].paid
    PROVE  Value(kind) - Receivable(kind) = n /\ n \in Int
  <1>1. S \in SUBSET Bills /\ IsFiniteSet(S)
    <2>1. S \in SUBSET Bills
      BY DEF Standing
    <2> QED
      BY <2>1, ReportsAssumption, FS_Subset
  <1>2. \A b \in S : /\ bill[b].paid \in Nat /\ bill[b].balance \in Nat /\ bill[b].total \in Nat
                     /\ bill[b].paid = bill[b].total - bill[b].balance
    <2> SUFFICES ASSUME NEW b \in S
                 PROVE  /\ bill[b].paid \in Nat /\ bill[b].balance \in Nat
                        /\ bill[b].total \in Nat
                        /\ bill[b].paid = bill[b].total - bill[b].balance
      OBVIOUS
    <2>1. bill[b] \in BillRow /\ bill[b].status # "cancelled" /\ bill[b] # Missing /\ b \in Bills
      BY ExistingBill DEF Standing
    <2>2. bill[b].paid + bill[b].balance = bill[b].total
      BY <2>1 DEF BillColumnsAgree
    <2> QED
      BY <2>1, <2>2 DEF BillRow
  <1> DEFINE v == [b \in S |-> bill[b].total]
             c == [b \in S |-> bill[b].balance]
             R == {b \in S : bill[b].balance > 0}
  <1>3. \A b \in S : v[b] = bill[b].total /\ c[b] = bill[b].balance
    OBVIOUS
  <1>4. R \in SUBSET S /\ \A b \in S \ R : c[b] = 0
    BY <1>2
  <1>5. Receivable(kind) = MapThenSumSet(LAMBDA b : bill[b].balance, R)
    BY DEF Receivable
  <1>6. Value(kind) = MapThenSumSet(LAMBDA b : bill[b].total, S)
    BY DEF Value
  <1> HIDE DEF v, c, R
  <1>7. IsFiniteSet(R)
    BY <1>1, <1>4, FS_Subset
  <1>8. Adds(v, S, Value(kind)) /\ Adds(c, R, Receivable(kind))
    <2>1. Adds(v, S, MapThenSumSet(LAMBDA b : bill[b].total, S))
      BY <1>1, <1>3, ValueAdds
    <2>2. Adds(c, R, MapThenSumSet(LAMBDA b : bill[b].balance, R))
      BY <1>3, <1>4, <1>7, BalanceAdds
    <2> QED
      BY <1>5, <1>6, <2>1, <2>2
  <1>9. PICK V : Sums(V, v, S) /\ Value(kind) = V[S]
    BY <1>8 DEF Adds
  <1>10. PICK C : Sums(C, c, S)
    BY <1>1, SumsExist
  <1>11. PICK m : m = Receivable(kind)
    OBVIOUS
  <1>12. m = C[R]
    BY <1>1, <1>4, <1>8, <1>10, <1>11, AddsPart
  <1>13. C[S] = C[R]
    <2>1. \A b \in S : c[b] \in Int
      BY <1>2, <1>3
    <2>2. PICK Q : /\ R \in SUBSET S /\ Q \in SUBSET S /\ R \cap Q = {} /\ R \cup Q = S
                   /\ \A b \in Q : c[b] = 0
      BY <1>4
    <2>3. C[R \cup Q] = C[R] + C[Q]
      BY ONLY <1>1, <1>10, <2>1, <2>2, SumOfTwo
    <2>4. C[Q] = 0
      BY <1>1, <1>10, <2>2, SumOfZeros
    <2>5. C[R] \in Int
      BY <1>1, <1>4, <1>10, <2>1, SumsAreIntegers
    <2>6. C[S] = C[R] + C[Q]
      <3>1. R \cup Q = S
        BY <2>2
      <3> QED
        BY <2>3, <3>1, Zenon
    <2> QED
      BY <2>4, <2>5, <2>6
  <1>14. PICK E : Sums(E, e, S) /\ n = E[S]
    BY DEF Adds
  <1>15. E[S] = V[S] - C[S]
    <2>1. \A b \in S : v[b] \in Int /\ c[b] \in Int /\ e[b] = v[b] - c[b]
      BY <1>2, <1>3
    <2>2. \A T \in SUBSET S : E[T] = V[T] - C[T]
      BY <1>1, <1>9, <1>10, <1>14, <2>1, SumOfDifference
    <2> QED
      BY <2>2
  <1>16. E[S] \in Int
    <2>1. \A b \in S : e[b] \in Int
      BY <1>2
    <2> QED
      BY <1>1, <1>14, <2>1, SumsAreIntegers
  <1> QED
    BY <1>9, <1>11, <1>12, <1>13, <1>14, <1>15, <1>16

\* The payments in force are what the bills show as settled.
LEMMA BillsSettle ==
    ASSUME Books, BillsAgree, PaymentsFiled,
           NEW f, NEW g, Sums(g, f, Reported), \A t \in Reported : f[t] = Signed(t)
    PROVE  g[InForce] = (Value("sales") - Receivable("sales"))
                            - (Value("purchase") - Receivable("purchase"))
  <1>1. TypeOK /\ BillColumnsAgree
    BY DEF Books, Inductive
  <1>2. /\ IsFiniteSet(Reported) /\ \A t \in Reported : f[t] \in Int
        /\ IsFiniteSet(Bills) /\ InForce \in SUBSET Reported
    BY <1>1, LedgerIsFinite, ReportedRow, ReportsAssumption DEF Reported, InForce, PaymentRows
  <1> DEFINE Of(b) == {t \in InForce : tx[t].ref = b}
             h == [b \in Bills |-> g[Of(b)]]
             key == [t \in InForce |-> tx[t].ref]
             I == Standing("sales")
             O == Standing("purchase")
             N == Bills \ (I \cup O)
  <1>3. I \in SUBSET Bills /\ O \in SUBSET Bills /\ I \cap O = {}
    BY DEF Standing
  <1>4. /\ \A b \in I : h[b] = bill[b].paid /\ bill[b].paid \in Nat
        /\ \A b \in O : h[b] = -bill[b].paid /\ bill[b].paid \in Nat
        /\ \A b \in N : h[b] = 0
    <2>1. \A b \in Bills : /\ b \in I => g[Of(b)] = bill[b].paid
                           /\ b \in O => g[Of(b)] = -bill[b].paid
                           /\ b \in N => g[Of(b)] = 0
      BY InForceOfBill
    <2>2. \A b \in I \cup O : bill[b].paid \in Nat
      BY <1>1, <1>3, ExistingBill DEF Standing, BillRow
    <2> QED
      BY <1>3, <2>1, <2>2
  <1>5. PICK k : Sums(k, h, Bills)
    BY <1>2, SumsExist
  <1>6. k[Bills] = g[InForce]
    <2>1. PICK j : Sums(j, f, InForce)
      BY <1>2, FS_Subset, SumsExist
    <2>2. IsFiniteSet(InForce) /\ \A t \in InForce : f[t] \in Int
      BY <1>2, FS_Subset
    <2>3. \A T \in SUBSET InForce : j[T] = g[T]
      <3> SUFFICES ASSUME NEW T \in SUBSET InForce
                   PROVE  j[T] = g[T]
        OBVIOUS
      <3>1. T \in SUBSET Reported
        BY <1>2
      <3> QED
        BY <1>2, <2>1, <2>2, <3>1, SumsAgree
    <2>4. \A t \in InForce : key[t] \in Bills
      BY <1>1, <1>2, ReportedRow
         DEF InForce, PaymentRows, Books, Inductive, ReferencesResolve, Resolves
    <2>5. \A b \in Bills : h[b] = j[{t \in InForce : key[t] = b}]
      <3>1. \A b \in Bills : Of(b) = {t \in InForce : key[t] = b} /\ Of(b) \in SUBSET InForce
        OBVIOUS
      <3> QED
        BY <2>3, <3>1
    <2> HIDE DEF h, key
    <2>6. k[Bills] = j[InForce]
      <3>1. PICK F, K, H : F = InForce /\ K = key /\ H = h
        OBVIOUS
      <3>2. /\ IsFiniteSet(F) /\ Sums(j, f, F) /\ IsFiniteSet(Bills) /\ Sums(k, H, Bills)
            /\ \A t \in F : f[t] \in Int
            /\ \A t \in F : K[t] \in Bills
        BY <1>2, <1>5, <2>1, <2>2, <2>4, <3>1
      <3>3. \A b \in Bills : H[b] = j[{t \in F : K[t] = b}]
        BY <2>5, <3>1
      <3>4. k[Bills] = j[F]
        BY ONLY <3>2, <3>3, SumByKey
      <3> QED
        BY <3>1, <3>4
    <2> QED
      BY <2>3, <2>6
  <1> HIDE DEF h, I, O, N
  <1>7. \A b \in Bills : h[b] \in Int
    BY <1>3, <1>4 DEF N
  <1>8. k[Bills] = k[I] + k[O] /\ k[I] \in Int /\ k[O] \in Int
    <2>1. /\ I \cup O \in SUBSET Bills /\ N \in SUBSET Bills /\ (I \cup O) \cap N = {}
          /\ (I \cup O) \cup N = Bills
      BY <1>3 DEF N
    <2>2. k[I \cup O] = k[I] + k[O]
      BY ONLY <1>2, <1>3, <1>5, <1>7, SumOfTwo
    <2>3. k[(I \cup O) \cup N] = k[I \cup O] + k[N]
      <3>1. PICK Q : Q = I \cup O
        OBVIOUS
      <3>2. Q \in SUBSET Bills /\ N \in SUBSET Bills /\ Q \cap N = {}
        BY <2>1, <3>1
      <3>3. k[Q \cup N] = k[Q] + k[N]
        BY ONLY <1>2, <1>5, <1>7, <3>2, SumOfTwo
      <3> QED
        BY <3>1, <3>3
    <2>4. k[N] = 0
      BY <1>2, <1>4, <1>5, <2>1, SumOfZeros
    <2>5. k[I] \in Int /\ k[O] \in Int
      BY <1>2, <1>3, <1>5, <1>7, SumsAreIntegers
    <2>6. k[Bills] = k[I] + k[O] + k[N]
      BY <2>1, <2>2, <2>3, Zenon
    <2> QED
      BY <2>4, <2>5, <2>6
  <1> DEFINE e == [b \in I \cup O |-> bill[b].paid]
  <1>9. /\ \A b \in I : e[b] = bill[b].paid /\ e[b] = h[b]
        /\ \A b \in O : e[b] = bill[b].paid /\ e[b] = -h[b] /\ h[b] \in Int
    BY <1>3, <1>4, <1>7
  <1> HIDE DEF e
  <1>10. IsFiniteSet(I) /\ IsFiniteSet(O)
    BY <1>2, <1>3, FS_Subset
  <1>11. PICK m : Adds(e, I, m)
    BY <1>10, SumsExist DEF Adds
  <1>12. PICK n : Adds(e, O, n)
    BY <1>10, SumsExist DEF Adds
  <1>13. m = k[I]
    BY <1>2, <1>3, <1>5, <1>9, <1>11, AddsPart
  <1>14. n = -k[O]
    BY <1>2, <1>3, <1>5, <1>9, <1>12, AddsNegated
  <1>15. Value("sales") - Receivable("sales") = m
    BY <1>1, <1>9, <1>11, SettledIsPaid DEF I
  <1>16. Value("purchase") - Receivable("purchase") = n
    BY <1>1, <1>9, <1>12, SettledIsPaid DEF O
  <1> QED
    BY <1>6, <1>8, <1>13, <1>14, <1>15, <1>16

LEMMA BillsWaiting ==
    ASSUME TypeOK, BillColumnsAgree, BillsAgree, BillsFiled
    PROVE  PendingBills = BillsWith("unpaid") \cup BillsWith("partially_paid")
  <1>1. ASSUME NEW b \in Bills, bill[b] # Missing
        PROVE  bill[b].status # "cancelled" /\ bill[b].balance > 0
                  <=> bill[b].payment \in {"unpaid", "partially_paid"}
    <2>1. PICK row \in BillRow : row = bill[b] /\ row.total > 0
      BY <1>1, ExistingBill DEF BillsFiled
    <2>2. CASE row.status = "cancelled"
      BY <1>1, <2>1, <2>2 DEF BillsFiled
    <2>3. CASE row.status # "cancelled"
      <3>1. row.paid + row.balance = row.total /\ row.payment = PaymentState(row.paid, row.balance)
        BY <1>1, <2>1, <2>3 DEF BillColumnsAgree, BillsAgree, BillAgrees
      <3>2. row.paid \in Nat /\ row.balance \in Nat /\ row.total \in Nat
        BY <2>1 DEF BillRow
      <3>3. row.balance > 0 <=> row.payment \in {"unpaid", "partially_paid"}
        BY <2>1, <3>1, <3>2 DEF PaymentState
      <3> QED
        BY <2>1, <2>3, <3>3
    <2> QED
      BY <2>2, <2>3
  <1> QED
    BY <1>1 DEF PendingBills, BillsWith

\* The pages follow from the invariants.
LEMMA FiledReportsAgree ==
    ASSUME Matched, Filed
    PROVE  ReportsAgree
  <1>1. Books /\ BillsAgree /\ TypeOK /\ BillColumnsAgree
    BY DEF Matched, Agree, Books, Inductive
  <1> DEFINE f == [t \in Reported |-> Signed(t)]
  <1>2. IsFiniteSet(Reported) /\ \A t \in Reported : f[t] = Signed(t) /\ f[t] \in Int
    BY <1>1, LedgerIsFinite, ReportedRow DEF Reported
  <1> HIDE DEF f
  <1>3. PICK g : Sums(g, f, Reported)
    BY <1>2, SumsExist
  <1>4. \A a \in Accounts : ListedBalance[a] = Balance(a)
    BY <1>1, <1>2, <1>3, BalancesListed
  <1>5. /\ InAccounts - MapThenSumSet(LAMBDA a : Opening[a], Accounts) = NetCashFlow
        /\ NetCashFlow = g[Reported]
    BY <1>1, <1>2, <1>3, AccountsHoldTheFlow
  <1>6. ASSUME ~PaidBehindTheBill
        PROVE  NetCashFlow = MoneyIn - MoneyOut + (Value("sales") - Receivable("sales"))
                                - (Value("purchase") - Receivable("purchase"))
    <2>1. /\ CashFlowRows \in SUBSET Reported /\ PaymentRows \in SUBSET Reported
          /\ CashFlowRows \cap PaymentRows = {} /\ CashFlowRows \cup PaymentRows = Reported
      BY DEF CashFlowRows, PaymentRows
    <2>2. g[CashFlowRows \cup PaymentRows] = g[CashFlowRows] + g[PaymentRows]
      <3>1. \A t \in Reported : f[t] \in Int
        BY <1>2
      <3>2. IsFiniteSet(Reported)
        BY <1>2
      <3> QED
        BY ONLY <1>3, <2>1, <3>1, <3>2, SumOfTwo
    <2>3. MoneyIn - MoneyOut = g[CashFlowRows] /\ g[CashFlowRows] \in Int
      <3>1. MoneyIn = Flow(CashFlowRows, "credit") /\ MoneyOut = Flow(CashFlowRows, "debit")
        BY DEF MoneyIn, MoneyOut
      <3>2. \A t \in Reported : f[t] = Signed(t)
        BY <1>2
      <3>3. /\ Flow(CashFlowRows, "credit") - Flow(CashFlowRows, "debit") = g[CashFlowRows]
            /\ g[CashFlowRows] \in Int
        BY ONLY <1>1, <1>3, <2>1, <3>2, FlowsAdd
      <3> QED
        BY ONLY <3>1, <3>3
    <2>4. g[PaymentRows] = g[InForce]
      BY <1>1, <1>2, <1>3, <1>6, PaymentsInForceCount DEF Filed
    <2>5. g[InForce] = (Value("sales") - Receivable("sales"))
                           - (Value("purchase") - Receivable("purchase"))
      BY <1>1, <1>2, <1>3, BillsSettle DEF Filed
    <2>6. \A kind : Value(kind) - Receivable(kind) \in Int
      <3> SUFFICES ASSUME NEW kind
                   PROVE  Value(kind) - Receivable(kind) \in Int
        OBVIOUS
      <3> DEFINE S == Standing(kind)
                 e == [b \in S |-> bill[b].paid]
      <3>1. \A b \in S : e[b] = bill[b].paid
        OBVIOUS
      <3>2. IsFiniteSet(S)
        BY ReportsAssumption, FS_Subset DEF Standing
      <3> HIDE DEF e, S
      <3>3. PICK n : Adds(e, S, n)
        BY <3>2, SumsExist DEF Adds
      <3> QED
        BY <1>1, <3>1, <3>3, SettledIsPaid DEF S
    <2>7. g[Reported] = g[CashFlowRows] + g[PaymentRows]
      BY <2>1, <2>2, Zenon
    <2> QED
      BY <1>5, <2>3, <2>4, <2>5, <2>6, <2>7
  <1>7. PendingBills = BillsWith("unpaid") \cup BillsWith("partially_paid")
    BY <1>1, BillsWaiting DEF Filed
  <1> QED
    BY <1>4, <1>5, <1>6, <1>7 DEF ReportsAgree

----------------------------------------------------------------------------
(* Rows stay filed. *)

\* Rows in force are undone, with their reversals; or what is left of a chain
\* is deleted; or rows are entered that stand for themselves.
UndoesRows(W) == /\ \E status : Rewrites(W, status)
                 /\ Undone(W) /\ \A t \in W : Posted(t)
DeletesChain(root) == /\ root \in TxIds /\ Exists(root) /\ ~Posted(root)
                      /\ Rewrites(Chain(root), "deleted") /\ \A r \in TxIds : ~Appears(r)
EntersRows == /\ Rewrites({}, "deleted")
              /\ \A r \in TxIds : Appears(r) =>
                    /\ tx'[r].reverses = NoTx
                    /\ tx'[r].source = "bill_payment" =>
                          /\ tx'[r].ref \in Bills /\ bill[tx'[r].ref] # Missing
                          /\ tx'[r].direction = DirectionOf(bill[tx'[r].ref].kind)
LedgerMoves == \/ \E W \in SUBSET TxIds : UndoesRows(W)
               \/ \E root : DeletesChain(root)
               \/ EntersRows

BillMoves(b) ==
    /\ bill[b] # Missing => bill'[b] # Missing /\ bill'[b].kind = bill[b].kind
    /\ bill'[b] # Missing => /\ bill'[b].total > 0
                             /\ bill'[b].status = "cancelled" => bill'[b].payment = "void"
BillsMove == \A b \in Bills : BillMoves(b)

LEMMA PaymentsStayFiled ==
    ASSUME Books, PaymentsFiled, NEW W, NEW status, Rewrites(W, status), BillsMove,
           \A r \in TxIds : Appears(r) /\ IsPayment(r)' =>
              /\ tx'[r].ref \in Bills /\ bill[tx'[r].ref] # Missing
              /\ tx'[r].direction = DirectionOf(bill[tx'[r].ref].kind)
    PROVE  PaymentsFiled'
  <1> SUFFICES ASSUME NEW t \in TxIds, Exists(t)', IsPayment(t)'
               PROVE  tx'[t].direction = DirectionOf(bill'[tx'[t].ref].kind)
    BY DEF PaymentsFiled, DirectionOf
  <1>1. /\ tx'[t].ref \in Bills /\ bill[tx'[t].ref] # Missing
        /\ tx'[t].direction = DirectionOf(bill[tx'[t].ref].kind)
    <2>1. CASE ~Exists(t)
      BY <2>1 DEF Appears
    <2>2. CASE Exists(t)
      <3>1. /\ tx'[t].source = tx[t].source /\ tx'[t].reverses = tx[t].reverses
            /\ tx'[t].direction = tx[t].direction /\ tx'[t].ref = tx[t].ref
        BY <2>2, RewrittenRow DEF Books, Inductive
      <3>2. IsPayment(t) /\ Resolves(t)
        BY <2>2, <3>1 DEF IsPayment, Books, Inductive, ReferencesResolve
      <3> QED
        BY <2>2, <3>1, <3>2 DEF IsPayment, Resolves, PaymentsFiled
    <2> QED
      BY <2>1, <2>2
  <1>2. bill'[tx'[t].ref].kind = bill[tx'[t].ref].kind
    BY <1>1 DEF BillsMove, BillMoves
  <1> QED
    BY <1>1, <1>2 DEF DirectionOf

\* What a reversal reverses is there.
LEMMA ReversedExists ==
    ASSUME Books, NEW r \in TxIds, IsReversal(r)
    PROVE  tx[r].reverses \in TxIds /\ Exists(tx[r].reverses) /\ ~Posted(tx[r].reverses)
  BY ExistingRow DEF Books, Inductive, ReferencesResolve, Resolves, TxRow, IsReversal, OneReversal

LEMMA ReversalsStayFiled ==
    ASSUME Books, ReversalsFiled, NEW W \in SUBSET TxIds, NEW status, Rewrites(W, status),
           \A r \in TxIds : Appears(r) /\ tx'[r].reverses # NoTx =>
              tx'[r].reverses \in W /\ Undoes(tx'[r], tx'[r].reverses)
    PROVE  ReversalsFiled'
  <1> SUFFICES ASSUME NEW r \in TxIds, IsReversal(r)'
               PROVE  Undoes(tx[r], tx[r].reverses)'
    BY DEF ReversalsFiled
  <1>1. PICK t : t = tx'[r].reverses
    OBVIOUS
  <1>2. t \in TxIds /\ Exists(t) /\ Undoes(tx'[r], t)
    <2>1. CASE ~Exists(r)
      BY <1>1, <2>1 DEF Appears, IsReversal, Rewrites
    <2>2. CASE Exists(r)
      <3>1. /\ tx'[r].source = tx[r].source /\ tx'[r].reverses = tx[r].reverses
            /\ tx'[r].direction = tx[r].direction /\ tx'[r].amount = tx[r].amount
        BY <2>2, RewrittenRow DEF Books, Inductive
      <3>2. IsReversal(r)
        BY <2>2, <3>1 DEF IsReversal
      <3> QED
        BY <1>1, <3>1, <3>2, ReversedExists DEF Undoes, ReversalsFiled
    <2> QED
      BY <2>1, <2>2
  <1>3. /\ tx'[t].source = tx[t].source /\ tx'[t].amount = tx[t].amount
        /\ tx'[t].direction = tx[t].direction
    BY <1>2, RewrittenRow DEF Books, Inductive
  <1> QED
    BY <1>1, <1>2, <1>3 DEF Undoes

\* A payment that is in the accounts and not on its bill remains so.
LEMMA BehindStaysBehind ==
    ASSUME Books, NEW W, NEW status, Rewrites(W, status), PaidBehindTheBill
    PROVE  PaidBehindTheBill'
  <1>1. PICK t \in TxIds : /\ Exists(t) /\ tx[t].source = "bill_payment"
                           /\ tx[t].reverses # NoTx /\ ReversalsOf(t) # {}
    BY DEF PaidBehindTheBill
  <1>2. PICK r \in TxIds : Exists(r) /\ tx[r].reverses = t
    BY <1>1 DEF ReversalsOf
  <1>3. /\ tx'[t].source = "bill_payment" /\ Exists(t)' /\ tx'[t].reverses # NoTx
        /\ Exists(r)' /\ tx'[r].reverses = t
    BY <1>1, <1>2, RewrittenRow DEF Books, Inductive
  <1> QED
    BY <1>3 DEF PaidBehindTheBill, ReversalsOf

LEMMA CountedAfter ==
    ASSUME Books, NEW W, NEW status, Rewrites(W, status), NEW t \in TxIds, Exists(t)
    PROVE  /\ Counted(t) <=> tx[t].status # "deleted"
           /\ Counted(t)' <=> tx'[t].status # "deleted"
           /\ Exists(t)'
           /\ t \notin W => tx'[t].status = tx[t].status
           /\ t \in W => tx'[t].status = status
  <1>1. tx[t].status \in {"posted", "reversed", "deleted"}
    BY ExistingRow DEF Books, Inductive, TxRow
  <1>2. status \in {"reversed", "deleted"} /\ Exists(t)'
        /\ tx'[t].status = IF t \in W THEN status ELSE tx[t].status
    BY RewrittenRow DEF Books, Inductive, Rewrites
  <1> QED
    BY <1>1, <1>2 DEF Counted

\* A payment and its reversal count together or not at all.
Together(r) == Counted(r) <=> Counted(tx[r].reverses)
PaymentReversal(r) == IsReversal(r) /\ tx[r].source = "bill_payment"

\* Two rows on which the step does the same go on together.
LEMMA GoOnTogether ==
    ASSUME Books, NEW W, NEW status, Rewrites(W, status),
           NEW r \in TxIds, IsReversal(r), Together(r),
           r \in W <=> tx[r].reverses \in W
    PROVE  Together(r)'
  <1>1. PICK t \in TxIds : t = tx[r].reverses /\ Exists(t) /\ Exists(r)
    BY ReversedExists DEF IsReversal
  <1>2. tx'[r].reverses = t
    BY <1>1, RewrittenRow DEF Books, Inductive
  <1>3. Counted(r)' <=> Counted(t)'
    BY <1>1, CountedAfter DEF Together
  <1> QED
    BY <1>2, <1>3 DEF Together, Counted

LEMMA UndoneGoTogether ==
    ASSUME Books, TypeOK', PairsFiled, ~PaidBehindTheBill, ~PaidBehindTheBill',
           NEW W \in SUBSET TxIds, UndoesRows(W), NEW r \in TxIds, PaymentReversal(r)'
    PROVE  Together(r)'
  <1>1. PICK status : Rewrites(W, status)
    BY DEF UndoesRows
  <1>2. CASE ~Exists(r)
    <2>1. PICK t : t = tx'[r].reverses
      OBVIOUS
    <2>2. Appears(r) /\ t \in W /\ (tx'[r].status = "deleted" <=> tx'[t].status = "deleted")
      BY <1>2, <2>1 DEF UndoesRows, Undone, Appears, PaymentReversal, IsReversal
    <2>3. t \in TxIds /\ Exists(t) /\ (Counted(t)' <=> tx'[t].status # "deleted")
      BY <1>1, <2>2, CountedAfter DEF Rewrites
    <2>4. Counted(r)' <=> tx'[r].status # "deleted"
      <3>1. tx'[r].status \in {"posted", "reversed", "deleted"}
        BY <2>2 DEF Appears, Exists, TypeOK, TxRow, Missing
      <3> QED
        BY <3>1 DEF Counted
    <2> QED
      BY <2>1, <2>2, <2>3, <2>4 DEF Together, Counted
  <1>3. CASE Exists(r)
    <2>1. tx'[r].reverses = tx[r].reverses /\ tx'[r].source = tx[r].source
      BY <1>1, <1>3, RewrittenRow DEF Books, Inductive
    <2>2. PaymentReversal(r) /\ IsReversal(r)
      BY <1>3, <2>1 DEF PaymentReversal, IsReversal
    <2>3. tx[r].reverses \notin W
      BY <2>2, ReversedExists DEF UndoesRows
    <2>4. r \notin W
      <3> SUFFICES ASSUME r \in W
                   PROVE  FALSE
        OBVIOUS
      <3>1. PICK q \in TxIds : Appears(q) /\ tx'[q].reverses = r
        BY DEF UndoesRows, Undone
      <3> QED
        BY <3>1 DEF PaidBehindTheBill, ReversalsOf, Appears, PaymentReversal, IsReversal
    <2>5. Together(r)
      BY <2>2 DEF PairsFiled, Together, PaymentReversal
    <2> QED
      BY <1>1, <2>2, <2>3, <2>4, <2>5, GoOnTogether
  <1> QED
    BY <1>2, <1>3

LEMMA ChainGoesTogether ==
    ASSUME Books, ReversalsFiled, PairsFiled, ~PaidBehindTheBill,
           NEW root, DeletesChain(root), NEW r \in TxIds, PaymentReversal(r)'
    PROVE  Together(r)'
  <1>1. root \in TxIds /\ Exists(root) /\ ~Posted(root) /\ Rewrites(Chain(root), "deleted")
    BY DEF DeletesChain
  <1>2. Exists(r)
    BY DEF DeletesChain, Appears, PaymentReversal, IsReversal
  <1>3. tx'[r].reverses = tx[r].reverses /\ tx'[r].source = tx[r].source
    BY <1>1, <1>2, RewrittenRow DEF Books, Inductive
  <1>4. /\ PaymentReversal(r) /\ IsReversal(r) /\ Together(r)
        /\ tx[r].source = "bill_payment" /\ tx[r].reverses # NoTx
    BY <1>2, <1>3 DEF PaymentReversal, IsReversal, PairsFiled, Together
  <1>5. PICK t \in TxIds : t = tx[r].reverses /\ Exists(t) /\ ~Posted(t)
    BY <1>4, ReversedExists
  <1>6. tx[t].source = "bill_payment"
    BY <1>4, <1>5 DEF ReversalsFiled, Undoes
  <1>7. ReversalsOf(r) = {} /\ (tx[t].reverses # NoTx => FALSE)
    <2>1. ReversalsOf(r) = {}
      BY <1>2, <1>4 DEF PaidBehindTheBill
    <2>2. r \in ReversalsOf(t)
      BY <1>2, <1>5 DEF ReversalsOf
    <2> QED
      BY <1>5, <1>6, <2>1, <2>2 DEF PaidBehindTheBill
  <1>8. \A w \in RootIds(root) : w \in TxIds /\ Exists(w) /\ tx[w].group = tx[root].group
    BY <1>1 DEF RootIds, Legs
  <1>9. CASE r \in Chain(root) <=> t \in Chain(root)
    BY <1>1, <1>4, <1>5, <1>9, GoOnTogether
  <1>10. CASE t \in Chain(root) /\ r \notin Chain(root)
    <2>1. t \notin RootIds(root)
      BY <1>2, <1>5, <1>10 DEF Chain, ReversalsOf
    <2>2. PICK w \in RootIds(root) : t \in ReversalsOf(w)
      BY <1>10, <2>1 DEF Chain
    <2>3. tx[t].reverses = w /\ w \in TxIds
      BY <1>8, <2>2 DEF ReversalsOf
    <2> QED
      BY <1>7, <2>3, LedgerAssumption DEF TxIds, NoTx
  <1>11. CASE r \in Chain(root) /\ t \notin Chain(root)
    <2>1. r \in RootIds(root)
      BY <1>2, <1>4, <1>5, <1>11 DEF Chain, ReversalsOf
    <2>2. tx[r].group = NoTx
      BY <1>2, <1>4 DEF Books, WholeTransfers
    <2>3. r = root
      BY <1>8, <2>1, <2>2 DEF RootIds
    <2>4. tx[r].status \in {"posted", "reversed", "deleted"}
      BY <1>2, ExistingRow DEF Books, Inductive, TxRow
    <2>5. tx[r].status # "reversed"
      BY <1>7 DEF Books, OneReversal, ReversalsOf, IsReversal
    <2>6. ~Counted(r) /\ ~Counted(t)
      BY <1>1, <1>4, <1>5, <2>3, <2>4, <2>5 DEF Together, Counted, Posted
    <2>7. ~Counted(r)' /\ ~Counted(t)'
      BY <1>1, <1>2, <1>5, <1>11, <2>6, CountedAfter
    <2> QED
      BY <1>3, <1>5, <2>7 DEF Together, Counted
  <1> QED
    BY <1>9, <1>10, <1>11

LEMMA PairsStayFiled ==
    ASSUME Books, TypeOK', ReversalsFiled, PairsFiled, LedgerMoves
    PROVE  PairsFiled'
  <1> SUFFICES ASSUME ~PaidBehindTheBill', NEW r \in TxIds, PaymentReversal(r)'
               PROVE  Together(r)'
    BY DEF PairsFiled, PaymentReversal, Together
  <1>1. PICK W, status : Rewrites(W, status)
    BY DEF LedgerMoves, UndoesRows, DeletesChain, EntersRows
  <1>2. ~PaidBehindTheBill
    BY <1>1, BehindStaysBehind
  <1>3. CASE EntersRows
    <2>1. Exists(r) /\ Rewrites({}, "deleted")
      BY <1>3 DEF EntersRows, Appears, PaymentReversal, IsReversal
    <2>2. tx'[r].reverses = tx[r].reverses /\ tx'[r].source = tx[r].source
      BY <2>1, RewrittenRow DEF Books, Inductive
    <2>3. IsReversal(r) /\ Together(r)
      BY <1>2, <2>1, <2>2 DEF PaymentReversal, IsReversal, PairsFiled, Together
    <2> QED
      BY <2>1, <2>3, GoOnTogether
  <1> QED
    BY <1>2, <1>3, UndoneGoTogether, ChainGoesTogether DEF LedgerMoves

\* Nothing a step may do misfiles a row.
LEMMA StayFiled ==
    ASSUME Books, TypeOK', Filed, LedgerMoves, BillsMove
    PROVE  Filed'
  <1>1. BillsFiled'
    BY DEF BillsFiled, BillsMove, BillMoves
  <1>2. PairsFiled'
    BY PairsStayFiled DEF Filed
  <1>3. CASE \E W \in SUBSET TxIds : UndoesRows(W)
    <2>1. PICK W, status : W \in SUBSET TxIds /\ Rewrites(W, status) /\ Undone(W)
      BY <1>3 DEF UndoesRows
    <2>2. NoTx \notin TxIds
      BY LedgerAssumption DEF TxIds, NoTx
    <2>3. \A r \in TxIds : Appears(r) => /\ tx'[r].reverses \in W /\ ~IsPayment(r)'
                                         /\ Undoes(tx'[r], tx'[r].reverses)
      BY <2>1, <2>2 DEF Undone, IsPayment
    <2> QED
      BY <1>1, <1>2, <2>1, <2>3, PaymentsStayFiled, ReversalsStayFiled DEF Filed
  <1>4. CASE \E root : DeletesChain(root)
    <2>1. PICK W \in SUBSET TxIds : Rewrites(W, "deleted") /\ \A r \in TxIds : ~Appears(r)
      BY <1>4 DEF DeletesChain, Rewrites
    <2> QED
      BY <1>1, <1>2, <2>1, PaymentsStayFiled, ReversalsStayFiled DEF Filed
  <1>5. CASE EntersRows
    BY <1>1, <1>2, <1>5, PaymentsStayFiled, ReversalsStayFiled DEF Filed, EntersRows, IsPayment
  <1> QED
    BY <1>3, <1>4, <1>5 DEF LedgerMoves

----------------------------------------------------------------------------
(* Every step moves rows and bills in one of these ways. *)

LEMMA BillsUntouched ==
    ASSUME BillsFiled, UNCHANGED bill
    PROVE  BillsMove
  BY DEF BillsFiled, BillsMove, BillMoves

LEMMA NothingAppears ==
    ASSUME UNCHANGED tx
    PROVE  EntersRows
  BY NothingRewritten DEF EntersRows, Appears, Exists

\* One bill changes, but neither in kind nor to one that was voided halfway.
LEMMA OneBillMoves ==
    ASSUME BillsFiled, NEW b \in Bills, bill[b] # Missing, NEW new,
           bill'[b] = new, new # Missing, new.kind = bill[b].kind, new.total = bill[b].total,
           new.status = "cancelled" => new.payment = "void",
           \A c \in Bills : c # b => bill'[c] = bill[c]
    PROVE  BillsMove
  BY DEF BillsFiled, BillsMove, BillMoves

LEMMA UnwindingMoves ==
    ASSUME Books, BillsAgree, BillsFiled, NEW t \in TxIds, Posted(t), UnwindBill(t)
    PROVE  BillsMove
  <1>1. CASE ~IsPayment(t)
    BY <1>1, BillsUntouched DEF UnwindBill
  <1>2. CASE IsPayment(t)
    <2>1. Exists(t) /\ tx[t].ref \in Bills /\ bill[tx[t].ref] # Missing
      BY <1>2 DEF Posted, Exists, Books, Inductive, ReferencesResolve, Resolves, IsPayment
    <2>2. PICK c \in Bills, old \in BillRow :
             c = tx[t].ref /\ old = bill[c] /\ bill[c] # Missing
      BY <2>1, ExistingBill DEF Books, Inductive
    <2>3. t \in Live("bill_payment", c)
      BY <1>2, <2>2 DEF Live, IsPayment
    <2>4. old.status # "cancelled"
      BY <2>2, <2>3 DEF BillsAgree, BillAgrees
    <2>5. PICK new : new = WithoutPayment(old, tx[t].amount)
      OBVIOUS
    <2>6. new.kind = old.kind /\ new.total = old.total /\ new.status = old.status
      BY <2>2, <2>5 DEF WithoutPayment, BillRow
    <2>7. new # Missing
      BY <2>2, <2>6 DEF BillRow, Missing
    <2>8. bill'[c] = new /\ \A b \in Bills : b # c => bill'[b] = bill[b]
      BY <1>2, <2>2, <2>5 DEF UnwindBill, Books, Inductive, TypeOK
    <2> QED
      BY <2>2, <2>4, <2>6, <2>7, <2>8, OneBillMoves
  <1> QED
    BY <1>1, <1>2

LEMMA CreationMoves ==
    ASSUME Books, BillsFiled, NEW s \in Sessions, Create(s)
    PROVE  LedgerMoves /\ BillsMove
  <1>1. TypeOK
    BY DEF Books, Inductive
  <1>2. ASSUME NEW t \in TxIds, NEW row \in TxRow, Insert(t, row), UNCHANGED bill,
               row.status = "posted", row.reverses = NoTx, row.group = NoTx,
               row.source \notin {"account_transfer", "bill_payment"}
        PROVE  LedgerMoves /\ BillsMove
    <2>1. \A r \in TxIds : Appears(r) => r = t
      BY <1>1, <1>2, InsertedRow DEF Appears, Exists
    <2>2. Rewrites({}, "deleted") /\ tx'[t] = row
      BY <1>2, InsertionEnters
    <2>3. EntersRows
      BY <1>2, <2>1, <2>2 DEF EntersRows
    <2> QED
      BY <1>2, <2>3, BillsUntouched DEF LedgerMoves
  <1>3. ASSUME NEW d \in {"credit", "debit"}, NEW a \in Accounts, NEW n \in Amounts,
               CreateTransaction(s, d, a, n)
        PROVE  LedgerMoves /\ BillsMove
    <2>1. PICK t \in TxIds : Insert(t, Row(d, a, n, "manual_adjustment", "none", NoTx))
      BY <1>3 DEF CreateTransaction
    <2>2. PICK row \in TxRow : row = Row(d, a, n, "manual_adjustment", "none", NoTx)
      BY LedgerAssumption DEF Row, TxRow
    <2>3. /\ row.status = "posted" /\ row.reverses = NoTx /\ row.group = NoTx
          /\ row.source = "manual_adjustment"
      BY <2>2 DEF Row
    <2> QED
      BY <1>2, <1>3, <2>1, <2>2, <2>3 DEF CreateTransaction
  <1>4. ASSUME NEW l \in Loans, NEW a \in Accounts, NEW n \in Totals,
               CreateCompanyLoan(s, l, a, n)
        PROVE  LedgerMoves /\ BillsMove
    <2>1. PICK t \in TxIds : Insert(t, Row("credit", a, n, "company_loan_disbursement", l, NoTx))
      BY <1>4 DEF CreateCompanyLoan
    <2>2. PICK row \in TxRow : row = Row("credit", a, n, "company_loan_disbursement", l, NoTx)
      BY LedgerAssumption DEF Row, TxRow
    <2>3. /\ row.status = "posted" /\ row.reverses = NoTx /\ row.group = NoTx
          /\ row.source = "company_loan_disbursement"
      BY <2>2 DEF Row
    <2> QED
      BY <1>2, <1>4, <2>1, <2>2, <2>3 DEF CreateCompanyLoan
  <1>5. ASSUME NEW b \in Bills, NEW k \in {"sales", "purchase"}, NEW n \in Totals,
               CreateBill(s, b, k, n)
        PROVE  LedgerMoves /\ BillsMove
    <2>1. LedgerMoves
      BY <1>5, NothingAppears DEF CreateBill, LedgerMoves
    <2>2. PICK row : /\ row = bill'[b] /\ row.total = n /\ row.status = "issued"
      BY <1>1, <1>5 DEF CreateBill, TypeOK
    <2>3. n > 0
      BY LedgerAssumption
    <2>4. bill[b] = Missing /\ \A c \in Bills : c # b => bill'[c] = bill[c]
      BY <1>1, <1>5 DEF CreateBill, TypeOK
    <2> QED
      BY <2>1, <2>2, <2>3, <2>4 DEF BillsMove, BillMoves, BillsFiled
  <1> QED
    BY <1>3, <1>4, <1>5 DEF Create

LEMMA CommitBillPaymentMoves ==
    ASSUME Books, BillsFiled, NEW s \in Sessions, CommitBillPayment(s), Fresh(req[s]),
           Admitted(req[s])
    PROVE  LedgerMoves /\ BillsMove
  <1>1. TypeOK
    BY DEF Books, Inductive
  <1>2. PICK q \in Request : q = req[s] /\ Sound(q) /\ q.op = "pay_bill" /\ Fresh(q) /\ Admitted(q)
    BY DEF Books, Inductive, TypeOK, RequestSound, CommitBillPayment, Idle
  <1>3. PICK c \in Bills, old \in BillRow, n \in Nat, a \in Accounts :
           /\ c = q.bill /\ old = q.seen /\ n = q.amount /\ a = q.account
           /\ bill[c] = old /\ bill[c] # Missing /\ old.status = "issued"
    BY <1>2 DEF Request, Sound, Fresh, Admitted
  <1>4. PICK d \in {"credit", "debit"}, t \in TxIds :
           Insert(t, Row(d, a, n, "bill_payment", c, NoTx)) /\ d = DirectionOf(old.kind)
    <2>1. DirectionOf(old.kind) = IF old.kind = "sales" THEN "credit" ELSE "debit"
      BY DEF DirectionOf
    <2> QED
      BY <1>2, <1>3, <2>1 DEF CommitBillPayment
  <1>5. PICK row \in TxRow : row = Row(d, a, n, "bill_payment", c, NoTx)
    BY DEF Row, TxRow
  <1>6. /\ row.status = "posted" /\ row.reverses = NoTx /\ row.group = NoTx
        /\ row.source = "bill_payment" /\ row.ref = c /\ row.direction = d
    BY <1>5 DEF Row
  <1>7. Rewrites({}, "deleted") /\ tx'[t] = row
    BY <1>4, <1>5, <1>6, InsertionEnters
  <1>8. \A r \in TxIds : Appears(r) => r = t
    BY <1>1, <1>4, <1>5, InsertedRow DEF Appears, Exists
  <1>9. EntersRows
    BY <1>3, <1>4, <1>6, <1>7, <1>8 DEF EntersRows
  <1>10. PICK new : new = bill'[c]
    OBVIOUS
  <1>11. /\ \A b \in Bills : b # c => bill'[b] = bill[b]
         /\ new = [old EXCEPT !.paid = old.paid + n, !.balance = old.total - (old.paid + n),
                          !.payment = IF old.total - (old.paid + n) <= 0
                                      THEN "paid" ELSE "partially_paid"]
    BY <1>1, <1>2, <1>3, <1>10 DEF CommitBillPayment, TypeOK, BillRow
  <1>12. new.kind = old.kind /\ new.total = old.total /\ new.status = "issued" /\ new # Missing
    BY <1>3, <1>11 DEF BillRow, Missing
  <1>13. BillsMove
    <2>1. /\ bill'[c] = new /\ bill[c] # Missing /\ new # Missing
          /\ new.kind = bill[c].kind /\ new.total = bill[c].total
          /\ new.status = "cancelled" => new.payment = "void"
          /\ \A b \in Bills : b # c => bill'[b] = bill[b]
      BY <1>3, <1>10, <1>11, <1>12
    <2> QED
      BY ONLY BillsFiled, <2>1, OneBillMoves
  <1> QED
    BY <1>9, <1>13 DEF LedgerMoves

LEMMA CommitLoanPaymentMoves ==
    ASSUME Books, BillsFiled, NEW s \in Sessions, CommitLoanPayment(s)
    PROVE  LedgerMoves /\ BillsMove
  <1>1. PICK q \in Request : q = req[s] /\ q.op = "pay_loan"
    BY DEF Books, Inductive, TypeOK, CommitLoanPayment, Idle
  <1>2. PICK c \in Loans, n \in Nat, a \in Accounts : c = q.loan /\ n = q.amount /\ a = q.account
    BY <1>1 DEF Request
  <1>3. PICK t \in TxIds : Insert(t, Row("debit", a, n, "company_loan_repayment", c, NoTx))
    BY <1>1, <1>2 DEF CommitLoanPayment
  <1>4. PICK row \in TxRow : row = Row("debit", a, n, "company_loan_repayment", c, NoTx)
    BY DEF Row, TxRow
  <1>5. /\ row.status = "posted" /\ row.reverses = NoTx /\ row.group = NoTx
        /\ row.source = "company_loan_repayment"
    BY <1>4 DEF Row
  <1>6. Rewrites({}, "deleted") /\ tx'[t] = row
    BY <1>3, <1>4, <1>5, InsertionEnters
  <1>7. \A r \in TxIds : Appears(r) => r = t
    BY <1>3, <1>4, InsertedRow DEF Appears, Exists, Books, Inductive
  <1>8. EntersRows
    BY <1>5, <1>6, <1>7 DEF EntersRows
  <1> QED
    BY <1>8, BillsUntouched DEF LedgerMoves, CommitLoanPayment

LEMMA CommitTransferMoves ==
    ASSUME Books, BillsFiled, NEW s \in Sessions, CommitTransfer(s)
    PROVE  LedgerMoves /\ BillsMove
  <1>1. /\ Rewrites({}, "deleted")
        /\ \A r \in TxIds : Appears(r) => tx'[r].source = "account_transfer"
    BY CommitTransferRewrites
  <1>2. \A r \in TxIds : Appears(r) => tx'[r].reverses = NoTx
    BY <1>1 DEF Rewrites, NewRow
  <1>3. EntersRows
    BY <1>1, <1>2 DEF EntersRows
  <1> QED
    BY <1>3, BillsUntouched DEF LedgerMoves, CommitTransfer

LEMMA CommitReverseMoves ==
    ASSUME Books, BillsAgree, BillsFiled, NEW s \in Sessions, CommitReverse(s)
    PROVE  LedgerMoves /\ BillsMove
  <1>1. PICK t \in TxIds : /\ t = req[s].tx /\ Reverses(req[s]) /\ Held(s, t)
                           /\ Rewrites(Legs(t), "reversed") /\ Undone(Legs(t))
    BY CommitReverseRewrites
  <1>2. Posted(t)
    <2>1. Sound(req[s]) /\ req[s].op \in {"reverse", "reverse_payment"}
      BY DEF CommitReverse, Ready, Books, Inductive, RequestSound
    <2>2. Exists(t)
      BY <1>1, <2>1 DEF Sound, PaymentsOf
    <2> QED
      BY <1>1, <2>2 DEF Held, Legs
  <1>3. UnwindBill(t)
    BY <1>1 DEF CommitReverse
  <1>4. UndoesRows(Legs(t)) /\ Legs(t) \in SUBSET TxIds
    BY <1>1 DEF UndoesRows, Held, Rewrites
  <1> QED
    BY <1>2, <1>3, <1>4, UnwindingMoves DEF LedgerMoves

LEMMA CommitDeleteMoves ==
    ASSUME Books, BillsAgree, BillsFiled, NEW s \in Sessions, CommitDelete(s)
    PROVE  LedgerMoves /\ BillsMove
  <1>1. PICK root \in TxIds, S \in SUBSET locks[s] :
           /\ root = Root(req[s].tx) /\ Exists(root) /\ Rewrites(S, "deleted")
           /\ \/ /\ Posted(root) /\ Reverses(req[s]) /\ Held(s, root)
                 /\ S = Legs(root) /\ Undone(S)
                 /\ UnwindBill(root) /\ UnwindLoan(root)
              \/ /\ ~Posted(root) /\ S = Chain(root) /\ \A r \in TxIds : ~Appears(r)
                 /\ UNCHANGED <<bill, loan>>
    BY CommitDeleteRewrites
  <1>2. CASE Posted(root) /\ Held(s, root) /\ S = Legs(root) /\ Undone(S) /\ UnwindBill(root)
    <2>1. UndoesRows(S) /\ S \in SUBSET TxIds
      BY <1>1, <1>2 DEF UndoesRows, Held, Rewrites
    <2> QED
      BY <1>2, <2>1, UnwindingMoves DEF LedgerMoves
  <1>3. CASE ~Posted(root) /\ S = Chain(root) /\ (\A r \in TxIds : ~Appears(r)) /\ UNCHANGED bill
    <2>1. DeletesChain(root)
      BY <1>1, <1>3 DEF DeletesChain
    <2> QED
      BY <1>3, <2>1, BillsUntouched DEF LedgerMoves
  <1> QED
    BY <1>1, <1>2, <1>3

LEMMA CommitVoidMoves ==
    ASSUME Books, BillsFiled, NEW s \in Sessions, CommitVoid(s)
    PROVE  LedgerMoves /\ BillsMove
  <1>1. TypeOK
    BY DEF Books, Inductive
  <1>2. PICK c \in Bills : c = req[s].bill /\ bill[c] # Missing
    <2>1. req[s] \in Request /\ Sound(req[s]) /\ req[s].op = "void"
      BY ReadyRequest DEF CommitVoid, Locking, Books
    <2> QED
      BY <2>1 DEF Request, Sound
  <1>3. PICK S : S = LivePayments(c) /\ Rewrites(S, "reversed") /\ Undone(S)
    BY <1>2, CommitVoidRewrites
  <1>4. UndoesRows(S) /\ S \in SUBSET TxIds
    BY <1>3 DEF UndoesRows, Rewrites
  <1>5. PICK old \in BillRow : old = bill[c]
    BY <1>1, <1>2, ExistingBill
  <1>6. PICK new : new = [[[[old EXCEPT !.status = "cancelled"] EXCEPT !.payment = "void"]
                         EXCEPT !.paid = 0] EXCEPT !.balance = 0]
    OBVIOUS
  <1>7. /\ \A b \in Bills : b # c => bill'[b] = bill[b]
        /\ bill'[c] = new
    BY <1>1, <1>2, <1>5, <1>6 DEF CommitVoid, TypeOK
  <1>8. /\ new.kind = old.kind /\ new.total = old.total /\ new.payment = "void"
        /\ new.status = "cancelled" /\ new # Missing
    BY <1>5, <1>6 DEF BillRow, Missing
  <1>9. BillsMove
    BY <1>2, <1>5, <1>7, <1>8, OneBillMoves
  <1> QED
    BY <1>4, <1>9 DEF LedgerMoves

LEMMA StepMoves ==
    ASSUME Matched, BillsFiled, [Next]_vars,
           [\A s \in Sessions : Commit(s) => Fresh(req[s])]_vars
    PROVE  LedgerMoves /\ BillsMove
  <1>1. ASSUME UNCHANGED <<tx, bill>>
        PROVE  LedgerMoves /\ BillsMove
    BY <1>1, NothingAppears, BillsUntouched DEF LedgerMoves
  <1>2. CASE UNCHANGED vars
    BY <1>1, <1>2 DEF vars
  <1>3. CASE Next /\ vars' # vars
    <2>1. PICK s \in Sessions : Create(s) \/ Start(s) \/ Advance(s) \/ Rollback(s)
      BY <1>3 DEF Next
    <2>2. Commit(s) => Fresh(req[s])
      BY <1>3
    <2>3. Start(s) \/ Lock(s) \/ Check(s) \/ Refuse(s) \/ Rollback(s) \/ CommitUpdateLoan(s)
              => UNCHANGED <<tx, bill>>
      BY DEF Start, StartBillPayment, StartLoanPayment, StartTransfer, StartLocking, Begin,
             Lock, Check, Refuse, Rollback, CommitUpdateLoan
    <2>4. Commit(s) => (LedgerMoves /\ BillsMove)
      BY <1>1, <2>2, <2>3, CommitBillPaymentMoves, CommitLoanPaymentMoves, CommitTransferMoves,
         CommitReverseMoves, CommitDeleteMoves, CommitVoidMoves DEF Commit, Matched, Agree
    <2> QED
      BY <1>1, <2>1, <2>3, <2>4, CreationMoves DEF Advance, Matched
  <1> QED
    BY <1>2, <1>3

LEMMA FreshlyFiled == Spec /\ FreshCommits => [](Matched /\ Filed)
  <1>1. Init => Filed
    BY DEF Init, Filed, BillsFiled, PaymentsFiled, ReversalsFiled, PairsFiled, IsReversal, Exists,
           Missing
  <1>2. /\ Matched /\ Filed /\ [Next]_vars /\ [\A s \in Sessions : Commit(s) => Fresh(req[s])]_vars
        => Filed'
    <2>1. Matched' => TypeOK'
      BY DEF Matched, Books, Inductive
    <2> QED
      BY <2>1, MatchedStep, StepMoves, StayFiled DEF Filed, Matched
  <1> QED
    BY <1>1, <1>2, InitMatched, MatchedStep, PTL DEF Spec, FreshCommits

\* The list of accounts, the overview, the profitability and the filtered
\* bills, each with a query of its own, tell one story in every state that
\* requests reach without writing back what has changed since they read it.
THEOREM OnlyStaleReadsSplitReports == Spec /\ FreshCommits => []ReportsAgree
  BY FreshlyFiled, FiledReportsAgree, PTL

\* With requests that come one at a time, they always do.
THEOREM ReportsAgreeOneAtATime ==
    ASSUME OneAtATime
    PROVE  Spec => []ReportsAgree
  BY OneAtATimeIsFresh, OnlyStaleReadsSplitReports, PTL
============================================================================
