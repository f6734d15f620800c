--------------------------- MODULE FinanceLedger ---------------------------
(***************************************************************************)
(* The company ledger of backend/app/services/finance_service.py: posted   *)
(* transactions, their reversals and deletions, account transfers, bills   *)
(* and their payments, company loans and their repayments.                 *)
(*                                                                         *)
(* Every HTTP request is a session on PostgreSQL at READ COMMITTED.  Two   *)
(* kinds of request are told apart.  A request that takes row locks        *)
(* (SELECT ... FOR UPDATE) goes through Lock steps, one row each, then a   *)
(* Check of what it read under the first locks, then the locks its effects *)
(* need, then Commit.  A request that reads without a lock keeps what it   *)
(* read in `seen' and writes it back, changed, when it commits.            *)
(*                                                                         *)
(* Amounts are whole units; customers, projects and categories, which only *)
(* decide whether a row is visible, are left out.                          *)
(***************************************************************************)
EXTENDS Integers, FiniteSets, FiniteSetsExt

CONSTANTS Accounts,    \* financial accounts, all active
          Bills,       \* identifiers of bills that may be issued
          Loans,       \* identifiers of company loans that may be taken
          Sessions,    \* concurrent requests
          Amounts,     \* amounts a request may name
          Totals,      \* totals of bills and principals of loans
          Opening,     \* opening balance of every account
          MaxTx,       \* bound: ledger rows
          Operations   \* the endpoints this instance exercises

ASSUME LedgerAssumption ==
    /\ MaxTx \in Nat
    /\ Amounts \subseteq Nat \ {0}
    /\ Totals \subseteq Nat \ {0}
    /\ Opening \in [Accounts -> Nat]

VARIABLES tx,     \* finance_transactions
          bill,   \* bills
          loan,   \* company_loans
          req,    \* what every session is doing
          locks   \* rows every session holds FOR UPDATE

vars == <<tx, bill, loan, req, locks>>

----------------------------------------------------------------------------
(* Rows *)

TxIds == 1..MaxTx
NoTx == 0

TxRow == [direction: {"credit", "debit"}, amount: Nat, account: Accounts,
          source: {"manual_adjustment", "account_transfer", "bill_payment",
                   "company_loan_disbursement", "company_loan_repayment"},
          ref: Bills \cup Loans \cup {"none"}, group: TxIds \cup {NoTx},
          status: {"posted", "reversed", "deleted"},
          reverses: TxIds \cup {NoTx}]
BillRow == [kind: {"sales", "purchase"}, total: Nat, paid: Nat, balance: Nat,
            payment: {"unpaid", "partially_paid", "paid", "void"},
            status: {"issued", "cancelled"}]
LoanRow == [principal: Nat, outstanding: Nat,
            status: {"active", "closed", "cancelled"}]
Missing == [status |-> "missing"]

Exists(t) == tx[t].status # "missing"
Posted(t) == tx[t].status = "posted"
ReversalsOf(t) == {r \in TxIds : Exists(r) /\ tx[r].reverses = t}

\* A bill_payments row ties exactly the original payment to its bill.
IsPayment(t) == tx[t].source = "bill_payment" /\ tx[t].reverses = NoTx
PaymentsOf(b) == {t \in TxIds : Exists(t) /\ IsPayment(t) /\ tx[t].ref = b}

\* The payments of a bill that void_bill has to reverse.
EveryPaymentOf(b) == PaymentsOf(b)
LivePayments(b) == {t \in PaymentsOf(b) : Posted(t)}

\* The transaction itself and, for an account transfer, its other leg.
OneLeg(t) == {t}
Legs(t) == IF tx[t].group = NoTx THEN {t}
           ELSE {u \in TxIds : Exists(u) /\ tx[u].group = tx[t].group}

\* _account_balance: reversed rows count, their reversal cancels them.
Counted(t) == tx[t].status \in {"posted", "reversed"}
Signed(t) == IF tx[t].direction = "credit" THEN tx[t].amount ELSE -tx[t].amount
Balance(a) == Opening[a] + MapThenSumSet(Signed,
                  {t \in TxIds : Counted(t) /\ tx[t].account = a})

----------------------------------------------------------------------------
(* Inserting rows: identifiers are handed out in order. *)

NewIds(k) == {i \in TxIds : ~Exists(i) /\ Cardinality({u \in TxIds : u < i /\ ~Exists(u)}) < k}

Row(direction, account, amount, source, ref, group) ==
    [direction |-> direction, amount |-> amount, account |-> account,
     source |-> source, ref |-> ref, group |-> group,
     status |-> "posted", reverses |-> NoTx]

Insert(t, row) == /\ t \in NewIds(1)
                  /\ tx' = [tx EXCEPT ![t] = row]

\* One new identifier for each row of S, in the order of S.
Allocations(S) ==
    {f \in [S -> NewIds(Cardinality(S))] : \A i, j \in S : i < j => f[i] < f[j]}

Opposite(direction) == IF direction = "credit" THEN "debit" ELSE "credit"

Reversal(t, group) ==
    [tx[t] EXCEPT !.direction = Opposite(@), !.status = "posted",
                  !.group = group, !.reverses = t]

\* The transfer group of the reversals: any name that is new.
NewGroup(S, f) == CHOOSE g \in {f[t] : t \in S} : TRUE

\* The ledger once every row t of S is reversed by a new row f[t].
Reversing(S, f) ==
    [u \in TxIds |->
        IF u \in S THEN [tx[u] EXCEPT !.status = "reversed"]
        ELSE IF \E t \in S : f[t] = u
             THEN LET t == CHOOSE t \in S : f[t] = u
                  IN Reversal(t, IF tx[t].group = NoTx THEN NoTx ELSE NewGroup(S, f))
             ELSE tx[u]]

----------------------------------------------------------------------------
(* What a reversal does to the bill or the loan behind the transaction. *)

PaymentState(paid, balance) ==
    IF paid = 0 THEN "unpaid" ELSE IF balance = 0 THEN "paid" ELSE "partially_paid"

Unclamped(n) == n
AtLeastZero(n) == IF n > 0 THEN n ELSE 0

StaleBalance(row, amount) ==
    LET paid == AtLeastZero(row.paid - amount)
    IN [row EXCEPT !.paid = paid, !.payment = PaymentState(paid, row.balance)]
WithoutPayment(row, amount) ==
    LET paid == AtLeastZero(row.paid - amount)
        balance == AtLeastZero(row.total - paid)
    IN [row EXCEPT !.paid = paid, !.balance = balance,
                   !.payment = PaymentState(paid, balance)]

UncappedRepayment(row, amount) ==
    [row EXCEPT !.outstanding = @ + amount, !.status = "active"]
WithoutRepayment(row, amount) ==
    LET outstanding == IF row.outstanding + amount < row.principal
                       THEN row.outstanding + amount ELSE row.principal
    IN [row EXCEPT !.outstanding = outstanding,
                   !.status = IF outstanding > 0 THEN "active" ELSE "closed"]

\* _apply_finance_reversal_dependencies: a reversal of a reversal copies the
\* source of its original, so it reaches the loan again, but not the bill.
BillForgotten(t) == bill' = bill
UnwindBill(t) ==
    bill' = IF IsPayment(t)
            THEN [bill EXCEPT ![tx[t].ref] = WithoutPayment(@, tx[t].amount)]
            ELSE bill

UnwindLoan(t) ==
    loan' = IF tx[t].source = "company_loan_repayment"
            THEN [loan EXCEPT ![tx[t].ref] = WithoutRepayment(@, tx[t].amount)]
            ELSE IF tx[t].source = "company_loan_disbursement"
            THEN [loan EXCEPT ![tx[t].ref].outstanding = 0,
                              ![tx[t].ref].status = "cancelled"]
            ELSE loan

LiveRepayments(l) ==
    {t \in TxIds : /\ Posted(t) /\ tx[t].reverses = NoTx
                   /\ tx[t].source = "company_loan_repayment" /\ tx[t].ref = l}

----------------------------------------------------------------------------
(* Requests *)

Idle == [op |-> "idle"]

Request ==
    [op: {"reverse", "delete"}, tx: TxIds, checked: BOOLEAN]
    \cup [op: {"reverse_payment"}, bill: Bills, tx: TxIds, checked: BOOLEAN]
    \cup [op: {"void"}, bill: Bills, checked: BOOLEAN]
    \cup [op: {"update_loan"}, loan: Loans, checked: BOOLEAN]
    \cup [op: {"pay_bill"}, bill: Bills, account: Accounts, amount: Nat, seen: BillRow]
    \cup [op: {"pay_loan"}, loan: Loans, account: Accounts, amount: Nat, seen: LoanRow]
    \cup [op: {"transfer"}, from: Accounts, to: Accounts, amount: Nat]

Lockable == TxIds \cup Bills \cup Loans
Locking == {"reverse", "delete", "reverse_payment", "void", "update_loan"}
Active(s) == req[s].op # "idle"

Begin(s, op, request) == /\ op \in Operations
                         /\ ~Active(s)
                         /\ req' = [req EXCEPT ![s] = request]
                         /\ UNCHANGED <<tx, bill, loan, locks>>

EndHoldingLocks(s) == /\ req' = [req EXCEPT ![s] = Idle]
                      /\ locks' = locks
End(s) == /\ req' = [req EXCEPT ![s] = Idle]
          /\ locks' = [locks EXCEPT ![s] = {}]

\* What a session read or named still makes sense when it is used.
Sound(r) ==
    /\ r.op = "pay_bill" => /\ bill[r.bill] # Missing
                            /\ r.seen.total = bill[r.bill].total
                            /\ r.seen.paid + r.seen.balance = r.seen.total
                            /\ r.amount <= r.seen.balance
    /\ r.op = "pay_loan" => /\ loan[r.loan] # Missing
                            /\ r.seen.principal = loan[r.loan].principal
                            /\ r.seen.outstanding <= r.seen.principal
                            /\ r.amount <= r.seen.outstanding
    /\ r.op \in {"reverse", "delete"} => Exists(r.tx)
    /\ r.op = "reverse_payment" => r.tx \in PaymentsOf(r.bill)
    /\ r.op = "void" => bill[r.bill] # Missing
RequestSound == \A s \in Sessions : Sound(req[s])

\* source_id and reversed_transaction_id carry no foreign key: what a row
\* names exists because no request ever removes a row.
Resolves(t) ==
    /\ tx[t].source = "bill_payment" => tx[t].ref \in Bills /\ bill[tx[t].ref] # Missing
    /\ tx[t].source \in {"company_loan_disbursement", "company_loan_repayment"}
           => tx[t].ref \in Loans /\ loan[tx[t].ref] # Missing
    /\ tx[t].reverses # NoTx => Exists(tx[t].reverses)
    /\ tx[t].group # NoTx => Exists(tx[t].group)
ReferencesResolve == \A t \in TxIds : Exists(t) => Resolves(t)

TypeOK ==
    /\ tx \in [TxIds -> TxRow \cup {Missing}]
    /\ bill \in [Bills -> BillRow \cup {Missing}]
    /\ loan \in [Loans -> LoanRow \cup {Missing}]
    /\ req \in [Sessions -> Request \cup {Idle}]
    /\ locks \in [Sessions -> SUBSET Lockable]

Init ==
    /\ tx = [t \in TxIds |-> Missing]
    /\ bill = [b \in Bills |-> Missing]
    /\ loan = [l \in Loans |-> Missing]
    /\ req = [s \in Sessions |-> Idle]
    /\ locks = [s \in Sessions |-> {}]

----------------------------------------------------------------------------
(* Rows inserted without reading any they depend on: one transaction each. *)

CreateTransaction(s, direction, a, amount) ==
    /\ ~Active(s)
    /\ "create_transaction" \in Operations
    /\ \E t \in TxIds :
           Insert(t, Row(direction, a, amount, "manual_adjustment", "none", NoTx))
    /\ UNCHANGED <<bill, loan, req, locks>>

CreateBill(s, b, kind, total) ==
    /\ ~Active(s)
    /\ bill[b] = Missing
    /\ bill' = [bill EXCEPT ![b] =
                  [kind |-> kind, total |-> total, paid |-> 0, balance |-> total,
                   payment |-> "unpaid", status |-> "issued"]]
    /\ UNCHANGED <<tx, loan, req, locks>>

CreateCompanyLoan(s, l, a, principal) ==
    /\ ~Active(s)
    /\ loan[l] = Missing
    /\ loan' = [loan EXCEPT ![l] = [principal |-> principal,
                                    outstanding |-> principal, status |-> "active"]]
    /\ \E t \in TxIds : Insert(t, Row("credit", a, principal,
                                      "company_loan_disbursement", l, NoTx))
    /\ UNCHANGED <<bill, req, locks>>

----------------------------------------------------------------------------
(* Read without a lock, then write what follows from it. *)

\* record_bill_payment up to create_transaction
StartBillPayment(s, b, a, amount) ==
    /\ bill[b] # Missing
    /\ bill[b].status # "cancelled"
    /\ amount <= bill[b].balance
    /\ bill[b].kind = "purchase" => Balance(a) >= amount
    /\ Begin(s, "pay_bill", [op |-> "pay_bill", bill |-> b, account |-> a,
                             amount |-> amount, seen |-> bill[b]])

\* The UPDATE waits for a FOR UPDATE holder, then writes the columns that
\* differ from the row this session loaded.
CommitBillPayment(s) ==
    LET r == req[s]
        paid == r.seen.paid + r.amount
        balance == r.seen.total - paid
        payment == IF balance <= 0 THEN "paid" ELSE "partially_paid"
    IN /\ r.op = "pay_bill"
       /\ \A u \in Sessions : r.bill \notin locks[u]
       /\ bill' = [bill EXCEPT ![r.bill].paid = paid, ![r.bill].balance = balance,
                               ![r.bill].payment = IF payment = r.seen.payment
                                                   THEN @ ELSE payment]
       /\ \E t \in TxIds :
              Insert(t, Row(IF r.seen.kind = "sales" THEN "credit" ELSE "debit",
                            r.account, r.amount, "bill_payment", r.bill, NoTx))
       /\ End(s)
       /\ UNCHANGED loan

StartLoanPayment(s, l, a, amount) ==
    /\ loan[l].status = "active"
    /\ amount <= loan[l].outstanding
    /\ Begin(s, "pay_loan", [op |-> "pay_loan", loan |-> l, account |-> a,
                             amount |-> amount, seen |-> loan[l]])

CommitLoanPayment(s) ==
    LET r == req[s]
        outstanding == r.seen.outstanding - r.amount
    IN /\ r.op = "pay_loan"
       /\ \A u \in Sessions : r.loan \notin locks[u]
       /\ loan' = [loan EXCEPT ![r.loan].outstanding = outstanding,
                               ![r.loan].status = IF outstanding <= 0
                                                  THEN "closed" ELSE @]
       /\ \E t \in TxIds : Insert(t, Row("debit", r.account, r.amount,
                                         "company_loan_repayment", r.loan, NoTx))
       /\ End(s)
       /\ UNCHANGED bill

StartTransfer(s, from, to, amount) ==
    /\ from # to
    /\ Balance(from) >= amount
    /\ Begin(s, "transfer", [op |-> "transfer", from |-> from, to |-> to,
                             amount |-> amount])

CommitTransfer(s) ==
    LET r == req[s] IN
    /\ r.op = "transfer"
    /\ \E i, j \in NewIds(2) :
         /\ i < j
         /\ tx' = [tx EXCEPT
                ![i] = Row("debit", r.from, r.amount, "account_transfer", "none", i),
                ![j] = Row("credit", r.to, r.amount, "account_transfer", "none", i)]
    /\ End(s)
    /\ UNCHANGED <<bill, loan>>

----------------------------------------------------------------------------
(* Requests that lock the rows they read. *)

Root(t) == IF tx[t].reverses = NoTx THEN t ELSE tx[t].reverses

\* delete_transaction's root_ids and chain_rows
RootIds(t) == IF tx[t].group = NoTx THEN {t}
              ELSE {u \in Legs(t) : tx[u].reverses = NoTx}
Chain(t) == RootIds(t) \cup UNION {ReversalsOf(u) : u \in RootIds(t)}

\* The bill or loan row that reversing t rewrites.
Touched(t) == IF IsPayment(t) \/ tx[t].source \in {"company_loan_disbursement",
                                                   "company_loan_repayment"}
              THEN {tx[t].ref} ELSE {}
Disbursements(l) == {t \in TxIds : /\ Exists(t) /\ tx[t].ref = l
                                   /\ tx[t].source = "company_loan_disbursement"}

\* The rows a request locks before it checks its guards, in order ...
GuardStages(r) ==
    CASE r.op = "reverse"         -> <<{r.tx}, Legs(r.tx)>>
      [] r.op = "delete"          -> <<{r.tx}, {Root(r.tx)},
                                       IF Posted(Root(r.tx)) THEN Legs(Root(r.tx)) ELSE {}>>
      [] r.op = "reverse_payment" -> <<{r.bill}, {r.tx}>>
      [] r.op = "void"            -> <<{r.bill}>>
      [] r.op = "update_loan"     -> <<{r.loan}>>

\* ... and those it locks afterwards, to write them.
EffectStages(r) ==
    CASE r.op = "reverse"         -> <<Touched(r.tx)>>
      [] r.op = "delete"          -> <<IF Posted(Root(r.tx)) THEN Touched(Root(r.tx)) ELSE {},
                                       RootIds(Root(r.tx)), Chain(Root(r.tx))>>
      [] r.op = "reverse_payment" -> <<Touched(r.tx)>>
      [] r.op = "void"            -> <<LivePayments(r.bill)>>
      [] r.op = "update_loan"     -> <<Disbursements(r.loan)>>

\* What session s must lock next; empty when it holds all of this phase.
NextRows(s) ==
    LET stages == IF req[s].checked THEN EffectStages(req[s]) ELSE GuardStages(req[s])
        reached == {i \in DOMAIN stages : \A j \in 1..(i - 1) : stages[j] \subseteq locks[s]}
    IN (UNION {stages[i] : i \in reached}) \ locks[s]

Reversible(t) == Posted(t) /\ ReversalsOf(t) = {}
AlwaysUnencumbered(t) == TRUE
Unencumbered(t) == tx[t].source = "company_loan_disbursement"
                       => LiveRepayments(tx[t].ref) = {}
LegsReversible(t) == \A u \in Legs(t) : Reversible(u)

\* What a request checks once it holds its guard rows.
Fit(r) ==
    CASE r.op \in {"reverse", "reverse_payment"} ->
             LegsReversible(r.tx) /\ Unencumbered(r.tx)
      [] r.op = "delete" ->
             LET root == Root(r.tx) IN
             /\ tx[r.tx].status # "deleted"
             /\ \/ Posted(root) /\ LegsReversible(root) /\ Unencumbered(root)
                \/ tx[root].status = "reversed" /\ Chain(root) # RootIds(root)
             /\ RootIds(root) # {}
      [] r.op = "void" -> bill[r.bill].status # "cancelled"
      [] r.op = "update_loan" -> TRUE

\* The check on the named transaction comes before any further lock.
TargetUnfit(s) ==
    \/ /\ req[s].op \in {"reverse", "reverse_payment"}
       /\ req[s].tx \in locks[s]
       /\ ~Reversible(req[s].tx)
    \/ /\ req[s].op = "delete"
       /\ req[s].tx \in locks[s]
       /\ tx[req[s].tx].status = "deleted"

StartLocking(s) ==
    \/ \E op \in {"reverse", "delete"}, t \in TxIds :
           /\ Exists(t)
           /\ Begin(s, op, [op |-> op, tx |-> t, checked |-> FALSE])
    \/ \E b \in Bills, t \in TxIds :
           /\ t \in PaymentsOf(b)
           /\ Begin(s, "reverse_payment", [op |-> "reverse_payment", bill |-> b,
                                           tx |-> t, checked |-> FALSE])
    \/ \E b \in Bills :
           /\ bill[b] # Missing
           /\ Begin(s, "void", [op |-> "void", bill |-> b, checked |-> FALSE])
    \/ \E l \in Loans :
           /\ loan[l] # Missing
           /\ Begin(s, "update_loan", [op |-> "update_loan", loan |-> l,
                                       checked |-> FALSE])

LockShared(s) ==
    /\ req[s].op \in Locking
    /\ ~TargetUnfit(s)
    /\ \E row \in NextRows(s) : locks' = [locks EXCEPT ![s] = @ \cup {row}]
    /\ UNCHANGED <<tx, bill, loan, req>>
Lock(s) ==
    /\ req[s].op \in Locking
    /\ ~TargetUnfit(s)
    /\ \E row \in NextRows(s) :
         /\ \A u \in Sessions : row \notin locks[u]
         /\ locks' = [locks EXCEPT ![s] = @ \cup {row}]
    /\ UNCHANGED <<tx, bill, loan, req>>

Check(s) ==
    /\ req[s].op \in Locking
    /\ ~req[s].checked
    /\ ~TargetUnfit(s)
    /\ NextRows(s) = {}
    /\ Fit(req[s])
    /\ req' = [req EXCEPT ![s].checked = TRUE]
    /\ UNCHANGED <<tx, bill, loan, locks>>

\* 409: the guard fails and the transaction is rolled back.
Refuse(s) ==
    /\ req[s].op \in Locking
    /\ ~req[s].checked
    /\ TargetUnfit(s) \/ (NextRows(s) = {} /\ ~Fit(req[s]))
    /\ End(s)
    /\ UNCHANGED <<tx, bill, loan>>

Ready(s, op) == req[s].op = op /\ req[s].checked /\ NextRows(s) = {}

CommitReverse(s) ==
    LET t == req[s].tx IN
    /\ Ready(s, "reverse") \/ Ready(s, "reverse_payment")
    /\ \E f \in Allocations(Legs(t)) : tx' = Reversing(Legs(t), f)
    /\ UnwindBill(t)
    /\ UnwindLoan(t)
    /\ End(s)

\* A posted root is reversed first; then the root, its transfer sibling and
\* the rows that reverse them are marked deleted.
CommitDelete(s) ==
    LET root == Root(req[s].tx)
        Deleting(rows, doomed) == [u \in TxIds |-> IF u \in doomed
                                     THEN [rows[u] EXCEPT !.status = "deleted"]
                                     ELSE rows[u]]
    IN /\ Ready(s, "delete")
       /\ \/ /\ Posted(root)
             /\ \E f \in Allocations(Legs(root)) :
                    tx' = Deleting(Reversing(Legs(root), f),
                                   Legs(root) \cup {f[u] : u \in Legs(root)})
             /\ UnwindBill(root)
             /\ UnwindLoan(root)
          \/ /\ ~Posted(root)
             /\ tx' = Deleting(tx, Chain(root))
             /\ UNCHANGED <<bill, loan>>
       /\ End(s)

CommitVoid(s) ==
    LET b == req[s].bill
        live == LivePayments(b)
    IN /\ Ready(s, "void")
       /\ \E f \in Allocations(live) : tx' = Reversing(live, f)
       /\ bill' = [bill EXCEPT ![b].status = "cancelled", ![b].payment = "void",
                               ![b].paid = 0, ![b].balance = 0]
       /\ End(s)
       /\ UNCHANGED loan

\* Terms and the lender's name, which the model does not keep.
CommitUpdateLoan(s) ==
    /\ Ready(s, "update_loan")
    /\ End(s)
    /\ UNCHANGED <<tx, bill, loan>>

----------------------------------------------------------------------------
(* The database ends a request: a statement fails, or a wait cycle is broken. *)

Rollback(s) == Active(s) /\ End(s) /\ UNCHANGED <<tx, bill, loan>>

WaitsFor(s) ==
    IF req[s].op \in Locking /\ \A row \in NextRows(s) : \E u \in Sessions \ {s} : row \in locks[u]
    THEN {u \in Sessions \ {s} : NextRows(s) \cap locks[u] # {}}
    ELSE {}

WaitCycle(D) == D # {} /\ \A s \in D : WaitsFor(s) \cap D # {}
Deadlocked(s) == \E D \in SUBSET Sessions :
                     /\ s \in D /\ WaitCycle(D)
                     /\ \A E \in SUBSET D : WaitCycle(E) => E = D

BreakDeadlock(s) == Deadlocked(s) /\ Rollback(s)

----------------------------------------------------------------------------

Commit(s) == \/ CommitBillPayment(s) \/ CommitLoanPayment(s) \/ CommitTransfer(s)
             \/ CommitReverse(s) \/ CommitDelete(s) \/ CommitVoid(s)
             \/ CommitUpdateLoan(s)

Advance(s) == Lock(s) \/ Check(s) \/ Refuse(s) \/ Commit(s)

Start(s) == \/ \E b \in Bills, a \in Accounts, n \in Amounts : StartBillPayment(s, b, a, n)
            \/ \E l \in Loans, a \in Accounts, n \in Amounts : StartLoanPayment(s, l, a, n)
            \/ \E a, c \in Accounts, n \in Amounts : StartTransfer(s, a, c, n)
            \/ StartLocking(s)

Create(s) ==
    \/ \E d \in {"credit", "debit"}, a \in Accounts, n \in Amounts :
           CreateTransaction(s, d, a, n)
    \/ \E b \in Bills, k \in {"sales", "purchase"}, n \in Totals : CreateBill(s, b, k, n)
    \/ \E l \in Loans, a \in Accounts, n \in Totals : CreateCompanyLoan(s, l, a, n)

Next == \E s \in Sessions : Create(s) \/ Start(s) \/ Advance(s) \/ Rollback(s)

Spec == Init /\ [][Next]_vars

\* Bound: a request that needs more ledger rows than MaxTx leaves is ended.
RowsNeeded(r) ==
    CASE r.op \in {"reverse", "reverse_payment"} -> Cardinality(Legs(r.tx))
      [] r.op = "delete" -> IF Posted(Root(r.tx)) THEN Cardinality(Legs(Root(r.tx))) ELSE 0
      [] r.op = "void" -> Cardinality(LivePayments(r.bill))
      [] r.op \in {"pay_bill", "pay_loan"} -> 1
      [] r.op = "transfer" -> 2
      [] OTHER -> 0
OutOfRows(s) == /\ Cardinality({t \in TxIds : ~Exists(t)}) < RowsNeeded(req[s])
                /\ Rollback(s)

\* The thread pool runs every request; PostgreSQL serves lock waiters in
\* their order of arrival (strong fairness) and breaks every wait cycle.
LiveSpec == /\ Spec
            /\ \A s \in Sessions : /\ SF_vars(Advance(s))
                                   /\ WF_vars(BreakDeadlock(s) \/ OutOfRows(s))

----------------------------------------------------------------------------
(* What holds whatever the requests interleave. *)

\* A transaction is reversed at most once, a reversed one has its reversal,
\* and one that has a reversal is no longer posted: reverse_transaction's
\* status and `existing' checks hold against a concurrent reversal or delete.
ReversedOnce ==
    \A t \in TxIds : Exists(t) =>
        /\ Cardinality(ReversalsOf(t)) <= 1
        /\ tx[t].status = "reversed" => ReversalsOf(t) # {}
        /\ ReversalsOf(t) # {} => ~Posted(t)

\* Transfers and their reversals never create or destroy money, summed over
\* the accounts they move it between.
TransfersConserveMoney ==
    MapThenSumSet(Signed, {t \in TxIds : Exists(t) /\ Counted(t)
                              /\ tx[t].source = "account_transfer"}) = 0

\* The columns of a bill never contradict each other: what is paid and what is
\* left add up to the total, except that a voided bill may show zero for both.
BillColumnsAgree ==
    \A b \in Bills : bill[b] # Missing =>
        \/ bill[b].paid + bill[b].balance = bill[b].total
        \/ bill[b].status = "cancelled" /\ bill[b].paid = 0 /\ bill[b].balance = 0

\* History is only ever added to: a posted row keeps everything but its status,
\* which moves from posted to reversed to deleted and never back.
Rank(status) == CASE status = "posted" -> 0 [] status = "reversed" -> 1
                  [] status = "deleted" -> 2
HistoryKept ==
    [][\A t \in TxIds : Exists(t) =>
         /\ [tx'[t] EXCEPT !.status = "posted"] = [tx[t] EXCEPT !.status = "posted"]
         /\ Rank(tx[t].status) <= Rank(tx'[t].status)]_tx

\* Whatever repayments and reversals overwrite each other, a loan never owes
\* more than was borrowed.
LoanWithinPrincipal ==
    \A l \in Loans : loan[l] # Missing => loan[l].outstanding <= loan[l].principal

\* Every request is answered.
EveryRequestEnds == \A s \in Sessions : Active(s) ~> ~Active(s)

----------------------------------------------------------------------------
(* What holds as long as requests come one at a time. *)

Total(S) == MapThenSumSet(LAMBDA t : tx[t].amount, S)

\* The paid amount of an issued bill is the sum of its payments in force, never
\* more than its total, and a voided bill has no payment left in force, through
\* every order of payments, reversals, deletions and voids.
BillMatchesPayments ==
    \A b \in Bills : bill[b] # Missing =>
        IF bill[b].status = "cancelled" THEN LivePayments(b) = {}
        ELSE /\ bill[b].paid = Total(LivePayments(b))
             /\ bill[b].paid <= bill[b].total
             /\ bill[b].payment = PaymentState(bill[b].paid, bill[b].balance)

\* What is outstanding on a loan is its principal less the repayments in force,
\* as long as nobody reverses the reversal of one of the loan's rows.
ReversedTwice(l) == \E t \in TxIds : /\ Exists(t) /\ tx[t].ref = l
                                     /\ tx[t].reverses # NoTx /\ ReversalsOf(t) # {}
LoanMatchesRepayments ==
    \A l \in Loans : (loan[l] # Missing /\ ~ReversedTwice(l)) =>
        IF loan[l].status = "cancelled" THEN LiveRepayments(l) = {}
        ELSE /\ loan[l].outstanding = loan[l].principal - Total(LiveRepayments(l))
             /\ loan[l].status = (IF loan[l].outstanding = 0 THEN "closed" ELSE "active")
============================================================================
