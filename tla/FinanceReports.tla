---------------------------- MODULE FinanceReports ----------------------------
(***************************************************************************)
(* What the finance pages compute from the ledger (finance_service.py):    *)
(* the list of accounts, the figures of the overview, the profitability of *)
(* the company and the bills still to be paid.  Each is a query of its     *)
(* own, over rows it selects in its own way.  Dates are left out: all      *)
(* figures are for the time since the books were opened.                   *)
(***************************************************************************)
EXTENDS FinanceLedger

\* Tables are finite: what is summed over all accounts or bills is a number.
ASSUME ReportsAssumption == IsFiniteSet(Accounts) /\ IsFiniteSet(Bills)

\* Rows with an accounting status.
Reported == {t \in TxIds : Exists(t) /\ Counted(t)}
Flow(S, direction) == Total({t \in S : tx[t].direction = direction})

\* list_accounts: the sums of all accounts in one query.
ListedBalance ==
    [a \in Accounts |-> LET rows == {t \in Reported : tx[t].account = a}
                        IN Opening[a] + Flow(rows, "credit") - Flow(rows, "debit")]

\* Mutant: the reversal of a payment is not taken for one.
WithoutPayments == {t \in Reported : ~IsPayment(t)}

\* finance_kpis: payments of bills are left to the figures of the bills.
CashFlowRows == {t \in Reported : tx[t].source # "bill_payment"}
MoneyIn == Flow(CashFlowRows, "credit")
MoneyOut == Flow(CashFlowRows, "debit")

Standing(kind) == {b \in Bills : /\ bill[b] # Missing /\ bill[b].kind = kind
                                 /\ bill[b].status # "cancelled"}
\* customer_receivables and supplier_payables
Receivable(kind) ==
    MapThenSumSet(LAMBDA b : bill[b].balance, {b \in Standing(kind) : bill[b].balance > 0})

\* overview: what is in the accounts, and the bills that wait for payment.
InAccounts == MapThenSumSet(LAMBDA a : ListedBalance[a], Accounts)
PendingBills == {b \in Bills : /\ bill[b] # Missing /\ bill[b].status # "cancelled"
                               /\ bill[b].balance > 0}

\* profitability: the value of the bills, and every row that counts.
Value(kind) == MapThenSumSet(LAMBDA b : bill[b].total, Standing(kind))
NetCashFlow == Flow(Reported, "credit") - Flow(Reported, "debit")

\* list_bills, filtered by a payment status.
BillsWith(payment) == {b \in Bills : bill[b] # Missing /\ bill[b].payment = payment}

----------------------------------------------------------------------------

\* A payment whose reversal was reversed is in the accounts, not on its bill.
PaidBehindTheBill == \E t \in TxIds : /\ Exists(t) /\ tx[t].source = "bill_payment"
                                      /\ tx[t].reverses # NoTx /\ ReversalsOf(t) # {}

\* The pages tell one story, after every sequence of requests.  The list and
\* the summary of an account show one balance; the money in the accounts has
\* changed by the net cash flow of the profitability, which is that of the
\* overview plus what the bills, by their value and what is open on them, have
\* brought in and cost; and the bills that wait are those not marked as paid.
ReportsAgree ==
    LET settled(kind) == Value(kind) - Receivable(kind)
    IN /\ \A a \in Accounts : ListedBalance[a] = Balance(a)
       /\ InAccounts - MapThenSumSet(LAMBDA a : Opening[a], Accounts) = NetCashFlow
       /\ ~PaidBehindTheBill =>
             NetCashFlow = MoneyIn - MoneyOut + settled("sales") - settled("purchase")
       /\ PendingBills = BillsWith("unpaid") \cup BillsWith("partially_paid")
==============================================================================
