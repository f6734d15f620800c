-------------------------- MODULE MCFinanceLedger --------------------------
(* Small instances of FinanceLedger for TLC. *)
EXTENDS FinanceReports, TLC

OpeningTwo == [a \in Accounts |-> 2]
OpeningOne == [a \in Accounts |-> 1]

RequestOperations == {"create_transaction", "pay_bill", "pay_loan", "transfer",
                  "reverse", "delete", "reverse_payment", "void", "update_loan"}
BillOperations == {"pay_bill", "reverse", "delete", "reverse_payment", "void"}
LoanOperations == {"pay_loan", "reverse", "delete", "update_loan"}
RecordOperations == BillOperations \cup LoanOperations
\* What locks in opposite orders: the legs of a transfer, a bill and its payment.
TransferOperations == {"transfer", "pay_bill", "reverse", "reverse_payment"}

\* Accounts with equal opening balances and sessions are interchangeable.
Symmetry == Permutations(Sessions) \cup Permutations(Accounts)
============================================================================
