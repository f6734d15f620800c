SPECIFICATION Spec
CONSTANTS
  Accounts = {a1}
  Bills = {b1}
  Loans = {l1}
  Sessions = {s1, s2}
  Amounts = {1}
  Totals = {2}
  Opening <- OpeningTwo
  MaxTx = 4
  Operations <- RecordOperations
INVARIANTS TypeOK ReversedOnce BillColumnsAgree LoanWithinPrincipal
PROPERTY HistoryKept
SYMMETRY Symmetry
