SPECIFICATION Spec
CONSTANTS
  Accounts = {a1, a2}
  Bills = {b1}
  Loans = {l1}
  Sessions = {s1}
  Amounts = {1}
  Totals = {2}
  Opening <- OpeningOne
  MaxTx = 4
  Operations <- RequestOperations
INVARIANTS BillMatchesPayments  
SYMMETRY Symmetry
