SPECIFICATION LiveSpec
CONSTANTS
  Accounts = {a1, a2}
  Bills = {b1}
  Loans = {}
  Sessions = {s1, s2}
  Amounts = {1}
  Totals = {1}
  Opening <- OpeningOne
  MaxTx = 4
  Operations <- TransferOperations
INVARIANT TransfersConserveMoney
 
