SPECIFICATION Spec
CONSTANTS
  s1 = s1
  s2 = s2
  Sessions <- TwoSessions
  Totals <- TwoPrices
  EditStatuses <- PutOnHold
  MayForce = TRUE
  MaxDeals = 1
CHECK_DEADLOCK FALSE
SYMMETRY SessionSymmetry
INVARIANT HistoryHasOwner
PROPERTY ProjectsStand
