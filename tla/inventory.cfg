SPECIFICATION LiveSpec
CONSTANTS
  panel = panel
  yard = yard
  site = site
  s1 = s1
  s2 = s2
  Items <- MCItems
  Locations <- MCLocations
  Batches <- MixedBatches
  Quantities <- MCQuantities
  Sessions <- TwoSessions
  MaxMovements = 5
CHECK_DEADLOCK FALSE
INVARIANTS TypeOK StockMatchesMovements
PROPERTIES Serializable EveryRequestEnds
