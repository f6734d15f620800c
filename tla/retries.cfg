SPECIFICATION Spec
CONSTANTS
  k1 = k1
  k2 = k2
  d1 = d1
  d2 = d2
  r1 = r1
  r2 = r2
  r3 = r3
  Keys = {k1}
  Data = {d1, d2}
  Requests = {r1, r2, r3}
  MaxRecords = 4
CHECK_DEADLOCK FALSE
INVARIANTS AtMostOnce SuccessIsOwn OnlyCrashesBlock
SYMMETRY Symmetry
