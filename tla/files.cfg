SPECIFICATION Spec
CONSTANTS
  r1 = r1
  r2 = r2
  Requests = {r1, r2}
  FileIds = {1, 2, 3}
CHECK_DEADLOCK FALSE
INVARIANTS RowsHaveBlobs NothingLeftBehind 
SYMMETRY RequestSymmetry
CONSTRAINT Bounded
