SPECIFICATION Spec
CONSTANTS
  a1 = a1
  a2 = a2
  roof = roof
  c1 = c1
  s1 = s1
  s2 = s2
  Agents = {a1, a2}
  Projects = {roof}
  Owner <- RoofOfFirst
  Entries <- MCEntries
  Customers = {c1}
  Sessions = {s1, s2}
  MaxTx = 2
  PageSize = 1
CHECK_DEADLOCK FALSE
INVARIANTS StatementsAgree CorrectedOnce
PROPERTY FinalizedUnlessOverlapped
SYMMETRY SessionSymmetry
