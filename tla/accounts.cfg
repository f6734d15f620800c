SPECIFICATION Spec
CONSTANTS
  founder = founder
  second = second
  desk = desk
  c1 = c1
  a1 = a1
  a2 = a2
  Users = {founder, second}
  Founder = founder
  CustomRoles = {desk}
  Permissions = {"users"}
  Admins = {a1, a2}
  MaxPassword = 1
  Clients = {c1}
  MaxSessions = 2
  MaxToken = 3
CHECK_DEADLOCK FALSE
INVARIANTS RemainsUnlessOutdated LostAnswerTolerated ResetEndsSessions
SYMMETRY AdminSymmetry
ACTION_CONSTRAINT Bounded
