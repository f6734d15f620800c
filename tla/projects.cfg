SPECIFICATION PacksSpec
CONSTANTS
  a1 = a1
  c1 = c1
  c2 = c2
  Sessions = {a1, c1, c2}
  Administrators = {a1}
  Clerks = {c1, c2}
  Keys = {"documents_uploaded", "documents_approved", "final_registration", "payment_mode", "bank_approval", "project_completed"}
  LoanStatuses = {"under_review"}
  MaxVersions = 2
CHECK_DEADLOCK FALSE
INVARIANTS TimelineAgrees ReadersAgree OnlyLatestIsDraft
PROPERTY FinalUnlessOverlapped
SYMMETRY ClerkSymmetry
CONSTRAINT Bounded
