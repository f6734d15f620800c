SPECIFICATION Spec
CONSTANTS
  s1 = s1
  s2 = s2
  Sessions <- OneSession
  Totals <- FreeAndPriced
  EditStatuses <- EditedStatuses
  MayForce = FALSE
  MaxDeals = 2
CHECK_DEADLOCK FALSE
INVARIANTS ScreensAgree ProjectsAreApproved CompletedIsSettled
PROPERTIES NoActivityWhenDeleted StandingKept
