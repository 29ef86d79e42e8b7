SPECIFICATION FairLanesSpec
CONSTANTS
  whole = whole
  Bugs = {whole, partial}
  Repositories = 2
  Changes <- FirstOrWhole
  Scope <- OneScope
  MaxAttempts = 2
  Promotion = Promotion
  Scheduler = Scheduler
  MaxLanes = 4
  MaxIncidents = 2
INVARIANTS ResolvedIsLanded
PROPERTIES HalfLandedIsBlockedFirst NothingStranded
CHECK_DEADLOCK FALSE
