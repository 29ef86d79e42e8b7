SPECIFICATION PoolSpec
CONSTANTS
  Profiles = {p1, p2}
  Calls = {c1, c2}
  Typed = {c1}
  NoProfile = NoProfile
  NoCall = NoCall
  MaxTurns = 2
  MaxCrashes = 1
SYMMETRY ProfileSymmetry
INVARIANTS PassedJobsAreSettled TurnVisitsProfilesOnce EndMatchesJobs
PROPERTIES NoJobOnMarkedProfile
CHECK_DEADLOCK FALSE
