SPECIFICATION FairPoolSpec
CONSTANTS
  Profiles = {p1}
  Calls = {c1, c2}
  Typed = {c1}
  NoProfile = NoProfile
  NoCall = NoCall
  MaxTurns = 2
  MaxCrashes = 1
PROPERTIES EveryCallReturns
CHECK_DEADLOCK FALSE
