SPECIFICATION FairRunnerSpec
CONSTANTS
  Calls = {c1, c2, c3}
  Watched = {c1}
  MaxActive = 1
  MaxRetries = 2
  MaxFaults = 1
INVARIANTS SlotsAddUp AgentsWithinCap InvocationsAreTracked
PROPERTIES EveryResolveEnds
CHECK_DEADLOCK FALSE
