SPECIFICATION FairRecoverySpec
CONSTANTS
  Tasks = {t1, t2}
  NoTask = NoTask
  MaxReruns = 2
  ProgressCap = 2
  MaxLanes = 7
  MaxSilent = 1
  MaxFaults = 1
INVARIANTS SealCoversGroup RerunsAreBounded
PROPERTIES RecoverableIsRedispatched RunStops LandedGroupSeals
CHECK_DEADLOCK FALSE
