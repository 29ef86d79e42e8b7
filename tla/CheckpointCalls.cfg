SPECIFICATION FairCheckpointSpec
CONSTANTS
  drain = drain
  Lanes <- TwoLanes
  Tasks = {t1, t2}
  Patches <- TwoLanes
  Commits <- TwoLanes
  Repos = {}
  Sessions = {w1, w2}
  Owners = {drain}
  OwnerOf <- OneOwner
  PatchOf <- OwnPatch
  HeadOf <- OwnPatch
  CommitOf <- OwnCommit
  NoLane = NoLane
  NoOwner = NoOwner
  NoCommit = NoCommit
  NoPatch = NoPatch
  NoSession = NoSession
  NoBody = NoBody
  Results = {recorded, rehydrated}
  Subgroups <- FirstTask
  MaxRecoveries = 0
  MaxVersion = 1
  MaxCrashes = 1
INVARIANTS DoneIsPublished PublishedIsBacked OneLiveLanePerTask
PROPERTIES ImplementsGroupSeal ReadyGroupSeals
CHECK_DEADLOCK FALSE
