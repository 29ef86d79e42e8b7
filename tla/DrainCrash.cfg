SPECIFICATION FairDrainSpec
CONSTANTS
  drain = drain
  Lanes <- TwoLanes
  Tasks <- TwoLanes
  Patches <- TwoLanes
  Repos = {r1, r2}
  Commits <- History
  Sessions = {w1}
  Owners = {drain}
  OwnerOf <- OneOwner
  TaskOf <- OwnTask
  PatchOf <- OwnPatch
  HeadOf <- OwnPatch
  ReposOf <- EveryRepo
  NoLane = NoLane
  NoOwner = NoOwner
  NoCommit = NoCommit
  NoPatch = NoPatch
  NoSession = NoSession
  Residue = Residue
  MaxRecoveries = 2
  MaxVersion = 4
  CrashPoints <- Anywhere
  MaxCrashes = 1
  MaxFaults = 1
  LongSteps = FALSE
INVARIANTS CandidateTargetsClean
PROPERTIES EveryLaneSettles
CHECK_DEADLOCK FALSE
