SPECIFICATION DrainSpec
CONSTANTS
  drain = drain
  Lanes <- ThreeLanes
  Tasks <- ThreeLanes
  Patches <- ThreeLanes
  Repos = {r1}
  Commits <- History
  Sessions = {w1, w2}
  Owners = {drain}
  OwnerOf <- OneOwner
  TaskOf <- OwnTask
  PatchOf <- OwnPatch
  HeadOf <- OwnPatch
  ReposOf <- EveryRepo
  NoLane = NoLane
  NoOwner = NoOwner
  NoCommit = NoCommit
  NoPatch = NoPatch
  NoSession = NoSession
  Residue = Residue
  MaxRecoveries = 2
  MaxVersion = 4
  CrashPoints <- Nowhere
  MaxCrashes = 0
  MaxFaults = 0
  LongSteps = FALSE
INVARIANTS IntegratedCommitsSurvive CommitCarriesOwnPatch NoPatchOutlivesItsLane
CHECK_DEADLOCK FALSE
