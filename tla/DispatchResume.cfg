SPECIFICATION FairSpec
CONSTANTS
  Rows <- MCRows
  NoRow = NoRow
  Workers = {w1}
  MaxRetries = 1
  InfraRetries = 1
  Headroom = 1
  Replies = {"completed", "partial", "invalid", "timeout", "provider_error", "not_started", "cancelled"}
  MaxCrashes = 1
INVARIANTS EnqueuedPatchIsApproved CountedMarkerIsLate
PROPERTIES EvidenceIsKept CompletedMarkerIsStable CompletedWorkIsQueued PartialIsRerun
CHECK_DEADLOCK FALSE
