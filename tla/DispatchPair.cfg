SPECIFICATION Spec
CONSTANTS
  Rows <- MCRows
  NoRow = NoRow
  Workers = {w1, w2}
  MaxRetries = 0
  InfraRetries = 0
  Headroom = 0
  Replies = {"completed", "partial", "invalid", "timeout", "provider_error", "not_started", "cancelled"}
  MaxCrashes = 1
SYMMETRY WorkerSymmetry
PROPERTIES AttemptEndsOnce ProgressIsMonotone LeaseNeverReopens
CHECK_DEADLOCK FALSE
