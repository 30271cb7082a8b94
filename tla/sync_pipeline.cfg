SPECIFICATION Spec
CONSTANTS
  Requests = 2
  MaxPending = 2
  Workloads <- SyncPipeline
INVARIANT NotStuckPaused
CHECK_DEADLOCK FALSE
