SPECIFICATION FairSpec
CONSTANTS
  Requests = 3
  MaxPending = 3
  Workloads <- Deferred
INVARIANTS
  OneDeadline
  NotStuckPaused
PROPERTIES
  EveryRequestAnswered
  Reaped
CHECK_DEADLOCK FALSE
