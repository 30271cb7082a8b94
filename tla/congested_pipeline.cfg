SPECIFICATION Spec
CONSTANTS
  Requests = 3
  MaxPending = 4
  Workloads <- CongestedPipeline
INVARIANT OneDispatchAtATime
CHECK_DEADLOCK FALSE
