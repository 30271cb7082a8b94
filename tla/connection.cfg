SPECIFICATION Spec
CONSTANTS
  Requests = 3
  MaxPending = 3
  Workloads <- Orderly
INVARIANTS
  TypeOK
  ResponsesInOrder
  OneDispatchAtATime
  NoByteLost
  WaitsForTheRightEvent
  OutputIsCurrent
PROPERTY Implements
CHECK_DEADLOCK FALSE
