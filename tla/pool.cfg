SPECIFICATION PoolFairSpec
CONSTANTS
  c1 = c1
  c2 = c2
  c3 = c3
  w1 = w1
  w2 = w2
  None = None
  Callers <- ThreeCallers
  Workers <- TwoWorkers
INVARIANTS
  PoolTypeOK
  OneJobPerCaller
  NoJobWaitsForASleeper
  SomeoneIsComing
  NothingLeftBehind
PROPERTIES
  Serves
  StopReturns
  EveryJobRuns
CHECK_DEADLOCK FALSE
