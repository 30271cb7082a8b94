CONSTANTS
  Loops = {"main", "w1"}
  Main = "main"
  Clients = {"c1", "c2"}
  MaxConnections = 1
  Grace = 1
  Callers = {"c1"}
SPECIFICATION FairSpec
CHECK_DEADLOCK FALSE
INVARIANTS
  ServerTypeOK
  CountIsExact
  NoPostToTheDead
PROPERTIES
  KeepsItsPromise
  RunReturns
  AnswersArrive
