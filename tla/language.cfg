CONSTANTS
  StepLimit = 4
  MaxFrames = 3
  Requests = {"r1", "r2"}
  Loops = {"l1", "l2"}
  Stories <- MCStories
  Compiled <- MCCompiled
  Arrivals <- MCArrivals
  Depths <- MCDepths
  Lookup <- Match
  Authenticate <- BeginAuth
  Prepare <- PrepareArgs
  Correct <- OnError
  Reread <- MCReread
  Meaning <- MCMeaning
SPECIFICATION Spec
CHECK_DEADLOCK FALSE
INVARIANTS
  RoundTrip
  AnswersAsWritten
  LayoutIsStatic
  OnlyValidBodies
  OwnMessages
  NoStaleWake
  WokenByItsClient
PROPERTIES
  EveryRequestEnds
  EditsAreServed
