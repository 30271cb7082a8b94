CONSTANTS
  StepLimit = 4
  MaxFrames = 3
  Requests = {"r1", "r2"}
  Loops = {"l1", "l2"}
  Stories <- NapStories
  Compiled <- NapCompiled
  Arrivals <- NapArrivals
  Depths <- NapDepths
  Lookup <- Match
  Authenticate <- BeginAuth
  Prepare <- PrepareArgs
  Correct <- OnError
  Reread = {}
  Meaning = {}
SPECIFICATION Spec
CHECK_DEADLOCK FALSE
PROPERTY OwnMachine
