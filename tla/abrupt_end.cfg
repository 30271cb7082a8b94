SPECIFICATION Spec
CONSTANTS
  h1 = h1
  h2 = h2
  w1 = w1
  w2 = w2
  None = None
  Callers <- TwoHandlers
  Workers <- TwoWorkers
  Loads <- AbruptEnds
SYMMETRY Symmetry
INVARIANTS
  ClosedAtTheEnd
CHECK_DEADLOCK FALSE
