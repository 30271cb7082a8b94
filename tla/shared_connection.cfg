SPECIFICATION Spec
CONSTANTS
  h1 = h1
  h2 = h2
  w1 = w1
  w2 = w2
  None = None
  Callers <- TwoHandlers
  Workers <- TwoWorkers
  Loads <- TwoAtOnce
SYMMETRY Symmetry
INVARIANTS
  Isolated
CHECK_DEADLOCK FALSE
