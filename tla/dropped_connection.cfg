SPECIFICATION Spec
CONSTANTS
  h1 = h1
  h2 = h2
  w1 = w1
  w2 = w2
  None = None
  Callers <- TwoHandlers
  Workers <- TwoWorkers
  Loads <- DroppedLinks
SYMMETRY Symmetry
INVARIANTS
  InItsTransaction
CHECK_DEADLOCK FALSE
