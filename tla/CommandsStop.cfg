SPECIFICATION Spec
CONSTANTS
  m1 = m1
  m2 = m2
  Messages <- MCMessages
  Px4 = FALSE
  MaxRetry = 3
  MaxAsks = 3
  MaxStops = 1
  MaxOutside = 0
  Lossy = TRUE
  Prompt = TRUE
  Capacity = 3
INVARIANTS AcksAreHeard
CHECK_DEADLOCK FALSE
SYMMETRY MCSymmetry
