SPECIFICATION MCSpec
CONSTANTS
  m1 = m1
  m2 = m2
  Messages <- MCMessages
  Px4 = TRUE
  MaxRetry = 2
  MaxAsks = 3
  MaxStops = 1
  MaxOutside = 1
  Lossy = TRUE
  Prompt = FALSE
  Capacity = 2
INVARIANTS TypeOK OneRequestAtATime
  InTimeAcksAreOwn
PROPERTIES KeepsPromise EveryAskIsAnswered
CHECK_DEADLOCK FALSE
