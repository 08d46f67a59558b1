SPECIFICATION Spec
CONSTANTS
  NumWorkers = 2
  kMaxQueue = 2
  kFull = 4
  HalfWidth = 2
  Freqs = {0}
  Bauds = {1}
  MaxId = 2
  MaxBlocks = 3
INVARIANTS
  TypeOK
  BacklogOrdered
  OneProcessor
  AtMostTwoStale
  NoSleepOnBlock
PROPERTY KeepsPromise
VIEW ThreadsView
CHECK_DEADLOCK FALSE
