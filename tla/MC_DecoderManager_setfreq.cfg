SPECIFICATION Spec
CONSTANTS
  NumWorkers = 1
  kMaxQueue = 1
  kFull = 4
  HalfWidth = 2
  Freqs = {0, 1}
  Bauds = {1}
  MaxId = 1
  MaxBlocks = 1
PROPERTY
  OffsetSetOutsideProcess
CHECK_DEADLOCK FALSE
