SPECIFICATION FairSpec
CONSTANTS
  NumWorkers = 2
  kMaxQueue = 1
  kFull = 4
  HalfWidth = 2
  Freqs = {0}
  Bauds = {1}
  MaxId = 1
  MaxBlocks = 2
PROPERTIES
  QueuedBlockTaken
  StopEndsUnlessMissed
CHECK_DEADLOCK FALSE
