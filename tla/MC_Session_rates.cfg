SPECIFICATION Spec
CONSTANTS
  Rates = {8, 16}
  Centres = {100}
  InFlight = 1
  Halves = {}
  BrowseEdge = 0
  BrowseMinMove = 1
  Freqs = {}
  SaveDecoders = FALSE
  RingBlocks = 2
INVARIANTS
  PoolAtRate
  StaleInRecording
CHECK_DEADLOCK FALSE
