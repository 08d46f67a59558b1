SPECIFICATION Spec
CONSTANTS
  Rates = {8}
  Centres = {100, 110}
  InFlight = 1
  Halves = {1}
  BrowseEdge = 245
  BrowseMinMove = 1
  Freqs = {f1}
  SaveDecoders = TRUE
  RingBlocks = 0
INVARIANTS
  PoolAtCenter
PROPERTIES
  SavedSurvive
  StopEnds
CHECK_DEADLOCK FALSE
