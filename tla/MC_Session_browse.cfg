SPECIFICATION Spec
CONSTANTS
  Rates = {8}
  Centres = {100, 110}
  InFlight = 1
  Halves = {1, 4}
  BrowseEdge = 245
  BrowseMinMove = 1
  Freqs = {}
  SaveDecoders = FALSE
  RingBlocks = 0
PROPERTIES
  BrowseFollowsUser
CHECK_DEADLOCK FALSE
