SPECIFICATION PlacementSpec
CONSTANTS
  NumWorkers = 2
  kMaxQueue = 1
  kFull = 2
  HalfWidth = 2
  Freqs = {0, 1, 2}
  Bauds = {1, 2}
  MaxId = 4
  MaxBlocks = 0
INVARIANTS
  CountExact
  RegistrySound
  SubBandsApart
  WeightNeverUnder
CHECK_DEADLOCK FALSE
