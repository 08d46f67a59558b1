SPECIFICATION Spec
CONSTANTS
  CsRate = 1
  CellRates = {2}
  RingCap = 2
  Decoders = {d1, d2}
  Buffers = 3
  MaxAcq = 2
INVARIANTS TypeOK SamplesAtTarget ShownOfOneCell NoLostWakeup
PROPERTY StopEndsUnlessMissed
CHECK_DEADLOCK FALSE
