SPECIFICATION Spec
CONSTANTS
  CsRate = 1
  CellRates = {2}
  RingCap = 1
  Decoders = {d1}
  Buffers = 3
  MaxAcq = 1
INVARIANT HookHasUser
CHECK_DEADLOCK FALSE
