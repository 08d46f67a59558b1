SPECIFICATION SamplesSpec
CONSTANTS
  Cap = 3
  Samples = {0, 1}
  Zero = 0
  MaxPush = 4
  MaxTotal = 8
  NumRates = 2
  MaxPackets = 3
  MaxConnects = 2
  MaxAsks = 3
  MaxFrames = 7
  Width = 5
  kFrames = 2
  MaxStarts = 2
INVARIANTS RateAsAsked PlaysWhole
PROPERTIES KeepsRecent StopReturns
CHECK_DEADLOCK FALSE
