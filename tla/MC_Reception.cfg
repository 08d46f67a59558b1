SPECIFICATION ReceptionSpec
CONSTANTS
  MaxOff = 1
  Err = 1
  SearchRange = 3
  Limit = 4
  BootOver = 1
  AutoOver = 1
  Cooldown = 1
  Clicks = TRUE
  Sf = 2
  Frames = 3
  Gap = 2
  Window = 4
  MaxGrants = 3
  Period = 2
  MinGrants = 2
  Sustain = 2
  Jobs = 2
  MaxSkip = 2
  MaxAir = 9
  MaxSecs = 4
  Channels = {1, 2}
  Ids = {1, 2}
  Wholes <- SmallWholes
  Halves <- SmallHalves
  Base = 4
  Zaps <- OneZap
  front <- SmallFront
  back <- SmallBack
  crc <- SmallCrc
  MaxPkt = 2
  kMax = 2
  MaxMsg = 2
  MaxFrames = 3
  Rows = 5
  Cols = 2
  Step = 2
  nrmPol <- UniqueWord
  tolerance = 1
  Messages <- TwoMessages
  MaxErr = 2
  MaxSent = 2
  M = 3
  partab <- SmallPartab
  Byte = 4
  Width = 12
  NumBytes = 5
  Group = 2
  Seed <- SmallSeed
  Data <- TwoFrames
  MaxWrong = 2
CONSTRAINT NotStale
INVARIANTS CorrectionSane SfnTrue WindowTrue CallFollowsVerdicts MultiframeJoined ChainOrdered LogSound FrameRecovered FrameDecoded
CHECK_DEADLOCK FALSE
