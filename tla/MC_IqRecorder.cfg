SPECIFICATION Spec
CONSTANTS
  RingSizes = {0, 1, 2}
  Word = 3
  MaxBlocks = 4
  MaxFiles = 2
INVARIANTS TypeOK HeaderTellsData NoBleed OneStretch CrashOnlyByRace
CHECK_DEADLOCK FALSE
