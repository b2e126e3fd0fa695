SPECIFICATION PartsSpec
CONSTANTS
  Transfers = {t1, t2}
  Names = {n1}
  nameOf <- MCNameOf
  Chunks = 2
  MaxFaults = 3
  Arrangements <- MCArrangements
  FirstDisplay = 1
  MaxSelects = 2
  MaxMoves = 2
  MaxTrouble = 2
  Widths = {2, 3}
  PipeSize = 3
  MaxResets = 2
  MaxDrifts = 1
INVARIANTS Intact ShowsSelected FramesUniform
PROPERTIES Arrives ListComesRight
CHECK_DEADLOCK FALSE
