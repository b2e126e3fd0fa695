CONSTANTS
  MaxSends = 3
  Sizes = {1, 2, 3}
  MaxTotal = 2
  DropCap = 1
  SeqModulus = 5
  MaxFlips = 2
  MaxFaults = 1
  MaxRestarts = 1
  WireMax = 4
SPECIFICATION Spec
INVARIANTS Unmixed GatedStaysOut
PROPERTIES AcceptedArrives
CHECK_DEADLOCK FALSE
