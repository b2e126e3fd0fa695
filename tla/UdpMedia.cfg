SPECIFICATION UdpSpec
CONSTANTS
  Probes = 1
  MaxFrags = 2
  Media <- MCMedia
  MaxConns = 1
  MaxFrames = 4
  MaxDups = 1
INVARIANTS FramesWhole ProvenPath
PROPERTY NeverBack
CHECK_DEADLOCK FALSE
