SPECIFICATION ShellSpec
CONSTANTS
  Sessions = {s1, s2}
  Machines = {m1}
  Brokered = {s2}
  Clients = {s1, s2}
  Devices = {d1}
  Unbinds = FALSE
  Reconnects = {s2}
  MaxSignals = 1
  MaxDialogs = 1
  MaxMoves = 1
  MaxRequests = 1
INVARIANTS  PickKept ImportsKnown
CHECK_DEADLOCK FALSE
