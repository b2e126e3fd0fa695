SPECIFICATION DesktopsSpec
CONSTANTS
  Users = {u1, u2}
  Displays = {10, 11}
  MaxDeaths = 2
  MaxFailures = 2
  MaxRuns = 2
SYMMETRY UserSymmetry
INVARIANTS OneDisplayEach NothingLeftRunning SameDesktop
CHECK_DEADLOCK FALSE
