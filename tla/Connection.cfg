CONSTANTS
  AuthModes = {"none", "local", "pam"}
  Routes = {"direct", "broker", "found"}
  MaxFaults = 3
  WireMax = 3
SPECIFICATION Spec
INVARIANTS FsmTracksHandshake
PROPERTIES DisconnectEnds 
CHECK_DEADLOCK FALSE
