CONSTANTS
  Sessions = {s1}
  QMax = 4
  InboxMax = 2
  MaxRestarts = 2
SPECIFICATION Spec
INVARIANTS RecoveryPending
PROPERTIES Resync SenderEnds OldestLostOnly
CHECK_DEADLOCK FALSE
