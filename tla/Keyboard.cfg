SPECIFICATION Spec
CONSTANTS
  c1 = c1
  c2 = c2
  Clients = {c1, c2}
  Keys = {"ctrl", "one", "caps"}
  Codes = {"control", "one", "caps"}
  Modifiers = {"control"}
  NoCode = "none"
  keysOf <- MCKeysOf
  codeOf <- MCCodeOf
  Keypad = {"one"}
  LockKey = "caps"
  Probing = {c1}
  HasKeyboard = TRUE
  MaxWire = 1
INVARIANTS NoPhantoms
PROPERTIES ChordsSurvive StuckKeysEnd
CHECK_DEADLOCK FALSE
