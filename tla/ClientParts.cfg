SPECIFICATION PartsSpec
CONSTANTS
  Clients = {c1}
  Macs = {c1}
  Buttons = {"left", "right"}
  Left = "left"
  Right = "right"
  Tools = {"pen", "eraser"}
  MaxWire = 2
  Desktops <- MCDesktops
  Widgets <- MCWidgets
  Programs = {p1, p2}
  Names = {b1, b2}
  MaxEdits = 2
  MaxHands = 1
  MaxFailures = 1
INVARIANTS NothingStuck PointsWhereSeen
PROPERTIES BookmarksSurvive
SYMMETRY MCSymmetry
CHECK_DEADLOCK FALSE
