SPECIFICATION Spec
CONSTANTS
  Clients = {c1, c2}
  Layouts <- MCLayouts
  Modes = {"mirror_all", "pick_one"}
  Offered <- MCOffered
  Settings <- MCSettings
  FirstIndex = 1
  MaxChanges = 2
  Width = 7
  Height = 5
  BlockSize = 2
INVARIANTS FramesFit  RegionsCover CropsAreCurrent
 
CHECK_DEADLOCK FALSE
