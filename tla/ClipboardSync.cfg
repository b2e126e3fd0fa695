CONSTANTS
  Clients = {c1}
  Texts = {t1, t2}
  Images = {i1}
  Hosts = {"xclip", "xsel", "mac"}
  MaxCopies = 2
  MaxFlips = 1
  MaxFaults = 1
  WireMax = 1
SPECIFICATION Spec
PROPERTIES CopyReachesDesktop CopyReachesClients Settles
CHECK_DEADLOCK FALSE
