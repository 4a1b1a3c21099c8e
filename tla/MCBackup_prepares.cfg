SPECIFICATION FairSpec
CONSTANTS
  alpine = alpine
  busybox = busybox
  None = None
  ContainerId = {c1, c2, c3}
  Proc = {p1, p2}
  Volume = {1, 2}
  Enabled = {1}
  Name = {1, 2}
  FriendlyName <- OwnNames
  UnsafeName = {}
  Image = {alpine}
  OtherName <- OtherNames
  Foreign <- LegacyOnly
  Commands = {"prepare"}
  Trouble = {"crash", "foreign"}
  MaxLayers = 4
INVARIANTS
  PreparedStaysServed
PROPERTIES
  CommandsEnd
CHECK_DEADLOCK FALSE
