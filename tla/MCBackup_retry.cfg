SPECIFICATION Spec
CONSTANTS
  alpine = alpine
  busybox = busybox
  None = None
  ContainerId = {c1, c2, c3, c4}
  Proc = {p1}
  Volume = {1}
  Enabled = {1}
  Name = {1}
  FriendlyName <- OneName
  UnsafeName = {}
  Image = {alpine}
  OtherName <- OtherNames
  Foreign <- NoContainers
  Commands = {"prepare", "cleanup"}
  Trouble = {"busy"}
  MaxLayers = 2
SYMMETRY Symmetry
INVARIANTS
  RetryReclaims
CHECK_DEADLOCK FALSE
