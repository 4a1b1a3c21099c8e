SPECIFICATION Spec
CONSTANTS
  alpine = alpine
  busybox = busybox
  None = None
  ContainerId = {c1, c2, c3}
  Proc = {p1}
  Volume = {1, 2}
  Enabled = {1, 2}
  Name = {1, 2}
  FriendlyName <- OwnNames
  UnsafeName = {}
  Image = {alpine, busybox}
  OtherName <- OtherNames
  Foreign <- OldContainers
  Commands = {"prepare", "cleanup"}
  Trouble = {"fault", "busy", "die", "crash", "foreign", "umount"}
  MaxLayers = 2
SYMMETRY Symmetry
INVARIANTS
  TypeOK
  SoloPrepare
  SoloCleanup
CHECK_DEADLOCK FALSE
