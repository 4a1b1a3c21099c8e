SPECIFICATION Spec
CONSTANTS
  alpine = alpine
  busybox = busybox
  None = None
  ContainerId = {c1, c2, c3}
  Proc = {p1, p2}
  Volume = {1, 2}
  Enabled = {1}
  Name = {1, 2}
  FriendlyName <- OwnNames
  UnsafeName = {2}
  Image = {alpine}
  OtherName <- OtherNames
  Foreign <- OtherViews
  Commands = {"prepare", "cleanup"}
  Trouble = {"fault", "crash", "foreign", "umount"}
  MaxLayers = 2
SYMMETRY SymmetryBoth
INVARIANTS
  UmountAfterRemoval
  CleanupExit
PROPERTIES
  RestoreUntouched
CHECK_DEADLOCK FALSE
