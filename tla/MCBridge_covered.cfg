SPECIFICATION Spec
CONSTANTS
  k1 = k1
  alpine = alpine
  r1 = r1
  None = None
  BackupProc = {b1}
  RestoreProc = {r1}
  ContainerId = {c1, c2, c3}
  Volume = {1, 2, 3}
  Enabled = {1, 3}
  Name = {1, 2, 3}
  RestoreDir = 3
  FriendlyName <- OwnNames
  UnsafeName = {}
  Session = {k1}
  Image = {alpine}
  Sources = {1}
  Targets = {2}
  Contents <- EmptyTarget
  BackupCommands = {"prepare", "cleanup"}
  RestoreCommands <- Both
  Trouble = {}
  MaxLayers = 2
PROPERTIES
  ViewsApart
CHECK_DEADLOCK FALSE
