SPECIFICATION FairSpec
CONSTANTS
  app = app
  spare = spare
  fresh = fresh
  n1 = n1
  n2 = n2
  k1 = k1
  k2 = k2
  alpine = alpine
  p1 = p1
  None = None
  Proc = {p1}
  ContainerId = {c1, c2}
  Volume = {app, spare, fresh}
  Sources = {app}
  Targets = {app, fresh}
  Session = {k1}
  Name = {n1, n2}
  FriendlyName <- OwnNames
  UnsafeName = {n2}
  Image = {alpine}
  Contents <- OneFresh
  OtherName <- OtherNames
  Foreign <- OldHelpers
  Commands <- Both
  Trouble = {"fault", "busy", "die", "crash", "foreign", "umount", "write"}
  MaxLayers = 2
INVARIANTS
  TypeOK
  SoloRestore
  NoOverwrite
PROPERTIES
  CommandsEnd
CHECK_DEADLOCK FALSE
