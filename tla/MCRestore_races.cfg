SPECIFICATION Spec
CONSTANTS
  app = app
  spare = spare
  fresh = fresh
  n1 = n1
  n2 = n2
  k1 = k1
  k2 = k2
  alpine = alpine
  p1 = p1
  None = None
  Proc = {p1, p2}
  ContainerId = {c1, c2}
  Volume = {app, spare, fresh}
  Sources = {app}
  Targets = {spare}
  Session = {k1, k2}
  Name = {n1, n2}
  FriendlyName <- OwnNames
  UnsafeName = {n2}
  Image = {alpine}
  Contents <- AllEmpty
  OtherName <- OtherNames
  Foreign <- Others
  Commands <- Racing
  Trouble = {"fault", "foreign", "crash"}
  MaxLayers = 2
SYMMETRY Symmetry
INVARIANTS
  UmountAfterRemoval
  CleanupExit
  NoOverwrite
PROPERTIES
  SessionOnly
CHECK_DEADLOCK FALSE
