SPECIFICATION Spec
CONSTANTS
  app = app
  spare = spare
  fresh = fresh
  n1 = n1
  n2 = n2
  k1 = k1
  k2 = k2
  alpine = alpine
  p1 = p1
  None = None
  Proc = {p1}
  ContainerId = {c1, c2}
  Volume = {app, spare, fresh}
  Sources = {app}
  Targets = {spare}
  Session = {k1}
  Name = {n1, n2}
  FriendlyName <- OwnNames
  UnsafeName = {}
  Image = {alpine}
  Contents <- Usual
  OtherName <- OtherNames
  Foreign <- NoContainers
  Commands <- Restores
  Trouble = {"find"}
  MaxLayers = 2
INVARIANTS
  RefusesNonEmpty
CHECK_DEADLOCK FALSE
