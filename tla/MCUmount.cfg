SPECIFICATION FairSpec
CONSTANTS
  r1 = r1
  r2 = r2
  r3 = r3
  backup = backup
  restore = restore
  Request = {r1, r2, r3}
  Path = {backup, restore}
  PathOf <- Paths
  Depths <- Stacks
  Troubles <- CalmOrNot
INVARIANTS
  TypeOK
  NothingLeft
  OneSucceeds
PROPERTIES
  ImplementsRequest
  Answered
CHECK_DEADLOCK FALSE
