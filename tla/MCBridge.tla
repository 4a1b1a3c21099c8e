------------------------------- MODULE MCBridge -------------------------------
(***************************************************************************)
(* Instances of Bridge for TLC.  Volume 1 is backed up and restored from,  *)
(* volume 2 is the target, volume 3 has the label backup.name=restore.     *)
(***************************************************************************)
EXTENDS Bridge, TLC

CONSTANTS k1, alpine, r1

OwnNames == [v \in Volume |-> v]
EmptyTarget == {[v \in Volume |-> IF v \in Targets THEN "empty" ELSE "data"]}

Both == [p \in RestoreProc |-> {"restore", "cleanup"}]

Symmetry == Permutations(ContainerId)
===============================================================================
