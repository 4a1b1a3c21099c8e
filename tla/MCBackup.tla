------------------------------- MODULE MCBackup -------------------------------
(***************************************************************************)
(* Instances of Backup for TLC.  Volumes and names are small numbers, the  *)
(* rest model values; the containers others create are chosen so that each *)
(* branch of ensureHelper and of cleanup meets one.                        *)
(***************************************************************************)
EXTENDS Backup, TLC

CONSTANTS alpine, busybox

OneName == [v \in Volume |-> 1]
OwnNames == [v \in Volume |-> v]

NoContainers == {}
OtherNames == {<<"other", 1>>, <<"other", 2>>}

(* A helper of an earlier configuration under its expected name: volume 1  *)
(* had the friendly name 2.                                                *)
Outdated ==
  [name |-> <<"helper", 1>>, mode |-> "backup", volume |-> 1, friendly |-> 2,
   image |-> alpine, at |-> <<"backup", 2>>, data |-> 1]
(* A helper of an old version: no mode label, another container name.      *)
Legacy ==
  [name |-> <<"other", 1>>, mode |-> "legacy", volume |-> 1, friendly |-> 1,
   image |-> alpine, at |-> <<"backup", 1>>, data |-> 1]
(* A restore helper with the friendly name of the backup of its source.    *)
RestoreHelper ==
  [name |-> <<"other", 2>>, mode |-> "restore", volume |-> None, friendly |-> 1,
   image |-> alpine, at |-> <<"restore", 1>>, data |-> 2]
(* A container of another project under a helper's name.                   *)
Squatter ==
  [name |-> <<"helper", 1>>, mode |-> "alien", volume |-> None, friendly |-> None,
   image |-> alpine, at |-> None, data |-> None]

LegacyOnly == {Legacy}
OldContainers == {Outdated, Legacy}
OtherContainers == {RestoreHelper, Squatter}
OtherViews == {Outdated, RestoreHelper}

Symmetry == Permutations(ContainerId)
SymmetryBoth == Permutations(ContainerId) \union Permutations(Proc)
===============================================================================
