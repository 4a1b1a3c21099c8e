------------------------------- MODULE MCRestore -------------------------------
(***************************************************************************)
(* Instances of Restore for TLC.  app is the source, spare and fresh are   *)
(* the targets, of which fresh may have to be created; k1 and k2 are       *)
(* sessions.  The containers others create are chosen so that each branch  *)
(* of ensureRestoreHelper and of restore-cleanup meets one.                *)
(***************************************************************************)
EXTENDS Restore, TLC

CONSTANTS app, spare, fresh, n1, n2, k1, k2, alpine, p1

Both == [p \in Proc |-> {"restore", "cleanup"}]
Restores == [p \in Proc |-> {"restore"}]
Racing == [p \in Proc |-> IF p = p1 THEN {"restore"} ELSE {"restore", "cleanup"}]

(* n2 is the name app had before.                                          *)
OwnNames == [v \in Volume |-> n1]

(* The source holds data; a target is empty, or there is none yet.         *)
Usual ==
  {[v \in Volume |-> IF v = fresh THEN "absent" ELSE IF v = spare THEN x ELSE "data"] :
     x \in {"empty", "data"}}

OneFresh == {[v \in Volume |-> IF v = fresh THEN "absent" ELSE "data"]}

AllEmpty == {[v \in Volume |-> IF v \in Targets THEN "empty" ELSE "data"]}

NoContainers == {}
OtherNames == {<<"other">>}

(* A helper of session k1 when app had another friendly name.              *)
Outdated ==
  [name |-> <<"restore", k1>>, mode |-> "restore", volume |-> None, session |-> k1,
   source |-> app, target |-> spare, friendly |-> n2,
   image |-> alpine, at |-> <<"restore", n2>>, data |-> spare]
(* A helper of session k1 for another target.                              *)
OtherTarget ==
  [name |-> <<"restore", k1>>, mode |-> "restore", volume |-> None, session |-> k1,
   source |-> app, target |-> spare, friendly |-> n1,
   image |-> alpine, at |-> <<"restore", n1>>, data |-> spare]
(* A helper of session k2 with the old name of app.                        *)
OtherSession ==
  [name |-> <<"restore", k2>>, mode |-> "restore", volume |-> None, session |-> k2,
   source |-> app, target |-> spare, friendly |-> n2,
   image |-> alpine, at |-> <<"restore", n2>>, data |-> spare]
OldHelpers == {Outdated, OtherTarget}
Others == {OtherSession}

Symmetry == Permutations(ContainerId)
===============================================================================
