------------------------------- MODULE MCUmount -------------------------------
(***************************************************************************)
(* Instances of UmountContainer for TLC: two cleanups of the backup path   *)
(* and one of the restore path of one friendly name.                       *)
(***************************************************************************)
EXTENDS UmountContainer, TLC

CONSTANTS r1, r2, r3, backup, restore

Paths == r1 :> backup @@ r2 :> backup @@ r3 :> restore

(* A layer for each request; or one too few for the cleanups of the backup *)
(* path, of which one may find nothing mounted.                            *)
Stacks == {backup :> 2 @@ restore :> 1, backup :> 1 @@ restore :> 2}

(* Nothing goes wrong; or anything may.                                    *)
CalmOrNot == {{}, {"fault", "busy", "crash"}}
===============================================================================
