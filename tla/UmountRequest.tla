---------------------------- MODULE UmountRequest -----------------------------
(***************************************************************************)
(* What a cleanup may rely on when it asks for a mount to be reclaimed     *)
(* (the contract of runCleanupUnmountContainer in                          *)
(* internal/bridge/cleanup_unmount.go).  A request takes at most one layer *)
(* from the path it names, and never from another; it is answered once;    *)
(* success means that it took one.  A request that was answered with an    *)
(* error may have taken its layer, or may still take it.                   *)
(***************************************************************************)
EXTENDS Naturals

CONSTANTS
  Request,   \* the requests
  Path,      \* the paths that are mount points
  PathOf     \* PathOf[r]: the path request r names

VARIABLES
  layers,    \* layers[at]: the mounts stacked on path "at"
  taken,     \* the requests that have taken their layer
  answer     \* answer[r]: "none", "ok" or "failed"

vars == <<layers, taken, answer>>

Init ==
  /\ layers \in [Path -> Nat]
  /\ taken = {}
  /\ answer = [r \in Request |-> "none"]

Take(r) ==
  /\ r \notin taken
  /\ layers[PathOf[r]] > 0
  /\ layers' = [layers EXCEPT ![PathOf[r]] = @ - 1]
  /\ taken' = taken \union {r}
  /\ UNCHANGED answer

Succeed(r) ==
  /\ answer[r] = "none"
  /\ r \in taken
  /\ answer' = [answer EXCEPT ![r] = "ok"]
  /\ UNCHANGED <<layers, taken>>

Fail(r) ==
  /\ answer[r] = "none"
  /\ answer' = [answer EXCEPT ![r] = "failed"]
  /\ UNCHANGED <<layers, taken>>

Next == \E r \in Request : Take(r) \/ Succeed(r) \/ Fail(r)

Spec == Init /\ [][Next]_vars
===============================================================================
