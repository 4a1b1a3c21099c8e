--------------------------- MODULE UmountContainer ----------------------------
(***************************************************************************)
(* runCleanupUnmountContainer (internal/bridge/cleanup_unmount.go): a      *)
(* command that reclaims a mount creates a container that runs umount,     *)
(* waits for it to exit and removes it.  The container's name depends on   *)
(* the friendly name alone (cleanupUnmountContainerName), so the requests  *)
(* of cleanup and of restore-cleanup for one friendly name, and those of   *)
(* two cleanups, share it although they unmount different paths.  A        *)
(* request that finds the name in use removes its owner and tries again.   *)
(*                                                                         *)
(* Modelled is one friendly name and one request of each process.          *)
(***************************************************************************)
EXTENDS Naturals, FiniteSets

CONSTANTS
  Request,   \* the processes that ask for an umount under this name
  Path,      \* the paths of the name: in the backup and in the restore view
  PathOf,    \* PathOf[r]: the path request r is to unmount
  Depths,    \* how many layers the paths may have at first
  Troubles   \* sets of what may go wrong together: "fault", "busy", "crash"

VARIABLES
  trouble,   \* what may go wrong this time
  box,       \* the container under the name, NoBox if there is none
  exit,      \* exit[r]: what r's wait call has heard, "none" before it is made
  layers,    \* layers[at]: the mounts stacked on path "at"
  taken,     \* history: the requests whose container has unmounted a layer
  pc,        \* pc[r]: what request r does next
  result     \* result[r]: what it is going to return, or has returned

vars == <<trouble, box, exit, layers, taken, pc, result>>

NoBox == [owner |-> "nobody", state |-> "absent"]
OldBox == [owner |-> "nobody", state |-> "created"]
Box == [owner : Request \union {"nobody"}, state : {"absent", "created", "running", "unmounted", "refused", "exited"}]

ASSUME PathsAssumption ==
  /\ PathOf \in [Request -> Path]
  /\ Depths \subseteq [Path -> Nat]
  /\ "nobody" \notin Request
ASSUME RequestsAssumption == Request # {} /\ IsFiniteSet(Request)

May(what) == what \in trouble

Mine(r) == box # NoBox /\ box.owner = r

Init ==
  /\ trouble \in Troubles
  /\ box \in {OldBox, NoBox}
  /\ exit = [r \in Request |-> "none"]
  /\ layers \in Depths
  /\ taken = {}
  /\ pc = [r \in Request |-> "create"]
  /\ result = [r \in Request |-> "none"]

-------------------------------------------------------------------------------
(* The calls of the process.                                               *)

Goto(r, label) == pc' = [pc EXCEPT ![r] = label] /\ UNCHANGED result

(* Without a container of its own there is nothing to remove.              *)
GiveUp(r) ==
  /\ pc' = [pc EXCEPT ![r] = "done"]
  /\ result' = [result EXCEPT ![r] = "failed"]

(* With one, the deferred removal is still to come.                        *)
Finish(r, outcome) ==
  /\ pc' = [pc EXCEPT ![r] = "remove"]
  /\ result' = [result EXCEPT ![r] = outcome]

NewBox(r) == box = NoBox /\ box' = [owner |-> r, state |-> "created"]

(* The daemon tells of an exit only to a wait call that it already has.    *)
Tell(r, how) == exit' = [exit EXCEPT ![r] = IF @ = "awaited" THEN how ELSE @]

(* A container that runs is killed first, and its wait call hears of it.   *)
Removal ==
  /\ box' = NoBox
  /\ IF box.owner \in Request /\ box.state \in {"running", "unmounted", "refused"}
     THEN Tell(box.owner, "killed")
     ELSE UNCHANGED exit

Create(r) ==
  /\ pc[r] = "create"
  /\ \/ NewBox(r) /\ Goto(r, "listen")
     \/ box # NoBox /\ Goto(r, "clear") /\ UNCHANGED box
     \/ May("fault") /\ (NewBox(r) \/ UNCHANGED box) /\ GiveUp(r)
  /\ UNCHANGED <<exit, layers, taken>>

(* Wrong: the name is freed and the request not made again.                *)
Clear_NoRetry(r) ==
  /\ pc[r] = "clear"
  /\ Removal /\ GiveUp(r)
  /\ UNCHANGED <<layers, taken>>

(* removeContainer by name: whoever has the name now.                      *)
Clear(r) ==
  /\ pc[r] = "clear"
  /\ \/ Removal /\ Goto(r, "recreate")
     \/ May("fault") /\ (Removal \/ UNCHANGED <<box, exit>>) /\ GiveUp(r)
  /\ UNCHANGED <<layers, taken>>

(* A second conflict is an error like any other.                           *)
Recreate(r) ==
  /\ pc[r] = "recreate"
  /\ \/ NewBox(r) /\ Goto(r, "listen")
     \/ box # NoBox /\ GiveUp(r) /\ UNCHANGED box
     \/ May("fault") /\ (NewBox(r) \/ UNCHANGED box) /\ GiveUp(r)
  /\ UNCHANGED <<exit, layers, taken>>

(* Wrong: the wait call is made in the background, maybe after the start.  *)
Listen_Late(r) ==
  /\ \/ pc[r] = "listen" /\ Goto(r, "start") /\ UNCHANGED exit
     \/ /\ pc[r] = "wait" /\ exit[r] = "none" /\ Mine(r)
        /\ exit' = [exit EXCEPT ![r] = "awaited"]
        /\ UNCHANGED <<pc, result>>
  /\ UNCHANGED <<box, layers, taken>>

(* The wait call, before the start.  Its error is looked at only by Wait;  *)
(* it has one where the container is gone, but then it cannot be started.  *)
Listen(r) ==
  /\ pc[r] = "listen"
  /\ \/ Mine(r) /\ exit' = [exit EXCEPT ![r] = "awaited"]
     \/ ~Mine(r) /\ UNCHANGED exit
     \/ May("fault") /\ UNCHANGED exit
  /\ Goto(r, "start")
  /\ UNCHANGED <<box, layers, taken>>

Start(r) ==
  LET started == Mine(r) /\ box' = [box EXCEPT !.state = "running"]
  IN  /\ pc[r] = "start"
      /\ \/ started /\ Goto(r, "wait")
         \/ ~Mine(r) /\ Finish(r, "failed") /\ UNCHANGED box
         \/ May("fault") /\ (started \/ UNCHANGED box) /\ Finish(r, "failed")
      /\ UNCHANGED <<exit, layers, taken>>

(* Wrong: the exit code is not looked at.                                  *)
Wait_AnyExit(r) ==
  /\ pc[r] = "wait"
  /\ \/ exit[r] \in {"zero", "nonzero"} /\ Finish(r, "ok")
     \/ exit[r] = "killed" /\ Finish(r, "failed")
  /\ UNCHANGED <<box, exit, layers, taken>>

(* Wrong: the end of a container that others remove goes unnoticed.        *)
Wait_OwnExit(r) ==
  /\ pc[r] = "wait"
  /\ \/ exit[r] = "zero" /\ Finish(r, "ok")
     \/ exit[r] = "nonzero" /\ Finish(r, "failed")
  /\ UNCHANGED <<box, exit, layers, taken>>

(* The exit code, an error of the wait call or the end of the context.     *)
Wait(r) ==
  /\ pc[r] = "wait"
  /\ \/ exit[r] = "zero" /\ Finish(r, "ok")
     \/ exit[r] \in {"nonzero", "killed"} /\ Finish(r, "failed")
     \/ May("fault") /\ Finish(r, "failed")
  /\ UNCHANGED <<box, exit, layers, taken>>

(* Wrong: the container is left to the daemon, without AutoRemove.         *)
Remove_Never(r) ==
  /\ pc[r] = "remove"
  /\ Goto(r, "done")
  /\ UNCHANGED <<box, exit, layers, taken>>

(* The deferred removal, by identifier; its error is only logged.          *)
Remove(r) ==
  /\ pc[r] = "remove"
  /\ \/ Mine(r) /\ Removal
     \/ ~Mine(r) /\ UNCHANGED <<box, exit>>
     \/ May("fault") /\ UNCHANGED <<box, exit>>
  /\ Goto(r, "done")
  /\ UNCHANGED <<layers, taken>>

(* The process is killed: it returns nothing and removes nothing.          *)
Crash(r) ==
  /\ May("crash")
  /\ pc[r] # "done"
  /\ pc' = [pc EXCEPT ![r] = "done"]
  /\ result' = [result EXCEPT ![r] = IF @ = "none" THEN "failed" ELSE @]
  /\ UNCHANGED <<box, exit, layers, taken>>

-------------------------------------------------------------------------------
(* The container: umount, and the end of its only process.                 *)

(* Wrong: umount is taken to succeed on what is not mounted.               *)
Umount_Blind(r) ==
  /\ Mine(r) /\ box.state = "running"
  /\ layers' = [layers EXCEPT ![PathOf[r]] = @ - 1]
  /\ taken' = taken \union {r}
  /\ box' = [box EXCEPT !.state = "unmounted"]
  /\ UNCHANGED <<exit, pc, result>>

(* umount is refused where nothing is mounted, or where the path is busy.  *)
Umount(r) ==
  LET at == PathOf[r]
  IN  /\ Mine(r) /\ box.state = "running"
      /\ \/ /\ layers[at] > 0
            /\ layers' = [layers EXCEPT ![at] = @ - 1]
            /\ taken' = taken \union {r}
            /\ box' = [box EXCEPT !.state = "unmounted"]
         \/ /\ layers[at] = 0 \/ May("busy")
            /\ box' = [box EXCEPT !.state = "refused"]
            /\ UNCHANGED <<layers, taken>>
      /\ UNCHANGED <<exit, pc, result>>

Exit(r) ==
  /\ Mine(r) /\ box.state \in {"unmounted", "refused"}
  /\ Tell(r, IF box.state = "unmounted" THEN "zero" ELSE "nonzero")
  /\ box' = [box EXCEPT !.state = "exited"]
  /\ UNCHANGED <<layers, taken, pc, result>>

Process(r) == Create(r) \/ Clear(r) \/ Recreate(r) \/ Listen(r) \/ Start(r) \/ Wait(r) \/ Remove(r)
Container(r) == Umount(r) \/ Exit(r)

Next ==
  /\ \E r \in Request : Process(r) \/ Container(r) \/ Crash(r)
  /\ UNCHANGED trouble

Spec == Init /\ [][Next]_vars

(* The processes and their containers run, and no call hangs for ever.     *)
FairSpec ==
  /\ Spec
  /\ \A r \in Request : /\ WF_vars(Process(r) /\ UNCHANGED trouble)
                        /\ WF_vars(Container(r) /\ UNCHANGED trouble)

-------------------------------------------------------------------------------
(* Properties.                                                             *)

(* Every variable holds a value of its kind; no path has fewer layers than *)
(* none, for umount is refused where nothing is mounted.                   *)
TypeOK ==
  /\ box \in Box
  /\ exit \in [Request -> {"none", "awaited", "zero", "nonzero", "killed"}]
  /\ layers \in [Path -> Nat]
  /\ taken \subseteq Request
  /\ pc \in [Request -> {"create", "clear", "recreate", "listen", "start", "wait", "remove", "done"}]
  /\ result \in [Request -> {"none", "ok", "failed"}]

(* The protocol keeps the contract of a request.                           *)
Contract == INSTANCE UmountRequest WITH answer <- result

ImplementsRequest == Contract!Spec

(* Where no call fails and no process is killed, requests that have all    *)
(* returned leave no container under the name, whoever removed whose.      *)
NothingLeft == trouble = {} /\ (\A r \in Request : pc[r] = "done") => box = NoBox

(* Requests for one name may undo each other, but not all of them: where   *)
(* nothing is busy, no call fails and no path runs out of layers, one of   *)
(* them reports success.                                                   *)
OneSucceeds ==
  LET on(at) == {r \in Request : PathOf[r] = at}
  IN  /\ trouble = {}
      /\ \A r \in Request : pc[r] = "done"
      /\ \A at \in Path : layers[at] >= Cardinality(on(at) \ taken)
      => \E r \in Request : result[r] = "ok"

(* Every request is answered: no process waits for an exit that has been   *)
(* or that others have prevented (where no call fails, without the context *)
(* coming to its end).                                                     *)
Answered == \A r \in Request : <>(pc[r] = "done")
===============================================================================
