----------------------------- MODULE UmountProofs -----------------------------
(***************************************************************************)
(* The protocol of the umount containers keeps the contract of a request,  *)
(* for any number of requests that share a name, any paths and any depth   *)
(* of mounts, whatever calls fail and whichever process is killed.         *)
(*                                                                         *)
(* The invariant says when a request can have taken its layer: not before  *)
(* its container runs, and surely once the container has exited with 0.    *)
(*                                                                         *)
(* Where no call fails and no process is killed, a second invariant says   *)
(* who still answers for the name and for success: every container under   *)
(* the name has a request that will remove it, and while no request has    *)
(* succeeded one is left that can.                                         *)
(***************************************************************************)
EXTENDS UmountContainer, FiniteSetTheorems, TLAPS

Early == {"create", "clear", "recreate"}

RequestInv(r) ==
  /\ pc[r] \in Early => box.owner # r /\ r \notin taken
  /\ pc[r] \in Early \union {"listen", "start", "wait"} => result[r] = "none"
  /\ pc[r] \in {"listen", "start"} /\ box.owner = r => box.state = "created"
  /\ box.owner = r /\ box.state \in {"created", "running"} => r \notin taken
  /\ box.owner = r /\ box.state = "unmounted" => r \in taken
  /\ exit[r] = "zero" => r \in taken

Inv == TypeOK /\ \A r \in Request : RequestInv(r)

-------------------------------------------------------------------------------
LEMMA InitInv == Init => Inv
BY PathsAssumption DEF Init, Inv, TypeOK, RequestInv, Early, Box, NoBox, OldBox

(* Creating the container, after which its owner may start it.             *)
LEMMA NewBoxKeeps ==
  ASSUME Inv, NEW r \in Request, pc[r] \in Early, NewBox(r),
         UNCHANGED <<exit, layers, taken>>,
         Goto(r, "listen") \/ GiveUp(r)
  PROVE  Inv'
<1>1. TypeOK'
  BY DEF Inv, TypeOK, NewBox, Box, Goto, GiveUp
<1>2. \A q \in Request : RequestInv(q)'
  BY PathsAssumption DEF Inv, TypeOK, RequestInv, Early, NewBox, NoBox, Goto, GiveUp
<1>. QED  BY <1>1, <1>2 DEF Inv

(* Giving up or going on with the container under the name as it was.      *)
LEMMA SameBoxKeeps ==
  ASSUME Inv, NEW r \in Request, pc[r] \in Early, UNCHANGED <<box, exit, layers, taken>>,
         Goto(r, "clear") \/ GiveUp(r)
  PROVE  Inv'
<1>1. TypeOK'
  BY DEF Inv, TypeOK, Goto, GiveUp
<1>2. \A q \in Request : RequestInv(q)'
  BY DEF Inv, TypeOK, RequestInv, Early, Goto, GiveUp
<1>. QED  BY <1>1, <1>2 DEF Inv

(* A forced removal, whoever owns the container, and what its remover does *)
(* next.                                                                   *)
LEMMA RemovalKeeps ==
  ASSUME Inv, NEW r \in Request, Removal, UNCHANGED <<layers, taken>>,
         \/ pc[r] = "clear" /\ Goto(r, "recreate")
         \/ pc[r] = "clear" /\ GiveUp(r)
         \/ pc[r] = "remove" /\ Goto(r, "done")
  PROVE  Inv'
<1>1. box' = NoBox /\ exit' \in [Request -> {"none", "awaited", "zero", "nonzero", "killed"}]
      /\ \A q \in Request : exit'[q] = exit[q] \/ exit'[q] = "killed"
  BY DEF Inv, TypeOK, Removal, Tell
<1>2. TypeOK'
  BY <1>1 DEF Inv, TypeOK, NoBox, Box, Goto, GiveUp
<1>3. \A q \in Request : RequestInv(q)'
  BY <1>1, PathsAssumption DEF Inv, TypeOK, RequestInv, Early, NoBox, Goto, GiveUp
<1>. QED  BY <1>2, <1>3 DEF Inv

(* Create and Recreate.                                                    *)
LEMMA CreateKeeps ==
  ASSUME Inv, NEW r \in Request, Create(r) \/ Recreate(r)
  PROVE  Inv'
<1>1. pc[r] \in Early /\ UNCHANGED <<exit, layers, taken>>
  BY DEF Create, Recreate, Early
<1>2. \/ NewBox(r) /\ (Goto(r, "listen") \/ GiveUp(r))
      \/ UNCHANGED box /\ (Goto(r, "clear") \/ GiveUp(r))
  BY DEF Create, Recreate
<1>. QED  BY <1>1, <1>2, NewBoxKeeps, SameBoxKeeps

LEMMA ClearKeeps ==
  ASSUME Inv, NEW r \in Request, Clear(r)
  PROVE  Inv'
<1>1. pc[r] = "clear" /\ pc[r] \in Early /\ UNCHANGED <<layers, taken>>
  BY DEF Clear, Early
<1>2. CASE Removal
  BY <1>1, <1>2, RemovalKeeps DEF Clear
<1>3. CASE UNCHANGED <<box, exit>> /\ GiveUp(r)
  BY <1>1, <1>3, SameBoxKeeps
<1>. QED  BY <1>2, <1>3 DEF Clear

(* The wait call: an exit heard later is not yet heard now.                *)
LEMMA ListenKeeps ==
  ASSUME Inv, NEW r \in Request, Listen(r)
  PROVE  Inv'
<1>1. pc[r] = "listen" /\ Goto(r, "start") /\ UNCHANGED <<box, layers, taken>>
  BY DEF Listen
<1>2. exit' = [exit EXCEPT ![r] = "awaited"] \/ UNCHANGED exit
  BY DEF Listen
<1>3. TypeOK'
  BY <1>1, <1>2 DEF Inv, TypeOK, Goto
<1>4. \A q \in Request : RequestInv(q)'
  BY <1>1, <1>2 DEF Inv, TypeOK, RequestInv, Early, Goto
<1>. QED  BY <1>3, <1>4 DEF Inv

(* The container of a request that is about to start it was never started. *)
LEMMA StartKeeps ==
  ASSUME Inv, NEW r \in Request, Start(r)
  PROVE  Inv'
<1>1. pc[r] = "start" /\ UNCHANGED <<exit, layers, taken>>
  BY DEF Start
<1>2. \/ Mine(r) /\ box' = [box EXCEPT !.state = "running"]
      \/ UNCHANGED box
  BY DEF Start
<1>3. Goto(r, "wait") \/ Finish(r, "failed")
  BY DEF Start
<1>4. TypeOK'
  BY <1>1, <1>2, <1>3 DEF Inv, TypeOK, Box, Goto, Finish
<1>5. \A q \in Request : RequestInv(q)'
  BY <1>1, <1>2, <1>3 DEF Inv, TypeOK, Box, RequestInv, Early, Mine, Goto, Finish
<1>. QED  BY <1>4, <1>5 DEF Inv

(* Waiting and dying touch nothing but the process itself.                 *)
LEMMA WaitKeeps ==
  ASSUME Inv, NEW r \in Request, Wait(r) \/ Crash(r)
  PROVE  Inv'
<1>1. UNCHANGED <<box, exit, layers, taken>>
  BY DEF Wait, Crash
<1>2. /\ pc' \in [Request -> {"create", "clear", "recreate", "listen", "start", "wait", "remove", "done"}]
      /\ result' \in [Request -> {"none", "ok", "failed"}]
      /\ pc'[r] \in {"remove", "done"}
      /\ \A q \in Request \ {r} : pc'[q] = pc[q] /\ result'[q] = result[q]
  BY DEF Inv, TypeOK, Wait, Crash, Finish
<1>3. TypeOK'
  BY <1>1, <1>2 DEF Inv, TypeOK
<1>4. \A q \in Request : RequestInv(q)'
  BY <1>1, <1>2 DEF Inv, RequestInv, Early
<1>. QED  BY <1>3, <1>4 DEF Inv

LEMMA RemoveKeeps ==
  ASSUME Inv, NEW r \in Request, Remove(r)
  PROVE  Inv'
<1>1. pc[r] = "remove" /\ Goto(r, "done") /\ UNCHANGED <<layers, taken>>
  BY DEF Remove
<1>2. CASE Removal
  BY <1>1, <1>2, RemovalKeeps
<1>3. CASE UNCHANGED <<box, exit>>
  <2>1. TypeOK'
    BY <1>1, <1>3 DEF Inv, TypeOK, Goto
  <2>2. \A q \in Request : RequestInv(q)'
    BY <1>1, <1>3 DEF Inv, TypeOK, RequestInv, Early, Goto
  <2>. QED  BY <2>1, <2>2 DEF Inv
<1>. QED  BY <1>2, <1>3 DEF Remove

(* umount runs once in a container: its owner had not taken a layer.       *)
LEMMA UmountKeeps ==
  ASSUME Inv, NEW r \in Request, Umount(r)
  PROVE  Inv'
<1>1. box.owner = r /\ box.state = "running" /\ UNCHANGED <<exit, pc, result>>
  BY DEF Umount, Mine
<1>2. CASE /\ layers[PathOf[r]] > 0
           /\ layers' = [layers EXCEPT ![PathOf[r]] = @ - 1]
           /\ taken' = taken \union {r}
           /\ box' = [box EXCEPT !.state = "unmounted"]
  <2>1. TypeOK'
    BY <1>1, <1>2, PathsAssumption DEF Inv, TypeOK, Box
  <2>2. \A q \in Request : RequestInv(q)'
    BY <1>1, <1>2 DEF Inv, TypeOK, Box, RequestInv, Early
  <2>. QED  BY <2>1, <2>2 DEF Inv
<1>3. CASE box' = [box EXCEPT !.state = "refused"] /\ UNCHANGED <<layers, taken>>
  <2>1. TypeOK'
    BY <1>1, <1>3 DEF Inv, TypeOK, Box
  <2>2. \A q \in Request : RequestInv(q)'
    BY <1>1, <1>3 DEF Inv, TypeOK, Box, RequestInv, Early
  <2>. QED  BY <2>1, <2>2 DEF Inv
<1>. QED  BY <1>2, <1>3 DEF Umount

(* An exit code 0 is that of an umount that took place.                    *)
LEMMA ExitKeeps ==
  ASSUME Inv, NEW r \in Request, Exit(r)
  PROVE  Inv'
<1>1. TypeOK'
  BY DEF Exit, Tell, Inv, TypeOK, Box
<1>2. \A q \in Request : RequestInv(q)'
  BY DEF Exit, Tell, Mine, Inv, TypeOK, Box, RequestInv, Early
<1>. QED  BY <1>1, <1>2 DEF Inv

(* Every step keeps the invariant.                                         *)
LEMMA NextInv == Inv /\ [Next]_vars => Inv'
<1>1. SUFFICES ASSUME Inv, [Next]_vars
               PROVE  Inv'
  OBVIOUS
<1>2. CASE UNCHANGED vars
  BY <1>1, <1>2 DEF Inv, TypeOK, RequestInv, vars
<1>3. ASSUME NEW r \in Request, Process(r) \/ Container(r) \/ Crash(r)
      PROVE  Inv'
  BY <1>1, <1>3, CreateKeeps, ClearKeeps, ListenKeeps, StartKeeps, WaitKeeps, RemoveKeeps, UmountKeeps,
     ExitKeeps
     DEF Process, Container
<1>. QED  BY <1>1, <1>2, <1>3 DEF Next

(* The inductive invariant holds in every reachable state.                 *)
THEOREM Invariance == Spec => []Inv
BY InitInv, NextInv, PTL DEF Spec

(* Every reachable state is well typed; a path never has fewer than no     *)
(* layers (cleanupUnmountContainerName, runCleanupUnmountContainer).       *)
THEOREM TypeCorrectness == Spec => []TypeOK
<1>1. Inv => TypeOK
  BY DEF Inv
<1>. QED  BY <1>1, Invariance, PTL

-------------------------------------------------------------------------------
(* Each step of the protocol is a step of the contract or changes nothing  *)
(* the contract sees.                                                      *)

(* A request answers once, with an error.                                  *)
LEMMA FailStep ==
  ASSUME Inv, NEW r \in Request, result[r] = "none",
         result' = [result EXCEPT ![r] = "failed"], UNCHANGED <<layers, taken>>
  PROVE  Contract!Next
<1>1. Contract!Fail(r)
  BY DEF Contract!Fail
<1>. QED  BY <1>1 DEF Contract!Next

(* The calls of a process answer at most; only a wait that saw the exit    *)
(* code 0 answers with success.                                            *)
LEMMA ProcessStep ==
  ASSUME Inv, NEW r \in Request, Process(r)
  PROVE  [Contract!Next]_Contract!vars
<1>1. UNCHANGED <<layers, taken>>
  BY DEF Process, Create, Clear, Recreate, Listen, Start, Wait, Remove
<1>2. CASE UNCHANGED result
  BY <1>1, <1>2 DEF Contract!vars
<1>3. CASE result' # result
  <2>1. pc[r] \in Early \union {"listen", "start", "wait"}
    BY <1>3 DEF Process, Create, Clear, Recreate, Listen, Start, Wait, Remove, Goto, Early
  <2>2. result[r] = "none"
    BY <2>1 DEF Inv, RequestInv
  <2>3. \/ result' = [result EXCEPT ![r] = "failed"]
        \/ exit[r] = "zero" /\ result' = [result EXCEPT ![r] = "ok"]
    BY <1>3 DEF Process, Create, Clear, Recreate, Listen, Start, Wait, Remove, Goto, GiveUp, Finish
  <2>4. CASE result' = [result EXCEPT ![r] = "failed"]
    BY <1>1, <2>2, <2>4, FailStep
  <2>5. CASE exit[r] = "zero" /\ result' = [result EXCEPT ![r] = "ok"]
    <3>1. r \in taken
      BY <2>5 DEF Inv, RequestInv
    <3>2. Contract!Succeed(r)
      BY <1>1, <2>2, <2>5, <3>1 DEF Contract!Succeed
    <3>. QED  BY <3>2 DEF Contract!Next
  <2>. QED  BY <2>3, <2>4, <2>5
<1>. QED  BY <1>2, <1>3

(* Of the container's steps the contract sees the umount.                  *)
LEMMA ContainerStep ==
  ASSUME Inv, NEW r \in Request, Container(r)
  PROVE  [Contract!Next]_Contract!vars
<1>1. CASE Exit(r)
  BY <1>1 DEF Exit, Contract!vars
<1>2. CASE Umount(r)
  <2>1. r \notin taken
    BY <1>2 DEF Umount, Mine, Inv, RequestInv
  <2>2. Contract!Take(r) \/ UNCHANGED <<layers, taken, result>>
    BY <1>2, <2>1 DEF Umount, Contract!Take
  <2>. QED  BY <2>2 DEF Contract!Next, Contract!vars
<1>. QED  BY <1>1, <1>2 DEF Container

(* A process that is killed before it has answered has failed.             *)
LEMMA CrashStep ==
  ASSUME Inv, NEW r \in Request, Crash(r)
  PROVE  [Contract!Next]_Contract!vars
<1>1. UNCHANGED <<layers, taken>>
  BY DEF Crash
<1>2. CASE result[r] = "none"
  <2>1. result' = [result EXCEPT ![r] = "failed"]
    BY <1>2 DEF Crash
  <2>. QED  BY <1>1, <1>2, <2>1, FailStep
<1>3. CASE result[r] # "none"
  <2>1. result' = result
    BY <1>3 DEF Crash, Inv, TypeOK
  <2>. QED  BY <1>1, <2>1 DEF Contract!vars
<1>. QED  BY <1>2, <1>3

(* The protocol implements the contract: a request takes at most one layer *)
(* and that from its own path, is answered once, and success means that it *)
(* took one (cleanupUnmountAt reports "unmounted" for nothing else).       *)
THEOREM KeepsContract == Spec => ImplementsRequest
<1>1. Init => Contract!Init
  BY PathsAssumption DEF Init, Contract!Init
<1>2. Inv /\ [Next]_vars => [Contract!Next]_Contract!vars
  <2>1. SUFFICES ASSUME Inv, [Next]_vars
                 PROVE  [Contract!Next]_Contract!vars
    OBVIOUS
  <2>2. CASE UNCHANGED vars
    BY <2>2 DEF vars, Contract!vars
  <2>3. ASSUME NEW r \in Request, Process(r) \/ Container(r) \/ Crash(r)
        PROVE  [Contract!Next]_Contract!vars
    BY <2>1, <2>3, ProcessStep, ContainerStep, CrashStep
  <2>. QED  BY <2>1, <2>2, <2>3 DEF Next
<1>. QED  BY <1>1, <1>2, Invariance, PTL DEF Spec, ImplementsRequest, Contract!Spec

-------------------------------------------------------------------------------
(* Where nothing goes wrong, the container under the name belongs to a     *)
(* request that will remove it; and while the layers last, some request    *)
(* has succeeded or is still on its way to.                                *)

NameInv ==
  \/ box = NoBox
  \/ box = OldBox /\ \A q \in Request : pc[q] \in {"create", "clear"}
  \/ box.owner \in Request /\ pc[box.owner] \in {"listen", "start", "wait", "remove"}

(* Only a container that is gone was killed.                               *)
EndInv(r) ==
  /\ pc[r] \in Early => exit[r] = "none"
  /\ box.owner = r => exit[r] # "killed"

Waiting(at) == {r \in Request : PathOf[r] = at} \ taken

Enough == \A at \in Path : layers[at] >= Cardinality(Waiting(at))

(* r may still answer with success: nobody has removed its container, or   *)
(* that was after umount had exited.                                       *)
Hopeful(r) ==
  \/ result[r] = "ok"
  \/ pc[r] \in Early
  \/ pc[r] \in {"listen", "start", "wait"} /\ box.owner = r
  \/ pc[r] = "wait" /\ exit[r] = "zero"

SuccessInv ==
  /\ box.state # "refused"
  /\ \A r \in Request : /\ exit[r] # "nonzero"
                        /\ box.owner = r /\ pc[r] = "remove" => result[r] = "ok"
  /\ \E r \in Request : Hopeful(r)

CalmInv ==
  trouble = {} => /\ NameInv
                  /\ \A r \in Request : EndInv(r)
                  /\ Enough => SuccessInv

LEMMA WaitingFinite ==
  ASSUME NEW at
  PROVE  IsFiniteSet(Waiting(at)) /\ Cardinality(Waiting(at)) \in Nat
BY RequestsAssumption, FS_Subset, FS_CardinalityType DEF Waiting

(* A request that finds its path in order takes a layer of those that are  *)
(* there for it.                                                           *)
LEMMA LayerIsThere ==
  ASSUME Inv, NEW r \in Request, r \notin taken, Enough
  PROVE  layers[PathOf[r]] > 0
<1>. DEFINE at == PathOf[r]
<1>1. at \in Path /\ layers[at] \in Nat /\ r \in Waiting(at)
  BY PathsAssumption DEF Inv, TypeOK, Waiting
<1>2. Cardinality(Waiting(at)) # 0
  BY <1>1, WaitingFinite, FS_EmptySet
<1>. QED  BY <1>1, <1>2, WaitingFinite DEF Enough

(* Taking a layer takes a request from those that wait for one: there were *)
(* enough before if there are enough after.                                *)
LEMMA UmountEnough ==
  ASSUME Inv, NEW r \in Request, Umount(r), Enough'
  PROVE  Enough
<1>1. CASE UNCHANGED <<layers, taken>>
  BY <1>1 DEF Enough, Waiting
<1>2. CASE /\ layers[PathOf[r]] > 0
           /\ layers' = [layers EXCEPT ![PathOf[r]] = @ - 1]
           /\ taken' = taken \union {r}
  <2>1. r \notin taken
    BY DEF Umount, Mine, Inv, RequestInv
  <2>2. SUFFICES ASSUME NEW at \in Path
                 PROVE  layers[at] >= Cardinality(Waiting(at))
    BY DEF Enough
  <2>3. layers[at] \in Nat /\ layers'[at] >= Cardinality(Waiting(at)')
    BY DEF Inv, TypeOK, Enough
  <2>4. CASE at # PathOf[r]
    <3>1. Waiting(at)' = Waiting(at) /\ layers'[at] = layers[at]
      BY <1>2, <2>4 DEF Waiting, Inv, TypeOK
    <3>. QED  BY <2>3, <3>1
  <2>5. CASE at = PathOf[r]
    <3>1. Waiting(at)' = Waiting(at) \ {r} /\ r \in Waiting(at)
      BY <1>2, <2>1, <2>5 DEF Waiting
    <3>2. Cardinality(Waiting(at)') = Cardinality(Waiting(at)) - 1
      BY <3>1, WaitingFinite, FS_RemoveElement
    <3>3. layers'[at] = layers[at] - 1
      BY <1>2, <2>5 DEF Inv, TypeOK
    <3>. QED  BY <2>3, <3>2, <3>3, WaitingFinite
  <2>. QED  BY <2>4, <2>5
<1>. QED  BY <1>1, <1>2 DEF Umount

LEMMA InitCalm == Init => CalmInv
<1>. SUFFICES ASSUME Init PROVE CalmInv
  OBVIOUS
<1>1. NameInv
  BY DEF Init, NameInv
<1>2. \A r \in Request : EndInv(r)
  BY PathsAssumption DEF Init, EndInv
<1>3. SuccessInv
  BY RequestsAssumption, PathsAssumption DEF Init, SuccessInv, Hopeful, Early, NoBox, OldBox
<1>. QED  BY <1>1, <1>2, <1>3 DEF CalmInv

(* The steps with a new container, by which its owner becomes hopeful.     *)
LEMMA NewBoxCalm ==
  ASSUME Inv, NEW r \in Request, pc[r] \in Early, NewBox(r), Goto(r, "listen"),
         UNCHANGED <<exit, layers, taken>>,
         NameInv, \A q \in Request : EndInv(q), Enough => SuccessInv
  PROVE  NameInv' /\ (\A q \in Request : EndInv(q)') /\ (Enough' => SuccessInv')
<1>1. box'.owner = r /\ box'.state = "created" /\ pc' = [pc EXCEPT ![r] = "listen"]
      /\ UNCHANGED result
  BY DEF NewBox, Goto
<1>2. NameInv'
  BY <1>1 DEF NameInv, Inv, TypeOK
<1>3. \A q \in Request : EndInv(q)'
  BY <1>1 DEF EndInv, Early, Inv, TypeOK
<1>4. Enough' => SuccessInv'
  BY <1>1 DEF Enough, Waiting, SuccessInv, Hopeful, Inv, TypeOK
<1>. QED  BY <1>2, <1>3, <1>4

(* A removal by a request that can itself still create a container, or has *)
(* succeeded.                                                              *)
LEMMA RemovalCalm ==
  ASSUME Inv, NEW r \in Request, Removal, UNCHANGED <<layers, taken>>,
         \/ pc[r] = "clear" /\ Goto(r, "recreate")
         \/ pc[r] = "remove" /\ Mine(r) /\ Goto(r, "done"),
         NameInv, \A q \in Request : EndInv(q), Enough => SuccessInv
  PROVE  NameInv' /\ (\A q \in Request : EndInv(q)') /\ (Enough' => SuccessInv')
<1>1. box' = NoBox /\ UNCHANGED result
      /\ \A q \in Request : exit'[q] = exit[q] \/ (exit'[q] = "killed" /\ box.owner = q)
  BY DEF Inv, TypeOK, Removal, Tell, Goto
<1>2. pc' \in [Request -> {"create", "clear", "recreate", "listen", "start", "wait", "remove", "done"}]
      /\ (\A q \in Request \ {r} : pc'[q] = pc[q])
      /\ \/ pc[r] = "clear" /\ pc'[r] = "recreate"
         \/ pc[r] = "remove" /\ box.owner = r /\ pc'[r] = "done"
  BY DEF Goto, Mine, Inv, TypeOK
<1>3. NameInv'
  BY <1>1 DEF NameInv
<1>4. \A q \in Request : EndInv(q)'
  <2>. SUFFICES ASSUME NEW q \in Request PROVE EndInv(q)'
    OBVIOUS
  <2>1. box'.owner # q
    BY <1>1, PathsAssumption DEF NoBox
  <2>2. pc'[q] \in Early => pc[q] \in Early
    BY <1>2 DEF Early
  <2>3. pc[q] \in Early => box.owner # q /\ exit[q] = "none"
    BY DEF Inv, RequestInv, EndInv
  <2>. QED  BY <1>1, <2>1, <2>2, <2>3 DEF EndInv
<1>5. Enough' => SuccessInv'
  <2>. SUFFICES ASSUME Enough' PROVE SuccessInv'
    OBVIOUS
  <2>1. SuccessInv
    BY DEF Enough, Waiting
  <2>2. Hopeful(r)'
    BY <1>1, <1>2, <2>1 DEF SuccessInv, Hopeful, Early
  <2>3. \A q \in Request : exit'[q] # "nonzero" /\ box'.owner # q
    BY <1>1, <2>1, PathsAssumption DEF SuccessInv, NoBox
  <2>4. box'.state # "refused"
    BY <1>1 DEF NoBox
  <2>. QED  BY <2>2, <2>3, <2>4 DEF SuccessInv
<1>. QED  BY <1>3, <1>4, <1>5

Calm == trouble = {} /\ NameInv /\ (\A q \in Request : EndInv(q)) /\ (Enough => SuccessInv)

LEMMA CreateCalm ==
  ASSUME Inv, Calm, NEW r \in Request, Create(r)
  PROVE  NameInv' /\ (\A q \in Request : EndInv(q)') /\ (Enough' => SuccessInv')
<1>1. pc[r] = "create" /\ pc[r] \in Early /\ UNCHANGED <<exit, layers, taken>>
  BY DEF Create, Early
<1>2. CASE NewBox(r) /\ Goto(r, "listen")
  BY <1>1, <1>2, NewBoxCalm DEF Calm
<1>3. CASE Goto(r, "clear") /\ UNCHANGED box
  <2>1. NameInv'
    BY <1>1, <1>3 DEF Calm, NameInv, Goto, Inv, TypeOK
  <2>2. \A q \in Request : EndInv(q)'
    BY <1>1, <1>3 DEF Calm, EndInv, Goto, Early, Inv, TypeOK
  <2>3. Enough' => SuccessInv'
    BY <1>1, <1>3 DEF Calm, Enough, Waiting, SuccessInv, Hopeful, Goto, Early, Inv, TypeOK
  <2>. QED  BY <2>1, <2>2, <2>3
<1>. QED  BY <1>2, <1>3 DEF Create, Calm, May

LEMMA ClearCalm ==
  ASSUME Inv, Calm, NEW r \in Request, Clear(r)
  PROVE  NameInv' /\ (\A q \in Request : EndInv(q)') /\ (Enough' => SuccessInv')
<1>1. pc[r] = "clear" /\ Removal /\ Goto(r, "recreate") /\ UNCHANGED <<layers, taken>>
  BY DEF Clear, Calm, May
<1>. QED  BY <1>1, RemovalCalm DEF Calm

(* Who gives up for a second conflict leaves the name to a request that is *)
(* hopeful or has succeeded.                                               *)
LEMMA RecreateCalm ==
  ASSUME Inv, Calm, NEW r \in Request, Recreate(r)
  PROVE  NameInv' /\ (\A q \in Request : EndInv(q)') /\ (Enough' => SuccessInv')
<1>1. pc[r] = "recreate" /\ pc[r] \in Early /\ UNCHANGED <<exit, layers, taken>>
  BY DEF Recreate, Early
<1>2. CASE NewBox(r) /\ Goto(r, "listen")
  BY <1>1, <1>2, NewBoxCalm DEF Calm
<1>3. CASE box # NoBox /\ GiveUp(r) /\ UNCHANGED box
  <2>1. box.owner \in Request /\ pc[box.owner] \in {"listen", "start", "wait", "remove"} /\ box.owner # r
    BY <1>1, <1>3 DEF Calm, NameInv
  <2>2. NameInv'
    BY <1>3, <2>1 DEF NameInv, GiveUp, Inv, TypeOK
  <2>3. \A q \in Request : EndInv(q)'
    BY <1>1, <1>3 DEF Calm, EndInv, GiveUp, Early, Inv, TypeOK
  <2>4. Enough' => SuccessInv'
    <3>. SUFFICES ASSUME Enough' PROVE SuccessInv'
      OBVIOUS
    <3>1. SuccessInv
      BY <1>1 DEF Calm, Enough, Waiting
    <3>2. pc'[box.owner] = pc[box.owner] /\ result'[box.owner] = result[box.owner]
      BY <1>3, <2>1 DEF GiveUp, Inv, TypeOK
    <3>3. Hopeful(box.owner)'
      BY <1>1, <1>3, <2>1, <3>1, <3>2 DEF SuccessInv, Hopeful
    <3>4. \A q \in Request : /\ exit'[q] # "nonzero"
                             /\ box'.owner = q /\ pc'[q] = "remove" => result'[q] = "ok"
      BY <1>1, <1>3, <3>1, <2>1, <3>2 DEF SuccessInv
    <3>. QED  BY <1>3, <2>1, <3>1, <3>3, <3>4 DEF SuccessInv
  <2>. QED  BY <2>2, <2>3, <2>4
<1>. QED  BY <1>2, <1>3 DEF Recreate, Calm, May

LEMMA ListenCalm ==
  ASSUME Inv, Calm, NEW r \in Request, Listen(r)
  PROVE  NameInv' /\ (\A q \in Request : EndInv(q)') /\ (Enough' => SuccessInv')
<1>1. pc[r] = "listen" /\ pc' = [pc EXCEPT ![r] = "start"] /\ UNCHANGED <<box, layers, taken, result>>
  BY DEF Listen, Goto
<1>2. exit' = [exit EXCEPT ![r] = "awaited"] \/ UNCHANGED exit
  BY DEF Listen
<1>3. NameInv'
  BY <1>1 DEF Calm, NameInv, Inv, TypeOK
<1>4. \A q \in Request : EndInv(q)'
  BY <1>1, <1>2 DEF Calm, EndInv, Early, Inv, TypeOK
<1>5. Enough' => SuccessInv'
  <2>. SUFFICES ASSUME Enough' PROVE SuccessInv'
    OBVIOUS
  <2>1. SuccessInv
    BY <1>1 DEF Calm, Enough, Waiting
  <2>2. \A q \in Request : Hopeful(q) => Hopeful(q)'
    BY <1>1, <1>2 DEF Hopeful, Early, Inv, TypeOK
  <2>. QED  BY <1>1, <1>2, <2>1, <2>2 DEF SuccessInv, Inv, TypeOK
<1>. QED  BY <1>3, <1>4, <1>5

(* Starting is for the owner of the container; who has lost it was not     *)
(* the hopeful one.                                                        *)
LEMMA StartCalm ==
  ASSUME Inv, Calm, NEW r \in Request, Start(r)
  PROVE  NameInv' /\ (\A q \in Request : EndInv(q)') /\ (Enough' => SuccessInv')
<1>1. pc[r] = "start" /\ UNCHANGED <<exit, layers, taken>> /\ result[r] = "none"
  BY DEF Start, Inv, RequestInv
<1>2. CASE Mine(r) /\ box' = [box EXCEPT !.state = "running"] /\ Goto(r, "wait")
  <2>1. box'.owner = r /\ box'.state = "running" /\ box.owner = r /\ UNCHANGED result
        /\ pc' = [pc EXCEPT ![r] = "wait"]
    BY <1>2 DEF Mine, Goto, Inv, TypeOK, Box
  <2>2. NameInv'
    BY <2>1 DEF NameInv, Inv, TypeOK
  <2>3. \A q \in Request : EndInv(q)'
    BY <1>1, <2>1 DEF Calm, EndInv, Early, Inv, TypeOK
  <2>4. Enough' => SuccessInv'
    BY <1>1, <2>1 DEF Calm, Enough, Waiting, SuccessInv, Hopeful, Early, Inv, TypeOK
  <2>. QED  BY <2>2, <2>3, <2>4
<1>3. CASE ~Mine(r) /\ Finish(r, "failed") /\ UNCHANGED box
  <2>1. box.owner # r
    BY <1>3, PathsAssumption DEF Mine, NoBox
  <2>2. NameInv'
    BY <1>1, <1>3 DEF Calm, NameInv, Finish, Inv, TypeOK
  <2>3. \A q \in Request : EndInv(q)'
    BY <1>1, <1>3 DEF Calm, EndInv, Finish, Early, Inv, TypeOK
  <2>4. Enough' => SuccessInv'
    BY <1>1, <1>3, <2>1 DEF Calm, Enough, Waiting, SuccessInv, Hopeful, Finish, Early, Inv, TypeOK
  <2>. QED  BY <2>2, <2>3, <2>4
<1>. QED  BY <1>2, <1>3 DEF Start, Calm, May

(* A container that still stands has exited with 0, if it has exited.      *)
LEMMA WaitCalm ==
  ASSUME Inv, Calm, NEW r \in Request, Wait(r)
  PROVE  NameInv' /\ (\A q \in Request : EndInv(q)') /\ (Enough' => SuccessInv')
<1>1. pc[r] = "wait" /\ UNCHANGED <<box, exit, layers, taken>> /\ result[r] = "none"
  BY DEF Wait, Inv, RequestInv
<1>2. PICK outcome \in {"ok", "failed"} :
        /\ Finish(r, outcome)
        /\ exit[r] = "zero" => outcome = "ok"
        /\ exit[r] \in {"zero", "nonzero", "killed"}
  BY DEF Wait, Calm, May
<1>3. NameInv'
  BY <1>1, <1>2 DEF Calm, NameInv, Finish, Inv, TypeOK
<1>4. \A q \in Request : EndInv(q)'
  BY <1>1, <1>2 DEF Calm, EndInv, Finish, Early, Inv, TypeOK
<1>5. Enough' => SuccessInv'
  <2>. SUFFICES ASSUME Enough' PROVE SuccessInv'
    OBVIOUS
  <2>1. SuccessInv
    BY <1>1 DEF Calm, Enough, Waiting
  <2>2. exit[r] = "killed" => box.owner # r
    BY DEF Calm, EndInv
  <2>. QED  BY <1>1, <1>2, <2>1, <2>2 DEF SuccessInv, Hopeful, Finish, Early, Inv, TypeOK
<1>. QED  BY <1>3, <1>4, <1>5

LEMMA RemoveCalm ==
  ASSUME Inv, Calm, NEW r \in Request, Remove(r)
  PROVE  NameInv' /\ (\A q \in Request : EndInv(q)') /\ (Enough' => SuccessInv')
<1>1. pc[r] = "remove" /\ Goto(r, "done") /\ UNCHANGED <<layers, taken>>
  BY DEF Remove
<1>2. CASE Mine(r) /\ Removal
  BY <1>1, <1>2, RemovalCalm DEF Calm
<1>3. CASE ~Mine(r) /\ UNCHANGED <<box, exit>>
  <2>1. box.owner # r
    BY <1>3, PathsAssumption DEF Mine, NoBox
  <2>2. NameInv'
    BY <1>1, <1>3, <2>1 DEF Calm, NameInv, Goto, Inv, TypeOK
  <2>3. \A q \in Request : EndInv(q)'
    BY <1>1, <1>3 DEF Calm, EndInv, Goto, Early, Inv, TypeOK
  <2>4. Enough' => SuccessInv'
    BY <1>1, <1>3, <2>1 DEF Calm, Enough, Waiting, SuccessInv, Hopeful, Goto, Early, Inv, TypeOK
  <2>. QED  BY <2>2, <2>3, <2>4
<1>. QED  BY <1>2, <1>3 DEF Remove, Calm, May

(* While the layers last umount is not refused.                            *)
LEMMA UmountCalm ==
  ASSUME Inv, Calm, NEW r \in Request, Umount(r)
  PROVE  NameInv' /\ (\A q \in Request : EndInv(q)') /\ (Enough' => SuccessInv')
<1>1. box.owner = r /\ box.state = "running" /\ UNCHANGED <<exit, pc, result>> /\ r \notin taken
  BY DEF Umount, Mine, Inv, RequestInv
<1>2. box'.owner = r /\ box' # NoBox
      /\ (box'.state = "unmounted" \/ (box'.state = "refused" /\ layers[PathOf[r]] = 0))
  BY <1>1, PathsAssumption DEF Umount, Calm, May, Inv, TypeOK, Box, NoBox
<1>3. NameInv'
  BY <1>1, <1>2, PathsAssumption DEF Calm, NameInv, NoBox, OldBox
<1>4. \A q \in Request : EndInv(q)'
  BY <1>1, <1>2 DEF Calm, EndInv
<1>5. Enough' => SuccessInv'
  <2>. SUFFICES ASSUME Enough' PROVE SuccessInv'
    OBVIOUS
  <2>1. Enough /\ SuccessInv
    BY UmountEnough DEF Calm
  <2>2. layers[PathOf[r]] > 0
    BY <1>1, <2>1, LayerIsThere
  <2>. QED  BY <1>1, <1>2, <2>1, <2>2 DEF SuccessInv, Hopeful
<1>. QED  BY <1>3, <1>4, <1>5

LEMMA ExitCalm ==
  ASSUME Inv, Calm, NEW r \in Request, Exit(r)
  PROVE  NameInv' /\ (\A q \in Request : EndInv(q)') /\ (Enough' => SuccessInv')
<1>1. box.owner = r /\ UNCHANGED <<layers, taken, pc, result>>
      /\ box'.owner = r /\ box'.state = "exited"
      /\ \/ UNCHANGED exit
         \/ exit' = [exit EXCEPT ![r] = IF box.state = "unmounted" THEN "zero" ELSE "nonzero"]
      /\ box.state \in {"unmounted", "refused"}
  BY DEF Exit, Tell, Mine, Inv, TypeOK, Box
<1>2. pc[r] \in {"listen", "start", "wait", "remove"}
  BY <1>1, PathsAssumption DEF Calm, NameInv, NoBox, OldBox
<1>3. NameInv'
  BY <1>1, <1>2 DEF NameInv
<1>4. \A q \in Request : EndInv(q)'
  BY <1>1, <1>2 DEF Calm, EndInv, Early, Inv, TypeOK
<1>5. Enough' => SuccessInv'
  <2>. SUFFICES ASSUME Enough' PROVE SuccessInv'
    OBVIOUS
  <2>1. SuccessInv
    BY <1>1 DEF Calm, Enough, Waiting
  <2>2. exit' = [exit EXCEPT ![r] = "zero"] \/ UNCHANGED exit
    BY <1>1, <2>1 DEF SuccessInv
  <2>. QED  BY <1>1, <2>1, <2>2 DEF SuccessInv, Hopeful, Inv, TypeOK
<1>. QED  BY <1>3, <1>4, <1>5

LEMMA NextCalm == Inv /\ CalmInv /\ [Next]_vars => CalmInv'
<1>1. SUFFICES ASSUME Inv, CalmInv, [Next]_vars, trouble' = {}
               PROVE  NameInv' /\ (\A q \in Request : EndInv(q)') /\ (Enough' => SuccessInv')
  BY DEF CalmInv
<1>2. Calm
  BY <1>1 DEF Calm, CalmInv, Next, vars
<1>3. CASE UNCHANGED vars
  BY <1>2, <1>3 DEF Calm, NameInv, EndInv, Enough, Waiting, SuccessInv, Hopeful, vars
<1>4. ASSUME NEW r \in Request, Process(r) \/ Container(r) \/ Crash(r)
      PROVE  NameInv' /\ (\A q \in Request : EndInv(q)') /\ (Enough' => SuccessInv')
  <2>1. ~Crash(r)
    BY <1>2 DEF Crash, Calm, May
  <2>. QED  BY <1>1, <1>2, <1>4, <2>1, CreateCalm, ClearCalm, RecreateCalm, ListenCalm, StartCalm, WaitCalm,
               RemoveCalm, UmountCalm, ExitCalm DEF Process, Container
<1>. QED  BY <1>1, <1>3, <1>4 DEF Next

LEMMA CalmInvariance == Spec => []CalmInv
BY InitCalm, NextCalm, Invariance, PTL DEF Spec

(* Where no call fails and no process is killed, requests that have all    *)
(* returned leave no container under the name (the deferred removal and    *)
(* the removal on a name conflict in runCleanupUnmountContainer).          *)
THEOREM NameIsFreed == Spec => []NothingLeft
<1>1. CalmInv => NothingLeft
  BY RequestsAssumption DEF CalmInv, NameInv, NothingLeft
<1>. QED  BY <1>1, CalmInvariance, PTL

(* However the requests for one name undo each other, where nothing is     *)
(* busy, no call fails and no path runs out of layers one of them reports  *)
(* success.                                                                *)
THEOREM NotAllFail == Spec => []OneSucceeds
<1>1. Inv /\ CalmInv => OneSucceeds
  <2>. SUFFICES ASSUME Inv, CalmInv, trouble = {}, \A r \in Request : pc[r] = "done",
                       \A at \in Path : layers[at] >= Cardinality({r \in Request : PathOf[r] = at} \ taken)
                PROVE  \E r \in Request : result[r] = "ok"
    BY DEF OneSucceeds
  <2>1. SuccessInv
    BY DEF CalmInv, Enough, Waiting
  <2>. QED  BY <2>1 DEF SuccessInv, Hopeful, Early
<1>. QED  BY <1>1, Invariance, CalmInvariance, PTL
===============================================================================
