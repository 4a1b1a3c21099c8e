------------------------------ MODULE DockerHost ------------------------------
(***************************************************************************)
(* The part of the Docker daemon and of the host's mount table revopia     *)
(* works on.  None of it is in the repository: it is modelled from the     *)
(* calls of the DockerAPI interface (internal/bridge/config.go) and from   *)
(* what TROUBLESHOOTING.md and vision.md report of mount propagation.      *)
(*                                                                         *)
(* A container is known by an identifier and by its name; a name belongs   *)
(* to at most one container at a time.  The options a container is created *)
(* with never change.  A container that starts binds one volume on one     *)
(* mount point of the shared bridge; the new mount lies on top of those    *)
(* already there, and only the top one is visible.  When the container     *)
(* goes, its layer may go with it or stay behind.                          *)
(***************************************************************************)
EXTENDS Naturals, Sequences

CONSTANTS
  ContainerId,  \* identifiers at hand; one is used again once nobody knows it
  None          \* no container, no label, no mount

VARIABLES
  conf,         \* conf[c]: the create options of container c, None if c is absent
  running,      \* the containers that run
  mounts        \* mounts[at]: the volumes mounted at "at", the visible one first

host == <<conf, running, mounts>>

Alive(c) == conf[c] # None

NameTaken(name) == \E c \in ContainerId : Alive(c) /\ conf[c].name = name

(* What a list call returns of each container: identifier, name and labels *)
(* as they were then.                                                      *)
Summaries(S) == {[id |-> c, conf |-> conf[c]] : c \in S}

Push(at, vol) == [mounts EXCEPT ![at] = <<vol>> \o @]

WithoutLayer(stack, i) == SubSeq(stack, 1, i - 1) \o SubSeq(stack, i + 1, Len(stack))

ContainerCreate(c, cf) ==
  /\ ~Alive(c)
  /\ ~NameTaken(cf.name)
  /\ conf' = [conf EXCEPT ![c] = cf]
  /\ UNCHANGED <<running, mounts>>

(* Starting a running container changes nothing and is no error.           *)
ContainerStart(c) ==
  /\ Alive(c)
  /\ running' = running \union {c}
  /\ mounts' = IF c \in running \/ conf[c].at = None
               THEN mounts
               ELSE Push(conf[c].at, conf[c].data)
  /\ UNCHANGED conf

(* The layer of a container that ran goes with it or stays behind.         *)
LayerStaysOrGoes(c) ==
  \/ UNCHANGED mounts
  \/ /\ c \in running
     /\ conf[c].at # None
     /\ \E i \in DOMAIN mounts[conf[c].at] :
          /\ mounts[conf[c].at][i] = conf[c].data
          /\ mounts' = [mounts EXCEPT ![conf[c].at] = WithoutLayer(@, i)]

Vanish(c) ==
  /\ Alive(c)
  /\ conf' = [conf EXCEPT ![c] = None]
  /\ running' = running \ {c}
  /\ LayerStaysOrGoes(c)

(* The container exits; without AutoRemove it is kept.                     *)
ContainerExit(c) ==
  /\ c \in running
  /\ running' = running \ {c}
  /\ LayerStaysOrGoes(c)
  /\ UNCHANGED conf

(* removeContainer forces the removal and takes "not found" for success.   *)
ContainerRemove(c) == IF Alive(c) THEN Vanish(c) ELSE UNCHANGED host

(* A start that returns an error: nothing happened, or the reply was lost, *)
(* or the container failed and AutoRemove took it away, its mount made or  *)
(* not.                                                                    *)
ContainerStartFails(c) ==
  /\ Alive(c)
  /\ \/ UNCHANGED host
     \/ ContainerStart(c)
     \/ /\ c \notin running
        /\ conf' = [conf EXCEPT ![c] = None]
        /\ \/ UNCHANGED mounts
           \/ /\ conf[c].at # None
              /\ mounts' = Push(conf[c].at, conf[c].data)
        /\ UNCHANGED running

(* umount takes the visible layer away.                                    *)
Umount(at) ==
  /\ mounts[at] # <<>>
  /\ mounts' = [mounts EXCEPT ![at] = Tail(@)]
  /\ UNCHANGED <<conf, running>>
===============================================================================
