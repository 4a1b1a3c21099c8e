--------------------------- MODULE DockerHostProofs ---------------------------
(***************************************************************************)
(* Lemmas about the calls of DockerHost, for the proofs of both sides of   *)
(* revopia: each call keeps the types of the containers and of the mount   *)
(* table, and touches one container and one mount point.  K is the set of  *)
(* the create options that occur, M the mount points, V the volumes.       *)
(***************************************************************************)
EXTENDS DockerHost, SequenceTheorems, TLAPS

HostType(K, M, V) ==
  /\ conf \in [ContainerId -> K \union {None}]
  /\ running \subseteq {c \in ContainerId : Alive(c)}
  /\ mounts \in [M -> Seq(V)]

(* What a container mounts, it mounts from a volume.                       *)
MountsVolumes(K, M, V) ==
  /\ None \notin K
  /\ \A cf \in K : cf.at # None => cf.at \in M /\ cf.data \in V

(* The calls that change a container that is there.                        *)
Changes(c) ==
  ContainerStart(c) \/ ContainerStartFails(c) \/ Vanish(c) \/ ContainerExit(c)

-------------------------------------------------------------------------------
(* A stack less one of its layers is a stack.                              *)
LEMMA WithoutLayerType ==
  ASSUME NEW V, NEW s \in Seq(V), NEW i \in DOMAIN s
  PROVE  WithoutLayer(s, i) \in Seq(V)
<1>1. i \in 1 .. Len(s)
  BY LenProperties
<1>2. SubSeq(s, 1, i - 1) \in Seq(V) /\ SubSeq(s, i + 1, Len(s)) \in Seq(V)
  BY <1>1, SubSeqProperties, LenProperties
<1>. QED  BY <1>2, ConcatProperties DEF WithoutLayer

(* A mount made on top of a stack keeps the type of the mounts.            *)
LEMMA PushType ==
  ASSUME NEW M, NEW V, mounts \in [M -> Seq(V)], NEW at \in M, NEW v \in V
  PROVE  Push(at, v) \in [M -> Seq(V)]
<1>1. <<v>> \in Seq(V)
  OBVIOUS
<1>2. <<v>> \o mounts[at] \in Seq(V)
  BY <1>1, ConcatProperties
<1>. QED  BY <1>2 DEF Push

(* The layer of a container that goes stays or is taken out of its stack.  *)
LEMMA LayerKeepsMounts ==
  ASSUME NEW K, NEW M, NEW V, MountsVolumes(K, M, V), HostType(K, M, V),
         NEW c \in ContainerId, Alive(c), LayerStaysOrGoes(c)
  PROVE  mounts' \in [M -> Seq(V)]
<1>1. conf[c] \in K
  BY DEF HostType, Alive
<1>2. CASE UNCHANGED mounts
  BY <1>2 DEF HostType
<1>3. CASE mounts' # mounts
  <2>1. PICK i \in DOMAIN mounts[conf[c].at] :
               mounts' = [mounts EXCEPT ![conf[c].at] = WithoutLayer(@, i)]
    BY <1>3 DEF LayerStaysOrGoes
  <2>2. mounts[conf[c].at] \in Seq(V)
    BY <1>1, <1>3 DEF HostType, MountsVolumes, LayerStaysOrGoes
  <2>3. WithoutLayer(mounts[conf[c].at], i) \in Seq(V)
    BY <2>2, WithoutLayerType
  <2>. QED  BY <2>1, <2>3 DEF HostType
<1>. QED  BY <1>2, <1>3

(* A new container of known options keeps the types.                       *)
LEMMA CreateKeepsType ==
  ASSUME NEW K, NEW M, NEW V, MountsVolumes(K, M, V), HostType(K, M, V),
         NEW c \in ContainerId, NEW cf \in K, ContainerCreate(c, cf)
  PROVE  HostType(K, M, V)'
<1>1. conf' \in [ContainerId -> K \union {None}]
  BY DEF HostType, ContainerCreate
<1>2. \A d \in ContainerId : Alive(d) => Alive(d)'
  BY DEF HostType, ContainerCreate, Alive, MountsVolumes
<1>3. running' \subseteq {d \in ContainerId : Alive(d)'} /\ mounts' = mounts
  BY <1>2 DEF HostType, ContainerCreate
<1>. QED  BY <1>1, <1>3 DEF HostType

(* One umount keeps the types.                                             *)
LEMMA UmountKeepsType ==
  ASSUME NEW K, NEW M, NEW V, HostType(K, M, V), NEW at \in M, Umount(at)
  PROVE  HostType(K, M, V)'
<1>1. mounts[at] \in Seq(V) /\ mounts[at] # <<>>
  BY DEF HostType, Umount
<1>2. Tail(mounts[at]) \in Seq(V)
  BY <1>1, HeadTailProperties
<1>3. mounts' \in [M -> Seq(V)]
  BY <1>2 DEF HostType, Umount
<1>. QED  BY <1>3 DEF HostType, Umount, Alive

(* A container that starts makes one mount, on top of its mount point, or  *)
(* none.                                                                   *)
LEMMA StartKeepsType ==
  ASSUME NEW K, NEW M, NEW V, MountsVolumes(K, M, V), HostType(K, M, V),
         NEW c \in ContainerId, ContainerStart(c)
  PROVE  HostType(K, M, V)'
<1>1. conf[c] \in K
  BY DEF HostType, ContainerStart, Alive
<1>2. mounts' \in [M -> Seq(V)]
  BY <1>1, PushType DEF HostType, MountsVolumes, ContainerStart
<1>. QED  BY <1>2 DEF HostType, ContainerStart, Alive

(* A container disappears, by a removal, by a start that fails or by       *)
(* itself.                                                                 *)
LEMMA GoneKeepsType ==
  ASSUME NEW K, NEW M, NEW V, HostType(K, M, V), NEW c \in ContainerId,
         conf' = [conf EXCEPT ![c] = None], running' = running \ {c},
         mounts' \in [M -> Seq(V)]
  PROVE  HostType(K, M, V)'
<1>1. conf' \in [ContainerId -> K \union {None}]
  BY DEF HostType
<1>2. running' \subseteq {d \in ContainerId : Alive(d)'}
  BY DEF HostType, Alive
<1>. QED  BY <1>1, <1>2 DEF HostType

(* Every call on a container keeps the types.                              *)
LEMMA ChangesKeepType ==
  ASSUME NEW K, NEW M, NEW V, MountsVolumes(K, M, V), HostType(K, M, V),
         NEW c \in ContainerId, Changes(c)
  PROVE  HostType(K, M, V)'
<1>1. CASE UNCHANGED host
  BY <1>1 DEF host, HostType, Alive
<1>2. CASE ContainerStart(c)
  BY <1>2, StartKeepsType
<1>3. CASE Vanish(c)
  <2>1. mounts' \in [M -> Seq(V)]
    BY <1>3, LayerKeepsMounts DEF Vanish
  <2>. QED  BY <1>3, <2>1, GoneKeepsType DEF Vanish
<1>4. CASE ContainerExit(c)
  <2>1. mounts' \in [M -> Seq(V)]
    BY <1>4, LayerKeepsMounts DEF ContainerExit, HostType
  <2>. QED  BY <1>4, <2>1 DEF ContainerExit, HostType, Alive
<1>5. CASE /\ Alive(c) /\ c \notin running
           /\ conf' = [conf EXCEPT ![c] = None]
           /\ \/ UNCHANGED mounts
              \/ /\ conf[c].at # None
                 /\ mounts' = Push(conf[c].at, conf[c].data)
           /\ UNCHANGED running
  <2>1. conf[c] \in K
    BY <1>5 DEF HostType, Alive
  <2>2. mounts' \in [M -> Seq(V)]
    BY <1>5, <2>1, PushType DEF HostType, MountsVolumes
  <2>3. running' = running \ {c}
    BY <1>5
  <2>. QED  BY <1>5, <2>2, <2>3, GoneKeepsType
<1>. QED  BY <1>1, <1>2, <1>3, <1>4, <1>5 DEF Changes, ContainerStartFails

(* A call on a container changes no other container, and no mount point    *)
(* but its own.                                                            *)
LEMMA ChangesOne ==
  ASSUME NEW K, NEW M, NEW V, HostType(K, M, V), NEW c \in ContainerId, Changes(c)
  PROVE  /\ Alive(c)
         /\ conf' = conf \/ conf' = [conf EXCEPT ![c] = None]
         /\ \A d \in ContainerId : d # c => conf'[d] = conf[d] /\ (d \in running' <=> d \in running)
         /\ \A at \in M : at # conf[c].at => mounts'[at] = mounts[at]
<1>1. Alive(c)
  BY DEF Changes, ContainerStart, ContainerStartFails, Vanish, ContainerExit, HostType
<1>2. conf' = conf \/ conf' = [conf EXCEPT ![c] = None]
  BY DEF Changes, ContainerStart, ContainerStartFails, Vanish, ContainerExit, host
<1>3. running' = running \/ running' = running \union {c} \/ running' = running \ {c}
  BY DEF Changes, ContainerStart, ContainerStartFails, Vanish, ContainerExit, host
<1>4. mounts' = mounts \/ \E stack : mounts' = [mounts EXCEPT ![conf[c].at] = stack]
  BY DEF Changes, ContainerStart, ContainerStartFails, Vanish, ContainerExit, host,
         LayerStaysOrGoes, Push
<1>. QED  BY <1>1, <1>2, <1>3, <1>4 DEF HostType
===============================================================================
