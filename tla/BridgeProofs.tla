------------------------------ MODULE BridgeProofs ------------------------------
(***************************************************************************)
(* The composition implements each side, for any number of processes,      *)
(* volumes, sessions and containers: a step of a side is a step of its own *)
(* module, and what the other side does to the daemon is, as the first one *)
(* sees it, a step of its environment.                                     *)
(*                                                                         *)
(* A step of a side can be told from one of its environment by three       *)
(* things, which are the invariant: each side creates containers of its    *)
(* own kind only, each process starts and remembers those of its own side  *)
(* only, and it makes no more layers than it found room for when it was    *)
(* started.                                                                *)
(***************************************************************************)
EXTENDS Bridge, DockerHostProofs, FiniteSetTheorems

(* The containers of each side.                                            *)
OwnBackup == {B!HelperOptions(v, image) : v \in B!VolumeSpecs, image \in Image}

Asked == [session : Session, source : Exposed(Sources), target : Targets, image : Image]

OwnHelpers == {R!HelperOptions(j) : j \in Asked}
OwnChecks == {R!CheckOptions(j) : j \in Asked}
OwnRestore == OwnHelpers \union OwnChecks

Own == OwnBackup \union OwnRestore

HostInv == HostType(Own, B!MountPoint, Volume)

-------------------------------------------------------------------------------
(* The processes of each side.                                             *)

BackupJob ==
  [pc : B!Resting \union B!Preparing \union B!Cleaning, image : Image \union {None},
   todo : SUBSET B!VolumeSpecs, found : SUBSET [id : ContainerId, conf : OwnBackup],
   cur : ContainerId \union {None}, listed : SUBSET [id : ContainerId, conf : OwnBackup],
   targets : SUBSET Name, blocked : SUBSET Name, errs : BOOLEAN]

(* What a process with local state j relies on, k being the containers.    *)
BackupInv(k, j) ==
  /\ j.pc \in B!Preparing => j.image \in Image
  /\ j.pc \in {"replace", "start", "startnew", "rollback"} => j.cur \in ContainerId
  /\ j.pc \in {"start", "startnew"} =>
       \A v \in j.todo : B!IsFirst(v, j.todo) =>
         k[j.cur] = None \/ (k[j.cur] \in OwnBackup /\ k[j.cur].volume = v)

RestoreJob ==
  [pc : R!Resting \union R!Restoring \union R!Cleaning,
   source : Sources \union {None}, target : Targets \union {None},
   session : Session \union {None}, image : Image \union {None}, force : BOOLEAN,
   cur : ContainerId \union {None}, exit : {"none", "zero", "nonzero"}, sawEmpty : BOOLEAN,
   found : SUBSET [id : ContainerId, conf : OwnRestore],
   listed : SUBSET [id : ContainerId, conf : OwnRestore],
   targets : SUBSET R!Key, blocked : SUBSET R!Key, key : R!Key \union {None}, errs : BOOLEAN]

RestoreInv(k, j) ==
  /\ j.pc \in R!Restoring =>
       j.source \in Sources /\ j.target \in Targets /\ j.session \in Session /\ j.image \in Image
  /\ j.pc \in R!Restoring \ {"source"} => FriendlyName[j.source] # None
  /\ j.pc \in {"checkstart", "checkwait", "checkdrop", "replace", "start", "startnew", "rollback"} =>
       j.cur \in ContainerId
  /\ j.pc \in {"checkstart", "checkwait"} => k[j.cur] = None \/ k[j.cur] \in OwnChecks
  /\ j.pc \in {"start", "startnew"} => k[j.cur] = None \/ k[j.cur] \in OwnHelpers
  /\ j.pc \in {"remove", "umount"} => \A s \in j.found : s.conf \in OwnHelpers
  /\ j.pc = "umount" => j.key \in R!Key

(* The process may yet make a layer on the path of friendly name f.        *)
BackupAhead(j, f) ==
  /\ j.pc \in B!Preparing
  /\ \/ j.pc = "volumes"
     \/ \E v \in j.todo : /\ FriendlyName[v] = f
                          /\ B!IsFirst(v, j.todo) => j.pc \notin {"wait", "rollback"}

RestoreAhead(j) == j.pc \in R!Restoring \ {"wait", "rollback"}

BackupRoom ==
  \A f \in Name :
    Len(mounts[<<"backup", f>>]) + Cardinality({p \in BackupProc : BackupAhead(backupJob[p], f)})
      <= MaxLayers

RestoreRoom ==
  \A f \in Name :
    Len(mounts[<<"restore", f>>]) + Cardinality({p \in RestoreProc : RestoreAhead(restoreJob[p])})
      <= MaxLayers

BackupSideInv ==
  /\ backupJob \in [BackupProc -> BackupJob]
  /\ \A p \in BackupProc : BackupInv(conf, backupJob[p])

RestoreSideInv ==
  /\ restoreJob \in [RestoreProc -> RestoreJob]
  /\ \A p \in RestoreProc : RestoreInv(conf, restoreJob[p])

Inv == HostInv /\ BackupSideInv /\ RestoreSideInv /\ BackupRoom /\ RestoreRoom

-------------------------------------------------------------------------------
(* The daemon's calls are the same for both sides.                         *)
LEMMA BackupCalls ==
  ASSUME NEW c, NEW cf, NEW at
  PROVE  /\ B!ContainerStart(c) <=> ContainerStart(c)
         /\ B!Vanish(c) <=> Vanish(c)
         /\ B!ContainerRemove(c) <=> ContainerRemove(c)
         /\ B!ContainerStartFails(c) <=> ContainerStartFails(c)
         /\ B!ContainerCreate(c, cf) <=> ContainerCreate(c, cf)
         /\ B!Umount(at) <=> Umount(at)
<1>1. B!Alive(c) <=> Alive(c)
  BY DEF B!Alive, Alive
<1>2. B!ContainerStart(c) <=> ContainerStart(c)
  BY DEF B!ContainerStart, ContainerStart, B!Alive, Alive, B!Push, Push
<1>3. B!Vanish(c) <=> Vanish(c)
  BY DEF B!Vanish, Vanish, B!Alive, Alive, B!LayerStaysOrGoes, LayerStaysOrGoes,
         B!WithoutLayer, WithoutLayer
<1>4. B!ContainerRemove(c) <=> ContainerRemove(c)
  BY <1>1, <1>3 DEF B!ContainerRemove, ContainerRemove, B!host, host
<1>5. B!ContainerStartFails(c) <=> ContainerStartFails(c)
  BY <1>1, <1>2 DEF B!ContainerStartFails, ContainerStartFails, B!host, host, B!Push, Push
<1>6. B!ContainerCreate(c, cf) <=> ContainerCreate(c, cf)
  BY <1>1 DEF B!ContainerCreate, ContainerCreate, B!NameTaken, NameTaken, B!Alive, Alive
<1>7. B!Umount(at) <=> Umount(at)
  BY DEF B!Umount, Umount
<1>. QED  BY <1>2, <1>3, <1>4, <1>5, <1>6, <1>7

(* Those of the restore side.                                              *)
LEMMA RestoreCalls ==
  ASSUME NEW c, NEW cf, NEW at
  PROVE  /\ R!ContainerStart(c) <=> ContainerStart(c)
         /\ R!ContainerRemove(c) <=> ContainerRemove(c)
         /\ R!ContainerStartFails(c) <=> ContainerStartFails(c)
         /\ R!ContainerCreate(c, cf) <=> ContainerCreate(c, cf)
         /\ R!Umount(at) <=> Umount(at)
<1>1. R!Alive(c) <=> Alive(c)
  BY DEF R!Alive, Alive
<1>2. R!ContainerStart(c) <=> ContainerStart(c)
  BY DEF R!ContainerStart, ContainerStart, R!Alive, Alive, R!Push, Push
<1>3. R!Vanish(c) <=> Vanish(c)
  BY DEF R!Vanish, Vanish, R!Alive, Alive, R!LayerStaysOrGoes, LayerStaysOrGoes,
         R!WithoutLayer, WithoutLayer
<1>4. R!ContainerRemove(c) <=> ContainerRemove(c)
  BY <1>1, <1>3 DEF R!ContainerRemove, ContainerRemove, R!host, host
<1>5. R!ContainerStartFails(c) <=> ContainerStartFails(c)
  BY <1>1, <1>2 DEF R!ContainerStartFails, ContainerStartFails, R!host, host, R!Push, Push
<1>6. R!ContainerCreate(c, cf) <=> ContainerCreate(c, cf)
  BY <1>1 DEF R!ContainerCreate, ContainerCreate, R!NameTaken, NameTaken, R!Alive, Alive
<1>7. R!Umount(at) <=> Umount(at)
  BY DEF R!Umount, Umount
<1>. QED  BY <1>2, <1>4, <1>5, <1>6, <1>7

-------------------------------------------------------------------------------
(* The containers of each side, as both see them.                          *)

(* What a helper of prepare is created with.                               *)
LEMMA OwnBackupFields ==
  ASSUME NEW cf \in OwnBackup
  PROVE  \E v \in B!VolumeSpecs, image \in Image :
           /\ cf = [name |-> <<"helper", v>>, mode |-> "backup", volume |-> v,
                    friendly |-> FriendlyName[v], image |-> image,
                    at |-> <<"backup", FriendlyName[v]>>, data |-> v]
           /\ v \in Enabled /\ v \in Volume /\ FriendlyName[v] \in Name
BY VolumesAssumption DEF OwnBackup, B!HelperOptions, B!HelperName, B!BackupAt, B!VolumeSpecs

(* What a helper of restore is created with.                               *)
LEMMA OwnHelpersFields ==
  ASSUME NEW cf \in OwnHelpers
  PROVE  \E k \in Session, s \in Exposed(Sources), t \in Targets, image \in Image :
           /\ cf = [name |-> <<"restore", k>>, mode |-> "restore", volume |-> None, session |-> k,
                    source |-> s, target |-> t, friendly |-> FriendlyName[s],
                    image |-> image, at |-> <<"restore", FriendlyName[s]>>, data |-> t]
           /\ s \in Volume /\ t \in Volume /\ FriendlyName[s] \in Name
<1>1. PICK j \in Asked : cf = R!HelperOptions(j)
  BY DEF OwnHelpers
<1>2. j.session \in Session /\ j.source \in Exposed(Sources) /\ j.target \in Targets /\ j.image \in Image
  BY DEF Asked
<1>3. j.source \in Volume /\ j.target \in Volume /\ FriendlyName[j.source] \in Name
  BY <1>2, VolumesAssumption DEF Exposed
<1>. QED  BY <1>1, <1>2, <1>3 DEF R!HelperOptions, R!RestoreAt

(* What the container of an empty check is created with.                   *)
LEMMA OwnChecksFields ==
  ASSUME NEW cf \in OwnChecks
  PROVE  \E k \in Session, t \in Targets, image \in Image :
           /\ cf = [name |-> <<"check", k, t>>, mode |-> "restore", volume |-> None, session |-> k,
                    source |-> None, target |-> t, friendly |-> None,
                    image |-> image, at |-> None, data |-> t]
           /\ t \in Volume
<1>1. PICK j \in Asked : cf = R!CheckOptions(j)
  BY DEF OwnChecks
<1>2. j.session \in Session /\ j.target \in Targets /\ j.image \in Image
  BY DEF Asked
<1>. QED  BY <1>1, <1>2, VolumesAssumption DEF R!CheckOptions

(* The contract between the sides is about containers as the views know    *)
(* them.                                                                   *)
LEMMA ViewConf ==
  /\ OwnBackup \subseteq BackupView!Conf /\ FromRestore \subseteq BackupView!Conf
  /\ OwnRestore \subseteq RestoreView!Conf /\ FromBackup \subseteq RestoreView!Conf
<1>. None \notin Volume
  BY NoneAssumption
<1>1. ASSUME NEW cf \in OwnBackup PROVE cf \in BackupView!Conf
  BY OwnBackupFields, <1>1 DEF BackupView!Conf, BackupView!MountPoint
<1>2. ASSUME NEW cf \in FromRestore PROVE cf \in BackupView!Conf
  <2>1. cf.name \in {x.name : x \in FromRestore}
    OBVIOUS
  <2>2. CASE \E k \in Session, s \in Exposed(Sources), t \in Targets, i \in Image :
          cf = [name |-> <<"restore", k>>, mode |-> "restore", volume |-> None,
                friendly |-> FriendlyName[s], image |-> i,
                at |-> <<"restore", FriendlyName[s]>>, data |-> t]
    <3>1. PICK k \in Session, s \in Exposed(Sources), t \in Targets, i \in Image :
          cf = [name |-> <<"restore", k>>, mode |-> "restore", volume |-> None,
                friendly |-> FriendlyName[s], image |-> i,
                at |-> <<"restore", FriendlyName[s]>>, data |-> t]
      BY <2>2
    <3>2. FriendlyName[s] \in Name /\ t \in Volume
      BY VolumesAssumption DEF Exposed
    <3>. HIDE DEF FromRestore
    <3>. QED  BY <2>1, <3>1, <3>2 DEF BackupView!Conf, BackupView!MountPoint
  <2>3. CASE \E k \in Session, t \in Targets, i \in Image :
          cf = [name |-> <<"check", k, t>>, mode |-> "restore", volume |-> None, friendly |-> None,
                image |-> i, at |-> None, data |-> t]
    <3>1. PICK k \in Session, t \in Targets, i \in Image :
          cf = [name |-> <<"check", k, t>>, mode |-> "restore", volume |-> None, friendly |-> None,
                image |-> i, at |-> None, data |-> t]
      BY <2>3
    <3>2. t \in Volume
      BY VolumesAssumption
    <3>. QED  BY <2>1, <3>1, <3>2 DEF BackupView!Conf, BackupView!MountPoint
  <2>. QED  BY <2>2, <2>3 DEF FromRestore
<1>3. ASSUME NEW cf \in OwnRestore PROVE cf \in RestoreView!Conf
  <2>1. CASE cf \in OwnHelpers
    BY <2>1, OwnHelpersFields DEF RestoreView!Conf, RestoreView!MountPoint
  <2>2. CASE cf \in OwnChecks
    BY <2>2, OwnChecksFields DEF RestoreView!Conf, RestoreView!MountPoint
  <2>. QED  BY <1>3, <2>1, <2>2 DEF OwnRestore
<1>4. ASSUME NEW cf \in FromBackup PROVE cf \in RestoreView!Conf
  <2>1. cf.name \in {x.name : x \in FromBackup}
    OBVIOUS
  <2>2. PICK v \in Exposed(Enabled), i \in Image :
          cf = [name |-> <<"helper", v>>, mode |-> "backup", volume |-> v, session |-> None,
                source |-> None, target |-> None, friendly |-> FriendlyName[v],
                image |-> i, at |-> <<"backup", FriendlyName[v]>>, data |-> v]
    BY DEF FromBackup
  <2>3. v \in Volume /\ FriendlyName[v] \in Name
    BY VolumesAssumption DEF Exposed
  <2>. QED  BY <2>1, <2>2, <2>3 DEF RestoreView!Conf, RestoreView!MountPoint
<1>. QED  BY <1>1, <1>2, <1>3, <1>4

(* A side sees its own containers as they are, and those of the other side *)
(* as the contract says.                                                   *)
LEMMA BackupIsSeen ==
  ASSUME NEW cf \in OwnBackup
  PROVE  /\ AsBackupSees(cf) = cf /\ AsRestoreSees(cf) \in FromBackup
         /\ cf # None /\ AsRestoreSees(cf) # None
         /\ cf.mode = "backup" /\ cf.volume \in B!VolumeSpecs /\ cf.at = <<"backup", FriendlyName[cf.volume]>>
         /\ AsRestoreSees(cf).mode = "backup" /\ AsRestoreSees(cf).name = cf.name
         /\ AsRestoreSees(cf).at = cf.at /\ AsRestoreSees(cf).data = cf.data
<1>1. PICK v \in B!VolumeSpecs, image \in Image :
           /\ cf = [name |-> <<"helper", v>>, mode |-> "backup", volume |-> v,
                    friendly |-> FriendlyName[v], image |-> image,
                    at |-> <<"backup", FriendlyName[v]>>, data |-> v]
           /\ v \in Enabled /\ v \in Volume /\ FriendlyName[v] \in Name
  BY OwnBackupFields
<1>2. FriendlyName[v] # None
  BY <1>1, NoneAssumption
<1>3. AsRestoreSees(cf) \in FromBackup
  BY <1>1, <1>2 DEF AsRestoreSees, FromBackup, Exposed
<1>4. cf # None /\ AsRestoreSees(cf) # None
  BY <1>3, ViewConf, NoneAssumption
<1>5. AsBackupSees(cf) = cf
  BY <1>1 DEF AsBackupSees
<1>6. AsRestoreSees(cf).mode = "backup" /\ AsRestoreSees(cf).name = cf.name
      /\ AsRestoreSees(cf).at = cf.at /\ AsRestoreSees(cf).data = cf.data
  BY <1>1 DEF AsRestoreSees
<1>. QED  BY <1>1, <1>3, <1>4, <1>5, <1>6

(* A container of the restore side is foreign to the backup side.          *)
LEMMA RestoreIsSeen ==
  ASSUME NEW cf \in OwnRestore
  PROVE  /\ AsRestoreSees(cf) = cf /\ AsBackupSees(cf) \in FromRestore
         /\ cf # None /\ AsBackupSees(cf) # None
         /\ cf.mode = "restore" /\ AsBackupSees(cf).volume = None
         /\ AsBackupSees(cf).mode = "restore" /\ AsBackupSees(cf).name = cf.name
         /\ AsBackupSees(cf).at = cf.at /\ AsBackupSees(cf).data = cf.data
         /\ cf \in OwnHelpers => cf.at \in {<<"restore", f>> : f \in Name}
         /\ cf \in OwnChecks => cf.at = None
<1>1. CASE cf \in OwnHelpers
  <2>1. PICK k \in Session, s \in Exposed(Sources), t \in Targets, image \in Image :
           /\ cf = [name |-> <<"restore", k>>, mode |-> "restore", volume |-> None, session |-> k,
                    source |-> s, target |-> t, friendly |-> FriendlyName[s],
                    image |-> image, at |-> <<"restore", FriendlyName[s]>>, data |-> t]
           /\ s \in Volume /\ t \in Volume /\ FriendlyName[s] \in Name
    BY <1>1, OwnHelpersFields
  <2>2. AsBackupSees(cf) \in FromRestore
    BY <2>1 DEF AsBackupSees, FromRestore
  <2>3. cf \notin OwnChecks
    BY <2>1, OwnChecksFields
  <2>4. AsRestoreSees(cf) = cf /\ AsBackupSees(cf).mode = "restore" /\ AsBackupSees(cf).volume = None
        /\ AsBackupSees(cf).name = cf.name
        /\ AsBackupSees(cf).at = cf.at /\ AsBackupSees(cf).data = cf.data
    BY <2>1 DEF AsRestoreSees, AsBackupSees
  <2>. QED  BY <2>1, <2>2, <2>3, <2>4, ViewConf, NoneAssumption
<1>2. CASE cf \in OwnChecks
  <2>1. PICK k \in Session, t \in Targets, image \in Image :
           /\ cf = [name |-> <<"check", k, t>>, mode |-> "restore", volume |-> None, session |-> k,
                    source |-> None, target |-> t, friendly |-> None,
                    image |-> image, at |-> None, data |-> t]
           /\ t \in Volume
    BY <1>2, OwnChecksFields
  <2>2. AsBackupSees(cf) \in FromRestore
    BY <2>1 DEF AsBackupSees, FromRestore
  <2>3. cf \notin OwnHelpers
    BY <2>1, OwnHelpersFields
  <2>4. AsRestoreSees(cf) = cf /\ AsBackupSees(cf).mode = "restore" /\ AsBackupSees(cf).volume = None
        /\ AsBackupSees(cf).name = cf.name
        /\ AsBackupSees(cf).at = cf.at /\ AsBackupSees(cf).data = cf.data
    BY <2>1 DEF AsRestoreSees, AsBackupSees
  <2>. QED  BY <2>1, <2>2, <2>3, <2>4, ViewConf, NoneAssumption
<1>. QED  BY <1>1, <1>2 DEF OwnRestore

-------------------------------------------------------------------------------
(* The daemon's calls, as both sides see them.                             *)

(* What either side sees of a container tells whether it exists.           *)
LEMMA SeenContainers ==
  ASSUME HostInv, NEW c \in ContainerId
  PROVE  /\ BackupView!Alive(c) <=> Alive(c)
         /\ RestoreView!Alive(c) <=> Alive(c)
         /\ Alive(c) => /\ conf[c] \in Own
                        /\ SeenByBackup[c] = AsBackupSees(conf[c])
                        /\ SeenByRestore[c] = AsRestoreSees(conf[c])
                        /\ SeenByBackup[c].name = conf[c].name
                        /\ SeenByRestore[c].name = conf[c].name
                        /\ SeenByBackup[c].at = conf[c].at /\ SeenByBackup[c].data = conf[c].data
                        /\ SeenByRestore[c].at = conf[c].at /\ SeenByRestore[c].data = conf[c].data
<1>1. CASE ~Alive(c)
  BY <1>1 DEF BackupView!Alive, RestoreView!Alive, SeenByBackup, SeenByRestore
<1>2. CASE Alive(c)
  <2>1. conf[c] \in Own
    BY <1>2 DEF HostInv, HostType, Alive
  <2>2. SeenByBackup[c] = AsBackupSees(conf[c]) /\ SeenByRestore[c] = AsRestoreSees(conf[c])
    BY <1>2 DEF SeenByBackup, SeenByRestore
  <2>3. CASE conf[c] \in OwnBackup
    BY <1>2, <2>1, <2>2, <2>3, BackupIsSeen DEF BackupView!Alive, RestoreView!Alive
  <2>4. CASE conf[c] \in OwnRestore
    BY <1>2, <2>1, <2>2, <2>4, RestoreIsSeen DEF BackupView!Alive, RestoreView!Alive
  <2>. QED  BY <2>1, <2>3, <2>4 DEF Own
<1>. QED  BY <1>1, <1>2

(* Where the containers stay, so does what is seen of them.                *)
LEMMA SeenUnchanged ==
  ASSUME conf' = conf
  PROVE  SeenByBackup' = SeenByBackup /\ SeenByRestore' = SeenByRestore
BY DEF SeenByBackup, SeenByRestore, Alive

(* A container created or removed is, for the side that sees it, one       *)
(* created or removed.                                                     *)
LEMMA SeenChange ==
  ASSUME HostInv, NEW c \in ContainerId, NEW cf \in Own \union {None},
         conf' = [conf EXCEPT ![c] = cf]
  PROVE  /\ SeenByBackup' = [SeenByBackup EXCEPT ![c] = IF cf = None THEN None ELSE AsBackupSees(cf)]
         /\ SeenByRestore' = [SeenByRestore EXCEPT ![c] = IF cf = None THEN None ELSE AsRestoreSees(cf)]
<1>1. conf \in [ContainerId -> Own \union {None}]
  BY DEF HostInv, HostType
<1>2. conf'[c] = cf /\ \A d \in ContainerId : d # c => conf'[d] = conf[d]
  BY <1>1
<1>3. \A d \in ContainerId \ {c} :
        SeenByBackup'[d] = SeenByBackup[d] /\ SeenByRestore'[d] = SeenByRestore[d]
  BY <1>2 DEF SeenByBackup, SeenByRestore, Alive, AsBackupSees, AsRestoreSees
<1>4. /\ SeenByBackup'[c] = IF cf = None THEN None ELSE AsBackupSees(cf)
      /\ SeenByRestore'[c] = IF cf = None THEN None ELSE AsRestoreSees(cf)
  BY <1>2 DEF SeenByBackup, SeenByRestore, Alive, AsBackupSees, AsRestoreSees
<1>5. /\ SeenByBackup = [d \in ContainerId |-> SeenByBackup[d]]
      /\ SeenByRestore = [d \in ContainerId |-> SeenByRestore[d]]
      /\ SeenByBackup' = [d \in ContainerId |-> SeenByBackup'[d]]
      /\ SeenByRestore' = [d \in ContainerId |-> SeenByRestore'[d]]
  BY DEF SeenByBackup, SeenByRestore
<1>. QED  BY <1>3, <1>4, <1>5

(* A call of the daemon about a container is, for the backup side, the     *)
(* same call.                                                              *)
LEMMA BackupSeesCalls ==
  ASSUME HostInv, NEW c \in ContainerId
  PROVE  /\ UNCHANGED host => UNCHANGED BackupView!host
         /\ ContainerStart(c) => BackupView!ContainerStart(c)
         /\ Vanish(c) => BackupView!Vanish(c)
         /\ ContainerRemove(c) => BackupView!ContainerRemove(c)
         /\ ContainerStartFails(c) => BackupView!ContainerStartFails(c)
         /\ \A cf \in Own : ContainerCreate(c, cf) => BackupView!ContainerCreate(c, AsBackupSees(cf))
<1>1. UNCHANGED host => UNCHANGED BackupView!host
  BY SeenUnchanged DEF host, BackupView!host
<1>2. ContainerStart(c) => BackupView!ContainerStart(c)
  BY SeenUnchanged, SeenContainers DEF ContainerStart, BackupView!ContainerStart, BackupView!Push, Push
<1>3. Vanish(c) => BackupView!Vanish(c)
  <2>. SUFFICES ASSUME Vanish(c) PROVE BackupView!Vanish(c)
    OBVIOUS
  <2>1. Alive(c) /\ BackupView!Alive(c)
        /\ SeenByBackup[c].at = conf[c].at /\ SeenByBackup[c].data = conf[c].data
    BY SeenContainers DEF Vanish
  <2>2. SeenByBackup' = [SeenByBackup EXCEPT ![c] = None]
    BY SeenChange DEF Vanish
  <2>3. LayerStaysOrGoes(c) => BackupView!LayerStaysOrGoes(c)
    BY <2>1 DEF LayerStaysOrGoes, BackupView!LayerStaysOrGoes, WithoutLayer, BackupView!WithoutLayer
  <2>. QED  BY <2>1, <2>2, <2>3 DEF Vanish, BackupView!Vanish
<1>4. ContainerRemove(c) => BackupView!ContainerRemove(c)
  BY <1>1, <1>3, SeenContainers DEF ContainerRemove, BackupView!ContainerRemove
<1>5. ContainerStartFails(c) => BackupView!ContainerStartFails(c)
  <2>. SUFFICES ASSUME ContainerStartFails(c) PROVE BackupView!ContainerStartFails(c)
    OBVIOUS
  <2>1. Alive(c) /\ BackupView!Alive(c)
        /\ SeenByBackup[c].at = conf[c].at /\ SeenByBackup[c].data = conf[c].data
    BY SeenContainers DEF ContainerStartFails
  <2>2. conf' = [conf EXCEPT ![c] = None] => SeenByBackup' = [SeenByBackup EXCEPT ![c] = None]
    BY SeenChange
  <2>. QED  BY <1>1, <1>2, <2>1, <2>2
            DEF ContainerStartFails, BackupView!ContainerStartFails, Push, BackupView!Push
<1>6. ASSUME NEW cf \in Own, ContainerCreate(c, cf)
      PROVE  BackupView!ContainerCreate(c, AsBackupSees(cf))
  <2>1. cf # None /\ AsBackupSees(cf).name = cf.name
    BY BackupIsSeen, RestoreIsSeen DEF Own, AsBackupSees
  <2>2. SeenByBackup' = [SeenByBackup EXCEPT ![c] = AsBackupSees(cf)]
    BY <1>6, <2>1, SeenChange DEF ContainerCreate
  <2>3. ~BackupView!NameTaken(cf.name)
    BY <1>6, SeenContainers DEF ContainerCreate, NameTaken, BackupView!NameTaken
  <2>. QED  BY <1>6, <2>1, <2>2, <2>3, SeenContainers DEF ContainerCreate, BackupView!ContainerCreate
<1>. QED  BY <1>1, <1>2, <1>3, <1>4, <1>5, <1>6

(* So it is for the restore side.                                          *)
LEMMA RestoreSeesCalls ==
  ASSUME HostInv, NEW c \in ContainerId
  PROVE  /\ UNCHANGED host => UNCHANGED RestoreView!host
         /\ ContainerStart(c) => RestoreView!ContainerStart(c)
         /\ Vanish(c) => RestoreView!Vanish(c)
         /\ ContainerRemove(c) => RestoreView!ContainerRemove(c)
         /\ ContainerStartFails(c) => RestoreView!ContainerStartFails(c)
         /\ \A cf \in Own : ContainerCreate(c, cf) => RestoreView!ContainerCreate(c, AsRestoreSees(cf))
<1>1. UNCHANGED host => UNCHANGED RestoreView!host
  BY SeenUnchanged DEF host, RestoreView!host
<1>2. ContainerStart(c) => RestoreView!ContainerStart(c)
  BY SeenUnchanged, SeenContainers DEF ContainerStart, RestoreView!ContainerStart, RestoreView!Push, Push
<1>3. Vanish(c) => RestoreView!Vanish(c)
  <2>. SUFFICES ASSUME Vanish(c) PROVE RestoreView!Vanish(c)
    OBVIOUS
  <2>1. Alive(c) /\ RestoreView!Alive(c)
        /\ SeenByRestore[c].at = conf[c].at /\ SeenByRestore[c].data = conf[c].data
    BY SeenContainers DEF Vanish
  <2>2. SeenByRestore' = [SeenByRestore EXCEPT ![c] = None]
    BY SeenChange DEF Vanish
  <2>3. LayerStaysOrGoes(c) => RestoreView!LayerStaysOrGoes(c)
    BY <2>1 DEF LayerStaysOrGoes, RestoreView!LayerStaysOrGoes, WithoutLayer, RestoreView!WithoutLayer
  <2>. QED  BY <2>1, <2>2, <2>3 DEF Vanish, RestoreView!Vanish
<1>4. ContainerRemove(c) => RestoreView!ContainerRemove(c)
  BY <1>1, <1>3, SeenContainers DEF ContainerRemove, RestoreView!ContainerRemove
<1>5. ContainerStartFails(c) => RestoreView!ContainerStartFails(c)
  <2>. SUFFICES ASSUME ContainerStartFails(c) PROVE RestoreView!ContainerStartFails(c)
    OBVIOUS
  <2>1. Alive(c) /\ RestoreView!Alive(c)
        /\ SeenByRestore[c].at = conf[c].at /\ SeenByRestore[c].data = conf[c].data
    BY SeenContainers DEF ContainerStartFails
  <2>2. conf' = [conf EXCEPT ![c] = None] => SeenByRestore' = [SeenByRestore EXCEPT ![c] = None]
    BY SeenChange
  <2>. QED  BY <1>1, <1>2, <2>1, <2>2
            DEF ContainerStartFails, RestoreView!ContainerStartFails, Push, RestoreView!Push
<1>6. ASSUME NEW cf \in Own, ContainerCreate(c, cf)
      PROVE  RestoreView!ContainerCreate(c, AsRestoreSees(cf))
  <2>1. cf # None /\ AsRestoreSees(cf).name = cf.name
    BY BackupIsSeen, RestoreIsSeen DEF Own, AsRestoreSees
  <2>2. SeenByRestore' = [SeenByRestore EXCEPT ![c] = AsRestoreSees(cf)]
    BY <1>6, <2>1, SeenChange DEF ContainerCreate
  <2>3. ~RestoreView!NameTaken(cf.name)
    BY <1>6, SeenContainers DEF ContainerCreate, NameTaken, RestoreView!NameTaken
  <2>. QED  BY <1>6, <2>1, <2>2, <2>3, SeenContainers DEF ContainerCreate, RestoreView!ContainerCreate
<1>. QED  BY <1>1, <1>2, <1>3, <1>4, <1>5, <1>6

-------------------------------------------------------------------------------
(* What the sides do to the daemon.                                        *)

(* The calls that add no layer; own are the containers of the side.        *)
Calm(own) ==
  \/ UNCHANGED host
  \/ \E c \in ContainerId : Vanish(c)
  \/ \E c \in ContainerId, cf \in own : ContainerCreate(c, cf) /\ B!Fresh(c) /\ R!Fresh(c)
  \/ \E at \in B!MountPoint : Umount(at)

Starting(c) == ContainerStart(c) \/ ContainerStartFails(c)

Exits(c) == c \in running /\ running' = running \ {c} /\ UNCHANGED <<conf, mounts>>

KeepsKnown ==
  \A c \in ContainerId : conf'[c] = conf[c] \/ conf'[c] = None \/ (B!Fresh(c) /\ R!Fresh(c))

Shrinks == \A at \in B!MountPoint : Len(mounts'[at]) <= Len(mounts[at])

GrowsAt(x) ==
  \A at \in B!MountPoint : /\ Len(mounts'[at]) <= Len(mounts[at]) + 1
                           /\ at # x => Len(mounts'[at]) <= Len(mounts[at])

(* The mount points and volumes of the containers of either side are       *)
(* known.                                                                  *)
LEMMA OwnMounts == MountsVolumes(Own, B!MountPoint, Volume)
<1>1. ASSUME NEW cf \in OwnBackup
      PROVE  cf # None /\ cf.at \in B!MountPoint /\ cf.data \in Volume
  BY OwnBackupFields, BackupIsSeen DEF B!MountPoint
<1>2. ASSUME NEW cf \in OwnHelpers
      PROVE  cf # None /\ cf.at \in B!MountPoint /\ cf.data \in Volume
  BY <1>2, OwnHelpersFields, RestoreIsSeen DEF B!MountPoint, OwnRestore
<1>3. ASSUME NEW cf \in OwnChecks
      PROVE  cf # None /\ cf.at = None
  BY <1>3, RestoreIsSeen DEF OwnRestore
<1>. QED  BY <1>1, <1>2, <1>3 DEF MountsVolumes, Own, OwnRestore

(* A mount point that loses a layer is one shorter.                        *)
LEMMA WithoutLayerLen ==
  ASSUME NEW s \in Seq(Volume), NEW i \in DOMAIN s
  PROVE  Len(WithoutLayer(s, i)) <= Len(s)
<1>1. i \in 1 .. Len(s) /\ Len(s) \in Nat
  BY LenProperties
<1>2. /\ SubSeq(s, 1, i - 1) \in Seq(Volume) /\ Len(SubSeq(s, 1, i - 1)) = i - 1
      /\ SubSeq(s, i + 1, Len(s)) \in Seq(Volume) /\ Len(SubSeq(s, i + 1, Len(s))) = Len(s) - i
  BY <1>1, SubSeqProperties
<1>3. Len(WithoutLayer(s, i)) = (i - 1) + (Len(s) - i)
  BY <1>2, ConcatProperties DEF WithoutLayer
<1>. QED  BY <1>1, <1>3

(* The length of a mount point is a number.                                *)
LEMMA MountLengths ==
  ASSUME HostInv, NEW at \in B!MountPoint
  PROVE  mounts[at] \in Seq(Volume) /\ Len(mounts[at]) \in Nat
<1>1. mounts[at] \in Seq(Volume)
  BY DEF HostInv, HostType
<1>. QED  BY <1>1, LenProperties

(* A container that dies takes at most a layer along.                      *)
LEMMA LayerGoes ==
  ASSUME HostInv, NEW c \in ContainerId, Alive(c), LayerStaysOrGoes(c)
  PROVE  Shrinks
<1>1. CASE UNCHANGED mounts
  BY <1>1, MountLengths DEF Shrinks
<1>2. CASE mounts' # mounts
  <2>1. PICK i \in DOMAIN mounts[conf[c].at] :
               mounts' = [mounts EXCEPT ![conf[c].at] = WithoutLayer(@, i)]
    BY <1>2 DEF LayerStaysOrGoes
  <2>2. conf[c].at \in B!MountPoint
    BY <1>2, OwnMounts DEF LayerStaysOrGoes, HostInv, HostType, Alive, MountsVolumes
  <2>3. Len(WithoutLayer(mounts[conf[c].at], i)) <= Len(mounts[conf[c].at])
    BY <2>2, MountLengths, WithoutLayerLen
  <2>. QED  BY <2>1, <2>2, <2>3, MountLengths DEF Shrinks, HostInv, HostType
<1>. QED  BY <1>1, <1>2

(* Calls that start nothing keep the types of the daemon and lengthen no   *)
(* mount point.                                                            *)
LEMMA CalmKeeps ==
  ASSUME HostInv, NEW own \in SUBSET Own, Calm(own)
  PROVE  HostInv' /\ KeepsKnown /\ Shrinks
<1>1. CASE UNCHANGED host
  BY <1>1, MountLengths DEF host, HostInv, HostType, Alive, KeepsKnown, Shrinks
<1>2. CASE \E c \in ContainerId : Vanish(c)
  <2>1. PICK c \in ContainerId : Vanish(c)
    BY <1>2
  <2>2. HostInv' /\ conf' = [conf EXCEPT ![c] = None]
    BY <2>1, OwnMounts, ChangesKeepType DEF Changes, HostInv, Vanish
  <2>3. Shrinks
    BY <2>1, LayerGoes DEF Vanish
  <2>. QED  BY <2>2, <2>3 DEF KeepsKnown, HostInv, HostType
<1>3. CASE \E c \in ContainerId, cf \in own : ContainerCreate(c, cf) /\ B!Fresh(c) /\ R!Fresh(c)
  <2>1. PICK c \in ContainerId, cf \in own : ContainerCreate(c, cf) /\ B!Fresh(c) /\ R!Fresh(c)
    BY <1>3
  <2>2. HostInv'
    BY <2>1, OwnMounts, CreateKeepsType DEF HostInv
  <2>. QED  BY <2>1, <2>2, MountLengths DEF KeepsKnown, Shrinks, ContainerCreate, HostInv, HostType
<1>4. CASE \E at \in B!MountPoint : Umount(at)
  <2>1. PICK at \in B!MountPoint : Umount(at)
    BY <1>4
  <2>2. HostInv'
    BY <2>1, UmountKeepsType DEF HostInv
  <2>3. Len(Tail(mounts[at])) <= Len(mounts[at])
    BY <2>1, MountLengths, HeadTailProperties DEF Umount
  <2>. QED  BY <2>1, <2>2, <2>3, MountLengths DEF KeepsKnown, Shrinks, Umount, HostInv, HostType
<1>. QED  BY <1>1, <1>2, <1>3, <1>4 DEF Calm

(* So does a container that exits.                                         *)
LEMMA ExitKeeps ==
  ASSUME HostInv, NEW c \in ContainerId, Exits(c)
  PROVE  HostInv' /\ KeepsKnown /\ Shrinks
BY MountLengths DEF Exits, HostInv, HostType, Alive, KeepsKnown, Shrinks

(* A mount makes its mount point one longer.                               *)
LEMMA PushLen ==
  ASSUME NEW s \in Seq(Volume), NEW v \in Volume
  PROVE  Len(<<v>> \o s) = Len(s) + 1
<1>1. <<v>> \in Seq(Volume) /\ Len(<<v>>) = 1
  OBVIOUS
<1>. QED  BY <1>1, ConcatProperties, LenProperties

(* A container that is started mounts one layer, on its own mount point.   *)
LEMMA StartKeeps ==
  ASSUME HostInv, NEW c \in ContainerId, Starting(c)
  PROVE  HostInv' /\ KeepsKnown /\ GrowsAt(conf[c].at)
<1>1. HostInv'
  BY OwnMounts, ChangesKeepType DEF Changes, HostInv, Starting
<1>2. Alive(c) /\ conf[c] \in Own
  BY DEF Starting, ContainerStart, ContainerStartFails, HostInv, HostType, Alive
<1>3. \A d \in ContainerId : conf'[d] = conf[d] \/ conf'[d] = None
  BY DEF Starting, ContainerStart, ContainerStartFails, host, HostInv, HostType
<1>4. \/ mounts' = mounts
      \/ conf[c].at # None /\ mounts' = [mounts EXCEPT ![conf[c].at] = <<conf[c].data>> \o @]
  BY DEF Starting, ContainerStart, ContainerStartFails, host, Push
<1>5. conf[c].at # None => conf[c].at \in B!MountPoint /\ conf[c].data \in Volume
  BY <1>2, OwnMounts DEF MountsVolumes
<1>6. GrowsAt(conf[c].at)
  <2>1. CASE mounts' = mounts
    BY <2>1, MountLengths DEF GrowsAt
  <2>2. CASE conf[c].at # None /\ mounts' = [mounts EXCEPT ![conf[c].at] = <<conf[c].data>> \o @]
    <3>1. Len(<<conf[c].data>> \o mounts[conf[c].at]) = Len(mounts[conf[c].at]) + 1
      BY <1>5, <2>2, MountLengths, PushLen
    <3>. QED  BY <1>5, <2>2, <3>1, MountLengths DEF GrowsAt, HostInv, HostType
  <2>. QED  BY <1>4, <2>1, <2>2
<1>. QED  BY <1>1, <1>3, <1>6 DEF KeepsKnown

-------------------------------------------------------------------------------
(* What a side does is a step of the other side's environment.             *)

(* A backup process remembers backup helpers, which it sees as they are.   *)
LEMMA OwnSummaries ==
  ASSUME NEW jobs \in [BackupProc -> BackupJob]
  PROVE  LET read(S) == {[id |-> s.id, conf |-> AsBackupSees(s.conf)] : s \in S}
         IN  [p \in BackupProc |-> [jobs[p] EXCEPT !.found = read(@), !.listed = read(@)]] = jobs
<1>. DEFINE read(S) == {[id |-> s.id, conf |-> AsBackupSees(s.conf)] : s \in S}
<1>1. ASSUME NEW S \in SUBSET [id : ContainerId, conf : OwnBackup]
      PROVE  read(S) = S
  <2>1. \A s \in S : [id |-> s.id, conf |-> AsBackupSees(s.conf)] = s
    BY BackupIsSeen
  <2>. QED  BY <2>1
<1>2. \A p \in BackupProc : read(jobs[p].found) = jobs[p].found /\ read(jobs[p].listed) = jobs[p].listed
  BY <1>1 DEF BackupJob
<1>. HIDE DEF read
<1>3. \A p \in BackupProc : [jobs[p] EXCEPT !.found = read(@), !.listed = read(@)] = jobs[p]
  BY <1>2 DEF BackupJob
<1>4. [p \in BackupProc |-> [jobs[p] EXCEPT !.found = read(@), !.listed = read(@)]] = jobs
  BY <1>3
<1>. QED  BY <1>4 DEF read

(* So the backup side sees its own processes as they are.                  *)
LEMMA JobsSeen ==
  /\ backupJob \in [BackupProc -> BackupJob] => KeptByBackup = backupJob
  /\ backupJob' \in [BackupProc -> BackupJob] => KeptByBackup' = backupJob'
<1>1. ASSUME backupJob \in [BackupProc -> BackupJob] PROVE KeptByBackup = backupJob
  BY <1>1, OwnSummaries DEF KeptByBackup
<1>2. ASSUME backupJob' \in [BackupProc -> BackupJob] PROVE KeptByBackup' = backupJob'
  BY <1>2, OwnSummaries DEF KeptByBackup
<1>. QED  BY <1>1, <1>2

(* What restores do without starting a container is the environment of the *)
(* backup side.                                                            *)
LEMMA BackupSeesEnvironment ==
  ASSUME HostInv, backupJob \in [BackupProc -> BackupJob], Calm(OwnRestore), UNCHANGED backupJob
  PROVE  BackupView!Environment \/ UNCHANGED <<host, backupJob>>
<1>1. KeptByBackup = backupJob /\ KeptByBackup' = KeptByBackup
  BY JobsSeen
<1>2. CASE UNCHANGED host
  BY <1>2 DEF host
<1>3. CASE \E c \in ContainerId : Vanish(c)
  BY <1>1, <1>3, BackupSeesCalls
     DEF BackupView!Environment, BackupView!Dies, BackupView!May, AnyTrouble
<1>4. CASE \E c \in ContainerId, cf \in OwnRestore : ContainerCreate(c, cf) /\ B!Fresh(c) /\ R!Fresh(c)
  <2>1. PICK c \in ContainerId, cf \in OwnRestore : ContainerCreate(c, cf) /\ B!Fresh(c)
    BY <1>4
  <2>2. BackupView!ContainerCreate(c, AsBackupSees(cf)) /\ AsBackupSees(cf) \in FromRestore
    BY <2>1, BackupSeesCalls, RestoreIsSeen DEF Own
  <2>3. BackupView!Fresh(c)
    BY <1>1, <2>1, SeenContainers DEF BackupView!Fresh, B!Fresh, B!Alive, Alive
  <2>4. BackupView!ForeignCreate(c, AsBackupSees(cf))
    BY <1>1, <2>2, <2>3 DEF BackupView!ForeignCreate, BackupView!May, AnyTrouble
  <2>. QED  BY <2>2, <2>4 DEF BackupView!Environment
<1>5. CASE \E at \in B!MountPoint : Umount(at)
  <2>1. PICK at \in B!MountPoint : Umount(at)
    BY <1>5
  <2>2. BackupView!LateUmount(at)
    BY <1>1, <2>1, SeenUnchanged
       DEF Umount, BackupView!Umount, BackupView!LateUmount, BackupView!May, AnyTrouble
  <2>. QED  BY <2>2 DEF BackupView!Environment, BackupView!MountPoint, B!MountPoint
<1>. QED  BY <1>2, <1>3, <1>4, <1>5 DEF Calm

(* Starting a container needs room on its mount point.                     *)
LEMMA BackupSeesStart ==
  ASSUME HostInv, backupJob \in [BackupProc -> BackupJob], UNCHANGED backupJob,
         NEW c \in ContainerId, conf[c] \in OwnRestore, Starting(c),
         \A f \in Name : conf[c].at = <<"restore", f>> => Len(mounts[<<"restore", f>>]) < MaxLayers
  PROVE  BackupView!Environment \/ UNCHANGED <<host, backupJob>>
<1>1. KeptByBackup = backupJob /\ KeptByBackup' = KeptByBackup
  BY JobsSeen
<1>2. Alive(c) /\ SeenByBackup[c] \in FromRestore /\ SeenByBackup[c].at = conf[c].at
  BY SeenContainers, RestoreIsSeen DEF Alive
<1>3. CASE c \in running
  <2>1. ContainerStart(c) => UNCHANGED host
    BY <1>3 DEF ContainerStart, host
  <2>. QED  BY <1>3, <2>1 DEF Starting, ContainerStartFails, host
<1>4. CASE c \notin running
  <2>1. BackupView!RoomAt(SeenByBackup[c].at)
    BY <1>2, RestoreIsSeen DEF BackupView!RoomAt, OwnRestore
  <2>2. BackupView!ForeignStart(c)
    BY <1>1, <1>2, <1>4, <2>1, BackupSeesCalls
       DEF BackupView!ForeignStart, BackupView!May, AnyTrouble, Starting
  <2>. QED  BY <2>2 DEF BackupView!Environment
<1>. QED  BY <1>3, <1>4

(* The container of an empty check exits by itself.                        *)
LEMMA BackupSeesExit ==
  ASSUME HostInv, backupJob \in [BackupProc -> BackupJob], UNCHANGED backupJob,
         NEW c \in ContainerId, conf[c] \in OwnRestore, Exits(c)
  PROVE  BackupView!Environment
<1>1. KeptByBackup = backupJob /\ KeptByBackup' = KeptByBackup
  BY JobsSeen
<1>2. SeenByBackup[c] \in FromRestore
  BY SeenContainers, RestoreIsSeen DEF Alive
<1>3. BackupView!ContainerExit(c)
  BY SeenUnchanged DEF Exits, BackupView!ContainerExit, BackupView!LayerStaysOrGoes
<1>. QED  BY <1>1, <1>2, <1>3
          DEF BackupView!Environment, BackupView!ForeignExit, BackupView!May, AnyTrouble

(* What prepares do without starting a container is the environment of the *)
(* restore side.                                                           *)
LEMMA RestoreSeesEnvironment ==
  ASSUME HostInv, Calm(OwnBackup), UNCHANGED <<content, restoreJob>>
  PROVE  RestoreView!Environment \/ UNCHANGED <<host, content, restoreJob>>
<1>1. CASE UNCHANGED host
  BY <1>1 DEF host
<1>2. CASE \E c \in ContainerId : Vanish(c)
  BY <1>2, RestoreSeesCalls
     DEF RestoreView!Environment, RestoreView!Dies, RestoreView!May, AnyTrouble
<1>3. CASE \E c \in ContainerId, cf \in OwnBackup : ContainerCreate(c, cf) /\ B!Fresh(c) /\ R!Fresh(c)
  <2>1. PICK c \in ContainerId, cf \in OwnBackup : ContainerCreate(c, cf) /\ R!Fresh(c)
    BY <1>3
  <2>2. RestoreView!ContainerCreate(c, AsRestoreSees(cf)) /\ AsRestoreSees(cf) \in FromBackup
    BY <2>1, RestoreSeesCalls, BackupIsSeen DEF Own
  <2>3. RestoreView!Fresh(c)
    BY <2>1, SeenContainers DEF RestoreView!Fresh, R!Fresh, R!Alive, Alive
  <2>4. RestoreView!ForeignCreate(c, AsRestoreSees(cf))
    BY <2>2, <2>3 DEF RestoreView!ForeignCreate, RestoreView!May, AnyTrouble
  <2>. QED  BY <2>2, <2>4 DEF RestoreView!Environment
<1>4. CASE \E at \in B!MountPoint : Umount(at)
  <2>1. PICK at \in B!MountPoint : Umount(at)
    BY <1>4
  <2>2. RestoreView!LateUmount(at)
    BY <2>1, SeenUnchanged
       DEF Umount, RestoreView!Umount, RestoreView!LateUmount, RestoreView!May, AnyTrouble
  <2>. QED  BY <2>2 DEF RestoreView!Environment, RestoreView!MountPoint, B!MountPoint
<1>. QED  BY <1>1, <1>2, <1>3, <1>4 DEF Calm

(* A helper that a prepare starts is one of the environment, if its mount  *)
(* point has room.                                                         *)
LEMMA RestoreSeesStart ==
  ASSUME HostInv, UNCHANGED <<content, restoreJob>>,
         NEW c \in ContainerId, conf[c] \in OwnBackup, Starting(c),
         Len(mounts[conf[c].at]) < MaxLayers
  PROVE  RestoreView!Environment \/ UNCHANGED <<host, content, restoreJob>>
<1>1. Alive(c) /\ SeenByRestore[c] \in FromBackup /\ SeenByRestore[c].at = conf[c].at
  BY SeenContainers, BackupIsSeen DEF Alive
<1>2. CASE c \in running
  <2>1. ContainerStart(c) => UNCHANGED host
    BY <1>2 DEF ContainerStart, host
  <2>. QED  BY <1>2, <2>1 DEF Starting, ContainerStartFails, host
<1>3. CASE c \notin running
  <2>1. \E f \in Name : conf[c].at = <<"backup", f>>
    BY OwnBackupFields
  <2>2. RestoreView!RoomAt(SeenByRestore[c].at)
    BY <1>1, <2>1 DEF RestoreView!RoomAt
  <2>3. RestoreView!ForeignStart(c)
    BY <1>1, <1>3, <2>2, RestoreSeesCalls
       DEF RestoreView!ForeignStart, RestoreView!May, AnyTrouble, Starting
  <2>. QED  BY <2>3 DEF RestoreView!Environment
<1>. QED  BY <1>2, <1>3

-------------------------------------------------------------------------------
(* A step of a side is, as it sees it, a step of its own module.           *)

BackupSees ==
  HostInv /\ KeptByBackup = backupJob /\ KeptByBackup' = backupJob'

(* The view of the backup side has the words of the composition.           *)
LEMMA BackupWords ==
  /\ BackupView!VolumeSpecs = B!VolumeSpecs /\ BackupView!SpecErr = B!SpecErr
  /\ BackupView!Resting = B!Resting /\ BackupView!Idle = B!Idle
  /\ \A v : BackupView!HelperName(v) = B!HelperName(v)
  /\ \A v, image : BackupView!HelperOptions(v, image) = B!HelperOptions(v, image)
  /\ \A f : BackupView!BackupAt(f) = B!BackupAt(f)
  /\ \A x, S : BackupView!IsFirst(x, S) <=> B!IsFirst(x, S)
  /\ \A trouble : B!May(trouble) => BackupView!May(trouble)
BY DEF BackupView!VolumeSpecs, B!VolumeSpecs, BackupView!SpecErr, B!SpecErr,
       BackupView!Resting, B!Resting, BackupView!Idle, B!Idle,
       BackupView!HelperName, B!HelperName, BackupView!HelperOptions, B!HelperOptions,
       BackupView!BackupAt, B!BackupAt, BackupView!IsFirst, B!IsFirst,
       BackupView!May, B!May, AnyTrouble

(* The instances count as this module does.                                *)
LEMMA SameCount ==
  ASSUME NEW S
  PROVE  /\ B!Cardinality(S) = Cardinality(S) /\ BackupView!Cardinality(S) = Cardinality(S)
         /\ R!Cardinality(S) = Cardinality(S) /\ RestoreView!Cardinality(S) = Cardinality(S)
BY DEF B!Cardinality, BackupView!Cardinality, R!Cardinality, RestoreView!Cardinality, Cardinality

(* A move of a process in the composition is the same move in the view.    *)
LEMMA BackupMoves ==
  ASSUME BackupSees, NEW p
  PROVE  /\ \A label : B!At(p, label) <=> BackupView!At(p, label)
         /\ \A j : B!Become(p, j) => BackupView!Become(p, j)
         /\ \A label : B!Goto(p, label) => BackupView!Goto(p, label)
         /\ \A v, failed : B!NextVolume(p, v, failed) => BackupView!NextVolume(p, v, failed)
         /\ \A c : B!NextHelper(p, c) => BackupView!NextHelper(p, c)
         /\ \A f, failed : B!NextTarget(p, f, failed) => BackupView!NextTarget(p, f, failed)
         /\ \A s : \A failed \in BOOLEAN : B!Removed(p, s, failed) => BackupView!Removed(p, s, failed)
         /\ B!Headroom => BackupView!Headroom
<1>1. \A label : B!At(p, label) <=> BackupView!At(p, label)
  BY DEF BackupSees, B!At, BackupView!At
<1>2. \A j : B!Become(p, j) => BackupView!Become(p, j)
  BY DEF BackupSees, B!Become, BackupView!Become
<1>3. \A label : B!Goto(p, label) => BackupView!Goto(p, label)
  BY DEF BackupSees, B!Goto, BackupView!Goto, B!Become, BackupView!Become
<1>4. \A v, failed : B!NextVolume(p, v, failed) => BackupView!NextVolume(p, v, failed)
  BY DEF BackupSees, B!NextVolume, BackupView!NextVolume, B!Become, BackupView!Become
<1>5. \A c : B!NextHelper(p, c) => BackupView!NextHelper(p, c)
  BY DEF BackupSees, B!NextHelper, BackupView!NextHelper, B!Become, BackupView!Become
<1>6. \A f, failed : B!NextTarget(p, f, failed) => BackupView!NextTarget(p, f, failed)
  BY DEF BackupSees, B!NextTarget, BackupView!NextTarget, B!Become, BackupView!Become
<1>7. \A s : \A failed \in BOOLEAN : B!Removed(p, s, failed) => BackupView!Removed(p, s, failed)
  <2>. SUFFICES ASSUME NEW s, NEW failed \in BOOLEAN, B!Removed(p, s, failed)
                PROVE  BackupView!Removed(p, s, failed)
    OBVIOUS
  <2>1. CASE failed
    BY <2>1 DEF BackupSees, B!Removed, BackupView!Removed, B!Become, BackupView!Become
  <2>2. CASE ~failed
    BY <2>2 DEF BackupSees, B!Removed, BackupView!Removed, B!Become, BackupView!Become
  <2>. QED  BY <2>1, <2>2
<1>8. B!Headroom => BackupView!Headroom
  <2>1. {q \in BackupProc : backupJob[q].pc \in B!Preparing}
          = {q \in BackupProc : KeptByBackup[q].pc \in BackupView!Preparing}
    BY DEF BackupSees, B!Preparing, BackupView!Preparing
  <2>2. \A f : B!Layers(f) = BackupView!Layers(f)
    BY DEF B!Layers, BackupView!Layers, B!BackupAt, BackupView!BackupAt
  <2>. QED  BY <2>1, <2>2, SameCount DEF B!Headroom, BackupView!Headroom
<1>. QED  BY <1>1, <1>2, <1>3, <1>4, <1>5, <1>6, <1>7, <1>8

(* What a prepare and a cleanup read of the daemon is the same in the      *)
(* view.                                                                   *)
LEMMA BackupReads ==
  ASSUME BackupSees
  PROVE  /\ \A c \in ContainerId : B!Alive(c) <=> BackupView!Alive(c)
         /\ \A c \in ContainerId : B!Fresh(c) => BackupView!Fresh(c)
         /\ \A name : B!NameTaken(name) <=> BackupView!NameTaken(name)
         /\ UNCHANGED B!host => UNCHANGED BackupView!host
         /\ \A v \in Volume :
              B!Summaries(B!HelpersForVolume(v)) = BackupView!Summaries(BackupView!HelpersForVolume(v))
         /\ {s \in B!Summaries(B!BackupHelpers) : B!IsManaged(s.conf)}
              = {s \in BackupView!Summaries(BackupView!BackupHelpers) : BackupView!IsManaged(s.conf)}
         /\ \A c \in ContainerId, v \in Volume : \A image :
              Alive(c) => (B!HelperMatches(conf[c], v, image)
                             <=> BackupView!HelperMatches(SeenByBackup[c], v, image))
<1>. HostInv
  BY DEF BackupSees
<1>1. \A c \in ContainerId : B!Alive(c) <=> BackupView!Alive(c)
  BY SeenContainers DEF B!Alive, Alive
<1>2. \A c \in ContainerId : B!Fresh(c) => BackupView!Fresh(c)
  BY <1>1 DEF BackupSees, B!Fresh, BackupView!Fresh
<1>3. \A name : B!NameTaken(name) <=> BackupView!NameTaken(name)
  BY <1>1, SeenContainers DEF B!NameTaken, BackupView!NameTaken, B!Alive, Alive
<1>4. UNCHANGED B!host => UNCHANGED BackupView!host
  BY SeenUnchanged DEF B!host, BackupView!host
<1>5. ASSUME NEW c \in ContainerId, Alive(c)
      PROVE  /\ \/ SeenByBackup[c] = conf[c] /\ conf[c].mode = "backup"
                \/ conf[c].volume = None /\ SeenByBackup[c].volume = None
             /\ SeenByBackup[c].mode = conf[c].mode /\ SeenByBackup[c].volume = conf[c].volume
             /\ conf[c].mode \in {"backup", "restore"}
             /\ conf[c].mode = "restore" => conf[c].volume = None
  <2>1. conf[c] \in Own /\ SeenByBackup[c] = AsBackupSees(conf[c])
    BY <1>5, SeenContainers
  <2>2. CASE conf[c] \in OwnBackup
    BY <2>1, <2>2, BackupIsSeen
  <2>3. CASE conf[c] \in OwnRestore
    <3>1. conf[c].volume = None
      BY <2>3, OwnHelpersFields, OwnChecksFields DEF OwnRestore
    <3>. QED  BY <2>1, <2>3, <3>1, RestoreIsSeen
  <2>. QED  BY <2>1, <2>2, <2>3 DEF Own
<1>6. ASSUME NEW v \in Volume
      PROVE  B!Summaries(B!HelpersForVolume(v)) = BackupView!Summaries(BackupView!HelpersForVolume(v))
  <2>1. v # None
    BY NoneAssumption
  <2>2. /\ B!HelpersForVolume(v) = BackupView!HelpersForVolume(v)
        /\ \A c \in B!HelpersForVolume(v) : SeenByBackup[c] = conf[c]
    BY <1>1, <1>5, <2>1 DEF B!HelpersForVolume, BackupView!HelpersForVolume, B!Alive, Alive
  <2>. QED  BY <2>2 DEF B!Summaries, BackupView!Summaries
<1>7. {s \in B!Summaries(B!BackupHelpers) : B!IsManaged(s.conf)}
              = {s \in BackupView!Summaries(BackupView!BackupHelpers) : BackupView!IsManaged(s.conf)}
  <2>1. B!BackupHelpers = BackupView!BackupHelpers /\ \A c \in B!BackupHelpers : Alive(c) /\ c \in ContainerId
    BY <1>1, <1>5 DEF B!BackupHelpers, BackupView!BackupHelpers, B!Alive, Alive
  <2>2. \A c \in B!BackupHelpers :
          /\ B!IsManaged(conf[c]) <=> BackupView!IsManaged(SeenByBackup[c])
          /\ B!IsManaged(conf[c]) => SeenByBackup[c] = conf[c]
    BY <1>5, <2>1 DEF B!IsManaged, BackupView!IsManaged
  <2>. QED  BY <2>1, <2>2 DEF B!Summaries, BackupView!Summaries
<1>8. ASSUME NEW c \in ContainerId, NEW v \in Volume, NEW image, Alive(c)
      PROVE  B!HelperMatches(conf[c], v, image) <=> BackupView!HelperMatches(SeenByBackup[c], v, image)
  BY <1>5, <1>8, NoneAssumption, BackupWords DEF B!HelperMatches, BackupView!HelperMatches
<1>. QED  BY <1>1, <1>2, <1>3, <1>4, <1>6, <1>7, <1>8

(* So are the calls they make about a container,                           *)
LEMMA BackupSeesOwnCalls ==
  ASSUME BackupSees, NEW c \in ContainerId
  PROVE  /\ B!ContainerStart(c) => BackupView!ContainerStart(c)
         /\ B!ContainerRemove(c) => BackupView!ContainerRemove(c)
         /\ B!ContainerStartFails(c) => BackupView!ContainerStartFails(c)
         /\ \A cf \in OwnBackup : B!ContainerCreate(c, cf) => BackupView!ContainerCreate(c, cf)
         /\ B!Vanish(c) => BackupView!Vanish(c)
BY BackupSeesCalls, BackupCalls, BackupIsSeen DEF BackupSees, Own

(* the unmounting of a path,                                               *)
LEMMA BackupSeesUmount ==
  ASSUME BackupSees, NEW at, B!Umount(at)
  PROVE  BackupView!Umount(at)
BY SeenUnchanged DEF B!Umount, BackupView!Umount

(* and the removal of a helper.                                            *)
LEMMA RemoveIsSeen ==
  ASSUME BackupSees, NEW p, NEW v, NEW c \in ContainerId, B!RemoveAndGoOn(p, v, c)
  PROVE  BackupView!RemoveAndGoOn(p, v, c)
BY BackupMoves, BackupWords, BackupReads, BackupSeesOwnCalls
   DEF B!RemoveAndGoOn, BackupView!RemoveAndGoOn

(* A prepare takes the step of its own model.                              *)
LEMMA PrepareIsSeen ==
  ASSUME BackupSees, BackupSideInv, NEW p \in BackupProc, B!PrepareStep(p)
  PROVE  BackupView!PrepareStep(p)
<1>. backupJob[p] \in BackupJob /\ BackupInv(conf, backupJob[p]) /\ KeptByBackup[p] = backupJob[p]
  BY DEF BackupSees, BackupSideInv
<1>1. ASSUME NEW image \in Image, B!StartPrepare(p, image)
      PROVE  BackupView!StartPrepare(p, image)
  BY <1>1, BackupMoves, BackupWords, BackupReads DEF B!StartPrepare, BackupView!StartPrepare
<1>2. ASSUME B!VolumeList(p) PROVE BackupView!VolumeList(p)
  BY <1>2, BackupMoves, BackupWords, BackupReads DEF B!VolumeList, BackupView!VolumeList
<1>3. ASSUME NEW v \in backupJob[p].todo,
             \/ B!ListHelpers(p, v)
             \/ \E s \in backupJob[p].found : B!RemoveUnexpected(p, v, s) \/ B!Inspect(p, v, s)
             \/ B!Replace(p, v) \/ B!StartExisting(p, v)
             \/ \E c \in ContainerId : B!Create(p, v, c)
             \/ B!StartNew(p, v) \/ B!Rollback(p, v)
             \/ B!WaitSeen(p, v) \/ B!WaitExpired(p, v)
      PROVE  \/ BackupView!ListHelpers(p, v)
             \/ \E s \in backupJob[p].found : BackupView!RemoveUnexpected(p, v, s) \/ BackupView!Inspect(p, v, s)
             \/ BackupView!Replace(p, v) \/ BackupView!StartExisting(p, v)
             \/ \E c \in ContainerId : BackupView!Create(p, v, c)
             \/ BackupView!StartNew(p, v) \/ BackupView!Rollback(p, v)
             \/ BackupView!WaitSeen(p, v) \/ BackupView!WaitExpired(p, v)
  <2>. v \in B!VolumeSpecs /\ v \in Volume
    BY VolumesAssumption DEF BackupJob, B!VolumeSpecs
  <2>1. CASE B!ListHelpers(p, v)
    BY <2>1, BackupMoves, BackupWords, BackupReads DEF B!ListHelpers, BackupView!ListHelpers
  <2>2. ASSUME NEW s \in backupJob[p].found, B!RemoveUnexpected(p, v, s)
        PROVE  BackupView!RemoveUnexpected(p, v, s)
    <3>1. s.id \in ContainerId
      BY DEF BackupJob
    <3>. QED  BY <2>2, <3>1, BackupMoves, BackupWords, RemoveIsSeen
              DEF B!RemoveUnexpected, BackupView!RemoveUnexpected
  <2>3. ASSUME NEW s \in backupJob[p].found, B!Inspect(p, v, s)
        PROVE  BackupView!Inspect(p, v, s)
    <3>1. s.id \in ContainerId
      BY DEF BackupJob
    <3>2. B!Alive(s.id) => (B!HelperMatches(conf[s.id], v, backupJob[p].image)
                             <=> BackupView!HelperMatches(SeenByBackup[s.id], v, backupJob[p].image))
      BY <3>1, BackupReads DEF B!Alive, Alive
    <3>. QED  BY <2>3, <3>1, <3>2, BackupMoves, BackupWords, BackupReads
              DEF B!Inspect, BackupView!Inspect
  <2>4. CASE B!Replace(p, v)
    <3>1. backupJob[p].cur \in ContainerId
      BY <2>4 DEF B!Replace, B!At, BackupInv
    <3>. QED  BY <2>4, <3>1, BackupMoves, BackupWords, RemoveIsSeen DEF B!Replace, BackupView!Replace
  <2>5. CASE B!StartExisting(p, v)
    <3>1. backupJob[p].cur \in ContainerId
      BY <2>5 DEF B!StartExisting, B!At, BackupInv
    <3>. QED  BY <2>5, <3>1, BackupMoves, BackupWords, BackupReads, BackupSeesOwnCalls
              DEF B!StartExisting, BackupView!StartExisting
  <2>6. ASSUME NEW c \in ContainerId, B!Create(p, v, c)
        PROVE  BackupView!Create(p, v, c)
    <3>1. backupJob[p].image \in Image
      BY <2>6 DEF B!Create, B!At, BackupInv, B!Preparing
    <3>2. B!HelperOptions(v, backupJob[p].image) \in OwnBackup
      BY <3>1 DEF OwnBackup
    <3>. QED  BY <2>6, <3>2, BackupMoves, BackupWords, BackupReads, BackupSeesOwnCalls
              DEF B!Create, BackupView!Create
  <2>7. CASE B!StartNew(p, v)
    <3>1. backupJob[p].cur \in ContainerId
      BY <2>7 DEF B!StartNew, B!At, BackupInv
    <3>. QED  BY <2>7, <3>1, BackupMoves, BackupWords, BackupReads, BackupSeesOwnCalls
              DEF B!StartNew, BackupView!StartNew
  <2>8. CASE B!Rollback(p, v)
    <3>1. backupJob[p].cur \in ContainerId
      BY <2>8 DEF B!Rollback, B!At, BackupInv
    <3>. QED  BY <2>8, <3>1, BackupMoves, BackupWords, BackupReads, BackupSeesOwnCalls
              DEF B!Rollback, BackupView!Rollback
  <2>9. CASE B!WaitSeen(p, v)
    BY <2>9, BackupMoves, BackupWords, BackupReads DEF B!WaitSeen, BackupView!WaitSeen
  <2>10. CASE B!WaitExpired(p, v)
    BY <2>10, BackupMoves, BackupWords, BackupReads DEF B!WaitExpired, BackupView!WaitExpired
  <2>. QED  BY <1>3, <2>1, <2>2, <2>3, <2>4, <2>5, <2>6, <2>7, <2>8, <2>9, <2>10
<1>. QED  BY <1>1, <1>2, <1>3 DEF B!PrepareStep, BackupView!PrepareStep

(* So does a cleanup.                                                      *)
LEMMA CleanupIsSeen ==
  ASSUME BackupSees, BackupSideInv, NEW p \in BackupProc, B!CleanupStep(p)
  PROVE  BackupView!CleanupStep(p)
<1>. backupJob[p] \in BackupJob /\ KeptByBackup[p] = backupJob[p]
  BY DEF BackupSees, BackupSideInv
<1>1. ASSUME B!StartCleanup(p) PROVE BackupView!StartCleanup(p)
  BY <1>1, BackupMoves, BackupWords, BackupReads DEF B!StartCleanup, BackupView!StartCleanup
<1>2. ASSUME B!CleanupList(p) PROVE BackupView!CleanupList(p)
  BY <1>2, BackupMoves, BackupWords, BackupReads DEF B!CleanupList, BackupView!CleanupList
<1>3. ASSUME NEW s \in backupJob[p].found, B!RemoveHelper(p, s)
      PROVE  BackupView!RemoveHelper(p, s)
  <2>1. s.id \in ContainerId
    BY DEF BackupJob
  <2>. QED  BY <1>3, <2>1, BackupMoves, BackupWords, BackupReads, BackupSeesOwnCalls
            DEF B!RemoveHelper, BackupView!RemoveHelper
<1>4. ASSUME NEW f \in backupJob[p].targets, B!SkipBlocked(p, f) PROVE BackupView!SkipBlocked(p, f)
  BY <1>4, BackupMoves, BackupWords, BackupReads
     DEF B!SkipBlocked, BackupView!SkipBlocked, B!AtTarget, BackupView!AtTarget
<1>5. ASSUME NEW f \in backupJob[p].targets, B!CheckTarget(p, f) PROVE BackupView!CheckTarget(p, f)
  BY <1>5, BackupMoves, BackupWords, BackupReads
     DEF B!CheckTarget, BackupView!CheckTarget, B!AtTarget, BackupView!AtTarget
<1>6. ASSUME NEW f \in backupJob[p].targets, B!UmountTarget(p, f) PROVE BackupView!UmountTarget(p, f)
  BY <1>6, BackupMoves, BackupWords, BackupReads, BackupSeesUmount
     DEF B!UmountTarget, BackupView!UmountTarget
<1>7. ASSUME B!CleanupDone(p) PROVE BackupView!CleanupDone(p)
  BY <1>7, BackupMoves, BackupWords, BackupReads DEF B!CleanupDone, BackupView!CleanupDone
<1>. QED  BY <1>1, <1>2, <1>3, <1>4, <1>5, <1>6, <1>7 DEF B!CleanupStep, BackupView!CleanupStep

(* So does a process that is killed.                                       *)
LEMMA BackupCrashIsSeen ==
  ASSUME BackupSees, NEW p \in BackupProc, B!Crash(p)
  PROVE  BackupView!Crash(p)
<1>1. KeptByBackup[p] = backupJob[p]
  BY DEF BackupSees
<1>. QED  BY <1>1, BackupMoves, BackupWords, BackupReads DEF B!Crash, BackupView!Crash

-------------------------------------------------------------------------------
(* The restore side sees its own steps in the same way.                    *)

(* The view of the restore side has the words of the composition.          *)
LEMMA RestoreWords ==
  /\ RestoreView!Resting = R!Resting /\ RestoreView!Restoring = R!Restoring /\ RestoreView!Idle = R!Idle
  /\ \A j : RestoreView!HelperOptions(j) = R!HelperOptions(j)
  /\ \A j : RestoreView!CheckOptions(j) = R!CheckOptions(j)
  /\ \A f : RestoreView!RestoreAt(f) = R!RestoreAt(f) /\ RestoreView!CleanupAt(f) = R!CleanupAt(f)
  /\ \A cf : RestoreView!TargetKey(cf) = R!TargetKey(cf)
  /\ \A key : RestoreView!KeyName(key) = R!KeyName(key)
  /\ \A cf, k : RestoreView!IsManaged(cf, k) <=> R!IsManaged(cf, k)
  /\ \A cf, j : RestoreView!HelperMatches(cf, j) <=> R!HelperMatches(cf, j)
  /\ \A trouble : R!May(trouble) => RestoreView!May(trouble)
BY DEF RestoreView!Resting, R!Resting, RestoreView!Restoring, R!Restoring, RestoreView!Idle, R!Idle,
       RestoreView!Checking, R!Checking, RestoreView!Mounting, R!Mounting,
       RestoreView!HelperOptions, R!HelperOptions, RestoreView!CheckOptions, R!CheckOptions,
       RestoreView!RestoreAt, R!RestoreAt, RestoreView!CleanupAt, R!CleanupAt,
       RestoreView!TargetKey, R!TargetKey, RestoreView!KeyName, R!KeyName,
       RestoreView!IsManaged, R!IsManaged, RestoreView!InSession, R!InSession,
       RestoreView!HelperMatches, R!HelperMatches, RestoreView!May, R!May, AnyTrouble

(* A move of a process in the composition is the same move in the view.    *)
LEMMA RestoreMoves ==
  ASSUME NEW p
  PROVE  /\ \A label : R!At(p, label) <=> RestoreView!At(p, label)
         /\ \A j : R!Become(p, j) <=> RestoreView!Become(p, j)
         /\ \A label : R!Goto(p, label) <=> RestoreView!Goto(p, label)
         /\ R!Fail(p) <=> RestoreView!Fail(p)
         /\ \A c : R!NextHelper(p, c) <=> RestoreView!NextHelper(p, c)
         /\ \A key, failed : R!NextTarget(p, key, failed) <=> RestoreView!NextTarget(p, key, failed)
         /\ \A s : \A failed \in BOOLEAN : R!Removed(p, s, failed) => RestoreView!Removed(p, s, failed)
         /\ R!TargetReady(p) <=> RestoreView!TargetReady(p)
         /\ R!Headroom <=> RestoreView!Headroom
<1>1. \A label : R!At(p, label) <=> RestoreView!At(p, label)
  BY DEF R!At, RestoreView!At
<1>2. \A j : R!Become(p, j) <=> RestoreView!Become(p, j)
  BY DEF R!Become, RestoreView!Become
<1>3. \A label : R!Goto(p, label) <=> RestoreView!Goto(p, label)
  BY <1>2 DEF R!Goto, RestoreView!Goto
<1>4. R!Fail(p) <=> RestoreView!Fail(p)
  BY <1>2 DEF R!Fail, RestoreView!Fail, R!Idle, RestoreView!Idle
<1>5. \A c : R!NextHelper(p, c) <=> RestoreView!NextHelper(p, c)
  BY <1>2 DEF R!NextHelper, RestoreView!NextHelper
<1>6. \A key, failed : R!NextTarget(p, key, failed) <=> RestoreView!NextTarget(p, key, failed)
  BY <1>2 DEF R!NextTarget, RestoreView!NextTarget
<1>7. \A s : \A failed \in BOOLEAN : R!Removed(p, s, failed) => RestoreView!Removed(p, s, failed)
  <2>. SUFFICES ASSUME NEW s, NEW failed \in BOOLEAN, R!Removed(p, s, failed)
                PROVE  RestoreView!Removed(p, s, failed)
    OBVIOUS
  <2>1. RestoreView!TargetKey(s.conf) = R!TargetKey(s.conf)
    BY RestoreWords
  <2>2. CASE failed
    BY <2>1, <2>2 DEF R!Removed, RestoreView!Removed, R!Become, RestoreView!Become
  <2>3. CASE ~failed
    BY <2>1, <2>3 DEF R!Removed, RestoreView!Removed, R!Become, RestoreView!Become
  <2>. QED  BY <2>2, <2>3
<1>8. R!TargetReady(p) <=> RestoreView!TargetReady(p)
  BY <1>3 DEF R!TargetReady, RestoreView!TargetReady
<1>9. R!Headroom <=> RestoreView!Headroom
  <2>1. {q \in RestoreProc : restoreJob[q].pc \in R!Restoring}
          = {q \in RestoreProc : restoreJob[q].pc \in RestoreView!Restoring}
    BY RestoreWords
  <2>. QED  BY <2>1, RestoreWords, SameCount DEF R!Headroom, RestoreView!Headroom
<1>. QED  BY <1>1, <1>2, <1>3, <1>4, <1>5, <1>6, <1>7, <1>8, <1>9

(* What a restore and a restore-cleanup read of the daemon is the same in  *)
(* the view.                                                               *)
LEMMA RestoreReads ==
  ASSUME HostInv
  PROVE  /\ \A c \in ContainerId : R!Alive(c) <=> RestoreView!Alive(c)
         /\ \A c \in ContainerId : R!Fresh(c) => RestoreView!Fresh(c)
         /\ \A name : R!NameTaken(name) <=> RestoreView!NameTaken(name)
         /\ UNCHANGED R!host => UNCHANGED RestoreView!host
         /\ \A k : R!Summaries(R!SessionContainers(k)) = RestoreView!Summaries(RestoreView!SessionContainers(k))
         /\ \A c \in ContainerId : \A j :
              Alive(c) => (R!HelperMatches(conf[c], j) <=> RestoreView!HelperMatches(SeenByRestore[c], j))
<1>1. \A c \in ContainerId : R!Alive(c) <=> RestoreView!Alive(c)
  BY SeenContainers DEF R!Alive, Alive
<1>2. \A c \in ContainerId : R!Fresh(c) => RestoreView!Fresh(c)
  BY <1>1 DEF R!Fresh, RestoreView!Fresh
<1>3. \A name : R!NameTaken(name) <=> RestoreView!NameTaken(name)
  BY <1>1, SeenContainers DEF R!NameTaken, RestoreView!NameTaken, R!Alive, Alive
<1>4. UNCHANGED R!host => UNCHANGED RestoreView!host
  BY SeenUnchanged DEF R!host, RestoreView!host
<1>5. ASSUME NEW c \in ContainerId, Alive(c)
      PROVE  \/ conf[c].mode = "restore" /\ SeenByRestore[c] = conf[c]
             \/ conf[c].mode = "backup" /\ SeenByRestore[c].mode = "backup"
  <2>1. conf[c] \in Own /\ SeenByRestore[c] = AsRestoreSees(conf[c])
    BY <1>5, SeenContainers
  <2>. QED  BY <2>1, BackupIsSeen, RestoreIsSeen DEF Own
<1>6. ASSUME NEW k
      PROVE  R!Summaries(R!SessionContainers(k)) = RestoreView!Summaries(RestoreView!SessionContainers(k))
  <2>1. /\ R!SessionContainers(k) = RestoreView!SessionContainers(k)
        /\ \A c \in R!SessionContainers(k) : SeenByRestore[c] = conf[c]
    BY <1>1, <1>5 DEF R!SessionContainers, RestoreView!SessionContainers, R!Alive, Alive,
                      R!InSession, RestoreView!InSession
  <2>. QED  BY <2>1 DEF R!Summaries, RestoreView!Summaries
<1>7. ASSUME NEW c \in ContainerId, NEW j, Alive(c)
      PROVE  R!HelperMatches(conf[c], j) <=> RestoreView!HelperMatches(SeenByRestore[c], j)
  <2>1. R!HelperOptions(j).mode = "restore" /\ RestoreView!HelperOptions(j) = R!HelperOptions(j)
    BY RestoreWords DEF R!HelperOptions
  <2>. QED  BY <1>5, <1>7, <2>1 DEF R!HelperMatches, RestoreView!HelperMatches
<1>. QED  BY <1>1, <1>2, <1>3, <1>4, <1>6, <1>7

(* So are the calls they make about a container,                           *)
LEMMA RestoreSeesOwnCalls ==
  ASSUME HostInv, NEW c \in ContainerId
  PROVE  /\ R!ContainerStart(c) => RestoreView!ContainerStart(c)
         /\ R!ContainerRemove(c) => RestoreView!ContainerRemove(c)
         /\ R!ContainerStartFails(c) => RestoreView!ContainerStartFails(c)
         /\ \A cf \in OwnRestore : R!ContainerCreate(c, cf) => RestoreView!ContainerCreate(c, cf)
<1>1. ASSUME NEW cf \in OwnRestore, R!ContainerCreate(c, cf) PROVE RestoreView!ContainerCreate(c, cf)
  <2>1. ContainerCreate(c, cf) /\ AsRestoreSees(cf) = cf /\ cf \in Own
    BY <1>1, RestoreCalls, RestoreIsSeen DEF Own
  <2>. QED  BY <2>1, RestoreSeesCalls
<1>. QED  BY <1>1, RestoreSeesCalls, RestoreCalls

(* the unmounting of a path,                                               *)
LEMMA RestoreSeesUmount ==
  ASSUME NEW at, R!Umount(at)
  PROVE  RestoreView!Umount(at)
BY SeenUnchanged DEF R!Umount, RestoreView!Umount

(* and the removal of a container.                                         *)
LEMMA RestoreRemoveIsSeen ==
  ASSUME HostInv, NEW p, NEW c \in ContainerId, R!RemoveAndGoOn(p, c)
  PROVE  RestoreView!RemoveAndGoOn(p, c)
BY RestoreMoves, RestoreWords, RestoreReads, RestoreSeesOwnCalls
   DEF R!RemoveAndGoOn, RestoreView!RemoveAndGoOn

(* What the containers of a session are created with is the side's own.    *)
LEMMA RestoreCreates ==
  ASSUME NEW j \in RestoreJob, RestoreInv(conf, j), j.pc \in R!Restoring \ {"source"}
  PROVE  R!CheckOptions(j) \in OwnChecks /\ R!HelperOptions(j) \in OwnHelpers
<1>1. j.source \in Sources /\ j.target \in Targets /\ j.session \in Session /\ j.image \in Image
      /\ FriendlyName[j.source] # None
  BY DEF RestoreInv
<1>. DEFINE a == [session |-> j.session, source |-> j.source, target |-> j.target, image |-> j.image]
<1>2. a \in Asked
  BY <1>1 DEF Asked, Exposed
<1>3. R!CheckOptions(a) = R!CheckOptions(j) /\ R!HelperOptions(a) = R!HelperOptions(j)
  BY DEF R!CheckOptions, R!HelperOptions
<1>. HIDE DEF a
<1>. QED  BY <1>2, <1>3 DEF OwnChecks, OwnHelpers

(* A restore takes the step of its own model.                              *)
LEMMA RestoreStepIsSeen ==
  ASSUME HostInv, RestoreSideInv, NEW p \in RestoreProc, R!RestoreStep(p)
  PROVE  RestoreView!RestoreStep(p)
<1>. restoreJob[p] \in RestoreJob /\ RestoreInv(conf, restoreJob[p])
  BY DEF RestoreSideInv
<1>1. ASSUME NEW s \in Sources, NEW t \in Targets, NEW k \in Session, NEW image \in Image,
             NEW force \in BOOLEAN, NEW same \in BOOLEAN, R!StartRestore(p, s, t, k, image, force, same)
      PROVE  RestoreView!StartRestore(p, s, t, k, image, force, same)
  BY <1>1, RestoreMoves, RestoreWords, RestoreReads DEF R!StartRestore, RestoreView!StartRestore
<1>2. R!InspectSource(p) => RestoreView!InspectSource(p)
  BY RestoreMoves, RestoreWords, RestoreReads DEF R!InspectSource, RestoreView!InspectSource
<1>3. R!InspectTarget(p) => RestoreView!InspectTarget(p)
  BY RestoreMoves, RestoreWords, RestoreReads DEF R!InspectTarget, RestoreView!InspectTarget
<1>4. R!CreateTarget(p) => RestoreView!CreateTarget(p)
  BY RestoreMoves, RestoreWords, RestoreReads DEF R!CreateTarget, RestoreView!CreateTarget
<1>5. ASSUME NEW c \in ContainerId, R!CheckCreate(p, c) PROVE RestoreView!CheckCreate(p, c)
  <2>1. R!CheckOptions(restoreJob[p]) \in OwnRestore
    BY <1>5, RestoreCreates DEF R!CheckCreate, R!At, R!Restoring, R!Checking, OwnRestore
  <2>. QED  BY <1>5, <2>1, RestoreMoves, RestoreWords, RestoreReads, RestoreSeesOwnCalls
            DEF R!CheckCreate, RestoreView!CheckCreate
<1>6. ASSUME NEW c \in ContainerId, R!Create(p, c) PROVE RestoreView!Create(p, c)
  <2>1. R!HelperOptions(restoreJob[p]) \in OwnRestore
    BY <1>6, RestoreCreates DEF R!Create, R!At, R!Restoring, R!Mounting, OwnRestore
  <2>. QED  BY <1>6, <2>1, RestoreMoves, RestoreWords, RestoreReads, RestoreSeesOwnCalls
            DEF R!Create, RestoreView!Create
<1>7. ASSUME R!CheckStart(p) PROVE RestoreView!CheckStart(p)
  <2>1. restoreJob[p].cur \in ContainerId
    BY <1>7 DEF R!CheckStart, R!At, RestoreInv
  <2>. QED  BY <1>7, <2>1, RestoreMoves, RestoreWords, RestoreReads, RestoreSeesOwnCalls
            DEF R!CheckStart, RestoreView!CheckStart
<1>8. ASSUME R!CheckWait(p) PROVE RestoreView!CheckWait(p)
  <2>1. restoreJob[p].cur \in ContainerId
    BY <1>8 DEF R!CheckWait, R!At, RestoreInv
  <2>. QED  BY <1>8, <2>1, RestoreMoves, RestoreWords, RestoreReads
            DEF R!CheckWait, RestoreView!CheckWait
<1>9. ASSUME R!CheckDrop(p) PROVE RestoreView!CheckDrop(p)
  <2>1. restoreJob[p].cur \in ContainerId
    BY <1>9 DEF R!CheckDrop, R!At, RestoreInv
  <2>. QED  BY <1>9, <2>1, RestoreMoves, RestoreWords, RestoreReads, RestoreSeesOwnCalls
            DEF R!CheckDrop, RestoreView!CheckDrop
<1>10. R!ListHelpers(p) => RestoreView!ListHelpers(p)
  BY RestoreMoves, RestoreWords, RestoreReads DEF R!ListHelpers, RestoreView!ListHelpers
<1>11. ASSUME NEW s \in restoreJob[p].found, R!RemoveUnexpected(p, s) PROVE RestoreView!RemoveUnexpected(p, s)
  <2>1. s.id \in ContainerId
    BY DEF RestoreJob
  <2>. QED  BY <1>11, <2>1, RestoreMoves, RestoreWords, RestoreRemoveIsSeen
            DEF R!RemoveUnexpected, RestoreView!RemoveUnexpected
<1>12. ASSUME NEW s \in restoreJob[p].found, R!Inspect(p, s) PROVE RestoreView!Inspect(p, s)
  <2>1. s.id \in ContainerId
    BY DEF RestoreJob
  <2>2. R!Alive(s.id) => (R!HelperMatches(conf[s.id], restoreJob[p])
                            <=> RestoreView!HelperMatches(SeenByRestore[s.id], restoreJob[p]))
    BY <2>1, RestoreReads DEF R!Alive, Alive
  <2>. QED  BY <1>12, <2>1, <2>2, RestoreMoves, RestoreWords, RestoreReads
            DEF R!Inspect, RestoreView!Inspect
<1>13. ASSUME R!Replace(p) PROVE RestoreView!Replace(p)
  <2>1. restoreJob[p].cur \in ContainerId
    BY <1>13 DEF R!Replace, R!At, RestoreInv
  <2>. QED  BY <1>13, <2>1, RestoreMoves, RestoreRemoveIsSeen DEF R!Replace, RestoreView!Replace
<1>14. ASSUME R!StartExisting(p) PROVE RestoreView!StartExisting(p)
  <2>1. restoreJob[p].cur \in ContainerId
    BY <1>14 DEF R!StartExisting, R!At, RestoreInv
  <2>. QED  BY <1>14, <2>1, RestoreMoves, RestoreWords, RestoreReads, RestoreSeesOwnCalls
            DEF R!StartExisting, RestoreView!StartExisting
<1>15. ASSUME R!StartNew(p) PROVE RestoreView!StartNew(p)
  <2>1. restoreJob[p].cur \in ContainerId
    BY <1>15 DEF R!StartNew, R!At, RestoreInv
  <2>. QED  BY <1>15, <2>1, RestoreMoves, RestoreWords, RestoreReads, RestoreSeesOwnCalls
            DEF R!StartNew, RestoreView!StartNew
<1>16. ASSUME R!Rollback(p) PROVE RestoreView!Rollback(p)
  <2>1. restoreJob[p].cur \in ContainerId
    BY <1>16 DEF R!Rollback, R!At, RestoreInv
  <2>. QED  BY <1>16, <2>1, RestoreMoves, RestoreWords, RestoreReads, RestoreSeesOwnCalls
            DEF R!Rollback, RestoreView!Rollback
<1>17. R!Wait(p) => RestoreView!Wait(p)
  BY RestoreMoves, RestoreWords, RestoreReads DEF R!Wait, RestoreView!Wait
<1>. QED  BY <1>1, <1>2, <1>3, <1>4, <1>5, <1>6, <1>7, <1>8, <1>9, <1>10, <1>11, <1>12, <1>13, <1>14,
             <1>15, <1>16, <1>17 DEF R!RestoreStep, RestoreView!RestoreStep

(* So does a restore-cleanup.                                              *)
LEMMA RestoreCleanupIsSeen ==
  ASSUME HostInv, RestoreSideInv, NEW p \in RestoreProc, R!CleanupStep(p)
  PROVE  RestoreView!CleanupStep(p)
<1>. restoreJob[p] \in RestoreJob
  BY DEF RestoreSideInv
<1>1. ASSUME NEW k \in Session \union {None}, R!StartCleanup(p, k) PROVE RestoreView!StartCleanup(p, k)
  BY <1>1, RestoreMoves, RestoreWords, RestoreReads DEF R!StartCleanup, RestoreView!StartCleanup
<1>2. R!CleanupList(p) => RestoreView!CleanupList(p)
  <2>. DEFINE k == restoreJob[p].session
              S == R!Summaries(R!SessionContainers(k))
              T == RestoreView!Summaries(RestoreView!SessionContainers(k))
  <2>1. S = T
    BY RestoreReads
  <2>. HIDE DEF S, T
  <2>2. {s \in S : R!IsManaged(s.conf, k)} = {s \in T : RestoreView!IsManaged(s.conf, k)}
    BY <2>1, RestoreWords
  <2>3. \A H : {R!TargetKey(s.conf) : s \in H} = {RestoreView!TargetKey(s.conf) : s \in H}
    BY RestoreWords
  <2>. QED  BY <2>2, <2>3, RestoreMoves, RestoreWords, RestoreReads
            DEF R!CleanupList, RestoreView!CleanupList, S, T
<1>3. ASSUME NEW s \in restoreJob[p].found, R!RemoveHelper(p, s) PROVE RestoreView!RemoveHelper(p, s)
  <2>1. s.id \in ContainerId
    BY DEF RestoreJob
  <2>. QED  BY <1>3, <2>1, RestoreMoves, RestoreWords, RestoreReads, RestoreSeesOwnCalls
            DEF R!RemoveHelper, RestoreView!RemoveHelper
<1>4. ASSUME NEW key \in restoreJob[p].targets, R!SkipBlocked(p, key) PROVE RestoreView!SkipBlocked(p, key)
  BY <1>4, RestoreMoves, RestoreWords, RestoreReads DEF R!SkipBlocked, RestoreView!SkipBlocked
<1>5. ASSUME NEW key \in restoreJob[p].targets, R!CheckTarget(p, key) PROVE RestoreView!CheckTarget(p, key)
  BY <1>5, RestoreMoves, RestoreWords, RestoreReads DEF R!CheckTarget, RestoreView!CheckTarget
<1>6. R!UmountTarget(p) => RestoreView!UmountTarget(p)
  BY RestoreMoves, RestoreWords, RestoreReads, RestoreSeesUmount DEF R!UmountTarget, RestoreView!UmountTarget
<1>7. R!CleanupDone(p) => RestoreView!CleanupDone(p)
  BY RestoreMoves, RestoreWords, RestoreReads DEF R!CleanupDone, RestoreView!CleanupDone
<1>. QED  BY <1>1, <1>2, <1>3, <1>4, <1>5, <1>6, <1>7 DEF R!CleanupStep, RestoreView!CleanupStep

(* So do the container of an empty check that exits and a process that is  *)
(* killed.                                                                 *)
LEMMA RestoreOthersSeen ==
  ASSUME HostInv, NEW p \in RestoreProc
  PROVE  /\ R!CheckExit(p) => RestoreView!CheckExit(p)
         /\ R!Crash(p) => RestoreView!Crash(p)
<1>1. ASSUME R!CheckExit(p) PROVE RestoreView!CheckExit(p)
  <2>1. UNCHANGED SeenByRestore
    BY <1>1, SeenUnchanged DEF R!CheckExit
  <2>2. PICK shown \in BOOLEAN :
          /\ shown = (content[restoreJob[p].target] = "data") \/ (~shown /\ R!May("find"))
          /\ R!Become(p, [restoreJob[p] EXCEPT !.exit = IF shown THEN "nonzero" ELSE "zero",
                                              !.sawEmpty = ~shown])
    BY <1>1 DEF R!CheckExit
  <2>3. /\ shown = (content[restoreJob[p].target] = "data") \/ (~shown /\ RestoreView!May("find"))
        /\ RestoreView!Become(p, [restoreJob[p] EXCEPT !.exit = IF shown THEN "nonzero" ELSE "zero",
                                                      !.sawEmpty = ~shown])
    BY <2>2, RestoreMoves, RestoreWords
  <2>. QED  BY <1>1, <2>1, <2>3, RestoreMoves DEF R!CheckExit, RestoreView!CheckExit
<1>2. R!Crash(p) => RestoreView!Crash(p)
  BY RestoreMoves, RestoreWords, RestoreReads DEF R!Crash, RestoreView!Crash
<1>. QED  BY <1>1, <1>2

-------------------------------------------------------------------------------
(* What a step of the backup side does: its process keeps its invariant,   *)
(* and it either leaves the layers alone, or starts a helper of its own    *)
(* and is through with that volume, or begins where there is room.         *)

BackupQuiet(j, n) == \A f \in Name : BackupAhead(n, f) => BackupAhead(j, f)

BackupLeaves(j, n, f) == BackupAhead(j, f) /\ ~BackupAhead(n, f)

BackupEffect(p, n) ==
  /\ n \in BackupJob /\ BackupInv(conf', n)
  /\ backupJob' = [backupJob EXCEPT ![p] = n]
  /\ \/ Calm(OwnBackup) /\ BackupQuiet(backupJob[p], n)
     \/ \E c \in ContainerId, f \in Name :
          /\ conf[c] \in OwnBackup /\ conf[c].at = <<"backup", f>> /\ Starting(c)
          /\ BackupQuiet(backupJob[p], n) /\ BackupLeaves(backupJob[p], n, f)
     \/ UNCHANGED host /\ B!Headroom

(* A set of volumes has one first.                                         *)
LEMMA OneIsFirst ==
  ASSUME NEW S \in SUBSET Nat, NEW x, NEW y, B!IsFirst(x, S), B!IsFirst(y, S)
  PROVE  x = y
BY DEF B!IsFirst

(* A prepare that keeps to its volume, or comes from one that has its      *)
(* layer, has no more layers ahead of it.                                  *)
LEMMA QuietMove ==
  ASSUME NEW j \in BackupJob, NEW n \in BackupJob,
         j.pc \in B!Preparing, n.pc # "volumes", n.todo \subseteq j.todo,
         j.pc \in {"wait", "rollback"} => \E v \in j.todo : B!IsFirst(v, j.todo) /\ v \notin n.todo
  PROVE  BackupQuiet(j, n)
<1>. SUFFICES ASSUME NEW f \in Name, BackupAhead(n, f), j.pc # "volumes" PROVE BackupAhead(j, f)
  BY DEF BackupQuiet, BackupAhead
<1>1. PICK w \in n.todo : FriendlyName[w] = f
  BY DEF BackupAhead
<1>2. w \in j.todo /\ j.todo \subseteq Nat
  BY NumbersAssumption, VolumesAssumption DEF BackupJob, B!VolumeSpecs
<1>3. B!IsFirst(w, j.todo) => j.pc \notin {"wait", "rollback"}
  BY <1>2, OneIsFirst
<1>. QED  BY <1>1, <1>2, <1>3 DEF BackupAhead

(* A prepare that has made the layer of its volume, or gives the volume    *)
(* up, has that layer no longer ahead of it.                               *)
LEMMA LeavingMove ==
  ASSUME NEW j \in BackupJob, NEW n \in BackupJob, NEW v \in j.todo, B!IsFirst(v, j.todo),
         j.pc \in B!Preparing \ {"wait", "rollback", "volumes"}, n.pc # "volumes",
         \/ n.todo = j.todo /\ n.pc \in {"wait", "rollback"}
         \/ n.todo = j.todo \ {v}
  PROVE  BackupLeaves(j, n, FriendlyName[v])
<1>1. BackupAhead(j, FriendlyName[v])
  BY DEF BackupAhead
<1>2. ASSUME NEW w \in n.todo, FriendlyName[w] = FriendlyName[v] PROVE w = v
  <2>1. v \in B!VolumeSpecs /\ w \in B!VolumeSpecs /\ v \in Nat /\ w \in Nat
    BY NumbersAssumption, VolumesAssumption DEF BackupJob, B!VolumeSpecs
  <2>. QED  BY <1>2, <2>1 DEF B!VolumeSpecs
<1>3. ~BackupAhead(n, FriendlyName[v])
  BY <1>2 DEF BackupAhead
<1>. QED  BY <1>1, <1>3 DEF BackupLeaves

(* The moves of a process, by what they leave of its local state.          *)
LEMMA BackupMove ==
  ASSUME backupJob \in [BackupProc -> BackupJob], NEW p \in BackupProc, NEW n, B!Become(p, n)
  PROVE  backupJob' = [backupJob EXCEPT ![p] = n] /\ backupJob'[p] = n
BY DEF B!Become

(* The move to another call leaves the rest alone.                         *)
LEMMA BackupGoto ==
  ASSUME backupJob \in [BackupProc -> BackupJob], NEW p \in BackupProc,
         NEW label \in B!Resting \union B!Preparing \union B!Cleaning, B!Goto(p, label)
  PROVE  \E n \in BackupJob : /\ backupJob' = [backupJob EXCEPT ![p] = n]
                              /\ n.pc = label /\ n.todo = backupJob[p].todo
                              /\ n.cur = backupJob[p].cur /\ n.image = backupJob[p].image
<1>. DEFINE n == [backupJob[p] EXCEPT !.pc = label]
<1>1. backupJob[p] \in BackupJob /\ backupJob' = [backupJob EXCEPT ![p] = n]
  BY DEF B!Goto, B!Become
<1>2. n \in BackupJob /\ n.pc = label /\ n.todo = backupJob[p].todo
      /\ n.cur = backupJob[p].cur /\ n.image = backupJob[p].image
  BY <1>1 DEF BackupJob
<1>. HIDE DEF n
<1>. QED  BY <1>1, <1>2

(* The move to the next volume gives one up.                               *)
LEMMA BackupNextVolume ==
  ASSUME backupJob \in [BackupProc -> BackupJob], NEW p \in BackupProc,
         NEW v, NEW failed \in BOOLEAN, B!NextVolume(p, v, failed)
  PROVE  \E n \in BackupJob : /\ backupJob' = [backupJob EXCEPT ![p] = n]
                              /\ n.pc \in {"prepared", "list"} /\ n.todo = backupJob[p].todo \ {v}
                              /\ n.image = backupJob[p].image
<1>. DEFINE j == backupJob[p]
            n == [j EXCEPT !.pc = IF j.todo \ {v} = {} THEN "prepared" ELSE "list",
                           !.todo = j.todo \ {v}, !.found = {}, !.cur = None, !.errs = @ \/ failed]
<1>1. j \in BackupJob
  OBVIOUS
<1>2. backupJob' = [backupJob EXCEPT ![p] = n]
  BY DEF B!NextVolume, B!Become
<1>3. (j.errs \/ failed) \in BOOLEAN
  OBVIOUS
<1>4. \A e \in BOOLEAN : \A pc \in {"prepared", "list"} :
        [j EXCEPT !.pc = pc, !.todo = j.todo \ {v}, !.found = {}, !.cur = None, !.errs = e] \in BackupJob
  BY <1>1 DEF BackupJob, B!Resting, B!Preparing
<1>5. n \in BackupJob
  BY <1>3, <1>4
<1>6. n.pc \in {"prepared", "list"} /\ n.todo = j.todo \ {v} /\ n.image = j.image
  BY <1>1 DEF BackupJob
<1>. HIDE DEF n
<1>. QED  BY <1>2, <1>5, <1>6

(* The move to the next helper gives one up.                               *)
LEMMA BackupNextHelper ==
  ASSUME backupJob \in [BackupProc -> BackupJob], NEW p \in BackupProc,
         NEW c, B!NextHelper(p, c)
  PROVE  \E n \in BackupJob : /\ backupJob' = [backupJob EXCEPT ![p] = n]
                              /\ n.pc = "scan" /\ n.todo = backupJob[p].todo
                              /\ n.image = backupJob[p].image
<1>. DEFINE n == [backupJob[p] EXCEPT !.pc = "scan", !.cur = None, !.found = {s \in @ : s.id # c}]
<1>1. backupJob[p] \in BackupJob /\ backupJob' = [backupJob EXCEPT ![p] = n]
  BY DEF B!NextHelper, B!Become
<1>2. n \in BackupJob /\ n.pc = "scan" /\ n.todo = backupJob[p].todo /\ n.image = backupJob[p].image
  BY <1>1 DEF BackupJob, B!Preparing
<1>. HIDE DEF n
<1>. QED  BY <1>1, <1>2

(* A container created under a new identifier is one that nobody holds.    *)
LEMMA NewForBoth ==
  ASSUME HostInv, NewIdentifiers, NEW c \in ContainerId, NEW cf \in Own, ContainerCreate(c, cf)
  PROVE  B!Fresh(c) /\ R!Fresh(c) /\ conf' = [conf EXCEPT ![c] = cf] /\ conf'[c] = cf
<1>1. conf[c] = None /\ conf'[c] = cf /\ cf # None
  BY BackupIsSeen, RestoreIsSeen DEF ContainerCreate, HostInv, HostType, Alive, Own
<1>. QED  BY <1>1 DEF NewIdentifiers, ContainerCreate

(* The removal of a container makes no layer.                              *)
LEMMA BackupRemoveEffect ==
  ASSUME HostInv, BackupSideInv, NEW p \in BackupProc, NEW c \in ContainerId,
         NEW v \in backupJob[p].todo, B!IsFirst(v, backupJob[p].todo),
         backupJob[p].pc \in {"scan", "replace"}, B!RemoveAndGoOn(p, v, c)
  PROVE  \E n : BackupEffect(p, n)
<1>. backupJob \in [BackupProc -> BackupJob] /\ backupJob[p] \in BackupJob
     /\ BackupInv(conf, backupJob[p]) /\ backupJob[p].pc \in B!Preparing
  BY DEF BackupSideInv, B!Preparing
<1>1. Calm(OwnBackup)
  BY BackupCalls DEF B!RemoveAndGoOn, ContainerRemove, Calm, B!host, host
<1>2. CASE B!NextHelper(p, c)
  <2>1. PICK n \in BackupJob : /\ backupJob' = [backupJob EXCEPT ![p] = n]
                               /\ n.pc = "scan" /\ n.todo = backupJob[p].todo
                               /\ n.image = backupJob[p].image
    BY <1>2, BackupNextHelper
  <2>2. BackupInv(conf', n)
    BY <2>1 DEF BackupInv
  <2>3. BackupQuiet(backupJob[p], n)
    BY <2>1, QuietMove
  <2>. QED  BY <1>1, <2>1, <2>2, <2>3 DEF BackupEffect
<1>3. CASE B!NextVolume(p, v, TRUE)
  <2>1. PICK n \in BackupJob : /\ backupJob' = [backupJob EXCEPT ![p] = n]
                               /\ n.pc \in {"prepared", "list"} /\ n.todo = backupJob[p].todo \ {v}
                               /\ n.image = backupJob[p].image
    BY <1>3, BackupNextVolume
  <2>2. BackupInv(conf', n)
    BY <2>1 DEF BackupInv
  <2>3. BackupQuiet(backupJob[p], n)
    BY <2>1, QuietMove
  <2>. QED  BY <1>1, <2>1, <2>2, <2>3 DEF BackupEffect
<1>. QED  BY <1>2, <1>3 DEF B!RemoveAndGoOn

(* The steps that go on to the next volume without touching the layers.    *)
LEMMA BackupGivesUp ==
  ASSUME HostInv, BackupSideInv, NEW p \in BackupProc,
         NEW v \in backupJob[p].todo, B!IsFirst(v, backupJob[p].todo),
         backupJob[p].pc \in B!Preparing, Calm(OwnBackup),
         NEW failed \in BOOLEAN, B!NextVolume(p, v, failed)
  PROVE  \E n : BackupEffect(p, n)
<1>. backupJob \in [BackupProc -> BackupJob] /\ backupJob[p] \in BackupJob
     /\ BackupInv(conf, backupJob[p])
  BY DEF BackupSideInv
<1>1. PICK n \in BackupJob : /\ backupJob' = [backupJob EXCEPT ![p] = n]
                             /\ n.pc \in {"prepared", "list"} /\ n.todo = backupJob[p].todo \ {v}
                             /\ n.image = backupJob[p].image
  BY BackupNextVolume
<1>2. BackupInv(conf', n)
  BY <1>1 DEF BackupInv
<1>3. BackupQuiet(backupJob[p], n)
  BY <1>1, QuietMove
<1>. QED  BY <1>1, <1>2, <1>3 DEF BackupEffect

(* Listing the helpers of a volume makes no layer.                         *)
LEMMA BackupListEffect ==
  ASSUME HostInv, BackupSideInv, NEW p \in BackupProc,
         NEW v \in backupJob[p].todo, B!ListHelpers(p, v)
  PROVE  \E n : BackupEffect(p, n)
<1>. backupJob \in [BackupProc -> BackupJob] /\ backupJob[p] \in BackupJob
     /\ BackupInv(conf, backupJob[p]) /\ backupJob[p].pc = "list" /\ "list" \in B!Preparing
     /\ B!IsFirst(v, backupJob[p].todo)
  BY DEF BackupSideInv, B!ListHelpers, B!At, B!Preparing
<1>1. Calm(OwnBackup)
  BY DEF Calm, B!host, host, B!ListHelpers
<1>2. CASE B!Become(p, [backupJob[p] EXCEPT !.pc = "scan", !.found = B!Summaries(B!HelpersForVolume(v))])
  <2>. DEFINE F == B!Summaries(B!HelpersForVolume(v))
              n == [backupJob[p] EXCEPT !.pc = "scan", !.found = F]
  <2>1. F \in SUBSET [id : ContainerId, conf : OwnBackup]
    <3>1. ASSUME NEW c \in ContainerId, Alive(c), conf[c].volume = v PROVE conf[c] \in OwnBackup
      <4>1. v # None
        BY NoneAssumption, VolumesAssumption DEF BackupJob, B!VolumeSpecs
      <4>2. conf[c] \notin OwnRestore
        BY <3>1, <4>1, OwnHelpersFields, OwnChecksFields DEF OwnRestore
      <4>. QED  BY <3>1, <4>2, SeenContainers DEF Own
    <3>. QED  BY <3>1 DEF B!Summaries, B!HelpersForVolume, B!Alive, Alive
  <2>. HIDE DEF F
  <2>2. n \in BackupJob /\ n.pc = "scan" /\ n.todo = backupJob[p].todo /\ n.image = backupJob[p].image
    BY <2>1 DEF BackupJob, B!Preparing
  <2>3. backupJob' = [backupJob EXCEPT ![p] = n]
    BY <1>2 DEF B!Become, F
  <2>. HIDE DEF n
  <2>4. BackupInv(conf', n)
    BY <2>2 DEF BackupInv
  <2>5. BackupQuiet(backupJob[p], n)
    BY <2>2, QuietMove
  <2>. QED  BY <1>1, <2>2, <2>3, <2>4, <2>5 DEF BackupEffect
<1>3. CASE B!NextVolume(p, v, TRUE)
  BY <1>1, <1>3, BackupGivesUp
<1>. QED  BY <1>2, <1>3 DEF B!ListHelpers

(* Inspecting a helper makes no layer.                                     *)
LEMMA BackupInspectEffect ==
  ASSUME HostInv, BackupSideInv, NEW p \in BackupProc,
         NEW v \in backupJob[p].todo, NEW s \in backupJob[p].found, B!Inspect(p, v, s)
  PROVE  \E n : BackupEffect(p, n)
<1>. backupJob \in [BackupProc -> BackupJob] /\ backupJob[p] \in BackupJob
     /\ BackupInv(conf, backupJob[p]) /\ backupJob[p].pc = "scan" /\ "scan" \in B!Preparing
     /\ B!IsFirst(v, backupJob[p].todo) /\ s.id \in ContainerId /\ conf' = conf
  BY DEF BackupSideInv, B!Inspect, B!At, B!Preparing, BackupJob, B!host
<1>. backupJob[p].todo \in SUBSET Nat
  BY NumbersAssumption, VolumesAssumption DEF BackupJob, B!VolumeSpecs
<1>1. Calm(OwnBackup)
  BY DEF Calm, B!host, host, B!Inspect
<1>2. CASE B!NextHelper(p, s.id)
  <2>1. PICK n \in BackupJob : /\ backupJob' = [backupJob EXCEPT ![p] = n]
                               /\ n.pc = "scan" /\ n.todo = backupJob[p].todo
                               /\ n.image = backupJob[p].image
    BY <1>2, BackupNextHelper
  <2>2. BackupInv(conf', n)
    BY <2>1 DEF BackupInv
  <2>3. BackupQuiet(backupJob[p], n)
    BY <2>1, QuietMove
  <2>. QED  BY <1>1, <2>1, <2>2, <2>3 DEF BackupEffect
<1>3. CASE B!Become(p, [backupJob[p] EXCEPT !.pc = "replace", !.cur = s.id])
  <2>1. PICK n \in BackupJob : /\ backupJob' = [backupJob EXCEPT ![p] = n]
                               /\ n.pc = "replace" /\ n.todo = backupJob[p].todo
                               /\ n.cur = s.id /\ n.image = backupJob[p].image
    <3>. DEFINE m == [backupJob[p] EXCEPT !.pc = "replace", !.cur = s.id]
    <3>1. backupJob' = [backupJob EXCEPT ![p] = m]
      BY <1>3 DEF B!Become
    <3>2. m \in BackupJob /\ m.pc = "replace" /\ m.todo = backupJob[p].todo
          /\ m.cur = s.id /\ m.image = backupJob[p].image
      BY DEF BackupJob, B!Preparing
    <3>. HIDE DEF m
    <3>. QED  BY <3>1, <3>2
  <2>2. BackupInv(conf', n)
    BY <2>1 DEF BackupInv
  <2>3. BackupQuiet(backupJob[p], n)
    BY <2>1, QuietMove
  <2>. QED  BY <1>1, <2>1, <2>2, <2>3 DEF BackupEffect
<1>4. CASE Alive(s.id) /\ B!HelperMatches(conf[s.id], v, backupJob[p].image)
           /\ B!Become(p, [backupJob[p] EXCEPT !.pc = "start", !.cur = s.id])
  <2>1. PICK n \in BackupJob : /\ backupJob' = [backupJob EXCEPT ![p] = n]
                               /\ n.pc = "start" /\ n.todo = backupJob[p].todo
                               /\ n.cur = s.id /\ n.image = backupJob[p].image
    <3>. DEFINE m == [backupJob[p] EXCEPT !.pc = "start", !.cur = s.id]
    <3>1. backupJob' = [backupJob EXCEPT ![p] = m]
      BY <1>4 DEF B!Become
    <3>2. m \in BackupJob /\ m.pc = "start" /\ m.todo = backupJob[p].todo
          /\ m.cur = s.id /\ m.image = backupJob[p].image
      BY DEF BackupJob, B!Preparing
    <3>. HIDE DEF m
    <3>. QED  BY <3>1, <3>2
  <2>2. conf[s.id] \in OwnBackup /\ conf[s.id].volume = v
    BY <1>4, SeenContainers, RestoreIsSeen DEF B!HelperMatches, Own
  <2>3. BackupInv(conf', n)
    BY <2>1, <2>2, OneIsFirst DEF BackupInv
  <2>4. BackupQuiet(backupJob[p], n)
    BY <2>1, QuietMove
  <2>. QED  BY <1>1, <2>1, <2>3, <2>4 DEF BackupEffect
<1>5. CASE B!Goto(p, "wait")
  <2>1. PICK n \in BackupJob : /\ backupJob' = [backupJob EXCEPT ![p] = n]
                               /\ n.pc = "wait" /\ n.todo = backupJob[p].todo
                               /\ n.cur = backupJob[p].cur /\ n.image = backupJob[p].image
    BY <1>5, BackupGoto DEF B!Preparing
  <2>2. BackupInv(conf', n)
    BY <2>1 DEF BackupInv
  <2>3. BackupQuiet(backupJob[p], n)
    BY <2>1, QuietMove
  <2>. QED  BY <1>1, <2>1, <2>2, <2>3 DEF BackupEffect
<1>6. CASE B!NextVolume(p, v, TRUE)
  BY <1>1, <1>6, BackupGivesUp
<1>. QED  BY <1>2, <1>3, <1>4, <1>5, <1>6 DEF B!Inspect, B!Alive, Alive

(* The helper a prepare starts is its own, of the volume it is at.         *)
LEMMA BackupStartEffect ==
  ASSUME HostInv, BackupSideInv, NEW p \in BackupProc,
         NEW v \in backupJob[p].todo, B!StartExisting(p, v) \/ B!StartNew(p, v)
  PROVE  \E n : BackupEffect(p, n)
<1>. DEFINE j == backupJob[p]
            c == j.cur
<1>. backupJob \in [BackupProc -> BackupJob] /\ j \in BackupJob
     /\ BackupInv(conf, j) /\ j.pc \in {"start", "startnew"}
     /\ B!IsFirst(v, j.todo) /\ j.cur \in ContainerId
  BY DEF BackupSideInv, B!StartExisting, B!StartNew, B!At, BackupInv
<1>. j.pc \in B!Preparing \ {"wait", "rollback", "volumes"}
  BY DEF B!Preparing
<1>1. Alive(c) => /\ conf[c] \in OwnBackup /\ conf[c].at = <<"backup", FriendlyName[v]>>
                  /\ FriendlyName[v] \in Name
  <2>. SUFFICES ASSUME Alive(c) PROVE conf[c] \in OwnBackup /\ conf[c].at = <<"backup", FriendlyName[v]>>
                                      /\ FriendlyName[v] \in Name
    OBVIOUS
  <2>1. conf[c] \in OwnBackup /\ conf[c].volume = v
    BY DEF BackupInv, Alive
  <2>. QED  BY <2>1, BackupIsSeen, VolumesAssumption DEF B!VolumeSpecs
<1>2. CASE Starting(c) /\ (B!Goto(p, "wait") \/ B!Goto(p, "rollback"))
  <2>1. PICK label \in {"wait", "rollback"} : B!Goto(p, label)
    BY <1>2
  <2>2. PICK n \in BackupJob : /\ backupJob' = [backupJob EXCEPT ![p] = n]
                               /\ n.pc = label /\ n.todo = j.todo
                               /\ n.cur = j.cur /\ n.image = j.image
    BY <2>1, BackupGoto DEF B!Preparing
  <2>3. BackupInv(conf', n)
    BY <2>2 DEF BackupInv
  <2>4. BackupQuiet(j, n)
    BY <2>2, QuietMove
  <2>5. BackupLeaves(j, n, FriendlyName[v])
    BY <2>2, LeavingMove
  <2>6. Alive(c)
    BY <1>2 DEF Starting, ContainerStart, ContainerStartFails
  <2>. QED  BY <1>1, <1>2, <2>2, <2>3, <2>4, <2>5, <2>6 DEF BackupEffect
<1>3. CASE Starting(c) /\ B!NextVolume(p, v, TRUE)
  <2>1. PICK n \in BackupJob : /\ backupJob' = [backupJob EXCEPT ![p] = n]
                               /\ n.pc \in {"prepared", "list"} /\ n.todo = j.todo \ {v}
                               /\ n.image = j.image
    BY <1>3, BackupNextVolume
  <2>2. BackupInv(conf', n)
    BY <2>1 DEF BackupInv
  <2>3. BackupQuiet(j, n)
    BY <2>1, QuietMove
  <2>4. BackupLeaves(j, n, FriendlyName[v])
    BY <2>1, LeavingMove
  <2>5. Alive(c)
    BY <1>3 DEF Starting, ContainerStart, ContainerStartFails
  <2>. QED  BY <1>1, <1>3, <2>1, <2>2, <2>3, <2>4, <2>5 DEF BackupEffect
<1>4. CASE UNCHANGED host /\ B!NextHelper(p, c)
  <2>1. PICK n \in BackupJob : /\ backupJob' = [backupJob EXCEPT ![p] = n]
                               /\ n.pc = "scan" /\ n.todo = j.todo /\ n.image = j.image
    BY <1>4, BackupNextHelper
  <2>2. BackupInv(conf', n)
    BY <2>1 DEF BackupInv
  <2>3. BackupQuiet(j, n)
    BY <2>1, QuietMove
  <2>. QED  BY <1>4, <2>1, <2>2, <2>3 DEF BackupEffect, Calm
<1>5. CASE UNCHANGED host /\ B!NextVolume(p, v, TRUE)
  BY <1>5, BackupGivesUp DEF Calm
<1>6. CASE UNCHANGED host /\ B!Goto(p, "rollback")
  <2>1. PICK n \in BackupJob : /\ backupJob' = [backupJob EXCEPT ![p] = n]
                               /\ n.pc = "rollback" /\ n.todo = j.todo
                               /\ n.cur = j.cur /\ n.image = j.image
    BY <1>6, BackupGoto DEF B!Preparing
  <2>2. BackupInv(conf', n)
    BY <2>1 DEF BackupInv
  <2>3. BackupQuiet(j, n)
    BY <2>1, QuietMove
  <2>. QED  BY <1>6, <2>1, <2>2, <2>3 DEF BackupEffect, Calm
<1>7. /\ B!ContainerStart(c) => Starting(c)
      /\ B!ContainerStartFails(c) => Starting(c)
      /\ UNCHANGED B!host => UNCHANGED host
  BY BackupCalls DEF Starting, B!host, host
<1>. QED  BY <1>2, <1>3, <1>4, <1>5, <1>6, <1>7 DEF B!StartExisting, B!StartNew

(* The helper a prepare creates is of its own kind.                        *)
LEMMA BackupCreateEffect ==
  ASSUME HostInv, BackupSideInv, NewIdentifiers, NEW p \in BackupProc,
         NEW v \in backupJob[p].todo, NEW c \in ContainerId, B!Create(p, v, c)
  PROVE  \E n : BackupEffect(p, n)
<1>. DEFINE j == backupJob[p]
            cf == B!HelperOptions(v, j.image)
<1>. backupJob \in [BackupProc -> BackupJob] /\ j \in BackupJob
     /\ BackupInv(conf, j) /\ j.pc = "scan" /\ "scan" \in B!Preparing
     /\ B!IsFirst(v, j.todo) /\ j.image \in Image
  BY DEF BackupSideInv, B!Create, B!At, BackupInv, B!Preparing
<1>. backupJob[p].todo \in SUBSET Nat /\ v \in B!VolumeSpecs
  BY NumbersAssumption, VolumesAssumption DEF BackupJob, B!VolumeSpecs
<1>1. cf \in OwnBackup /\ cf.volume = v
  BY DEF OwnBackup, B!HelperOptions
<1>. HIDE DEF cf
<1>2. ASSUME B!Fresh(c), B!ContainerCreate(c, cf)
      PROVE  Calm(OwnBackup) /\ conf'[c] = cf
  <2>1. ContainerCreate(c, cf)
    BY <1>2, BackupCalls
  <2>. QED  BY <1>1, <2>1, NewForBoth DEF Calm, Own
<1>3. UNCHANGED B!host => Calm(OwnBackup)
  BY DEF Calm, B!host, host
<1>4. CASE B!Fresh(c) /\ B!ContainerCreate(c, cf)
           /\ B!Become(p, [j EXCEPT !.pc = "startnew", !.cur = c])
  <2>1. PICK n \in BackupJob : /\ backupJob' = [backupJob EXCEPT ![p] = n]
                               /\ n.pc = "startnew" /\ n.todo = j.todo
                               /\ n.cur = c /\ n.image = j.image
    <3>. DEFINE m == [backupJob[p] EXCEPT !.pc = "startnew", !.cur = c]
    <3>1. backupJob' = [backupJob EXCEPT ![p] = m]
      BY <1>4 DEF B!Become
    <3>2. m \in BackupJob /\ m.pc = "startnew" /\ m.todo = backupJob[p].todo
          /\ m.cur = c /\ m.image = backupJob[p].image
      BY DEF BackupJob, B!Preparing
    <3>. HIDE DEF m
    <3>. QED  BY <3>1, <3>2
  <2>2. BackupInv(conf', n)
    BY <1>1, <1>2, <1>4, <2>1, OneIsFirst DEF BackupInv
  <2>3. BackupQuiet(j, n)
    BY <2>1, QuietMove
  <2>. QED  BY <1>2, <1>4, <2>1, <2>2, <2>3 DEF BackupEffect
<1>5. CASE (UNCHANGED B!host \/ (B!Fresh(c) /\ B!ContainerCreate(c, cf))) /\ B!NextVolume(p, v, TRUE)
  BY <1>2, <1>3, <1>5, BackupGivesUp
<1>. QED  BY <1>4, <1>5 DEF B!Create, cf

(* Neither a wait for the mount nor a rollback makes a layer.              *)
LEMMA BackupRollbackEffect ==
  ASSUME HostInv, BackupSideInv, NEW p \in BackupProc, NEW v \in backupJob[p].todo,
         B!Rollback(p, v) \/ B!WaitSeen(p, v) \/ B!WaitExpired(p, v)
  PROVE  \E n : BackupEffect(p, n)
<1>1. backupJob[p].pc \in {"rollback", "wait"} /\ B!IsFirst(v, backupJob[p].todo)
      /\ \E failed \in BOOLEAN : B!NextVolume(p, v, failed)
  BY DEF B!Rollback, B!WaitSeen, B!WaitExpired, B!At
<1>2. backupJob[p].pc \in B!Preparing
  BY <1>1 DEF B!Preparing
<1>3. Calm(OwnBackup)
  <2>1. CASE UNCHANGED B!host
    BY <2>1 DEF Calm, B!host, host
  <2>2. CASE B!Rollback(p, v) /\ B!ContainerRemove(backupJob[p].cur)
    <3>1. backupJob[p].cur \in ContainerId
      BY <2>2 DEF B!Rollback, B!At, BackupSideInv, BackupInv
    <3>. QED  BY <2>2, <3>1, BackupCalls DEF ContainerRemove, Calm, host
  <2>. QED  BY <2>1, <2>2 DEF B!Rollback, B!WaitSeen, B!WaitExpired
<1>. QED  BY <1>1, <1>2, <1>3, BackupGivesUp

(* A prepare that begins found room for a layer of each volume.            *)
LEMMA BackupBeginsEffect ==
  ASSUME HostInv, BackupSideInv, NEW p \in BackupProc,
         (\E image \in Image : B!StartPrepare(p, image)) \/ B!VolumeList(p)
  PROVE  \E n : BackupEffect(p, n)
<1>. backupJob \in [BackupProc -> BackupJob] /\ backupJob[p] \in BackupJob
     /\ BackupInv(conf, backupJob[p])
  BY DEF BackupSideInv
<1>1. ASSUME NEW image \in Image, B!StartPrepare(p, image) PROVE \E n : BackupEffect(p, n)
  <2>. DEFINE n == [B!Idle EXCEPT !.pc = "volumes", !.image = image]
  <2>1. n \in BackupJob /\ n.pc = "volumes" /\ n.image = image
    BY DEF B!Idle, BackupJob, B!Preparing
  <2>2. backupJob' = [backupJob EXCEPT ![p] = n] /\ UNCHANGED host /\ B!Headroom
    BY <1>1 DEF B!StartPrepare, B!Become, B!host, host
  <2>. HIDE DEF n
  <2>3. BackupInv(conf', n)
    BY <2>1 DEF BackupInv
  <2>. QED  BY <2>1, <2>2, <2>3 DEF BackupEffect
<1>2. ASSUME B!VolumeList(p) PROVE \E n : BackupEffect(p, n)
  <2>1. backupJob[p].pc = "volumes" /\ UNCHANGED host /\ "volumes" \in B!Preparing
    BY <1>2 DEF B!VolumeList, B!At, B!host, host, B!Preparing
  <2>2. Calm(OwnBackup)
    BY <2>1 DEF Calm
  <2>3. PICK n \in BackupJob : /\ backupJob' = [backupJob EXCEPT ![p] = n]
                               /\ n.pc \in {"prepared", "list"} /\ n.image = backupJob[p].image
    <3>1. CASE B!Become(p, [backupJob[p] EXCEPT !.pc = IF B!VolumeSpecs = {} THEN "prepared" ELSE "list",
                                                !.todo = B!VolumeSpecs, !.errs = B!SpecErr])
      <4>. DEFINE m == [backupJob[p] EXCEPT !.pc = IF B!VolumeSpecs = {} THEN "prepared" ELSE "list",
                                            !.todo = B!VolumeSpecs, !.errs = B!SpecErr]
      <4>1. backupJob' = [backupJob EXCEPT ![p] = m]
        BY <3>1 DEF B!Become
      <4>2. B!SpecErr \in BOOLEAN
        BY DEF B!SpecErr
      <4>3. m \in BackupJob /\ m.pc \in {"prepared", "list"} /\ m.image = backupJob[p].image
        BY <4>2 DEF BackupJob, B!Preparing, B!Resting
      <4>. HIDE DEF m
      <4>. QED  BY <4>1, <4>3
    <3>2. CASE B!Become(p, [backupJob[p] EXCEPT !.pc = "prepared", !.errs = TRUE])
      <4>. DEFINE m == [backupJob[p] EXCEPT !.pc = "prepared", !.errs = TRUE]
      <4>1. backupJob' = [backupJob EXCEPT ![p] = m]
        BY <3>2 DEF B!Become
      <4>2. m \in BackupJob /\ m.pc \in {"prepared", "list"} /\ m.image = backupJob[p].image
        BY DEF BackupJob, B!Resting
      <4>. HIDE DEF m
      <4>. QED  BY <4>1, <4>2
    <3>. QED  BY <1>2, <3>1, <3>2 DEF B!VolumeList
  <2>4. BackupInv(conf', n)
    BY <2>1, <2>3 DEF BackupInv
  <2>5. BackupQuiet(backupJob[p], n)
    BY <2>1 DEF BackupQuiet, BackupAhead
  <2>. QED  BY <2>2, <2>3, <2>4, <2>5 DEF BackupEffect
<1>. QED  BY <1>1, <1>2

(* Every step of a prepare keeps to its side.                              *)
LEMMA PrepareEffect ==
  ASSUME HostInv, BackupSideInv, NewIdentifiers, NEW p \in BackupProc, B!PrepareStep(p)
  PROVE  \E n : BackupEffect(p, n)
<1>1. ASSUME NEW v \in backupJob[p].todo, NEW s \in backupJob[p].found, B!RemoveUnexpected(p, v, s)
      PROVE  \E n : BackupEffect(p, n)
  <2>1. s.id \in ContainerId
    BY DEF BackupSideInv, BackupJob
  <2>. QED  BY <1>1, <2>1, BackupRemoveEffect DEF B!RemoveUnexpected, B!At
<1>2. ASSUME NEW v \in backupJob[p].todo, B!Replace(p, v)
      PROVE  \E n : BackupEffect(p, n)
  <2>1. backupJob[p].cur \in ContainerId
    BY <1>2 DEF BackupSideInv, BackupInv, B!Replace, B!At
  <2>. QED  BY <1>2, <2>1, BackupRemoveEffect DEF B!Replace, B!At
<1>. QED  BY <1>1, <1>2, BackupBeginsEffect, BackupListEffect, BackupInspectEffect, BackupStartEffect,
             BackupCreateEffect, BackupRollbackEffect DEF B!PrepareStep

(* A cleanup makes no layers.                                              *)
LEMMA CleanupEffect ==
  ASSUME HostInv, BackupSideInv, NEW p \in BackupProc, B!CleanupStep(p) \/ B!Crash(p)
  PROVE  \E n : BackupEffect(p, n)
<1>. DEFINE j == backupJob[p]
            Done(n) == /\ n \in BackupJob /\ n.pc \in B!Resting \union B!Cleaning
                       /\ backupJob' = [backupJob EXCEPT ![p] = n]
<1>. backupJob \in [BackupProc -> BackupJob] /\ j \in BackupJob
  BY DEF BackupSideInv
<1>1. ASSUME Calm(OwnBackup), NEW n, Done(n) PROVE BackupEffect(p, n)
  <2>1. n.pc \notin B!Preparing /\ n.pc \notin {"replace", "start", "startnew", "rollback"}
    BY <1>1 DEF B!Preparing, B!Resting, B!Cleaning
  <2>. QED  BY <1>1, <2>1 DEF BackupEffect, BackupInv, BackupQuiet, BackupAhead
<1>2. UNCHANGED B!host => Calm(OwnBackup)
  BY DEF Calm, B!host, host
<1>3. ASSUME B!StartCleanup(p) \/ B!Crash(p) PROVE \E n : BackupEffect(p, n)
  <2>1. B!Idle \in BackupJob /\ [B!Idle EXCEPT !.pc = "listall"] \in BackupJob
        /\ B!Idle.pc \in B!Resting /\ [B!Idle EXCEPT !.pc = "listall"].pc \in B!Cleaning
    BY DEF B!Idle, BackupJob, B!Resting, B!Cleaning
  <2>2. Done(B!Idle) \/ Done([B!Idle EXCEPT !.pc = "listall"])
    BY <1>3, <2>1 DEF B!StartCleanup, B!Crash, B!Become
  <2>3. UNCHANGED B!host
    BY <1>3 DEF B!StartCleanup, B!Crash
  <2>. QED  BY <1>1, <1>2, <2>2, <2>3
<1>4. ASSUME B!CleanupList(p) PROVE \E n : BackupEffect(p, n)
  <2>. DEFINE H == {s \in B!Summaries(B!BackupHelpers) : B!IsManaged(s.conf)}
              n1 == [j EXCEPT !.pc = "remove", !.found = H, !.listed = H]
              n2 == [j EXCEPT !.pc = "cleaned", !.errs = TRUE]
  <2>1. H \in SUBSET [id : ContainerId, conf : OwnBackup]
    <3>1. ASSUME NEW c \in ContainerId, Alive(c), B!IsManaged(conf[c]) PROVE conf[c] \in OwnBackup
      BY <3>1, SeenContainers, RestoreIsSeen DEF Own, B!IsManaged
    <3>. QED  BY <3>1 DEF B!Summaries, B!BackupHelpers, B!Alive, Alive
  <2>2. backupJob' = [backupJob EXCEPT ![p] = n1] \/ backupJob' = [backupJob EXCEPT ![p] = n2]
    BY <1>4 DEF B!CleanupList, B!Become
  <2>. HIDE DEF H
  <2>3. n1 \in BackupJob /\ n1.pc \in B!Cleaning /\ n2 \in BackupJob /\ n2.pc \in B!Resting
    BY <2>1 DEF BackupJob, B!Resting, B!Cleaning
  <2>. HIDE DEF n1, n2
  <2>4. UNCHANGED B!host
    BY <1>4 DEF B!CleanupList
  <2>. QED  BY <1>1, <1>2, <2>2, <2>3, <2>4
<1>5. ASSUME NEW s \in j.found, NEW failed \in BOOLEAN, B!Removed(p, s, failed)
      PROVE  \E n : Done(n) \/ j.pc # "remove"
  <2>. SUFFICES ASSUME j.pc = "remove" PROVE \E n : Done(n)
    OBVIOUS
  <2>. DEFINE f == s.conf.friendly
              n == [j EXCEPT !.found = @ \ {s},
                             !.targets = IF f \in UnsafeName THEN @ ELSE @ \union {f},
                             !.blocked = IF failed THEN @ \union {f} ELSE @,
                             !.errs = @ \/ failed \/ f \in UnsafeName]
  <2>1. f \in Name
    BY OwnBackupFields DEF BackupJob
  <2>2. backupJob' = [backupJob EXCEPT ![p] = n]
    BY <1>5 DEF B!Removed, B!Become
  <2>. HIDE DEF f
  <2>3. n.pc = j.pc
    BY DEF BackupJob
  <2>4. n \in BackupJob
    <3>1. CASE failed
      BY <2>1, <3>1 DEF BackupJob
    <3>2. CASE ~failed
      BY <2>1, <3>2 DEF BackupJob
    <3>. QED  BY <3>1, <3>2
  <2>. HIDE DEF n
  <2>. QED  BY <2>2, <2>3, <2>4 DEF B!Cleaning
<1>6. ASSUME NEW s \in j.found, B!RemoveHelper(p, s) PROVE \E n : BackupEffect(p, n)
  <2>1. s.id \in ContainerId
    BY DEF BackupJob
  <2>2. Calm(OwnBackup)
    BY <1>6, <2>1, BackupCalls DEF B!RemoveHelper, ContainerRemove, Calm, B!host, host
  <2>3. j.pc = "remove" /\ \E failed \in BOOLEAN : B!Removed(p, s, failed)
    BY <1>6 DEF B!RemoveHelper, B!At
  <2>. QED  BY <1>1, <1>5, <2>2, <2>3
<1>7. ASSUME NEW f, NEW failed \in BOOLEAN, B!NextTarget(p, f, failed) PROVE \E n : Done(n)
  <2>. DEFINE n == [j EXCEPT !.pc = "remove", !.targets = @ \ {f}, !.errs = @ \/ failed]
  <2>1. backupJob' = [backupJob EXCEPT ![p] = n]
    BY <1>7 DEF B!NextTarget, B!Become
  <2>2. \A e \in BOOLEAN : /\ [j EXCEPT !.pc = "remove", !.targets = @ \ {f}, !.errs = e] \in BackupJob
                           /\ [j EXCEPT !.pc = "remove", !.targets = @ \ {f}, !.errs = e].pc = "remove"
    BY DEF BackupJob, B!Cleaning
  <2>3. (j.errs \/ failed) \in BOOLEAN
    OBVIOUS
  <2>4. n \in BackupJob /\ n.pc = "remove"
    BY <2>2, <2>3
  <2>. HIDE DEF n
  <2>. QED  BY <2>1, <2>4 DEF B!Cleaning
<1>8. ASSUME NEW label \in B!Resting \union B!Cleaning, B!Goto(p, label) PROVE \E n : Done(n)
  BY <1>8, BackupGoto
<1>9. ASSUME NEW f \in j.targets, B!SkipBlocked(p, f) PROVE \E n : BackupEffect(p, n)
  <2>1. B!NextTarget(p, f, TRUE) /\ UNCHANGED B!host
    BY <1>9 DEF B!SkipBlocked
  <2>. QED  BY <1>1, <1>2, <1>7, <2>1
<1>10. ASSUME NEW f \in j.targets, B!CheckTarget(p, f) PROVE \E n : BackupEffect(p, n)
  <2>1. (\E failed \in BOOLEAN : B!NextTarget(p, f, failed)) \/ B!Goto(p, "umount")
    BY <1>10 DEF B!CheckTarget
  <2>2. UNCHANGED B!host /\ "umount" \in B!Cleaning
    BY <1>10 DEF B!CheckTarget, B!Cleaning
  <2>. QED  BY <1>1, <1>2, <1>7, <1>8, <2>1, <2>2
<1>11. ASSUME NEW f \in j.targets, B!UmountTarget(p, f) PROVE \E n : BackupEffect(p, n)
  <2>1. \E failed \in BOOLEAN : B!NextTarget(p, f, failed)
    BY <1>11 DEF B!UmountTarget
  <2>2. <<"backup", f>> \in B!MountPoint
    BY DEF BackupJob, B!MountPoint
  <2>3. Calm(OwnBackup)
    BY <1>11, <2>2, BackupCalls DEF B!UmountTarget, B!BackupAt, Calm, B!host, host
  <2>. QED  BY <1>1, <1>7, <2>1, <2>3
<1>12. ASSUME B!CleanupDone(p) PROVE \E n : BackupEffect(p, n)
  <2>1. B!Goto(p, "cleaned") /\ UNCHANGED B!host /\ "cleaned" \in B!Resting
    BY <1>12 DEF B!CleanupDone, B!Resting
  <2>. QED  BY <1>1, <1>2, <1>8, <2>1
<1>. QED  BY <1>3, <1>4, <1>6, <1>9, <1>10, <1>11, <1>12 DEF B!CleanupStep

-------------------------------------------------------------------------------
(* What a step of the restore side does.                                   *)

RestoreQuiet(j, n) == RestoreAhead(n) => RestoreAhead(j)

RestoreEffect(p, n) ==
  /\ n \in RestoreJob /\ RestoreInv(conf', n)
  /\ restoreJob' = [restoreJob EXCEPT ![p] = n]
  /\ \/ Calm(OwnRestore) /\ RestoreQuiet(restoreJob[p], n)
     \/ \E c \in ContainerId :
          conf[c] \in OwnHelpers /\ Starting(c) /\ RestoreAhead(restoreJob[p]) /\ ~RestoreAhead(n)
     \/ \E c \in ContainerId :
          conf[c] \in OwnChecks /\ (Starting(c) \/ Exits(c)) /\ RestoreQuiet(restoreJob[p], n)
     \/ UNCHANGED host /\ R!Headroom

(* What a restore is about stays the same from call to call.               *)
SameRestore(j, n) ==
  n.source = j.source /\ n.target = j.target /\ n.session = j.session /\ n.image = j.image

(* Where a process of the restore side can be.                             *)
LEMMA RestorePlaces ==
  /\ R!Restoring = {"source", "target", "volume", "check", "checkstart", "checkwait", "checkdrop",
                    "list", "scan", "replace", "start", "startnew", "rollback", "wait"}
  /\ R!Resting = {"idle", "ready", "failed", "cleaned"}
  /\ R!Cleaning = {"listall", "remove", "umount"}
BY DEF R!Restoring, R!Checking, R!Mounting, R!Resting, R!Cleaning

(* The move to another call leaves the rest alone.                         *)
LEMMA RestoreGoto ==
  ASSUME restoreJob \in [RestoreProc -> RestoreJob], NEW p \in RestoreProc,
         NEW label \in R!Resting \union R!Restoring \union R!Cleaning, R!Goto(p, label)
  PROVE  \E n \in RestoreJob : /\ restoreJob' = [restoreJob EXCEPT ![p] = n]
                               /\ n.pc = label /\ n.cur = restoreJob[p].cur /\ SameRestore(restoreJob[p], n)
<1>. DEFINE n == [restoreJob[p] EXCEPT !.pc = label]
<1>1. restoreJob[p] \in RestoreJob /\ restoreJob' = [restoreJob EXCEPT ![p] = n]
  BY DEF R!Goto, R!Become
<1>2. n \in RestoreJob /\ n.pc = label /\ n.cur = restoreJob[p].cur /\ SameRestore(restoreJob[p], n)
  BY <1>1 DEF RestoreJob, SameRestore
<1>. HIDE DEF n
<1>. QED  BY <1>1, <1>2

(* The move to the next helper gives one up.                               *)
LEMMA RestoreNextHelper ==
  ASSUME restoreJob \in [RestoreProc -> RestoreJob], NEW p \in RestoreProc,
         NEW c, R!NextHelper(p, c)
  PROVE  \E n \in RestoreJob : /\ restoreJob' = [restoreJob EXCEPT ![p] = n]
                               /\ n.pc = "scan" /\ SameRestore(restoreJob[p], n)
<1>. DEFINE n == [restoreJob[p] EXCEPT !.pc = "scan", !.cur = None, !.found = {s \in @ : s.id # c}]
<1>1. restoreJob[p] \in RestoreJob /\ restoreJob' = [restoreJob EXCEPT ![p] = n]
  BY DEF R!NextHelper, R!Become
<1>2. "scan" \in R!Restoring
  BY RestorePlaces
<1>3. n \in RestoreJob
  BY <1>1, <1>2 DEF RestoreJob
<1>4. n.pc = "scan" /\ SameRestore(restoreJob[p], n)
  BY <1>1 DEF RestoreJob, SameRestore
<1>. HIDE DEF n
<1>. QED  BY <1>1, <1>3, <1>4

(* A restore that fails is about nothing any more.                         *)
LEMMA RestoreFail ==
  ASSUME restoreJob \in [RestoreProc -> RestoreJob], NEW p \in RestoreProc, R!Fail(p)
  PROVE  \E n \in RestoreJob : /\ restoreJob' = [restoreJob EXCEPT ![p] = n]
                               /\ n.pc = "failed"
<1>. DEFINE n == [R!Idle EXCEPT !.pc = "failed"]
<1>1. restoreJob' = [restoreJob EXCEPT ![p] = n]
  BY DEF R!Fail, R!Become
<1>2. n \in RestoreJob /\ n.pc = "failed"
  BY RestorePlaces DEF RestoreJob, R!Idle
<1>. HIDE DEF n
<1>. QED  BY <1>1, <1>2

(* A process that rests, or a cleanup that begins, makes no layers.        *)
LEMMA RestoreRests ==
  ASSUME NEW k, NEW j, NEW n \in RestoreJob, n.pc \in R!Resting \union {"listall"}
  PROVE  RestoreInv(k, n) /\ ~RestoreAhead(n) /\ RestoreQuiet(j, n)
BY RestorePlaces DEF RestoreInv, RestoreAhead, RestoreQuiet

(* A restore that goes on is about the same target.                        *)
LEMMA RestoreGoesOn ==
  ASSUME NEW k, NEW j \in RestoreJob, NEW n \in RestoreJob, RestoreInv(conf, j),
         j.pc \in R!Restoring \ {"source", "wait", "rollback"}, SameRestore(j, n),
         n.pc \in R!Restoring \ {"source"},
         n.pc \in {"checkstart", "checkwait", "checkdrop", "replace", "start", "startnew", "rollback"} =>
           n.cur \in ContainerId,
         n.pc \in {"checkstart", "checkwait"} => k[n.cur] = None \/ k[n.cur] \in OwnChecks,
         n.pc \in {"start", "startnew"} => k[n.cur] = None \/ k[n.cur] \in OwnHelpers
  PROVE  RestoreInv(k, n) /\ RestoreQuiet(j, n)
BY RestorePlaces DEF RestoreInv, SameRestore, RestoreQuiet, RestoreAhead

(* A restore that fails makes no layer.                                    *)
LEMMA RestoreFailEffect ==
  ASSUME RestoreSideInv, NEW p \in RestoreProc, R!Fail(p), Calm(OwnRestore)
  PROVE  \E n : RestoreEffect(p, n)
<1>1. PICK n \in RestoreJob : restoreJob' = [restoreJob EXCEPT ![p] = n] /\ n.pc = "failed"
  BY RestoreFail DEF RestoreSideInv
<1>2. RestoreInv(conf', n) /\ RestoreQuiet(restoreJob[p], n)
  BY <1>1, RestoreRests, RestorePlaces
<1>. QED  BY <1>1, <1>2 DEF RestoreEffect

(* A call that goes on to a state in which the process holds no container. *)
LEMMA RestoreGotoEffect ==
  ASSUME RestoreSideInv, NEW p \in RestoreProc, Calm(OwnRestore),
         restoreJob[p].pc \in R!Restoring \ {"source", "wait", "rollback"},
         \/ R!NextHelper(p, restoreJob[p].cur)
         \/ \E c : R!NextHelper(p, c)
         \/ \E label \in {"target", "volume", "list", "check", "wait"} : R!Goto(p, label)
  PROVE  \E n : RestoreEffect(p, n)
<1>. restoreJob \in [RestoreProc -> RestoreJob] /\ restoreJob[p] \in RestoreJob /\ RestoreInv(conf, restoreJob[p])
  BY DEF RestoreSideInv
<1>1. PICK n \in RestoreJob : /\ restoreJob' = [restoreJob EXCEPT ![p] = n]
                              /\ n.pc \in {"target", "volume", "list", "check", "wait", "scan"}
                              /\ SameRestore(restoreJob[p], n)
  BY RestoreGoto, RestoreNextHelper, RestorePlaces
<1>2. RestoreInv(conf', n) /\ RestoreQuiet(restoreJob[p], n)
  BY <1>1, RestoreGoesOn, RestorePlaces
<1>. QED  BY <1>1, <1>2 DEF RestoreEffect

(* A restore that begins found room for a layer.                           *)
LEMMA RestoreBeginsEffect ==
  ASSUME HostInv, RestoreSideInv, NEW p \in RestoreProc,
         \/ \E s \in Sources, t \in Targets, k \in Session, image \in Image, force, same \in BOOLEAN :
              R!StartRestore(p, s, t, k, image, force, same)
         \/ R!InspectSource(p)
  PROVE  \E n : RestoreEffect(p, n)
<1>. restoreJob \in [RestoreProc -> RestoreJob] /\ restoreJob[p] \in RestoreJob /\ RestoreInv(conf, restoreJob[p])
  BY DEF RestoreSideInv
<1>. UNCHANGED host
  BY DEF R!StartRestore, R!InspectSource, R!host, host
<1>. Calm(OwnRestore)
  BY DEF Calm
<1>1. ASSUME NEW s \in Sources, NEW t \in Targets, NEW k \in Session, NEW image \in Image,
             NEW force \in BOOLEAN, NEW same \in BOOLEAN, R!StartRestore(p, s, t, k, image, force, same)
      PROVE  \E n : RestoreEffect(p, n)
  <2>1. CASE R!Fail(p)
    BY <2>1, RestoreFailEffect
  <2>2. CASE ~R!Fail(p)
    <3>. DEFINE n == [R!Idle EXCEPT !.pc = "source", !.source = s, !.target = t,
                                    !.session = k, !.image = image, !.force = force]
    <3>1. restoreJob' = [restoreJob EXCEPT ![p] = n] /\ R!Headroom
      BY <1>1, <2>2 DEF R!StartRestore, R!Become
    <3>2. "source" \in R!Restoring
      BY RestorePlaces
    <3>3. n \in RestoreJob
      BY <3>2 DEF RestoreJob, R!Idle
    <3>4. n.pc = "source" /\ n.source = s /\ n.target = t /\ n.session = k /\ n.image = image
      BY DEF R!Idle
    <3>. HIDE DEF n
    <3>5. RestoreInv(conf', n)
      BY <3>4 DEF RestoreInv
    <3>. QED  BY <3>1, <3>3, <3>5 DEF RestoreEffect
  <2>. QED  BY <2>1, <2>2
<1>2. ASSUME R!InspectSource(p) PROVE \E n : RestoreEffect(p, n)
  <2>1. CASE R!Fail(p)
    BY <2>1, RestoreFailEffect
  <2>2. CASE FriendlyName[restoreJob[p].source] # None /\ R!Goto(p, "target")
    <3>1. PICK n \in RestoreJob : /\ restoreJob' = [restoreJob EXCEPT ![p] = n]
                                  /\ n.pc = "target" /\ SameRestore(restoreJob[p], n)
      BY <2>2, RestoreGoto, RestorePlaces
    <3>2. restoreJob[p].pc = "source"
      BY <1>2 DEF R!InspectSource, R!At
    <3>3. RestoreInv(conf', n) /\ RestoreQuiet(restoreJob[p], n)
      BY <2>2, <3>1, <3>2, RestorePlaces DEF RestoreInv, SameRestore, RestoreQuiet, RestoreAhead
    <3>. QED  BY <3>1, <3>3 DEF RestoreEffect
  <2>. QED  BY <1>2, <2>1, <2>2 DEF R!InspectSource
<1>. QED  BY <1>1, <1>2

(* Looking up the target makes no layer.                                   *)
LEMMA RestoreTargetEffect ==
  ASSUME HostInv, RestoreSideInv, NEW p \in RestoreProc,
         R!InspectTarget(p) \/ R!CreateTarget(p)
  PROVE  \E n : RestoreEffect(p, n)
<1>1. Calm(OwnRestore)
  BY DEF R!InspectTarget, R!CreateTarget, R!host, host, Calm
<1>2. restoreJob[p].pc \in R!Restoring \ {"source", "wait", "rollback"}
  BY RestorePlaces DEF R!InspectTarget, R!CreateTarget, R!At
<1>3. R!Fail(p) \/ \E label \in {"volume", "list", "check"} : R!Goto(p, label)
  BY DEF R!InspectTarget, R!CreateTarget, R!TargetReady
<1>. QED  BY <1>1, <1>2, <1>3, RestoreGotoEffect, RestoreFailEffect

(* The containers a restore creates are of its own kind.                   *)
LEMMA RestoreCreateEffect ==
  ASSUME HostInv, RestoreSideInv, NewIdentifiers, NEW p \in RestoreProc,
         NEW c \in ContainerId, R!CheckCreate(p, c) \/ R!Create(p, c)
  PROVE  \E n : RestoreEffect(p, n)
<1>. DEFINE j == restoreJob[p]
<1>. restoreJob \in [RestoreProc -> RestoreJob] /\ j \in RestoreJob /\ RestoreInv(conf, j)
  BY DEF RestoreSideInv
<1>. j.pc \in R!Restoring \ {"source", "wait", "rollback"}
  BY RestorePlaces DEF R!CheckCreate, R!Create, R!At
<1>1. R!CheckOptions(j) \in OwnChecks /\ R!HelperOptions(j) \in OwnHelpers
  BY RestoreCreates
<1>2. ASSUME NEW cf \in OwnRestore, R!Fresh(c), R!ContainerCreate(c, cf)
      PROVE  Calm(OwnRestore) /\ conf'[c] = cf
  <2>1. ContainerCreate(c, cf)
    BY <1>2, RestoreCalls
  <2>. QED  BY <1>2, <2>1, NewForBoth DEF Calm, Own
<1>3. UNCHANGED R!host => Calm(OwnRestore)
  BY DEF Calm, R!host, host
<1>4. CASE R!CheckCreate(p, c) /\ ~R!Fail(p)
  <2>1. R!Fresh(c) /\ R!ContainerCreate(c, R!CheckOptions(j))
        /\ R!Become(p, [j EXCEPT !.pc = "checkstart", !.cur = c])
    BY <1>4 DEF R!CheckCreate
  <2>2. Calm(OwnRestore) /\ conf'[c] = R!CheckOptions(j)
    BY <1>1, <1>2, <2>1 DEF OwnRestore
  <2>. DEFINE n == [j EXCEPT !.pc = "checkstart", !.cur = c]
  <2>3. restoreJob' = [restoreJob EXCEPT ![p] = n]
    BY <2>1 DEF R!Become
  <2>4. "checkstart" \in R!Restoring
    BY RestorePlaces
  <2>5. n \in RestoreJob
    BY <2>4 DEF RestoreJob
  <2>6. n.pc = "checkstart" /\ n.cur = c /\ SameRestore(j, n)
    BY DEF RestoreJob, SameRestore
  <2>. HIDE DEF n
  <2>7. RestoreInv(conf', n) /\ RestoreQuiet(j, n)
    BY <1>1, <2>2, <2>4, <2>5, <2>6, RestoreGoesOn
  <2>. QED  BY <2>2, <2>3, <2>5, <2>7 DEF RestoreEffect
<1>5. CASE R!Create(p, c) /\ ~R!Fail(p)
  <2>1. R!Fresh(c) /\ R!ContainerCreate(c, R!HelperOptions(j))
        /\ R!Become(p, [j EXCEPT !.pc = "startnew", !.cur = c])
    BY <1>5 DEF R!Create
  <2>2. Calm(OwnRestore) /\ conf'[c] = R!HelperOptions(j)
    BY <1>1, <1>2, <2>1 DEF OwnRestore
  <2>. DEFINE n == [j EXCEPT !.pc = "startnew", !.cur = c]
  <2>3. restoreJob' = [restoreJob EXCEPT ![p] = n]
    BY <2>1 DEF R!Become
  <2>4. "startnew" \in R!Restoring
    BY RestorePlaces
  <2>5. n \in RestoreJob
    BY <2>4 DEF RestoreJob
  <2>6. n.pc = "startnew" /\ n.cur = c /\ SameRestore(j, n)
    BY DEF RestoreJob, SameRestore
  <2>. HIDE DEF n
  <2>7. RestoreInv(conf', n) /\ RestoreQuiet(j, n)
    BY <1>1, <2>2, <2>4, <2>5, <2>6, RestoreGoesOn
  <2>. QED  BY <2>2, <2>3, <2>5, <2>7 DEF RestoreEffect
<1>6. CASE R!Fail(p)
  <2>1. Calm(OwnRestore)
    <3>1. UNCHANGED R!host \/ \E cf \in OwnRestore : R!Fresh(c) /\ R!ContainerCreate(c, cf)
      BY <1>1 DEF R!CheckCreate, R!Create, OwnRestore
    <3>. QED  BY <1>2, <1>3, <3>1
  <2>. QED  BY <1>6, <2>1, RestoreFailEffect
<1>. QED  BY <1>4, <1>5, <1>6

(* So are those it starts.                                                 *)
LEMMA RestoreStartEffect ==
  ASSUME HostInv, RestoreSideInv, NEW p \in RestoreProc,
         R!StartExisting(p) \/ R!StartNew(p)
  PROVE  \E n : RestoreEffect(p, n)
<1>. DEFINE j == restoreJob[p]
            c == j.cur
<1>. restoreJob \in [RestoreProc -> RestoreJob] /\ j \in RestoreJob /\ RestoreInv(conf, j)
     /\ j.pc \in {"start", "startnew"} /\ c \in ContainerId
  BY DEF RestoreSideInv, R!StartExisting, R!StartNew, R!At, RestoreInv
<1>. j.pc \in R!Restoring \ {"source", "wait", "rollback"}
  BY RestorePlaces
<1>1. Alive(c) => conf[c] \in OwnHelpers
  BY DEF RestoreInv, Alive
<1>2. CASE Starting(c) /\ ~R!Fail(p)
  <2>1. PICK label \in {"wait", "rollback"} : R!Goto(p, label)
    <3>1. Alive(c)
      BY <1>2 DEF Starting, ContainerStart, ContainerStartFails
    <3>2. CASE R!Goto(p, "wait") \/ R!Goto(p, "rollback")
      BY <3>2
    <3>3. CASE R!NextHelper(p, c)
      BY <1>2, <3>1, <3>3 DEF R!StartExisting, R!StartNew, R!Alive, Alive
    <3>. QED  BY <1>2, <3>2, <3>3 DEF R!StartExisting, R!StartNew
  <2>2. PICK n \in RestoreJob : /\ restoreJob' = [restoreJob EXCEPT ![p] = n]
                                /\ n.pc = label /\ n.cur = c /\ SameRestore(j, n)
    BY <2>1, RestoreGoto, RestorePlaces
  <2>3. RestoreInv(conf', n)
    BY <2>2, RestoreGoesOn, RestorePlaces
  <2>4. RestoreAhead(j) /\ ~RestoreAhead(n)
    BY <2>2 DEF RestoreAhead
  <2>5. Alive(c)
    BY <1>2 DEF Starting, ContainerStart, ContainerStartFails
  <2>. QED  BY <1>1, <1>2, <2>2, <2>3, <2>4, <2>5 DEF RestoreEffect
<1>3. CASE Starting(c) /\ R!Fail(p)
  <2>1. PICK n \in RestoreJob : restoreJob' = [restoreJob EXCEPT ![p] = n] /\ n.pc = "failed"
    BY <1>3, RestoreFail
  <2>2. RestoreInv(conf', n) /\ RestoreAhead(j) /\ ~RestoreAhead(n)
    BY <2>1, RestoreRests, RestorePlaces DEF RestoreAhead
  <2>3. Alive(c)
    BY <1>3 DEF Starting, ContainerStart, ContainerStartFails
  <2>. QED  BY <1>1, <1>3, <2>1, <2>2, <2>3 DEF RestoreEffect
<1>4. CASE UNCHANGED host
  <2>1. Calm(OwnRestore)
    BY <1>4 DEF Calm
  <2>2. CASE R!Fail(p)
    BY <2>1, <2>2, RestoreFailEffect
  <2>3. CASE R!NextHelper(p, c) \/ R!Goto(p, "wait")
    BY <2>1, <2>3, RestoreGotoEffect
  <2>4. CASE R!Goto(p, "rollback")
    <3>1. PICK n \in RestoreJob : /\ restoreJob' = [restoreJob EXCEPT ![p] = n]
                                  /\ n.pc = "rollback" /\ n.cur = c /\ SameRestore(j, n)
      BY <2>4, RestoreGoto, RestorePlaces
    <3>2. RestoreInv(conf', n) /\ RestoreQuiet(j, n)
      BY <3>1, RestoreGoesOn, RestorePlaces
    <3>. QED  BY <2>1, <3>1, <3>2 DEF RestoreEffect
  <2>. QED  BY <2>2, <2>3, <2>4 DEF R!StartExisting, R!StartNew
<1>5. /\ R!ContainerStart(c) => Starting(c)
      /\ R!ContainerStartFails(c) => Starting(c)
      /\ UNCHANGED R!host => UNCHANGED host
  BY RestoreCalls DEF Starting, R!host, host
<1>. QED  BY <1>2, <1>3, <1>4, <1>5 DEF R!StartExisting, R!StartNew

(* The container of an empty check mounts outside of the bridge.           *)
LEMMA RestoreCheckEffect ==
  ASSUME HostInv, RestoreSideInv, NEW p \in RestoreProc,
         R!CheckStart(p) \/ R!CheckExit(p) \/ R!CheckWait(p)
  PROVE  \E n : RestoreEffect(p, n)
<1>. DEFINE j == restoreJob[p]
            c == j.cur
<1>. restoreJob \in [RestoreProc -> RestoreJob] /\ j \in RestoreJob /\ RestoreInv(conf, j)
     /\ j.pc \in {"checkstart", "checkwait"} /\ c \in ContainerId
  BY DEF RestoreSideInv, R!CheckStart, R!CheckExit, R!CheckWait, R!At, RestoreInv
<1>. j.pc \in R!Restoring \ {"source", "wait", "rollback"}
  BY RestorePlaces
<1>1. Alive(c) => conf[c] \in OwnChecks
  BY DEF RestoreInv, Alive
<1>. DEFINE Does == Calm(OwnRestore) \/ (conf[c] \in OwnChecks /\ (Starting(c) \/ Exits(c)))
<1>2. Does /\ (conf'[c] = None \/ conf'[c] \in OwnChecks)
  <2>1. CASE UNCHANGED R!host
    <3>1. Calm(OwnRestore) /\ conf' = conf
      BY <2>1 DEF Calm, R!host, host
    <3>. QED  BY <1>1, <3>1 DEF Alive
  <2>2. CASE R!ContainerStart(c)
    <3>1. Starting(c) /\ Alive(c) /\ conf' = conf
      BY <2>2, RestoreCalls DEF Starting, ContainerStart
    <3>. QED  BY <1>1, <3>1
  <2>3. CASE R!CheckExit(p)
    <3>1. Exits(c) /\ Alive(c) /\ conf' = conf
      BY <2>3 DEF R!CheckExit, Exits, HostInv, HostType
    <3>. QED  BY <1>1, <3>1
  <2>. QED  BY <2>1, <2>2, <2>3 DEF R!CheckStart, R!CheckWait
<1>. HIDE DEF Does
<1>3. PICK n \in RestoreJob : /\ restoreJob' = [restoreJob EXCEPT ![p] = n]
                              /\ n.pc \in {"checkwait", "checkdrop"} /\ n.cur = c /\ SameRestore(j, n)
  <2>1. CASE R!Goto(p, "checkwait") \/ R!Goto(p, "checkdrop")
    BY <2>1, RestoreGoto, RestorePlaces
  <2>2. CASE R!Become(p, [j EXCEPT !.pc = "checkdrop", !.exit = "nonzero"])
    <3>. DEFINE m == [j EXCEPT !.pc = "checkdrop", !.exit = "nonzero"]
    <3>1. "checkdrop" \in R!Restoring
      BY RestorePlaces
    <3>2. m \in RestoreJob
      BY <3>1 DEF RestoreJob
    <3>3. m.pc = "checkdrop" /\ m.cur = c /\ SameRestore(j, m)
      BY DEF RestoreJob, SameRestore
    <3>4. restoreJob' = [restoreJob EXCEPT ![p] = m]
      BY <2>2 DEF R!Become
    <3>. HIDE DEF m
    <3>. QED  BY <3>2, <3>3, <3>4
  <2>3. CASE R!CheckExit(p)
    <3>1. PICK shown \in BOOLEAN :
            R!Become(p, [j EXCEPT !.exit = IF shown THEN "nonzero" ELSE "zero", !.sawEmpty = ~shown])
      BY <2>3 DEF R!CheckExit
    <3>. DEFINE m == [j EXCEPT !.exit = IF shown THEN "nonzero" ELSE "zero", !.sawEmpty = ~shown]
    <3>2. m \in RestoreJob
      <4>1. CASE shown
        BY <4>1 DEF RestoreJob
      <4>2. CASE ~shown
        BY <4>2 DEF RestoreJob
      <4>. QED  BY <4>1, <4>2
    <3>3. m.pc = j.pc /\ m.cur = c /\ SameRestore(j, m)
      BY DEF RestoreJob, SameRestore
    <3>4. restoreJob' = [restoreJob EXCEPT ![p] = m]
      BY <3>1 DEF R!Become
    <3>5. j.pc = "checkwait"
      BY <2>3 DEF R!CheckExit, R!At
    <3>. HIDE DEF m
    <3>. QED  BY <3>2, <3>3, <3>4, <3>5
  <2>. QED  BY <2>1, <2>2, <2>3 DEF R!CheckStart, R!CheckWait
<1>4. RestoreInv(conf', n) /\ RestoreQuiet(j, n)
  BY <1>2, <1>3, RestoreGoesOn, RestorePlaces
<1>. QED  BY <1>2, <1>3, <1>4 DEF RestoreEffect, Does

(* The removal of the container of an empty check makes no layer.          *)
LEMMA RestoreDropEffect ==
  ASSUME HostInv, RestoreSideInv, NEW p \in RestoreProc, R!CheckDrop(p)
  PROVE  \E n : RestoreEffect(p, n)
<1>. DEFINE j == restoreJob[p]
<1>. restoreJob \in [RestoreProc -> RestoreJob] /\ j \in RestoreJob /\ RestoreInv(conf, j)
     /\ j.pc = "checkdrop" /\ j.cur \in ContainerId
  BY DEF RestoreSideInv, R!CheckDrop, R!At, RestoreInv
<1>1. Calm(OwnRestore)
  BY RestoreCalls DEF R!CheckDrop, ContainerRemove, Calm, R!host, host
<1>2. CASE R!Fail(p)
  BY <1>1, <1>2, RestoreFailEffect
<1>3. CASE R!Become(p, [j EXCEPT !.pc = "list", !.cur = None])
  <2>. DEFINE n == [j EXCEPT !.pc = "list", !.cur = None]
  <2>1. "list" \in R!Restoring
    BY RestorePlaces
  <2>2. n \in RestoreJob
    BY <2>1 DEF RestoreJob
  <2>3. n.pc = "list" /\ SameRestore(j, n)
    BY DEF RestoreJob, SameRestore
  <2>4. restoreJob' = [restoreJob EXCEPT ![p] = n]
    BY <1>3 DEF R!Become
  <2>. HIDE DEF n
  <2>5. RestoreInv(conf', n) /\ RestoreQuiet(j, n)
    BY <2>2, <2>3, RestoreGoesOn, RestorePlaces
  <2>. QED  BY <1>1, <2>2, <2>4, <2>5 DEF RestoreEffect
<1>. QED  BY <1>2, <1>3 DEF R!CheckDrop

(* A session's containers are the side's own.                              *)
LEMMA SessionIsOwn ==
  ASSUME HostInv, NEW k
  PROVE  R!Summaries(R!SessionContainers(k)) \in SUBSET [id : ContainerId, conf : OwnRestore]
<1>1. ASSUME NEW c \in ContainerId, Alive(c), conf[c].mode = "restore" PROVE conf[c] \in OwnRestore
  BY <1>1, SeenContainers, BackupIsSeen DEF Own
<1>. QED  BY <1>1 DEF R!Summaries, R!SessionContainers, R!Alive, Alive

(* Listing the helpers of the target makes no layer.                       *)
LEMMA RestoreListEffect ==
  ASSUME HostInv, RestoreSideInv, NEW p \in RestoreProc, R!ListHelpers(p)
  PROVE  \E n : RestoreEffect(p, n)
<1>. DEFINE j == restoreJob[p]
<1>. restoreJob \in [RestoreProc -> RestoreJob] /\ j \in RestoreJob /\ RestoreInv(conf, j) /\ j.pc = "list"
  BY DEF RestoreSideInv, R!ListHelpers, R!At
<1>1. Calm(OwnRestore)
  BY DEF R!ListHelpers, Calm, R!host, host
<1>2. CASE R!Fail(p)
  BY <1>1, <1>2, RestoreFailEffect
<1>3. CASE R!Become(p, [j EXCEPT !.pc = "scan", !.found = R!Summaries(R!SessionContainers(j.session))])
  <2>. DEFINE F == R!Summaries(R!SessionContainers(j.session))
              n == [j EXCEPT !.pc = "scan", !.found = F]
  <2>1. F \in SUBSET [id : ContainerId, conf : OwnRestore]
    BY SessionIsOwn
  <2>2. restoreJob' = [restoreJob EXCEPT ![p] = n]
    BY <1>3 DEF R!Become
  <2>. HIDE DEF F
  <2>3. "scan" \in R!Restoring
    BY RestorePlaces
  <2>4. n \in RestoreJob
    BY <2>1, <2>3 DEF RestoreJob
  <2>5. n.pc = "scan" /\ SameRestore(j, n)
    BY DEF RestoreJob, SameRestore
  <2>. HIDE DEF n
  <2>6. RestoreInv(conf', n) /\ RestoreQuiet(j, n)
    BY <2>4, <2>5, RestoreGoesOn, RestorePlaces
  <2>. QED  BY <1>1, <2>2, <2>4, <2>6 DEF RestoreEffect
<1>. QED  BY <1>2, <1>3 DEF R!ListHelpers

(* The removal of a container makes no layer.                              *)
LEMMA RestoreRemoveEffect ==
  ASSUME HostInv, RestoreSideInv, NEW p \in RestoreProc, NEW c \in ContainerId,
         restoreJob[p].pc \in {"scan", "replace"}, R!RemoveAndGoOn(p, c)
  PROVE  \E n : RestoreEffect(p, n)
<1>1. Calm(OwnRestore)
  BY RestoreCalls DEF R!RemoveAndGoOn, ContainerRemove, Calm, R!host, host
<1>2. restoreJob[p].pc \in R!Restoring \ {"source", "wait", "rollback"}
  BY RestorePlaces
<1>. QED  BY <1>1, <1>2, RestoreGotoEffect, RestoreFailEffect DEF R!RemoveAndGoOn

(* Only a helper that would be created the same way is taken over.         *)
LEMMA RestoreInspectEffect ==
  ASSUME HostInv, RestoreSideInv, NEW p \in RestoreProc, NEW s \in restoreJob[p].found, R!Inspect(p, s)
  PROVE  \E n : RestoreEffect(p, n)
<1>. DEFINE j == restoreJob[p]
<1>. restoreJob \in [RestoreProc -> RestoreJob] /\ j \in RestoreJob /\ RestoreInv(conf, j) /\ j.pc = "scan"
     /\ s.id \in ContainerId /\ conf' = conf
  BY DEF RestoreSideInv, R!Inspect, R!At, RestoreJob, R!host
<1>. j.pc \in R!Restoring \ {"source", "wait", "rollback"}
  BY RestorePlaces
<1>1. Calm(OwnRestore)
  BY DEF R!Inspect, Calm, R!host, host
<1>2. CASE R!Fail(p)
  BY <1>1, <1>2, RestoreFailEffect
<1>3. CASE R!NextHelper(p, s.id) \/ R!Goto(p, "wait")
  BY <1>1, <1>3, RestoreGotoEffect
<1>4. ASSUME NEW label \in {"replace", "start"}, label = "start" => conf[s.id] \in OwnHelpers,
             R!Become(p, [j EXCEPT !.pc = label, !.cur = s.id])
      PROVE  \E n : RestoreEffect(p, n)
  <2>. DEFINE n == [j EXCEPT !.pc = label, !.cur = s.id]
  <2>1. label \in R!Restoring
    BY RestorePlaces
  <2>2. n \in RestoreJob
    BY <2>1 DEF RestoreJob
  <2>3. n.pc = label /\ n.cur = s.id /\ SameRestore(j, n)
    BY DEF RestoreJob, SameRestore
  <2>4. restoreJob' = [restoreJob EXCEPT ![p] = n]
    BY <1>4 DEF R!Become
  <2>. HIDE DEF n
  <2>5. RestoreInv(conf', n) /\ RestoreQuiet(j, n)
    BY <1>4, <2>1, <2>2, <2>3, RestoreGoesOn, RestorePlaces
  <2>. QED  BY <1>1, <2>2, <2>4, <2>5 DEF RestoreEffect
<1>5. CASE R!Become(p, [j EXCEPT !.pc = "replace", !.cur = s.id])
  BY <1>4, <1>5, Zenon
<1>6. CASE R!HelperMatches(conf[s.id], j) /\ R!Become(p, [j EXCEPT !.pc = "start", !.cur = s.id])
  <2>1. conf[s.id] \in OwnHelpers
    BY <1>6, RestoreCreates DEF R!HelperMatches
  <2>. QED  BY <1>4, <1>6, <2>1, Zenon
<1>. QED  BY <1>2, <1>3, <1>5, <1>6 DEF R!Inspect

(* A restore that ends leaves the layer it has.                            *)
LEMMA RestoreEndsEffect ==
  ASSUME HostInv, RestoreSideInv, NEW p \in RestoreProc, R!Rollback(p) \/ R!Wait(p)
  PROVE  \E n : RestoreEffect(p, n)
<1>. DEFINE j == restoreJob[p]
<1>. restoreJob \in [RestoreProc -> RestoreJob] /\ j \in RestoreJob /\ RestoreInv(conf, j)
  BY DEF RestoreSideInv
<1>1. Calm(OwnRestore)
  <2>1. CASE UNCHANGED R!host
    BY <2>1 DEF Calm, R!host, host
  <2>2. CASE R!Rollback(p)
    <3>1. j.cur \in ContainerId
      BY <2>2 DEF R!Rollback, R!At, RestoreInv
    <3>. QED  BY <2>2, <3>1, RestoreCalls DEF R!Rollback, ContainerRemove, Calm, R!host, host
  <2>. QED  BY <2>1, <2>2 DEF R!Wait
<1>2. CASE R!Fail(p)
  BY <1>1, <1>2, RestoreFailEffect
<1>3. CASE R!Become(p, [j EXCEPT !.pc = "ready", !.cur = None, !.found = {}])
  <2>. DEFINE n == [j EXCEPT !.pc = "ready", !.cur = None, !.found = {}]
  <2>1. "ready" \in R!Resting
    BY RestorePlaces
  <2>2. n \in RestoreJob
    BY <2>1 DEF RestoreJob
  <2>3. n.pc = "ready"
    BY DEF RestoreJob
  <2>4. restoreJob' = [restoreJob EXCEPT ![p] = n]
    BY <1>3 DEF R!Become
  <2>. HIDE DEF n
  <2>5. RestoreInv(conf', n) /\ RestoreQuiet(j, n)
    BY <2>1, <2>2, <2>3, RestoreRests
  <2>. QED  BY <1>1, <2>2, <2>4, <2>5 DEF RestoreEffect
<1>. QED  BY <1>2, <1>3 DEF R!Rollback, R!Wait

(* A restore-cleanup makes no layers.                                      *)
LEMMA RestoreCleanupEffect ==
  ASSUME HostInv, RestoreSideInv, NEW p \in RestoreProc, R!CleanupStep(p) \/ R!Crash(p)
  PROVE  \E n : RestoreEffect(p, n)
<1>. DEFINE j == restoreJob[p]
            Kept(n) == \A s \in n.found : s.conf \in OwnHelpers
            Done(n) == /\ n \in RestoreJob
                       /\ \/ n.pc \in R!Resting \union {"listall"}
                          \/ n.pc = "remove" /\ Kept(n)
                          \/ n.pc = "umount" /\ Kept(n) /\ n.key \in R!Key
                       /\ restoreJob' = [restoreJob EXCEPT ![p] = n]
<1>. restoreJob \in [RestoreProc -> RestoreJob] /\ j \in RestoreJob /\ RestoreInv(conf, j)
  BY DEF RestoreSideInv
<1>1. ASSUME Calm(OwnRestore), NEW n, Done(n) PROVE RestoreEffect(p, n)
  <2>1. CASE n.pc \in R!Resting \union {"listall"}
    BY <1>1, <2>1, RestoreRests DEF RestoreEffect
  <2>2. CASE n.pc \in {"remove", "umount"}
    <3>1. RestoreInv(conf', n) /\ RestoreQuiet(j, n)
      BY <1>1, <2>2, RestorePlaces DEF RestoreInv, RestoreQuiet, RestoreAhead
    <3>. QED  BY <1>1, <3>1 DEF RestoreEffect
  <2>. QED  BY <1>1, <2>1, <2>2
<1>2. UNCHANGED R!host => Calm(OwnRestore)
  BY DEF Calm, R!host, host
<1>3. ASSUME R!Crash(p) PROVE \E n : RestoreEffect(p, n)
  <2>1. "idle" \in R!Resting
    BY RestorePlaces
  <2>2. R!Idle \in RestoreJob /\ R!Idle.pc = "idle"
    BY <2>1 DEF R!Idle, RestoreJob
  <2>3. Done(R!Idle) /\ UNCHANGED R!host
    BY <1>3, <2>1, <2>2 DEF R!Crash, R!Become
  <2>. QED  BY <1>1, <1>2, <2>3
<1>4. ASSUME NEW k \in Session \union {None}, R!StartCleanup(p, k) PROVE \E n : RestoreEffect(p, n)
  <2>. DEFINE n == [R!Idle EXCEPT !.pc = "listall", !.session = k]
  <2>1. "listall" \in R!Cleaning
    BY RestorePlaces
  <2>2. n \in RestoreJob
    BY <2>1 DEF R!Idle, RestoreJob
  <2>3. n.pc = "listall"
    BY DEF R!Idle
  <2>4. restoreJob' = [restoreJob EXCEPT ![p] = n] /\ UNCHANGED R!host
    BY <1>4 DEF R!StartCleanup, R!Become
  <2>. HIDE DEF n
  <2>. QED  BY <1>1, <1>2, <2>2, <2>3, <2>4
<1>5. ASSUME R!CleanupList(p) PROVE \E n : RestoreEffect(p, n)
  <2>. DEFINE H == {s \in R!Summaries(R!SessionContainers(j.session)) : R!IsManaged(s.conf, j.session)}
              T == {R!TargetKey(s.conf) : s \in H}
              n1 == [j EXCEPT !.pc = "remove", !.found = H, !.listed = H, !.targets = T]
              n2 == [j EXCEPT !.pc = "cleaned", !.errs = TRUE]
  <2>1. H \in SUBSET [id : ContainerId, conf : OwnRestore]
    BY SessionIsOwn
  <2>2. \A s \in H : s.conf \in OwnHelpers /\ R!TargetKey(s.conf) \in R!Key
    <3>. SUFFICES ASSUME NEW s \in H PROVE s.conf \in OwnHelpers /\ R!TargetKey(s.conf) \in R!Key
      OBVIOUS
    <3>1. s.conf \in OwnRestore /\ R!IsManaged(s.conf, j.session)
      BY <2>1
    <3>2. s.conf \notin OwnChecks
      BY <3>1, OwnChecksFields DEF R!IsManaged
    <3>3. s.conf \in OwnHelpers
      BY <3>1, <3>2 DEF OwnRestore
    <3>. QED  BY <3>3, OwnHelpersFields, VolumesAssumption DEF R!TargetKey, R!Key
  <2>3. T \in SUBSET R!Key
    BY <2>2
  <2>4. UNCHANGED R!host /\ (restoreJob' = [restoreJob EXCEPT ![p] = n1] \/ restoreJob' = [restoreJob EXCEPT ![p] = n2])
    BY <1>5 DEF R!CleanupList, R!Become
  <2>. HIDE DEF H, T
  <2>5. "remove" \in R!Cleaning /\ "cleaned" \in R!Resting
    BY RestorePlaces
  <2>6. n1 \in RestoreJob /\ n1.pc = "remove" /\ n1.found = H
    BY <2>1, <2>3, <2>5 DEF RestoreJob
  <2>7. n2 \in RestoreJob /\ n2.pc = "cleaned"
    BY <2>5 DEF RestoreJob
  <2>. HIDE DEF n1, n2
  <2>. QED  BY <1>1, <1>2, <2>2, <2>4, <2>5, <2>6, <2>7
<1>6. ASSUME j.pc = "remove", NEW s \in j.found, NEW failed \in BOOLEAN, R!Removed(p, s, failed)
      PROVE  \E n : Done(n)
  <2>. DEFINE u == s.conf.friendly \in UnsafeName
              k == R!TargetKey(s.conf)
              n == [j EXCEPT !.found = @ \ {s},
                             !.blocked = IF failed \/ u THEN @ \union {k} ELSE @,
                             !.errs = @ \/ failed \/ u]
  <2>1. Kept(j) /\ s.conf \in OwnHelpers
    BY <1>6 DEF RestoreInv
  <2>2. k \in R!Key /\ u \in BOOLEAN
    BY <2>1, OwnHelpersFields, VolumesAssumption DEF R!TargetKey, R!Key
  <2>3. restoreJob' = [restoreJob EXCEPT ![p] = n]
    BY <1>6 DEF R!Removed, R!Become
  <2>4. n.pc = "remove" /\ n.found = j.found \ {s}
    BY <1>6 DEF RestoreJob
  <2>. HIDE DEF k, u
  <2>5. n \in RestoreJob
    <3>1. CASE failed \/ u
      BY <2>2, <3>1 DEF RestoreJob
    <3>2. CASE ~failed /\ ~u
      <4>1. \A e \in BOOLEAN :
              [j EXCEPT !.found = @ \ {s}, !.blocked = @, !.errs = e] \in RestoreJob
        BY DEF RestoreJob
      <4>2. (j.errs \/ failed \/ u) \in BOOLEAN
        OBVIOUS
      <4>3. n = [j EXCEPT !.found = @ \ {s}, !.blocked = @, !.errs = @ \/ failed \/ u]
        BY <3>2
      <4>. QED  BY <4>1, <4>2, <4>3
    <3>. QED  BY <3>1, <3>2
  <2>. HIDE DEF n
  <2>. QED  BY <2>1, <2>3, <2>4, <2>5
<1>7. ASSUME NEW s \in j.found, R!RemoveHelper(p, s) PROVE \E n : RestoreEffect(p, n)
  <2>1. s.id \in ContainerId
    BY DEF RestoreJob
  <2>2. Calm(OwnRestore)
    BY <1>7, <2>1, RestoreCalls DEF R!RemoveHelper, ContainerRemove, Calm, R!host, host
  <2>3. j.pc = "remove" /\ \E failed \in BOOLEAN : R!Removed(p, s, failed)
    BY <1>7 DEF R!RemoveHelper, R!At
  <2>. QED  BY <1>1, <1>6, <2>2, <2>3
<1>8. ASSUME j.pc \in {"remove", "umount"}, NEW key, NEW failed \in BOOLEAN, R!NextTarget(p, key, failed)
      PROVE  \E n : Done(n)
  <2>. DEFINE n == [j EXCEPT !.pc = "remove", !.targets = @ \ {key}, !.key = None, !.errs = @ \/ failed]
  <2>1. restoreJob' = [restoreJob EXCEPT ![p] = n]
    BY <1>8 DEF R!NextTarget, R!Become
  <2>2. "remove" \in R!Cleaning
    BY RestorePlaces
  <2>3. n.pc = "remove" /\ n.found = j.found
    BY DEF RestoreJob
  <2>4. n \in RestoreJob
    <3>1. \A e \in BOOLEAN :
            [j EXCEPT !.pc = "remove", !.targets = @ \ {key}, !.key = None, !.errs = e] \in RestoreJob
      BY <2>2 DEF RestoreJob
    <3>2. (j.errs \/ failed) \in BOOLEAN
      OBVIOUS
    <3>. QED  BY <3>1, <3>2
  <2>5. Kept(j)
    BY <1>8 DEF RestoreInv
  <2>. HIDE DEF n
  <2>. QED  BY <2>1, <2>3, <2>4, <2>5
<1>9. ASSUME NEW key \in j.targets, R!SkipBlocked(p, key) PROVE \E n : RestoreEffect(p, n)
  <2>1. j.pc = "remove" /\ R!NextTarget(p, key, TRUE) /\ UNCHANGED R!host
    BY <1>9 DEF R!SkipBlocked, R!At
  <2>. QED  BY <1>1, <1>2, <1>8, <2>1
<1>10. ASSUME NEW key \in j.targets, R!CheckTarget(p, key) PROVE \E n : RestoreEffect(p, n)
  <2>1. j.pc = "remove" /\ UNCHANGED R!host
    BY <1>10 DEF R!CheckTarget, R!At
  <2>2. CASE \E failed \in BOOLEAN : R!NextTarget(p, key, failed)
    BY <1>1, <1>2, <1>8, <2>1, <2>2
  <2>3. CASE R!Become(p, [j EXCEPT !.pc = "umount", !.key = key])
    <3>. DEFINE n == [j EXCEPT !.pc = "umount", !.key = key]
    <3>1. "umount" \in R!Cleaning
      BY RestorePlaces
    <3>2. n \in RestoreJob
      BY <3>1 DEF RestoreJob
    <3>3. n.pc = "umount" /\ n.key \in R!Key /\ n.found = j.found
      BY DEF RestoreJob
    <3>4. restoreJob' = [restoreJob EXCEPT ![p] = n]
      BY <2>3 DEF R!Become
    <3>5. Kept(j)
      BY <2>1 DEF RestoreInv
    <3>. HIDE DEF n
    <3>. QED  BY <1>1, <1>2, <2>1, <3>2, <3>3, <3>4, <3>5
  <2>. QED  BY <1>10, <2>2, <2>3 DEF R!CheckTarget
<1>11. ASSUME R!UmountTarget(p) PROVE \E n : RestoreEffect(p, n)
  <2>1. j.pc = "umount" /\ j.key \in R!Key /\ \E failed \in BOOLEAN : R!NextTarget(p, j.key, failed)
    BY <1>11 DEF R!UmountTarget, R!At, RestoreInv
  <2>2. <<"restore", R!KeyName(j.key)>> \in B!MountPoint
    BY <2>1 DEF R!Key, R!KeyName, B!MountPoint
  <2>3. Calm(OwnRestore)
    BY <1>11, <2>2, RestoreCalls DEF R!UmountTarget, R!CleanupAt, Calm, R!host, host
  <2>. QED  BY <1>1, <1>8, <2>1, <2>3
<1>12. ASSUME R!CleanupDone(p) PROVE \E n : RestoreEffect(p, n)
  <2>1. R!Goto(p, "cleaned") /\ UNCHANGED R!host /\ "cleaned" \in R!Resting
    BY <1>12, RestorePlaces DEF R!CleanupDone
  <2>2. PICK n \in RestoreJob : restoreJob' = [restoreJob EXCEPT ![p] = n] /\ n.pc = "cleaned"
    BY <2>1, RestoreGoto
  <2>. QED  BY <1>1, <1>2, <2>1, <2>2
<1>. QED  BY <1>3, <1>4, <1>5, <1>7, <1>9, <1>10, <1>11, <1>12 DEF R!CleanupStep

(* Every step of the restore side keeps to it.                             *)
LEMMA RestoreStepEffect ==
  ASSUME HostInv, RestoreSideInv, NewIdentifiers, NEW p \in RestoreProc, R!Step(p)
  PROVE  \E n : RestoreEffect(p, n)
<1>1. ASSUME NEW s \in restoreJob[p].found, R!RemoveUnexpected(p, s)
      PROVE  \E n : RestoreEffect(p, n)
  <2>1. s.id \in ContainerId
    BY DEF RestoreSideInv, RestoreJob
  <2>. QED  BY <1>1, <2>1, RestoreRemoveEffect DEF R!RemoveUnexpected, R!At
<1>2. ASSUME R!Replace(p) PROVE \E n : RestoreEffect(p, n)
  <2>1. restoreJob[p].cur \in ContainerId
    BY <1>2 DEF RestoreSideInv, RestoreInv, R!Replace, R!At
  <2>. QED  BY <1>2, <2>1, RestoreRemoveEffect DEF R!Replace, R!At
<1>3. CASE R!RestoreStep(p)
  BY <1>1, <1>2, <1>3, RestoreBeginsEffect, RestoreTargetEffect, RestoreCreateEffect, RestoreStartEffect,
     RestoreCheckEffect, RestoreDropEffect, RestoreListEffect, RestoreInspectEffect, RestoreEndsEffect
     DEF R!RestoreStep
<1>. QED  BY <1>3, RestoreCheckEffect, RestoreCleanupEffect DEF R!Step

-------------------------------------------------------------------------------
(* The invariant is kept.                                                  *)

(* A smaller set has no more members,                                      *)
LEMMA CountSmaller ==
  ASSUME NEW S, NEW T \in SUBSET S, IsFiniteSet(S)
  PROVE  Cardinality(S) \in Nat /\ Cardinality(T) \in Nat /\ Cardinality(T) <= Cardinality(S)
BY FS_Subset, FS_CardinalityType

(* one without a member of the larger has one less,                        *)
LEMMA CountLess ==
  ASSUME NEW S, NEW x \in S, NEW T \in SUBSET (S \ {x}), IsFiniteSet(S)
  PROVE  Cardinality(S) \in Nat /\ Cardinality(T) \in Nat /\ Cardinality(T) + 1 <= Cardinality(S)
<1>1. IsFiniteSet(S \ {x}) /\ Cardinality(S \ {x}) = Cardinality(S) - 1
  BY FS_RemoveElement
<1>2. Cardinality(T) \in Nat /\ Cardinality(T) <= Cardinality(S \ {x}) /\ Cardinality(S) \in Nat
  BY <1>1, CountSmaller, FS_CardinalityType
<1>. QED  BY <1>1, <1>2

(* and one with a member more has at most one more.                        *)
LEMMA CountMore ==
  ASSUME NEW S, NEW x, NEW T \in SUBSET (S \union {x}), IsFiniteSet(S)
  PROVE  Cardinality(S) \in Nat /\ Cardinality(T) \in Nat /\ Cardinality(T) <= Cardinality(S) + 1
<1>1. IsFiniteSet(S \union {x}) /\ Cardinality(S) \in Nat /\ Cardinality(S \union {x}) <= Cardinality(S) + 1
  <2>1. Cardinality(S) \in Nat
    BY FS_CardinalityType
  <2>2. IsFiniteSet(S \union {x})
        /\ Cardinality(S \union {x}) = IF x \in S THEN Cardinality(S) ELSE Cardinality(S) + 1
    BY FS_AddElement
  <2>. QED  BY <2>1, <2>2
<1>2. Cardinality(T) \in Nat /\ Cardinality(T) <= Cardinality(S \union {x})
     /\ Cardinality(S \union {x}) \in Nat
  BY <1>1, CountSmaller
<1>. QED  BY <1>1, <1>2

(* The two paths of a friendly name.                                       *)
LEMMA ViewPaths ==
  ASSUME NEW f \in Name
  PROVE  <<"backup", f>> \in B!MountPoint /\ <<"restore", f>> \in B!MountPoint
BY DEF B!MountPoint

(* The length of a mount point is a number before and after a step.        *)
LEMMA Lengths ==
  ASSUME HostInv, HostInv', NEW at \in B!MountPoint
  PROVE  Len(mounts[at]) \in Nat /\ Len(mounts'[at]) \in Nat
<1>1. mounts[at] \in Seq(Volume) /\ mounts'[at] \in Seq(Volume)
  BY DEF HostInv, HostType
<1>. QED  BY <1>1, LenProperties

(* What a process knows of its container stays true whatever others do.    *)
LEMMA BackupRemembers ==
  ASSUME BackupSideInv, KeepsKnown, NEW q \in BackupProc
  PROVE  BackupInv(conf', backupJob[q])
<1>1. BackupInv(conf, backupJob[q])
  BY DEF BackupSideInv
<1>2. ASSUME backupJob[q].cur \in ContainerId
      PROVE  conf'[backupJob[q].cur] \in {conf[backupJob[q].cur], None}
  BY <1>2 DEF KeepsKnown, B!Fresh
<1>. QED  BY <1>1, <1>2 DEF BackupInv

(* So does what a process of the restore side knows.                       *)
LEMMA RestoreRemembers ==
  ASSUME RestoreSideInv, KeepsKnown, NEW q \in RestoreProc
  PROVE  RestoreInv(conf', restoreJob[q])
<1>1. RestoreInv(conf, restoreJob[q])
  BY DEF RestoreSideInv
<1>2. ASSUME restoreJob[q].cur \in ContainerId
      PROVE  conf'[restoreJob[q].cur] \in {conf[restoreJob[q].cur], None}
  BY <1>2 DEF KeepsKnown, R!Fresh
<1>. QED  BY <1>1, <1>2 DEF RestoreInv

BackupNotLonger == \A f \in Name : Len(mounts'[<<"backup", f>>]) <= Len(mounts[<<"backup", f>>])
RestoreNotLonger == \A f \in Name : Len(mounts'[<<"restore", f>>]) <= Len(mounts[<<"restore", f>>])

(* The other side's steps keep what the invariant says of the backup side. *)
LEMMA BackupStays ==
  ASSUME Inv, HostInv', KeepsKnown, UNCHANGED backupJob, BackupNotLonger
  PROVE  BackupSideInv' /\ BackupRoom'
<1>1. BackupSideInv'
  BY BackupRemembers DEF Inv, BackupSideInv
<1>2. ASSUME NEW f \in Name
      PROVE  Len(mounts'[<<"backup", f>>])
               + Cardinality({q \in BackupProc : BackupAhead(backupJob'[q], f)}) <= MaxLayers
  <2>. DEFINE S == {q \in BackupProc : BackupAhead(backupJob[q], f)}
              T == {q \in BackupProc : BackupAhead(backupJob'[q], f)}
  <2>1. T = S
    OBVIOUS
  <2>2. IsFiniteSet(S) /\ Cardinality(S) \in Nat
    BY BoundsAssumption, FS_Subset, FS_CardinalityType
  <2>3. Len(mounts[<<"backup", f>>]) + Cardinality(S) <= MaxLayers
    BY DEF Inv, BackupRoom
  <2>4. Len(mounts'[<<"backup", f>>]) <= Len(mounts[<<"backup", f>>])
    BY DEF BackupNotLonger
  <2>5. Len(mounts'[<<"backup", f>>]) \in Nat /\ Len(mounts[<<"backup", f>>]) \in Nat
    <3>. HostInv
      BY DEF Inv
    <3>. QED  BY ViewPaths, Lengths
  <2>6. Len(mounts'[<<"backup", f>>]) + Cardinality(T) <= MaxLayers
    <3>. HIDE DEF S, T
    <3>. QED  BY <2>1, <2>2, <2>3, <2>4, <2>5, BoundsAssumption
  <2>. QED  BY <2>6
<1>. QED  BY <1>1, <1>2 DEF BackupRoom

(* And what it says of the restore side.                                   *)
LEMMA RestoreStays ==
  ASSUME Inv, HostInv', KeepsKnown, UNCHANGED restoreJob, RestoreNotLonger
  PROVE  RestoreSideInv' /\ RestoreRoom'
<1>1. RestoreSideInv'
  BY RestoreRemembers DEF Inv, RestoreSideInv
<1>2. ASSUME NEW f \in Name
      PROVE  Len(mounts'[<<"restore", f>>])
               + Cardinality({q \in RestoreProc : RestoreAhead(restoreJob'[q])}) <= MaxLayers
  <2>. DEFINE S == {q \in RestoreProc : RestoreAhead(restoreJob[q])}
              T == {q \in RestoreProc : RestoreAhead(restoreJob'[q])}
  <2>1. T = S
    OBVIOUS
  <2>2. IsFiniteSet(S) /\ Cardinality(S) \in Nat
    BY BoundsAssumption, FS_Subset, FS_CardinalityType
  <2>3. Len(mounts[<<"restore", f>>]) + Cardinality(S) <= MaxLayers
    BY DEF Inv, RestoreRoom
  <2>4. Len(mounts'[<<"restore", f>>]) <= Len(mounts[<<"restore", f>>])
    BY DEF RestoreNotLonger
  <2>5. Len(mounts'[<<"restore", f>>]) \in Nat /\ Len(mounts[<<"restore", f>>]) \in Nat
    <3>. HostInv
      BY DEF Inv
    <3>. QED  BY ViewPaths, Lengths
  <2>6. Len(mounts'[<<"restore", f>>]) + Cardinality(T) <= MaxLayers
    <3>. HIDE DEF S, T
    <3>. QED  BY <2>1, <2>2, <2>3, <2>4, <2>5, BoundsAssumption
  <2>. QED  BY <2>6
<1>. QED  BY <1>1, <1>2 DEF RestoreRoom

(* Where no mount point grows, none of either view does.                   *)
LEMMA ShrinksBoth ==
  ASSUME Shrinks
  PROVE  BackupNotLonger /\ RestoreNotLonger
BY ViewPaths DEF Shrinks, BackupNotLonger, RestoreNotLonger

(* A step of the backup side keeps the daemon's types, what the others     *)
(* know and the layers of the restore view.                                *)
LEMMA BackupTouches ==
  ASSUME HostInv, NEW p, NEW n, BackupEffect(p, n)
  PROVE  HostInv' /\ KeepsKnown /\ RestoreNotLonger
<1>1. CASE Calm(OwnBackup) \/ UNCHANGED host
  <2>1. Calm(OwnBackup) /\ OwnBackup \in SUBSET Own
    BY <1>1 DEF Calm, Own
  <2>. QED  BY <2>1, CalmKeeps, ShrinksBoth
<1>2. ASSUME NEW c \in ContainerId, NEW f \in Name, conf[c].at = <<"backup", f>>, Starting(c)
      PROVE  HostInv' /\ KeepsKnown /\ RestoreNotLonger
  <2>1. HostInv' /\ KeepsKnown /\ GrowsAt(<<"backup", f>>)
    BY <1>2, StartKeeps
  <2>2. \A g \in Name : <<"restore", g>> # <<"backup", f>>
    OBVIOUS
  <2>. QED  BY <2>1, <2>2, ViewPaths DEF GrowsAt, RestoreNotLonger
<1>. QED  BY <1>1, <1>2 DEF BackupEffect

(* A step of the backup side keeps its own part of the invariant.          *)
LEMMA BackupAdvances ==
  ASSUME Inv, NEW p \in BackupProc, NEW n, BackupEffect(p, n)
  PROVE  BackupSideInv' /\ BackupRoom'
<1>. DEFINE j == backupJob[p]
<1>. HostInv /\ BackupSideInv /\ backupJob \in [BackupProc -> BackupJob]
  BY DEF Inv, BackupSideInv
<1>1. HostInv' /\ KeepsKnown
  BY BackupTouches
<1>2. n \in BackupJob /\ BackupInv(conf', n) /\ backupJob' = [backupJob EXCEPT ![p] = n]
  BY DEF BackupEffect
<1>3. \A q \in BackupProc : backupJob'[q] = IF q = p THEN n ELSE backupJob[q]
  BY <1>2
<1>4. BackupSideInv'
  <2>1. \A q \in BackupProc : BackupInv(conf', backupJob'[q])
    BY <1>1, <1>2, <1>3, BackupRemembers
  <2>. QED  BY <1>2, <2>1 DEF BackupSideInv
<1>5. ASSUME NEW f \in Name
      PROVE  Len(mounts'[<<"backup", f>>])
               + Cardinality({q \in BackupProc : BackupAhead(backupJob'[q], f)}) <= MaxLayers
  <2>. DEFINE S == {q \in BackupProc : BackupAhead(backupJob[q], f)}
              T == {q \in BackupProc : BackupAhead(backupJob'[q], f)}
              P == {q \in BackupProc : backupJob[q].pc \in B!Preparing}
              old == Len(mounts[<<"backup", f>>])
              new == Len(mounts'[<<"backup", f>>])
  <2>1. old \in Nat /\ new \in Nat
    BY <1>1, ViewPaths, Lengths
  <2>2. old + Cardinality(S) <= MaxLayers
    BY DEF Inv, BackupRoom
  <2>3. IsFiniteSet(S) /\ IsFiniteSet(P) /\ S \subseteq P
    BY BoundsAssumption, FS_Subset DEF BackupAhead
  <2>4. T \subseteq S \union {p} /\ (p \in T <=> BackupAhead(n, f)) /\ (p \in S <=> BackupAhead(j, f))
    BY <1>3
  <2>5. CASE Calm(OwnBackup) /\ BackupQuiet(j, n)
    <3>1. T \subseteq S
      BY <2>4, <2>5 DEF BackupQuiet
    <3>2. new <= old
      <4>1. OwnBackup \in SUBSET Own
        BY DEF Own
      <4>. QED  BY <2>5, <4>1, CalmKeeps, ShrinksBoth DEF BackupNotLonger
    <3>. HIDE DEF S, T, P, old, new
    <3>3. Cardinality(S) \in Nat /\ Cardinality(T) \in Nat /\ Cardinality(T) <= Cardinality(S)
      BY <2>3, <3>1, CountSmaller
    <3>4. new + Cardinality(T) <= MaxLayers
      BY <2>1, <2>2, <3>2, <3>3, BoundsAssumption
    <3>. QED  BY <3>4 DEF T, new
  <2>6. ASSUME NEW c \in ContainerId, NEW g \in Name, conf[c].at = <<"backup", g>>, Starting(c),
               BackupQuiet(j, n), BackupLeaves(j, n, g)
        PROVE  new + Cardinality(T) <= MaxLayers
    <3>1. GrowsAt(<<"backup", g>>)
      BY <2>6, StartKeeps
    <3>2. T \subseteq S
      BY <2>4, <2>6 DEF BackupQuiet
    <3>3. CASE f = g
      <4>1. new <= old + 1
        BY <3>1, ViewPaths DEF GrowsAt
      <4>2. p \in S /\ T \subseteq S \ {p}
        BY <2>4, <2>6, <3>2, <3>3 DEF BackupLeaves
      <4>. HIDE DEF S, T, P, old, new
      <4>3. Cardinality(S) \in Nat /\ Cardinality(T) \in Nat /\ Cardinality(T) + 1 <= Cardinality(S)
        BY <2>3, <4>2, CountLess
      <4>. QED  BY <2>1, <2>2, <4>1, <4>3, BoundsAssumption
    <3>4. CASE f # g
      <4>1. new <= old
        <5>1. <<"backup", f>> # <<"backup", g>>
          BY <3>4
        <5>. QED  BY <3>1, <5>1, ViewPaths DEF GrowsAt
      <4>. HIDE DEF S, T, P, old, new
      <4>2. Cardinality(S) \in Nat /\ Cardinality(T) \in Nat /\ Cardinality(T) <= Cardinality(S)
        BY <2>3, <3>2, CountSmaller
      <4>. QED  BY <2>1, <2>2, <4>1, <4>2, BoundsAssumption
    <3>. QED  BY <3>3, <3>4
  <2>7. CASE UNCHANGED host /\ B!Headroom
    <3>1. old + Cardinality(P) < MaxLayers
      BY <2>7, SameCount DEF B!Headroom, B!Layers, B!BackupAt
    <3>2. new = old
      BY <2>7 DEF host
    <3>3. T \in SUBSET (P \union {p})
      BY <2>3, <2>4
    <3>. HIDE DEF S, T, P, old, new
    <3>4. Cardinality(P) \in Nat /\ Cardinality(T) \in Nat /\ Cardinality(T) <= Cardinality(P) + 1
      BY <2>3, <3>3, CountMore
    <3>5. new + Cardinality(T) <= MaxLayers
      BY <2>1, <3>1, <3>2, <3>4, BoundsAssumption
    <3>. QED  BY <3>5 DEF T, new
  <2>. QED  BY <2>5, <2>6, <2>7 DEF BackupEffect
<1>. QED  BY <1>4, <1>5 DEF BackupRoom

(* The container of an empty check is not on the bridge.                   *)
LEMMA ChecksMountNothing ==
  ASSUME NEW c \in ContainerId, conf[c] \in OwnChecks
  PROVE  conf[c].at = None /\ None \notin B!MountPoint
<1>1. B!MountPoint = BackupView!MountPoint
  BY DEF B!MountPoint, BackupView!MountPoint
<1>. QED  BY <1>1, RestoreIsSeen, NoneAssumption DEF OwnRestore

(* A step of the restore side leaves the backup view alone.                *)
LEMMA RestoreTouches ==
  ASSUME HostInv, NEW p, NEW n, RestoreEffect(p, n)
  PROVE  HostInv' /\ KeepsKnown /\ BackupNotLonger
<1>1. CASE Calm(OwnRestore) \/ UNCHANGED host
  <2>1. Calm(OwnRestore) /\ OwnRestore \in SUBSET Own
    BY <1>1 DEF Calm, Own
  <2>. QED  BY <2>1, CalmKeeps, ShrinksBoth
<1>2. ASSUME NEW c \in ContainerId, conf[c] \in OwnRestore, Starting(c)
      PROVE  HostInv' /\ KeepsKnown /\ BackupNotLonger
  <2>1. HostInv' /\ KeepsKnown /\ GrowsAt(conf[c].at)
    BY <1>2, StartKeeps
  <2>2. \A f \in Name : <<"backup", f>> # conf[c].at
    <3>1. CASE conf[c] \in OwnHelpers
      BY <1>2, <3>1, RestoreIsSeen
    <3>2. CASE conf[c] \in OwnChecks
      BY <3>2, ChecksMountNothing, ViewPaths
    <3>. QED  BY <1>2, <3>1, <3>2 DEF OwnRestore
  <2>. QED  BY <2>1, <2>2, ViewPaths DEF GrowsAt, BackupNotLonger
<1>3. ASSUME NEW c \in ContainerId, Exits(c)
      PROVE  HostInv' /\ KeepsKnown /\ BackupNotLonger
  BY <1>3, ExitKeeps, ShrinksBoth
<1>. QED  BY <1>1, <1>2, <1>3 DEF RestoreEffect, OwnRestore

(* A step of the restore side keeps its own part of the invariant.         *)
LEMMA RestoreAdvances ==
  ASSUME Inv, NEW p \in RestoreProc, NEW n, RestoreEffect(p, n)
  PROVE  RestoreSideInv' /\ RestoreRoom'
<1>. DEFINE j == restoreJob[p]
<1>. HostInv /\ RestoreSideInv /\ restoreJob \in [RestoreProc -> RestoreJob]
  BY DEF Inv, RestoreSideInv
<1>1. HostInv' /\ KeepsKnown
  BY RestoreTouches
<1>2. n \in RestoreJob /\ RestoreInv(conf', n) /\ restoreJob' = [restoreJob EXCEPT ![p] = n]
  BY DEF RestoreEffect
<1>3. \A q \in RestoreProc : restoreJob'[q] = IF q = p THEN n ELSE restoreJob[q]
  BY <1>2
<1>4. RestoreSideInv'
  <2>1. \A q \in RestoreProc : RestoreInv(conf', restoreJob'[q])
    BY <1>1, <1>2, <1>3, RestoreRemembers
  <2>. QED  BY <1>2, <2>1 DEF RestoreSideInv
<1>5. ASSUME NEW f \in Name
      PROVE  Len(mounts'[<<"restore", f>>])
               + Cardinality({q \in RestoreProc : RestoreAhead(restoreJob'[q])}) <= MaxLayers
  <2>. DEFINE S == {q \in RestoreProc : RestoreAhead(restoreJob[q])}
              T == {q \in RestoreProc : RestoreAhead(restoreJob'[q])}
              P == {q \in RestoreProc : restoreJob[q].pc \in R!Restoring}
              old == Len(mounts[<<"restore", f>>])
              new == Len(mounts'[<<"restore", f>>])
  <2>1. old \in Nat /\ new \in Nat
    BY <1>1, ViewPaths, Lengths
  <2>2. old + Cardinality(S) <= MaxLayers
    BY DEF Inv, RestoreRoom
  <2>3. IsFiniteSet(S) /\ IsFiniteSet(P) /\ S \subseteq P
    BY BoundsAssumption, FS_Subset DEF RestoreAhead
  <2>4. T \subseteq S \union {p} /\ (p \in T <=> RestoreAhead(n)) /\ (p \in S <=> RestoreAhead(j))
    BY <1>3
  <2>5. ASSUME new <= old, RestoreQuiet(j, n)
        PROVE  new + Cardinality(T) <= MaxLayers
    <3>1. T \subseteq S
      BY <2>4, <2>5 DEF RestoreQuiet
    <3>. HIDE DEF S, T, P, old, new
    <3>2. Cardinality(S) \in Nat /\ Cardinality(T) \in Nat /\ Cardinality(T) <= Cardinality(S)
      BY <2>3, <3>1, CountSmaller
    <3>. QED  BY <2>1, <2>2, <2>5, <3>2, BoundsAssumption
  <2>6. CASE Calm(OwnRestore) /\ RestoreQuiet(j, n)
    <3>1. OwnRestore \in SUBSET Own
      BY DEF Own
    <3>2. new <= old
      BY <2>6, <3>1, CalmKeeps, ShrinksBoth DEF RestoreNotLonger
    <3>. QED  BY <2>5, <2>6, <3>2
  <2>7. ASSUME NEW c \in ContainerId, conf[c] \in OwnHelpers, Starting(c), RestoreAhead(j), ~RestoreAhead(n)
        PROVE  new + Cardinality(T) <= MaxLayers
    <3>1. new <= old + 1
      BY <2>7, StartKeeps, ViewPaths DEF GrowsAt
    <3>2. p \in S /\ T \subseteq S \ {p}
      BY <2>4, <2>7
    <3>. HIDE DEF S, T, P, old, new
    <3>3. Cardinality(S) \in Nat /\ Cardinality(T) \in Nat /\ Cardinality(T) + 1 <= Cardinality(S)
      BY <2>3, <3>2, CountLess
    <3>. QED  BY <2>1, <2>2, <3>1, <3>3, BoundsAssumption
  <2>8. ASSUME NEW c \in ContainerId, conf[c] \in OwnChecks, Starting(c) \/ Exits(c), RestoreQuiet(j, n)
        PROVE  new + Cardinality(T) <= MaxLayers
    <3>1. new <= old
      <4>1. CASE Starting(c)
        <5>1. GrowsAt(conf[c].at) /\ <<"restore", f>> # conf[c].at
          BY <2>8, <4>1, StartKeeps, ChecksMountNothing, ViewPaths
        <5>. QED  BY <5>1, ViewPaths DEF GrowsAt
      <4>2. CASE Exits(c)
        BY <4>2, ExitKeeps, ShrinksBoth DEF RestoreNotLonger
      <4>. QED  BY <2>8, <4>1, <4>2
    <3>. QED  BY <2>5, <2>8, <3>1
  <2>9. CASE UNCHANGED host /\ R!Headroom
    <3>1. old + Cardinality(P) < MaxLayers
      BY <2>9, SameCount DEF R!Headroom, R!RestoreAt
    <3>2. new = old
      BY <2>9 DEF host
    <3>3. T \in SUBSET (P \union {p})
      BY <2>3, <2>4
    <3>. HIDE DEF S, T, P, old, new
    <3>4. Cardinality(P) \in Nat /\ Cardinality(T) \in Nat /\ Cardinality(T) <= Cardinality(P) + 1
      BY <2>3, <3>3, CountMore
    <3>5. new + Cardinality(T) <= MaxLayers
      BY <2>1, <3>1, <3>2, <3>4, BoundsAssumption
    <3>. QED  BY <3>5 DEF T, new
  <2>. QED  BY <2>6, <2>7, <2>8, <2>9 DEF RestoreEffect
<1>. QED  BY <1>4, <1>5 DEF RestoreRoom

(* What one side does there was room for.                                  *)
LEMMA RestoreSeesBackupStep ==
  ASSUME Inv, NEW p \in BackupProc, NEW n, BackupEffect(p, n), UNCHANGED <<content, restoreJob>>
  PROVE  RestoreView!Environment \/ UNCHANGED <<host, content, restoreJob>>
<1>. HostInv
  BY DEF Inv
<1>1. CASE Calm(OwnBackup) \/ UNCHANGED host
  <2>1. Calm(OwnBackup)
    BY <1>1 DEF Calm
  <2>. QED  BY <2>1, RestoreSeesEnvironment
<1>2. ASSUME NEW c \in ContainerId, NEW f \in Name,
             conf[c] \in OwnBackup, conf[c].at = <<"backup", f>>, Starting(c), BackupAhead(backupJob[p], f)
      PROVE  RestoreView!Environment \/ UNCHANGED <<host, content, restoreJob>>
  <2>. DEFINE S == {q \in BackupProc : BackupAhead(backupJob[q], f)}
              old == Len(mounts[<<"backup", f>>])
  <2>1. old \in Nat
    BY ViewPaths, MountLengths
  <2>2. old + Cardinality(S) <= MaxLayers
    BY DEF Inv, BackupRoom
  <2>3. p \in S /\ IsFiniteSet(S)
    BY <1>2, BoundsAssumption, FS_Subset
  <2>4. old < MaxLayers
    <3>. HIDE DEF S, old
    <3>1. Cardinality(S) \in Nat /\ Cardinality(S) # 0
      BY <2>3, FS_EmptySet, FS_CardinalityType
    <3>. QED  BY <2>1, <2>2, <3>1, BoundsAssumption
  <2>. QED  BY <1>2, <2>4, RestoreSeesStart
<1>. QED  BY <1>1, <1>2 DEF BackupEffect, BackupLeaves

(* And to the backup side, what a restore does is its environment.         *)
LEMMA BackupSeesRestoreStep ==
  ASSUME Inv, NEW p \in RestoreProc, NEW n, RestoreEffect(p, n), UNCHANGED backupJob
  PROVE  BackupView!Environment \/ UNCHANGED <<host, backupJob>>
<1>. HostInv /\ backupJob \in [BackupProc -> BackupJob]
  BY DEF Inv, BackupSideInv
<1>1. CASE Calm(OwnRestore) \/ UNCHANGED host
  <2>1. Calm(OwnRestore)
    BY <1>1 DEF Calm
  <2>. QED  BY <2>1, BackupSeesEnvironment
<1>2. ASSUME NEW c \in ContainerId, conf[c] \in OwnHelpers, Starting(c), RestoreAhead(restoreJob[p])
      PROVE  BackupView!Environment \/ UNCHANGED <<host, backupJob>>
  <2>1. ASSUME NEW f \in Name PROVE Len(mounts[<<"restore", f>>]) < MaxLayers
    <3>. DEFINE S == {q \in RestoreProc : RestoreAhead(restoreJob[q])}
                old == Len(mounts[<<"restore", f>>])
    <3>1. old \in Nat
      BY ViewPaths, MountLengths
    <3>2. old + Cardinality(S) <= MaxLayers
      BY DEF Inv, RestoreRoom
    <3>3. p \in S /\ IsFiniteSet(S)
      BY <1>2, BoundsAssumption, FS_Subset
    <3>4. old < MaxLayers
      <4>. HIDE DEF S, old
      <4>1. Cardinality(S) \in Nat /\ Cardinality(S) # 0
        BY <3>3, FS_EmptySet, FS_CardinalityType
      <4>. QED  BY <3>1, <3>2, <4>1, BoundsAssumption
    <3>. QED  BY <3>4
  <2>. QED  BY <1>2, <2>1, BackupSeesStart DEF OwnRestore
<1>3. ASSUME NEW c \in ContainerId, conf[c] \in OwnChecks, Starting(c)
      PROVE  BackupView!Environment \/ UNCHANGED <<host, backupJob>>
  <2>1. \A f \in Name : conf[c].at # <<"restore", f>>
    BY <1>3, ChecksMountNothing, ViewPaths
  <2>. QED  BY <1>3, <2>1, BackupSeesStart DEF OwnRestore
<1>4. ASSUME NEW c \in ContainerId, conf[c] \in OwnChecks, Exits(c)
      PROVE  BackupView!Environment
  BY <1>4, BackupSeesExit DEF OwnRestore
<1>. QED  BY <1>1, <1>2, <1>3, <1>4 DEF RestoreEffect

-------------------------------------------------------------------------------
(* The theorems.                                                           *)

(* The invariant holds at first.                                           *)
LEMMA InvInit == Init => Inv
<1>. SUFFICES ASSUME Init PROVE Inv
  OBVIOUS
<1>. USE DEF Init, B!Init, R!Init
<1>1. HostInv
  <2>1. mounts \in [B!MountPoint -> Seq(Volume)]
    OBVIOUS
  <2>. QED  BY <2>1 DEF HostInv, HostType, Alive
<1>2. BackupSideInv
  <2>1. B!Idle \in BackupJob /\ BackupInv(conf, B!Idle)
    BY DEF B!Idle, BackupJob, BackupInv, B!Resting, B!Preparing
  <2>. QED  BY <2>1 DEF BackupSideInv
<1>3. RestoreSideInv
  <2>1. "idle" \in R!Resting
    BY RestorePlaces
  <2>2. R!Idle \in RestoreJob /\ R!Idle.pc = "idle"
    BY <2>1 DEF R!Idle, RestoreJob
  <2>3. RestoreInv(conf, R!Idle)
    BY <2>1, <2>2, RestoreRests
  <2>. QED  BY <2>2, <2>3 DEF RestoreSideInv
<1>4. BackupRoom
  <2>1. ASSUME NEW f \in Name
        PROVE  Len(mounts[<<"backup", f>>]) + Cardinality({q \in BackupProc : BackupAhead(backupJob[q], f)}) <= MaxLayers
    <3>. DEFINE S == {q \in BackupProc : BackupAhead(backupJob[q], f)}
    <3>1. S = {}
      BY DEF BackupAhead, B!Idle, B!Preparing
    <3>2. mounts[<<"backup", f>>] = <<>>
      BY ViewPaths
    <3>3. Len(mounts[<<"backup", f>>]) = 0
      BY <3>2
    <3>4. Len(mounts[<<"backup", f>>]) + Cardinality(S) <= MaxLayers
      <4>. HIDE DEF S
      <4>1. Cardinality(S) = 0
        BY <3>1, FS_EmptySet
      <4>. QED  BY <3>3, <4>1, BoundsAssumption
    <3>. QED  BY <3>4
  <2>. QED  BY <2>1 DEF BackupRoom
<1>5. RestoreRoom
  <2>1. ASSUME NEW f \in Name
        PROVE  Len(mounts[<<"restore", f>>]) + Cardinality({q \in RestoreProc : RestoreAhead(restoreJob[q])}) <= MaxLayers
    <3>. DEFINE S == {q \in RestoreProc : RestoreAhead(restoreJob[q])}
    <3>1. S = {}
      BY RestorePlaces DEF RestoreAhead, R!Idle
    <3>2. mounts[<<"restore", f>>] = <<>>
      BY ViewPaths
    <3>3. Len(mounts[<<"restore", f>>]) = 0
      BY <3>2
    <3>4. Len(mounts[<<"restore", f>>]) + Cardinality(S) <= MaxLayers
      <4>. HIDE DEF S
      <4>1. Cardinality(S) = 0
        BY <3>1, FS_EmptySet
      <4>. QED  BY <3>3, <4>1, BoundsAssumption
    <3>. QED  BY <3>4
  <2>. QED  BY <2>1 DEF RestoreRoom
<1>. QED  BY <1>1, <1>2, <1>3, <1>4, <1>5 DEF Inv

(* Whose step it is.                                                       *)
LEMMA StepEffect ==
  ASSUME Inv, [Next]_vars
  PROVE  \/ \E p \in BackupProc : \E n :
               BackupEffect(p, n) /\ UNCHANGED <<content, restoreJob>> /\ (B!Step(p) \/ B!Crash(p))
         \/ \E p \in RestoreProc : \E n :
               RestoreEffect(p, n) /\ UNCHANGED backupJob /\ (R!Step(p) \/ R!Crash(p))
         \/ Calm({}) /\ UNCHANGED <<content, backupJob, restoreJob>>
<1>. HostInv /\ BackupSideInv /\ RestoreSideInv
  BY DEF Inv
<1>1. ASSUME NEW p \in BackupProc, BackupStep(p)
      PROVE  \E n : BackupEffect(p, n) /\ UNCHANGED <<content, restoreJob>> /\ B!Step(p)
  BY <1>1, PrepareEffect, CleanupEffect DEF BackupStep, B!Step
<1>2. ASSUME NEW p \in BackupProc, BackupCrash(p)
      PROVE  \E n : BackupEffect(p, n) /\ UNCHANGED <<content, restoreJob>> /\ B!Crash(p)
  BY <1>2, CleanupEffect DEF BackupCrash
<1>3. ASSUME NEW p \in RestoreProc, RestoreStep(p)
      PROVE  \E n : RestoreEffect(p, n) /\ UNCHANGED backupJob /\ R!Step(p)
  BY <1>3, RestoreStepEffect DEF RestoreStep
<1>4. ASSUME NEW p \in RestoreProc, RestoreCrash(p)
      PROVE  \E n : RestoreEffect(p, n) /\ UNCHANGED backupJob /\ R!Crash(p)
  BY <1>4, RestoreCleanupEffect DEF RestoreCrash
<1>5. ASSUME HelperDies PROVE Calm({}) /\ UNCHANGED <<content, backupJob, restoreJob>>
  BY <1>5, BackupCalls DEF HelperDies, B!Dies, Calm
<1>6. ASSUME UNCHANGED vars PROVE Calm({}) /\ UNCHANGED <<content, backupJob, restoreJob>>
  BY <1>6 DEF vars, host, Calm
<1>. QED  BY <1>1, <1>2, <1>3, <1>4, <1>5, <1>6 DEF Next

(* Every step keeps the invariant.                                         *)
LEMMA InvStep ==
  ASSUME Inv, [Next]_vars
  PROVE  Inv'
<1>. HostInv
  BY DEF Inv
<1>1. ASSUME NEW p \in BackupProc, NEW n, BackupEffect(p, n), UNCHANGED <<content, restoreJob>>
      PROVE  Inv'
  BY <1>1, BackupTouches, BackupAdvances, RestoreStays DEF Inv
<1>2. ASSUME NEW p \in RestoreProc, NEW n, RestoreEffect(p, n), UNCHANGED backupJob
      PROVE  Inv'
  BY <1>2, RestoreTouches, RestoreAdvances, BackupStays DEF Inv
<1>3. CASE Calm({}) /\ UNCHANGED <<content, backupJob, restoreJob>>
  <2>1. HostInv' /\ KeepsKnown /\ BackupNotLonger /\ RestoreNotLonger
    BY <1>3, CalmKeeps, ShrinksBoth
  <2>. QED  BY <1>3, <2>1, BackupStays, RestoreStays DEF Inv
<1>. QED  BY <1>1, <1>2, <1>3, StepEffect

(* Each side creates, starts and remembers containers of its own kind, and *)
(* makes no more layers than it found room for.                            *)
THEOREM Invariance == Spec => []Inv
<1>1. Init => Inv
  BY InvInit
<1>2. Inv /\ [Next]_vars => Inv'
  BY InvStep
<1>. QED  BY <1>1, <1>2, PTL DEF Spec

(* Both views begin as their modules do.                                   *)
LEMMA ViewsInit ==
  Init => BackupView!Init /\ RestoreView!Init
<1>. SUFFICES ASSUME Init PROVE BackupView!Init /\ RestoreView!Init
  OBVIOUS
<1>. USE DEF Init, B!Init, R!Init
<1>1. /\ SeenByBackup = [c \in ContainerId |-> None]
      /\ SeenByRestore = [c \in ContainerId |-> None]
  BY DEF SeenByBackup, SeenByRestore, Alive
<1>2. KeptByBackup = backupJob /\ BackupView!Idle = B!Idle
  BY InvInit, JobsSeen, BackupWords DEF Inv, BackupSideInv
<1>3. BackupView!Init
  BY <1>1, <1>2 DEF BackupView!Init, BackupView!MountPoint, B!MountPoint
<1>4. RestoreView!Init
  BY <1>1, RestoreWords DEF RestoreView!Init, RestoreView!MountPoint, R!MountPoint
<1>. QED  BY <1>3, <1>4

(* Every step is one of the backup side's module, or none of its business. *)
LEMMA BackupViewSteps ==
  ASSUME Inv, Inv', [Next]_vars
  PROVE  BackupView!Moves \/ UNCHANGED <<host, backupJob>>
<1>. HostInv /\ BackupSideInv /\ BackupSees
  BY JobsSeen DEF Inv, BackupSideInv, BackupSees
<1>1. ASSUME NEW p \in BackupProc, B!Step(p) PROVE BackupView!Moves
  BY <1>1, PrepareIsSeen, CleanupIsSeen DEF B!Step, BackupView!Step, BackupView!Moves
<1>2. ASSUME NEW p \in BackupProc, B!Crash(p) PROVE BackupView!Moves
  BY <1>2, BackupCrashIsSeen DEF BackupView!Moves
<1>3. ASSUME NEW p \in RestoreProc, NEW n, RestoreEffect(p, n), UNCHANGED backupJob
      PROVE  BackupView!Moves \/ UNCHANGED <<host, backupJob>>
  BY <1>3, BackupSeesRestoreStep DEF BackupView!Moves
<1>4. CASE Calm({}) /\ UNCHANGED backupJob
  <2>1. Calm(OwnRestore)
    BY <1>4 DEF Calm
  <2>. QED  BY <1>4, <2>1, BackupSeesEnvironment DEF BackupView!Moves, BackupSideInv
<1>. QED  BY <1>1, <1>2, <1>3, <1>4, StepEffect

(* Every step is one of the restore side's module, or none of its          *)
(* business.                                                               *)
LEMMA RestoreViewSteps ==
  ASSUME Inv, [Next]_vars
  PROVE  RestoreView!Moves \/ UNCHANGED <<host, content, restoreJob>>
<1>. HostInv /\ RestoreSideInv
  BY DEF Inv
<1>1. ASSUME NEW p \in RestoreProc, R!Step(p) PROVE RestoreView!Moves
  BY <1>1, RestoreStepIsSeen, RestoreCleanupIsSeen, RestoreOthersSeen
     DEF R!Step, RestoreView!Step, RestoreView!Moves
<1>2. ASSUME NEW p \in RestoreProc, R!Crash(p) PROVE RestoreView!Moves
  BY <1>2, RestoreOthersSeen DEF RestoreView!Moves
<1>3. ASSUME NEW p \in BackupProc, NEW n, BackupEffect(p, n), UNCHANGED <<content, restoreJob>>
      PROVE  RestoreView!Moves \/ UNCHANGED <<host, content, restoreJob>>
  BY <1>3, RestoreSeesBackupStep DEF RestoreView!Moves
<1>4. CASE Calm({}) /\ UNCHANGED <<content, restoreJob>>
  <2>1. Calm(OwnBackup)
    BY <1>4 DEF Calm
  <2>. QED  BY <1>4, <2>1, RestoreSeesEnvironment DEF RestoreView!Moves
<1>. QED  BY <1>1, <1>2, <1>3, <1>4, StepEffect

(* Whatever restores and restore-cleanups do is, to prepares and cleanups, *)
(* what the model of their own side lets others do.                        *)
THEOREM RefinesBackup == Spec => ImplementsBackup
<1>1. Init => BackupView!Init
  BY ViewsInit
<1>2. Inv /\ Inv' /\ [Next]_vars => [BackupView!Moves]_<<host, backupJob>>
  BY BackupViewSteps
<1>. QED  BY <1>1, <1>2, Invariance, PTL DEF Spec, ImplementsBackup

(* Whatever prepares and cleanups do is, to restores and restore-cleanups, *)
(* what the model of their own side lets others do.                        *)
THEOREM RefinesRestore == Spec => ImplementsRestore
<1>1. Init => RestoreView!Init
  BY ViewsInit
<1>2. Inv /\ [Next]_vars => [RestoreView!Moves]_<<host, content, restoreJob>>
  BY RestoreViewSteps
<1>. QED  BY <1>1, <1>2, Invariance, PTL DEF Spec, ImplementsRestore
===============================================================================
