----------------------------- MODULE BridgePromise -----------------------------
(***************************************************************************)
(* The promises of undisturbed commands while the other side of revopia    *)
(* runs on the same bridge, for any constants: prepares and cleanups keep  *)
(* theirs whatever restores and restore-cleanups do, and a restore keeps   *)
(* its own whatever prepares and cleanups do.                              *)
(*                                                                         *)
(* What a command makes sure of on its own is proved in BackupPromise and  *)
(* RestoreProofs; BP and RP are those theories in the view of each side,   *)
(* where the other side's containers are foreign ones.  They also allow    *)
(* others to disturb a command, and their promises are void then, so more  *)
(* is needed here than the refinements of BridgeProofs: that a step of one *)
(* side leaves the containers of the other as they are and makes it no new *)
(* ones, and leaves its mounts alone (Spares).                             *)
(***************************************************************************)
EXTENDS BridgeProofs

BP == INSTANCE BackupPromise WITH
  Proc <- BackupProc, job <- KeptByBackup, alone <- backupCalm, conf <- SeenByBackup,
  Commands <- BackupCommands, Trouble <- AnyTrouble,
  OtherName <- {cf.name : cf \in FromRestore}, Foreign <- FromRestore

RP == INSTANCE RestoreProofs WITH
  Proc <- RestoreProc, job <- restoreJob, alone <- restoreCalm, conf <- SeenByRestore,
  Commands <- RestoreCommands, Trouble <- AnyTrouble,
  OtherName <- {cf.name : cf \in FromBackup}, Foreign <- FromBackup

(* What BackupPromise assumes of its constants holds of the backup view.   *)
LEMMA BackupAssumed ==
  /\ Volume \subseteq Nat /\ Name \subseteq Nat
  /\ Enabled \subseteq Volume
  /\ FriendlyName \in [Volume -> Name \union {None}]
  /\ None \notin Volume \union Name \union BP!Conf \union ContainerId \union BP!MountPoint
  /\ FromRestore \subseteq BP!Conf
  /\ \A cf \in FromRestore : IF cf.mode \in {"restore", "cleanup", "alien"}
                             THEN cf.volume = None
                             ELSE \A f \in Name : cf.at # <<"restore", f>>
<1>1. BP!Conf = BackupView!Conf /\ BP!MountPoint = BackupView!MountPoint
  BY DEF BP!Conf, BackupView!Conf, BP!MountPoint, BackupView!MountPoint
<1>2. \A cf \in FromRestore : cf.mode = "restore" /\ cf.volume = None
  BY DEF FromRestore
<1>. QED  BY <1>1, <1>2, ViewConf, NumbersAssumption, VolumesAssumption, NoneAssumption

(* So does what RestoreProofs assumes, of the restore view.                *)
LEMMA RestoreAssumed ==
  /\ Sources \subseteq Volume /\ Targets \subseteq Volume
  /\ FriendlyName \in [Volume -> Name \union {None}]
  /\ Contents \subseteq [Volume -> {"absent", "empty", "data"}]
  /\ None \notin Volume \union Name \union Session \union RP!Conf \union ContainerId \union RP!MountPoint
  /\ FromBackup \subseteq RP!Conf
  /\ \A cf \in FromBackup :
       IF cf.mode = "restore"
       THEN \A f \in Name : cf.at # <<"backup", f>>
       ELSE cf.session = None /\ \A f \in Name : cf.at # RP!RestoreAt(f)
<1>1. /\ RP!Conf = RestoreView!Conf /\ RP!MountPoint = BackupView!MountPoint
      /\ \A f : RP!RestoreAt(f) = <<"restore", f>>
  BY DEF RP!Conf, RestoreView!Conf, RP!MountPoint, RestoreView!MountPoint, BackupView!MountPoint,
         RP!RestoreAt
<1>2. \A cf \in FromBackup : /\ cf.mode = "backup" /\ cf.session = None
                             /\ \A f \in Name : cf.at # <<"restore", f>>
  BY DEF FromBackup
<1>. QED  BY <1>1, <1>2, ViewConf, VolumesAssumption, NoneAssumption

-------------------------------------------------------------------------------
(* The views and the promises know the same actions.                       *)

(* The steps of a prepare.                                                 *)
LEMMA SamePrepare ==
  ASSUME NEW p
  PROVE  BP!PrepareStep(p) <=> BackupView!PrepareStep(p)
BY Zenon DEF BP!Cardinality, BackupView!Cardinality, BP!host, BackupView!host, BP!Alive,
       BackupView!Alive, BP!NameTaken, BackupView!NameTaken, BP!Summaries,
       BackupView!Summaries, BP!WithoutLayer, BackupView!WithoutLayer, BP!LayerStaysOrGoes,
       BackupView!LayerStaysOrGoes, BP!Push, BackupView!Push, BP!ContainerCreate,
       BackupView!ContainerCreate, BP!ContainerStart, BackupView!ContainerStart, BP!Vanish,
       BackupView!Vanish, BP!ContainerRemove, BackupView!ContainerRemove,
       BP!ContainerStartFails, BackupView!ContainerStartFails, BP!Umount, BackupView!Umount,
       BP!IsFirst, BackupView!IsFirst, BP!BackupAt, BackupView!BackupAt, BP!Resting,
       BackupView!Resting, BP!Idle, BackupView!Idle, BP!May, BackupView!May, BP!At,
       BackupView!At, BP!Become, BackupView!Become, BP!Goto, BackupView!Goto,
       BP!VolumeSpecs, BackupView!VolumeSpecs, BP!SpecErr, BackupView!SpecErr,
       BP!HelperName, BackupView!HelperName, BP!HelperOptions, BackupView!HelperOptions,
       BP!HelperMatches, BackupView!HelperMatches, BP!HelpersForVolume,
       BackupView!HelpersForVolume, BP!Fresh, BackupView!Fresh, BP!Layers,
       BackupView!Layers, BP!Preparing, BackupView!Preparing, BP!Headroom,
       BackupView!Headroom, BP!NextVolume, BackupView!NextVolume, BP!NextHelper,
       BackupView!NextHelper, BP!RemoveAndGoOn, BackupView!RemoveAndGoOn, BP!StartPrepare,
       BackupView!StartPrepare, BP!VolumeList, BackupView!VolumeList, BP!ListHelpers,
       BackupView!ListHelpers, BP!RemoveUnexpected, BackupView!RemoveUnexpected, BP!Inspect,
       BackupView!Inspect, BP!Replace, BackupView!Replace, BP!StartExisting,
       BackupView!StartExisting, BP!Create, BackupView!Create, BP!StartNew,
       BackupView!StartNew, BP!Rollback, BackupView!Rollback, BP!WaitSeen,
       BackupView!WaitSeen, BP!WaitExpired, BackupView!WaitExpired, BP!PrepareStep,
       BackupView!PrepareStep

(* The steps of a cleanup, and a process that is killed.                   *)
LEMMA SameCleanup ==
  ASSUME NEW p
  PROVE  /\ BP!CleanupStep(p) <=> BackupView!CleanupStep(p)
         /\ BP!Crash(p) <=> BackupView!Crash(p)
BY Zenon DEF BP!host, BackupView!host, BP!Alive, BackupView!Alive, BP!Summaries,
       BackupView!Summaries, BP!WithoutLayer, BackupView!WithoutLayer, BP!LayerStaysOrGoes,
       BackupView!LayerStaysOrGoes, BP!Vanish, BackupView!Vanish, BP!ContainerRemove,
       BackupView!ContainerRemove, BP!Umount, BackupView!Umount, BP!IsFirst,
       BackupView!IsFirst, BP!BackupAt, BackupView!BackupAt, BP!Resting, BackupView!Resting,
       BP!Idle, BackupView!Idle, BP!May, BackupView!May, BP!At, BackupView!At, BP!Become,
       BackupView!Become, BP!Goto, BackupView!Goto, BP!BackupHelpers,
       BackupView!BackupHelpers, BP!IsManaged, BackupView!IsManaged, BP!Removed,
       BackupView!Removed, BP!AtTarget, BackupView!AtTarget, BP!NextTarget,
       BackupView!NextTarget, BP!StartCleanup, BackupView!StartCleanup, BP!CleanupList,
       BackupView!CleanupList, BP!RemoveHelper, BackupView!RemoveHelper, BP!SkipBlocked,
       BackupView!SkipBlocked, BP!CheckTarget, BackupView!CheckTarget, BP!UmountTarget,
       BackupView!UmountTarget, BP!CleanupDone, BackupView!CleanupDone, BP!CleanupStep,
       BackupView!CleanupStep, BP!Crash, BackupView!Crash

(* The steps of a restore, and the container of an empty check that exits. *)
LEMMA SameRestores ==
  ASSUME NEW p
  PROVE  /\ RP!RestoreStep(p) <=> RestoreView!RestoreStep(p)
         /\ RP!CheckExit(p) <=> RestoreView!CheckExit(p)
BY Zenon DEF RP!Cardinality, RestoreView!Cardinality, RP!host, RestoreView!host, RP!Alive,
       RestoreView!Alive, RP!NameTaken, RestoreView!NameTaken, RP!Summaries,
       RestoreView!Summaries, RP!WithoutLayer, RestoreView!WithoutLayer,
       RP!LayerStaysOrGoes, RestoreView!LayerStaysOrGoes, RP!Push, RestoreView!Push,
       RP!ContainerCreate, RestoreView!ContainerCreate, RP!ContainerStart,
       RestoreView!ContainerStart, RP!Vanish, RestoreView!Vanish, RP!ContainerRemove,
       RestoreView!ContainerRemove, RP!ContainerStartFails, RestoreView!ContainerStartFails,
       RP!Umount, RestoreView!Umount, RP!InSession, RestoreView!InSession,
       RP!SessionContainers, RestoreView!SessionContainers, RP!Resting, RestoreView!Resting,
       RP!Idle, RestoreView!Idle, RP!May, RestoreView!May, RP!At, RestoreView!At, RP!Become,
       RestoreView!Become, RP!Goto, RestoreView!Goto, RP!RestoreAt, RestoreView!RestoreAt,
       RP!HelperOptions, RestoreView!HelperOptions, RP!CheckOptions,
       RestoreView!CheckOptions, RP!HelperMatches, RestoreView!HelperMatches, RP!Checking,
       RestoreView!Checking, RP!Mounting, RestoreView!Mounting, RP!Restoring,
       RestoreView!Restoring, RP!Fresh, RestoreView!Fresh, RP!Headroom,
       RestoreView!Headroom, RP!Fail, RestoreView!Fail, RP!NextHelper,
       RestoreView!NextHelper, RP!RemoveAndGoOn, RestoreView!RemoveAndGoOn, RP!TargetReady,
       RestoreView!TargetReady, RP!StartRestore, RestoreView!StartRestore, RP!InspectSource,
       RestoreView!InspectSource, RP!InspectTarget, RestoreView!InspectTarget,
       RP!CreateTarget, RestoreView!CreateTarget, RP!CheckCreate, RestoreView!CheckCreate,
       RP!Create, RestoreView!Create, RP!CheckStart, RestoreView!CheckStart, RP!CheckExit,
       RestoreView!CheckExit, RP!CheckWait, RestoreView!CheckWait, RP!CheckDrop,
       RestoreView!CheckDrop, RP!ListHelpers, RestoreView!ListHelpers, RP!RemoveUnexpected,
       RestoreView!RemoveUnexpected, RP!Inspect, RestoreView!Inspect, RP!Replace,
       RestoreView!Replace, RP!StartExisting, RestoreView!StartExisting, RP!StartNew,
       RestoreView!StartNew, RP!Rollback, RestoreView!Rollback, RP!Wait, RestoreView!Wait,
       RP!RestoreStep, RestoreView!RestoreStep

(* The steps of a restore-cleanup, and a process that is killed.           *)
LEMMA SameRestoreCleanup ==
  ASSUME NEW p
  PROVE  /\ RP!CleanupStep(p) <=> RestoreView!CleanupStep(p)
         /\ RP!Crash(p) <=> RestoreView!Crash(p)
BY Zenon DEF RP!host, RestoreView!host, RP!Alive, RestoreView!Alive, RP!Summaries,
       RestoreView!Summaries, RP!WithoutLayer, RestoreView!WithoutLayer,
       RP!LayerStaysOrGoes, RestoreView!LayerStaysOrGoes, RP!Vanish, RestoreView!Vanish,
       RP!ContainerRemove, RestoreView!ContainerRemove, RP!Umount, RestoreView!Umount,
       RP!InSession, RestoreView!InSession, RP!SessionContainers,
       RestoreView!SessionContainers, RP!Resting, RestoreView!Resting, RP!Idle,
       RestoreView!Idle, RP!May, RestoreView!May, RP!At, RestoreView!At, RP!Become,
       RestoreView!Become, RP!Goto, RestoreView!Goto, RP!IsManaged, RestoreView!IsManaged,
       RP!TargetKey, RestoreView!TargetKey, RP!KeyName, RestoreView!KeyName, RP!CleanupAt,
       RestoreView!CleanupAt, RP!Removed, RestoreView!Removed, RP!NextTarget,
       RestoreView!NextTarget, RP!StartCleanup, RestoreView!StartCleanup, RP!CleanupList,
       RestoreView!CleanupList, RP!RemoveHelper, RestoreView!RemoveHelper, RP!SkipBlocked,
       RestoreView!SkipBlocked, RP!CheckTarget, RestoreView!CheckTarget, RP!UmountTarget,
       RestoreView!UmountTarget, RP!CleanupDone, RestoreView!CleanupDone, RP!CleanupStep,
       RestoreView!CleanupStep, RP!Crash, RestoreView!Crash

-------------------------------------------------------------------------------
(* What the proofs of each side need to know holds of its view.            *)

(* The containers of both sides are in order for each of them.             *)
LEMMA HostSeen ==
  ASSUME HostInv
  PROVE  BP!HostInv /\ RP!HostInv
<1>1. /\ BP!MountPoint = B!MountPoint /\ RP!MountPoint = B!MountPoint
      /\ BP!Conf = BackupView!Conf /\ RP!Conf = RestoreView!Conf
  BY DEF BP!MountPoint, RP!MountPoint, B!MountPoint, BP!Conf, BackupView!Conf, RP!Conf, RestoreView!Conf,
         BackupView!MountPoint, RestoreView!MountPoint
<1>2. ASSUME NEW c \in ContainerId, Alive(c)
      PROVE  /\ SeenByBackup[c] \in BP!KnownConf /\ SeenByBackup[c] # None
             /\ SeenByRestore[c] \in RP!KnownConf /\ SeenByRestore[c] # None
  <2>1. /\ conf[c] \in Own /\ SeenByBackup[c] = AsBackupSees(conf[c])
        /\ SeenByRestore[c] = AsRestoreSees(conf[c])
    BY <1>2, SeenContainers
  <2>2. CASE conf[c] \in OwnBackup
    <3>1. AsBackupSees(conf[c]) = conf[c] /\ AsRestoreSees(conf[c]) \in FromBackup
      BY <2>2, BackupIsSeen
    <3>2. conf[c].mode = "backup" /\ \A f \in Name : conf[c].at # <<"restore", f>>
      BY <2>2, BackupIsSeen
    <3>3. AsRestoreSees(conf[c]).mode # "restore" /\ AsRestoreSees(conf[c]).at = conf[c].at
      BY <2>2, BackupIsSeen
    <3>4. AsRestoreSees(conf[c]).session = None
      BY <3>1, <3>3, RestoreAssumed
    <3>5. SeenByBackup[c] \in BP!KnownConf /\ SeenByBackup[c] # None
      BY <1>1, <2>1, <2>2, <3>1, <3>2, BackupIsSeen, ViewConf DEF BP!KnownConf, BP!ConfOK, BP!HelperModes
    <3>6. SeenByRestore[c] \in RP!KnownConf /\ SeenByRestore[c] # None
      BY <1>1, <2>1, <2>2, <3>1, <3>2, <3>3, <3>4, BackupIsSeen, ViewConf
         DEF RP!KnownConf, RP!ConfOK, RP!RestoreAt
    <3>. QED  BY <3>5, <3>6
  <2>3. CASE conf[c] \in OwnRestore
    <3>1. /\ AsRestoreSees(conf[c]) = conf[c] /\ AsBackupSees(conf[c]) \in FromRestore
          /\ AsBackupSees(conf[c]).mode = "restore" /\ AsBackupSees(conf[c]).volume = None
          /\ conf[c].mode = "restore" /\ \A f \in Name : conf[c].at # <<"backup", f>>
      BY <2>3, RestoreIsSeen, NoneAssumption DEF OwnRestore, BackupView!MountPoint
    <3>. QED  BY <1>1, <2>1, <2>3, <3>1, RestoreIsSeen, ViewConf
              DEF BP!KnownConf, BP!ConfOK, BP!HelperModes, RP!KnownConf, RP!ConfOK
  <2>. QED  BY <2>1, <2>2, <2>3 DEF Own
<1>3. ASSUME NEW c \in ContainerId, ~Alive(c)
      PROVE  SeenByBackup[c] = None /\ SeenByRestore[c] = None
  BY <1>3 DEF SeenByBackup, SeenByRestore
<1>4. /\ SeenByBackup \in [ContainerId -> BP!KnownConf \union {None}]
      /\ SeenByRestore \in [ContainerId -> RP!KnownConf \union {None}]
  BY <1>2, <1>3 DEF SeenByBackup, SeenByRestore
<1>5. running \subseteq {c \in ContainerId : Alive(c)} /\ mounts \in [B!MountPoint -> Seq(Volume)]
  BY DEF HostInv, HostType
<1>. QED  BY <1>1, <1>2, <1>4, <1>5
          DEF BP!HostInv, BP!HostType, BP!Alive, RP!HostInv, RP!HostType, RP!Alive

(* So they are after a step.                                               *)
LEMMA HostSeenNext == HostInv' => BP!HostInv' /\ RP!HostInv'
<1>1. HostInv => BP!HostInv /\ RP!HostInv
  BY HostSeen
<1>. QED  BY <1>1, PTL

(* What the processes of a side rely on is still there after what others   *)
(* do.                                                                     *)
LEMMA KnownSeen ==
  ASSUME HostInv, HostInv', KeepsKnown, backupJob \in [BackupProc -> BackupJob]
  PROVE  BP!KeepsKnown /\ RP!KeepsKnown
<1>. SUFFICES ASSUME NEW c \in ContainerId
              PROVE  /\ \/ SeenByBackup'[c] = SeenByBackup[c] \/ SeenByBackup'[c] = None
                        \/ BP!Fresh(c)
                     /\ \/ SeenByRestore'[c] = SeenByRestore[c] \/ SeenByRestore'[c] = None
                        \/ RP!Fresh(c)
  BY DEF BP!KeepsKnown, RP!KeepsKnown
<1>1. conf'[c] = conf[c] \/ conf'[c] = None \/ (B!Fresh(c) /\ R!Fresh(c))
  BY DEF KeepsKnown
<1>2. CASE conf'[c] = conf[c] \/ conf'[c] = None
  BY <1>2 DEF SeenByBackup, SeenByRestore, Alive, AsBackupSees, AsRestoreSees
<1>3. CASE B!Fresh(c) /\ R!Fresh(c)
  <2>1. KeptByBackup = backupJob
    BY JobsSeen
  <2>2. ~Alive(c) /\ SeenByBackup[c] = None /\ SeenByRestore[c] = None
    BY <1>3 DEF B!Fresh, B!Alive, Alive, SeenByBackup, SeenByRestore
  <2>3. BP!Fresh(c)
    BY <1>3, <2>1, <2>2 DEF B!Fresh, BP!Fresh, BP!Alive
  <2>4. RP!Fresh(c)
    BY <1>3, <2>2 DEF R!Fresh, RP!Fresh, RP!Alive
  <2>. QED  BY <2>3, <2>4
<1>. QED  BY <1>1, <1>2, <1>3

-------------------------------------------------------------------------------
(* What a step of a side leaves alone: the containers of the other side,   *)
(* which are not even joined by new ones, and the layers of its view.      *)
Spares(own, side) ==
  /\ \A c \in ContainerId : conf[c] \in own \/ conf'[c] \in own =>
       conf'[c] = conf[c] /\ (c \in running' <=> c \in running)
  /\ \A f \in Name : mounts'[<<side, f>>] = mounts[<<side, f>>]

(* A container stays the same if it is seen to exist before and after.     *)
LEMMA StaysSeen ==
  ASSUME HostInv, HostInv', KeepsKnown, NEW c \in ContainerId
  PROVE  /\ Alive(c) /\ Alive(c)' => conf'[c] = conf[c]
         /\ (SeenByBackup[c] # None <=> Alive(c)) /\ (SeenByBackup'[c] # None <=> Alive(c)')
         /\ (SeenByRestore[c] # None <=> Alive(c)) /\ (SeenByRestore'[c] # None <=> Alive(c)')
         /\ conf[c] \in OwnBackup => Alive(c) /\ SeenByBackup[c].mode = "backup" /\ SeenByRestore[c].mode = "backup"
         /\ conf'[c] \in OwnBackup => Alive(c)' /\ SeenByBackup'[c].mode = "backup" /\ SeenByRestore'[c].mode = "backup"
         /\ conf[c] \in OwnRestore => Alive(c) /\ SeenByBackup[c].mode = "restore" /\ SeenByRestore[c].mode = "restore"
         /\ conf'[c] \in OwnRestore => Alive(c)' /\ SeenByBackup'[c].mode = "restore" /\ SeenByRestore'[c].mode = "restore"
<1>1. \A cf \in OwnBackup : cf # None /\ AsBackupSees(cf).mode = "backup" /\ AsRestoreSees(cf).mode = "backup"
  BY BackupIsSeen
<1>2. \A cf \in OwnRestore : cf # None /\ AsBackupSees(cf).mode = "restore" /\ AsRestoreSees(cf).mode = "restore"
  BY RestoreIsSeen
<1>3. Alive(c) => SeenByBackup[c] = AsBackupSees(conf[c]) /\ SeenByRestore[c] = AsRestoreSees(conf[c])
  BY DEF SeenByBackup, SeenByRestore
<1>4. Alive(c)' => SeenByBackup'[c] = AsBackupSees(conf'[c]) /\ SeenByRestore'[c] = AsRestoreSees(conf'[c])
  BY DEF SeenByBackup, SeenByRestore, AsBackupSees, AsRestoreSees
<1>5. /\ ~Alive(c) => SeenByBackup[c] = None /\ SeenByRestore[c] = None
      /\ ~Alive(c)' => SeenByBackup'[c] = None /\ SeenByRestore'[c] = None
  BY DEF SeenByBackup, SeenByRestore
<1>6. /\ Alive(c) => AsBackupSees(conf[c]) # None /\ AsRestoreSees(conf[c]) # None
      /\ Alive(c)' => AsBackupSees(conf'[c]) # None /\ AsRestoreSees(conf'[c]) # None
  BY BackupIsSeen, RestoreIsSeen DEF HostInv, HostType, Own, Alive
<1>7. Alive(c) /\ Alive(c)' => conf'[c] = conf[c]
  BY DEF KeepsKnown, Alive, B!Fresh, B!Alive
<1>. QED  BY <1>1, <1>2, <1>3, <1>4, <1>5, <1>6, <1>7 DEF Alive

(* The restore side touches restore containers only, and the layers of the *)
(* restore view.                                                           *)
LEMMA RestoreSpares ==
  ASSUME HostInv, HostInv', KeepsKnown, NEW session, RP!HostEffect(session)
  PROVE  Spares(OwnBackup, "backup")
<1>0. /\ RP!HostType(RP!KnownConf, RP!MountPoint, Volume)
      /\ \A f \in Name : <<"backup", f>> \in RP!MountPoint
  BY HostSeen DEF RP!HostInv, RP!MountPoint
<1>1. CASE UNCHANGED RP!host
  BY <1>1, StaysSeen DEF RP!host, Spares
<1>2. CASE \E c \in ContainerId : /\ RP!Alive(c) => RP!OfSession(SeenByRestore[c], session)
                                  /\ RP!Changes(c)
  <2>1. PICK c \in ContainerId : /\ RP!Alive(c) => RP!OfSession(SeenByRestore[c], session)
                                 /\ RP!Changes(c)
    BY <1>2
  <2>2. /\ RP!Alive(c)
        /\ SeenByRestore'[c] = None \/ SeenByRestore'[c] = SeenByRestore[c]
        /\ \A d \in ContainerId :
             d # c => SeenByRestore'[d] = SeenByRestore[d] /\ (d \in running' <=> d \in running)
        /\ \A at \in RP!MountPoint : at # SeenByRestore[c].at => mounts'[at] = mounts[at]
    <3>1. /\ RP!Alive(c)
          /\ SeenByRestore' = SeenByRestore \/ SeenByRestore' = [SeenByRestore EXCEPT ![c] = None]
          /\ \A d \in ContainerId :
               d # c => SeenByRestore'[d] = SeenByRestore[d] /\ (d \in running' <=> d \in running)
          /\ \A at \in RP!MountPoint : at # SeenByRestore[c].at => mounts'[at] = mounts[at]
      BY <1>0, <2>1, RP!ChangesOne, RestoreAssumed
    <3>. QED  BY <1>0, <3>1 DEF RP!HostType
  <2>3. SeenByRestore[c].mode = "restore" /\ \A f \in Name : SeenByRestore[c].at # <<"backup", f>>
    BY <1>0, <2>1, <2>2 DEF RP!OfSession, RP!HostType, RP!Alive, RP!KnownConf, RP!ConfOK
  <2>. QED  BY <1>0, <2>2, <2>3, StaysSeen DEF Spares, RP!Alive
<1>3. CASE \E c \in ContainerId, cf \in RP!KnownConf :
             /\ RP!OfSession(cf, session)
             /\ RP!Fresh(c) /\ RP!ContainerCreate(c, cf)
  <2>1. PICK c \in ContainerId, cf \in RP!KnownConf : RP!OfSession(cf, session) /\ RP!ContainerCreate(c, cf)
    BY <1>3
  <2>2. /\ SeenByRestore[c] = None /\ SeenByRestore'[c] = cf /\ cf.mode = "restore"
        /\ \A d \in ContainerId : d # c => SeenByRestore'[d] = SeenByRestore[d]
        /\ running' = running /\ mounts' = mounts
    BY <1>0, <2>1 DEF RP!OfSession, RP!ContainerCreate, RP!HostType, RP!Alive
  <2>. QED  BY <2>2, StaysSeen DEF Spares
<1>4. CASE \E f \in Name : RP!Umount(RP!CleanupAt(f))
  BY <1>0, <1>4, StaysSeen DEF RP!Umount, RP!CleanupAt, RP!HostType, RP!MountPoint, Spares
<1>. QED  BY <1>1, <1>2, <1>3, <1>4 DEF RP!HostEffect

(* The backup side touches backup helpers only, and the layers of the      *)
(* backup view.                                                            *)
LEMMA BackupSpares ==
  ASSUME HostInv, HostInv', KeepsKnown, BP!HostEffect
  PROVE  Spares(OwnRestore, "restore")
<1>0. /\ BP!HostType(BP!KnownConf, BP!MountPoint, Volume)
      /\ \A f \in Name : <<"restore", f>> \in BP!MountPoint
  BY HostSeen DEF BP!HostInv, BP!MountPoint
<1>1. CASE UNCHANGED BP!host
  BY <1>1, StaysSeen DEF BP!host, Spares
<1>2. CASE \E c \in ContainerId : /\ BP!Alive(c) => SeenByBackup[c].mode \in BP!HelperModes
                                  /\ BP!Changes(c)
  <2>1. PICK c \in ContainerId : /\ BP!Alive(c) => SeenByBackup[c].mode \in BP!HelperModes
                                 /\ BP!Changes(c)
    BY <1>2
  <2>2. /\ BP!Alive(c)
        /\ SeenByBackup'[c] = None \/ SeenByBackup'[c] = SeenByBackup[c]
        /\ \A d \in ContainerId :
             d # c => SeenByBackup'[d] = SeenByBackup[d] /\ (d \in running' <=> d \in running)
        /\ \A at \in BP!MountPoint : at # SeenByBackup[c].at => mounts'[at] = mounts[at]
    <3>1. /\ BP!Alive(c)
          /\ SeenByBackup' = SeenByBackup \/ SeenByBackup' = [SeenByBackup EXCEPT ![c] = None]
          /\ \A d \in ContainerId :
               d # c => SeenByBackup'[d] = SeenByBackup[d] /\ (d \in running' <=> d \in running)
          /\ \A at \in BP!MountPoint : at # SeenByBackup[c].at => mounts'[at] = mounts[at]
      BY <1>0, <2>1, BP!ChangesOne, BackupAssumed
    <3>. QED  BY <1>0, <3>1 DEF BP!HostType
  <2>3. SeenByBackup[c].mode # "restore" /\ \A f \in Name : SeenByBackup[c].at # <<"restore", f>>
    BY <1>0, <2>1, <2>2 DEF BP!HelperModes, BP!HostType, BP!Alive, BP!KnownConf, BP!ConfOK
  <2>. QED  BY <1>0, <2>2, <2>3, StaysSeen DEF Spares, BP!Alive
<1>3. CASE \E c \in ContainerId, v \in BP!VolumeSpecs, image \in Image :
             BP!Fresh(c) /\ BP!ContainerCreate(c, BP!HelperOptions(v, image))
  <2>1. PICK c \in ContainerId, v \in BP!VolumeSpecs, image \in Image :
               BP!ContainerCreate(c, BP!HelperOptions(v, image))
    BY <1>3
  <2>2. /\ SeenByBackup[c] = None /\ SeenByBackup'[c].mode = "backup"
        /\ \A d \in ContainerId : d # c => SeenByBackup'[d] = SeenByBackup[d]
        /\ running' = running /\ mounts' = mounts
    BY <1>0, <2>1 DEF BP!HelperOptions, BP!ContainerCreate, BP!HostType, BP!Alive
  <2>. QED  BY <2>2, StaysSeen DEF Spares
<1>4. CASE \E f \in Name : BP!Umount(BP!BackupAt(f))
  BY <1>0, <1>4, StaysSeen DEF BP!Umount, BP!BackupAt, BP!HostType, BP!MountPoint, Spares
<1>. QED  BY <1>1, <1>2, <1>3, <1>4 DEF BP!HostEffect

-------------------------------------------------------------------------------
(* What the proofs of each side found out of its processes holds in the    *)
(* composition.                                                            *)
Known == BP!Inv /\ RP!Inv

(* Every step keeps what the processes of either side rely on.             *)
LEMMA StepKeepsKnown ==
  ASSUME Inv, Inv', [Next]_vars
  PROVE  /\ KeepsKnown /\ BP!KeepsKnown /\ RP!KeepsKnown
         /\ BP!HostInv /\ BP!HostInv' /\ RP!HostInv /\ RP!HostInv'
         /\ BackupSees
<1>1. HostInv /\ HostInv' /\ backupJob \in [BackupProc -> BackupJob] /\ BackupSees
  BY JobsSeen DEF Inv, BackupSideInv, BackupSees
<1>2. ASSUME Calm({}) PROVE KeepsKnown
  BY <1>1, <1>2, CalmKeeps
<1>3. KeepsKnown
  BY <1>1, <1>2, StepEffect, BackupTouches, RestoreTouches
<1>4. BP!HostInv' /\ RP!HostInv'
  BY <1>1, HostSeenNext
<1>. QED  BY <1>1, <1>3, <1>4, HostSeen, KnownSeen

(* A step of the backup side is, in its view, one its own proofs know.     *)
LEMMA BackupKnows ==
  ASSUME Inv, Inv', [Next]_vars, BP!JobsInv, NEW p \in BackupProc, B!Step(p)
  PROVE  /\ BP!PrepareStep(p) \/ BP!CleanupStep(p)
         /\ BP!HostEffect /\ BP!JobsInv'
<1>1. BackupSees /\ BackupSideInv /\ BP!HostInv
  BY StepKeepsKnown DEF Inv
<1>2. BP!PrepareStep(p) \/ BP!CleanupStep(p)
  BY <1>1, PrepareIsSeen, CleanupIsSeen, SamePrepare, SameCleanup DEF B!Step
<1>3. BP!HostEffect /\ BP!JobsInv'
  BY <1>1, <1>2, BP!PrepareStepOK, BP!CleanupStepOK, BackupAssumed
<1>. QED  BY <1>2, <1>3

(* So is one of the restore side.                                          *)
LEMMA RestoreKnows ==
  ASSUME Inv, Inv', [Next]_vars, RP!JobsInv, NEW p \in RestoreProc, R!Step(p)
  PROVE  RP!Step(p) /\ RP!HostEffect(restoreJob[p].session) /\ RP!JobsInv'
<1>1. HostInv /\ RestoreSideInv /\ RP!HostInv
  BY StepKeepsKnown DEF Inv
<1>2. RP!Step(p)
  BY <1>1, RestoreStepIsSeen, RestoreOthersSeen, RestoreCleanupIsSeen, SameRestores,
     SameRestoreCleanup DEF R!Step, RP!Step
<1>. QED  BY <1>1, <1>2, RP!StepOK, RestoreAssumed

(* The processes of the backup side stay as they are while others move.    *)
LEMMA BackupWaits ==
  ASSUME BP!JobsInv, BP!KeepsKnown, UNCHANGED backupJob
  PROVE  BP!JobsInv'
<1>1. KeptByBackup' = KeptByBackup
  BY DEF KeptByBackup
<1>2. \A q \in BackupProc : BP!JobInv(SeenByBackup', KeptByBackup[q])
  BY BP!OthersKeep, BackupAssumed
<1>. QED  BY <1>1, <1>2 DEF BP!JobsInv

(* So do those of the restore side.                                        *)
LEMMA RestoreWaits ==
  ASSUME RP!JobsInv, RP!KeepsKnown, UNCHANGED restoreJob
  PROVE  RP!JobsInv'
<1>1. \A q \in RestoreProc : RP!JobInv(SeenByRestore', restoreJob[q])
  BY RP!OthersKeep, RestoreAssumed
<1>. QED  BY <1>1 DEF RP!JobsInv

(* So what the processes know is kept, whoever moves.                      *)
LEMMA KnownStep ==
  ASSUME Inv, Inv', Known, [Next]_vars
  PROVE  Known'
<1>1. /\ BP!HostInv /\ BP!HostInv' /\ BP!KeepsKnown /\ BP!JobsInv /\ BackupSees
      /\ RP!HostInv /\ RP!HostInv' /\ RP!KeepsKnown /\ RP!JobsInv /\ HostInv
  BY StepKeepsKnown DEF Known, BP!Inv, RP!Inv, Inv
<1>2. BP!JobsInv'
  <2>1. ASSUME NEW p \in BackupProc, B!Crash(p) PROVE BP!JobsInv'
    BY <1>1, <2>1, BackupCrashIsSeen, SameCleanup, BP!CrashKeepsJobs, BackupAssumed
  <2>2. ASSUME UNCHANGED backupJob PROVE BP!JobsInv'
    BY <1>1, <2>2, BackupWaits
  <2>. QED  BY <1>1, <2>1, <2>2, BackupKnows, StepEffect
<1>3. RP!JobsInv'
  <2>1. ASSUME NEW p \in RestoreProc, R!Crash(p) PROVE RP!JobsInv'
    BY <1>1, <2>1, RestoreOthersSeen, SameRestoreCleanup, RP!CrashKeepsJobs, RestoreAssumed
  <2>2. ASSUME UNCHANGED restoreJob PROVE RP!JobsInv'
    BY <1>1, <2>2, RestoreWaits
  <2>. QED  BY <1>1, <2>1, <2>2, RestoreKnows, StepEffect
<1>4. content' \in [Volume -> {"absent", "empty", "data"}]
  <2>1. content \in [Volume -> {"absent", "empty", "data"}]
    BY DEF Known, RP!Inv
  <2>2. ASSUME NEW p \in RestoreProc, R!Step(p) PROVE content' \in [Volume -> {"absent", "empty", "data"}]
    BY <1>1, <2>1, <2>2, RestoreKnows, RP!StepContent, RestoreAssumed
  <2>3. ASSUME UNCHANGED content PROVE content' \in [Volume -> {"absent", "empty", "data"}]
    BY <2>1, <2>3
  <2>. QED  BY <2>2, <2>3, StepEffect DEF R!Crash
<1>5. backupCalm' \in [BackupProc -> BOOLEAN] /\ restoreCalm' \in [RestoreProc -> BOOLEAN]
  BY DEF Known, BP!Inv, RP!Inv, Next, vars, BackupStep, RestoreStep, BackupCrash, RestoreCrash,
         HelperDies, B!Alone, R!Alone, B!Disturbed, R!Disturbed
<1>6. stacked' \subseteq Name
  BY DEF Known, BP!Inv, Next, vars, BackupStep, RestoreStep, BackupCrash, RestoreCrash,
         HelperDies, B!NoteLayers
<1>. QED  BY <1>1, <1>2, <1>3, <1>4, <1>5, <1>6 DEF Known, BP!Inv, RP!Inv

(* It holds at first.                                                      *)
LEMMA KnownInit ==
  ASSUME Init
  PROVE  Known
<1>1. BP!Init /\ RP!Init
  BY ViewsInit DEF BackupView!Init, BP!Init, RestoreView!Init, RP!Init, BackupView!MountPoint,
     BP!MountPoint, RestoreView!MountPoint, RP!MountPoint, BackupView!Idle, BP!Idle,
     RestoreView!Idle, RP!Idle
<1>. QED  BY <1>1, BP!InitInv, RP!InitInv, BackupAssumed, RestoreAssumed DEF Known

(* The processes of both sides know what they know, whoever moves.         *)
LEMMA KnownKept == Spec => []Known
<1>1. Init => Known
  BY KnownInit
<1>2. Inv /\ Inv' /\ Known /\ [Next]_vars => Known'
  BY KnownStep
<1>. QED  BY <1>1, <1>2, Invariance, PTL DEF Spec

-------------------------------------------------------------------------------
(* The promises of the backup side.                                        *)

(* No restore mounts on the path of a volume of the backup side, and no    *)
(* helper on that of a volume before its own.                              *)
LEMMA PathsInOrder ==
  ASSUME HostInv
  PROVE  BP!OrderInv
<1>. SUFFICES ASSUME NEW c \in ContainerId, Alive(c)
              PROVE  BP!InOrder(SeenByBackup[c])
  BY SeenContainers DEF BP!OrderInv, BP!Alive, BackupView!Alive
<1>1. conf[c] \in Own /\ SeenByBackup[c] = AsBackupSees(conf[c])
  BY SeenContainers
<1>2. CASE conf[c] \in OwnBackup
  <2>1. PICK v \in B!VolumeSpecs, image \in Image : conf[c] = B!HelperOptions(v, image)
    BY <1>2 DEF OwnBackup
  <2>2. v \in BP!VolumeSpecs /\ B!HelperOptions(v, image) = BP!HelperOptions(v, image)
    BY DEF B!VolumeSpecs, BP!VolumeSpecs, B!HelperOptions, BP!HelperOptions, B!HelperName,
       BP!HelperName, B!BackupAt, BP!BackupAt
  <2>. QED  BY <1>1, <1>2, <2>1, <2>2, BackupIsSeen, BP!HelperInOrder, BackupAssumed
<1>3. CASE conf[c] \in OwnRestore
  <2>1. AsBackupSees(conf[c]).volume = None
    BY <1>3, RestoreIsSeen
  <2>2. BP!VolumeSpecs \subseteq Volume /\ None \notin Volume
    BY VolumesAssumption, NoneAssumption DEF BP!VolumeSpecs
  <2>. QED  BY <1>1, <2>1, <2>2 DEF BP!InOrder
<1>. QED  BY <1>1, <1>2, <1>3 DEF Own

(* Who moves notes where mounts are stacked, or stacks none.               *)
LEMMA LayersStep ==
  ASSUME Inv, BP!LayersNoted, [Next]_vars
  PROVE  BP!LayersNoted'
<1>1. CASE B!NoteLayers
  BY <1>1 DEF B!NoteLayers, BP!LayersNoted, BP!BackupAt, B!BackupAt
<1>2. CASE mounts' = mounts /\ stacked' = stacked
  BY <1>2 DEF BP!LayersNoted
<1>3. CASE HelperDies
  <2>1. Calm({})
    BY <1>3, BackupCalls DEF HelperDies, B!Dies, Calm
  <2>2. Shrinks /\ stacked' = stacked
    BY <1>3, <2>1, CalmKeeps DEF Inv, HelperDies
  <2>3. ASSUME NEW f \in Name PROVE Len(mounts'[<<"backup", f>>]) <= Len(mounts[<<"backup", f>>])
    BY <2>2, ViewPaths DEF Shrinks
  <2>4. HostInv /\ HostInv'
    BY <2>1, CalmKeeps DEF Inv
  <2>5. ASSUME NEW f \in Name
        PROVE  Len(mounts'[<<"backup", f>>]) \in Nat /\ Len(mounts[<<"backup", f>>]) \in Nat
    BY <2>4, ViewPaths, Lengths
  <2>. QED  BY <2>2, <2>3, <2>5 DEF BP!LayersNoted, BP!BackupAt
<1>. QED  BY <1>1, <1>2, <1>3 DEF Next, vars, BackupStep, RestoreStep, BackupCrash, RestoreCrash,
                                  B!Crash, R!Crash, B!host, R!host

(* What the restore side does leaves the containers that are not its own   *)
(* as they are, for the backup side.                                       *)
LEMMA HelpersStay ==
  ASSUME HostInv, HostInv', Spares(OwnBackup, "backup"), NEW c \in ContainerId,
         \/ Alive(c) /\ SeenByBackup[c].mode # "restore"
         \/ Alive(c)' /\ SeenByBackup'[c].mode # "restore"
  PROVE  /\ Alive(c) /\ Alive(c)' /\ SeenByBackup'[c] = SeenByBackup[c]
         /\ c \in running' <=> c \in running
<1>1. /\ Alive(c) => conf[c] \in Own /\ SeenByBackup[c] = AsBackupSees(conf[c])
      /\ Alive(c)' => conf'[c] \in Own /\ SeenByBackup'[c] = AsBackupSees(conf'[c])
      /\ Alive(c) <=> conf[c] # None
      /\ Alive(c)' <=> conf'[c] # None
  BY DEF HostInv, HostType, Alive, SeenByBackup, AsBackupSees
<1>2. \A cf \in OwnRestore : AsBackupSees(cf).mode = "restore"
  BY RestoreIsSeen
<1>3. conf[c] \in OwnBackup \/ conf'[c] \in OwnBackup
  BY <1>1, <1>2 DEF Own
<1>4. conf'[c] = conf[c] /\ (c \in running' <=> c \in running)
  BY <1>3 DEF Spares
<1>. QED  BY <1>1, <1>3, <1>4

(* So a prepare that is under way keeps what it has made sure of.          *)
LEMMA PreparedStays ==
  ASSUME Inv, Inv', Known, KeepsKnown, BP!KeepsKnown, Spares(OwnBackup, "backup"), UNCHANGED backupJob,
         NEW p \in BackupProc, BP!Prepared(KeptByBackup[p])
  PROVE  BP!Prepared(KeptByBackup[p])'
<1>. DEFINE j == KeptByBackup[p]
<1>1. /\ KeptByBackup' = KeptByBackup
      /\ HostInv /\ HostInv' /\ j \in BP!Job /\ BP!JobInv(SeenByBackup, j)
  BY DEF KeptByBackup, Inv, Known, BP!Inv, BP!JobsInv
<1>2. \A c \in ContainerId :
        /\ (SeenByBackup[c] # None <=> Alive(c)) /\ (SeenByBackup'[c] # None <=> Alive(c)')
        /\ c \in running => Alive(c)
  BY <1>1, StaysSeen DEF HostInv, HostType
<1>3. ASSUME NEW v, NEW image, BP!HelperRuns(v, image)
      PROVE  BP!HelperRuns(v, image)'
  <2>1. PICK c \in running : SeenByBackup[c] = BP!HelperOptions(v, image)
    BY <1>3 DEF BP!HelperRuns
  <2>2. c \in ContainerId /\ Alive(c) /\ SeenByBackup[c].mode # "restore"
    BY <1>1, <2>1 DEF HostInv, HostType, BP!HelperOptions
  <2>3. c \in running' /\ SeenByBackup'[c] = SeenByBackup[c]
    BY <1>1, <2>1, <2>2, HelpersStay
  <2>. QED  BY <2>1, <2>3 DEF BP!HelperRuns
<1>4. ASSUME NEW v \in BP!VolumeSpecs, NEW image, BP!Exposed(v, image)
      PROVE  BP!Exposed(v, image)'
  <2>1. mounts'[BP!BackupAt(FriendlyName[v])] = mounts[BP!BackupAt(FriendlyName[v])]
    BY BP!OwnPaths, BackupAssumed DEF Spares, BP!BackupAt
  <2>. QED  BY <1>3, <1>4, <2>1 DEF BP!Exposed
<1>5. ASSUME NEW v \in BP!VolumeSpecs, BP!AtHand(j, v)
      PROVE  BP!AtHand(j, v)'
  <2>1. ASSUME j.pc = "replace", BP!Alive(j.cur)'
        PROVE  SeenByBackup'[j.cur].volume = v
    <3>1. j.cur \in ContainerId /\ ~BP!Fresh(j.cur)
      BY <1>1, <2>1 DEF BP!JobInv, BP!Holding, BP!Fresh
    <3>2. SeenByBackup'[j.cur] = SeenByBackup[j.cur] /\ BP!Alive(j.cur)
      BY <1>1, <2>1, <3>1 DEF BP!KeepsKnown, BP!Alive
    <3>. QED  BY <1>5, <2>1, <3>2 DEF BP!AtHand
  <2>2. ASSUME j.pc \in {"start", "startnew"}
        PROVE  SeenByBackup'[j.cur] = BP!HelperOptions(v, j.image)
    <3>1. j.cur \in ContainerId /\ SeenByBackup[j.cur] = BP!HelperOptions(v, j.image)
      BY <1>1, <1>5, <2>2 DEF BP!JobInv, BP!Holding, BP!AtHand
    <3>2. j.image \in Image
      BY <1>1, <2>2 DEF BP!JobInv, BP!Preparing
    <3>3. SeenByBackup[j.cur] \in BP!Conf /\ SeenByBackup[j.cur].mode = "backup"
      BY <3>1, <3>2, BP!HelperOptionsOK, BackupAssumed
    <3>4. Alive(j.cur)
      BY <1>2, <3>1, <3>3, BackupAssumed
    <3>. QED  BY <1>1, <3>1, <3>3, <3>4, HelpersStay
  <2>3. ASSUME j.pc = "wait"
        PROVE  \E c \in running' : SeenByBackup'[c] = BP!HelperOptions(v, j.image)
    BY <1>3, <1>5, <2>3 DEF BP!AtHand, BP!HelperRuns
  <2>. QED  BY <1>1, <1>5, <2>1, <2>2, <2>3 DEF BP!AtHand, BP!HelperRuns
<1>6. ASSUME NEW v \in BP!VolumeSpecs, BP!Exposed(v, j.image)
      PROVE  BP!Exposed(v, j.image)'
  BY <1>1, <1>4, <1>6 DEF BP!Exposed, BP!HelperRuns
<1>7. j.todo \subseteq BP!VolumeSpecs
  BY <1>1 DEF BP!Job
<1>. QED  BY <1>1, <1>5, <1>6, <1>7 DEF BP!Prepared

(* And a cleanup what it has.                                              *)
LEMMA CleanedStays ==
  ASSUME Inv, Inv', Known, KeepsKnown, Spares(OwnBackup, "backup"), UNCHANGED backupJob,
         stacked \subseteq stacked', NEW p \in BackupProc, BP!Cleaned(KeptByBackup[p])
  PROVE  BP!Cleaned(KeptByBackup[p])'
<1>. DEFINE j == KeptByBackup[p]
<1>1. /\ KeptByBackup' = KeptByBackup
      /\ HostInv /\ HostInv' /\ j \in BP!Job /\ BP!JobInv(SeenByBackup, j)
  BY DEF KeptByBackup, Inv, Known, BP!Inv, BP!JobsInv
<1>2. ASSUME NEW c \in ContainerId, BP!Alive(c)', BP!IsManaged(SeenByBackup'[c])
      PROVE  BP!Alive(c) /\ BP!IsManaged(SeenByBackup[c])
  <2>1. Alive(c)' /\ SeenByBackup'[c].mode # "restore"
    BY <1>1, <1>2, StaysSeen DEF BP!Alive, BP!IsManaged
  <2>. QED  BY <1>1, <1>2, <2>1, HelpersStay DEF BP!Alive
<1>3. ASSUME NEW f \in Name, BP!Reclaimed(f)
      PROVE  BP!Reclaimed(f)'
  BY <1>3 DEF Spares, BP!Reclaimed, BP!BackupAt
<1>4. \A s \in j.listed : s.conf.friendly \in Name
  BY <1>1 DEF BP!JobInv
<1>. QED  BY <1>1, <1>2, <1>3, <1>4 DEF BP!Cleaned, BP!Reclaimed

(* What undisturbed prepares and cleanups have made sure of.               *)
BackupKeeps ==
  \A p \in BackupProc :
    backupCalm[p] => BP!Prepared(KeptByBackup[p]) /\ BP!Cleaned(KeptByBackup[p])

(* A process of the backup side keeps its own promise.                     *)
LEMMA OwnBackupPromise ==
  ASSUME Inv, Inv', Known, BP!LayersNoted, BackupKeeps,
         NEW q \in BackupProc, BackupStep(q), NEW p \in BackupProc, backupCalm'[p]
  PROVE  BP!Prepared(KeptByBackup[p])' /\ BP!Cleaned(KeptByBackup[p])'
<1>1. [Next]_vars /\ BP!Inv /\ BP!JobsInv /\ BP!OrderInv
  BY PathsInOrder DEF Next, Known, BP!Inv, Inv
<1>2. /\ B!Step(p) /\ BP!NoteLayers
      /\ backupJob[p].pc \in B!Resting \/ backupCalm[p]
  BY DEF BackupStep, B!Alone, B!NoteLayers, BP!NoteLayers, B!BackupAt, BP!BackupAt
<1>3. KeptByBackup = backupJob /\ B!Resting = BP!Resting
  BY <1>1, StepKeepsKnown DEF BackupSees, B!Resting, BP!Resting
<1>4. KeptByBackup[p].pc \notin BP!Resting =>
        BP!Prepared(KeptByBackup[p]) /\ BP!Cleaned(KeptByBackup[p])
  BY <1>2, <1>3 DEF BackupKeeps
<1>5. CASE BP!PrepareStep(p)
  <2>1. BP!Prepared(KeptByBackup[p])'
    BY <1>1, <1>4, <1>5, BP!PreparePromise, BackupAssumed
  <2>2. KeptByBackup'[p].pc \in BP!Preparing \union {"prepared"}
    BY <1>1, <1>5, BP!PrepareEnds, BackupAssumed
  <2>. QED  BY <2>1, <2>2 DEF BP!Cleaned, BP!Preparing
<1>6. CASE BP!CleanupStep(p)
  <2>1. BP!Cleaned(KeptByBackup[p])' /\ KeptByBackup'[p].pc \in BP!Cleaning \union {"cleaned"}
    BY <1>1, <1>2, <1>4, <1>6, BP!CleanupPromise, BackupAssumed
  <2>. QED  BY <2>1 DEF BP!Prepared, BP!Looping, BP!Cleaning
<1>. QED  BY <1>1, <1>2, <1>5, <1>6, BackupKnows

(* So it does while the restore side moves.                                *)
LEMMA BackupKeepsStep ==
  ASSUME Inv, Inv', Known, BP!LayersNoted, BackupKeeps, [Next]_vars
  PROVE  BackupKeeps'
<1>. SUFFICES ASSUME NEW p \in BackupProc, backupCalm'[p]
              PROVE  BP!Prepared(KeptByBackup[p])' /\ BP!Cleaned(KeptByBackup[p])'
  BY DEF BackupKeeps
<1>1. KeepsKnown /\ BP!KeepsKnown /\ HostInv /\ HostInv' /\ RP!JobsInv
  BY StepKeepsKnown DEF Inv, Known, RP!Inv
<1>2. ASSUME Spares(OwnBackup, "backup"), UNCHANGED <<backupJob, backupCalm>>, stacked \subseteq stacked'
      PROVE  BP!Prepared(KeptByBackup[p])' /\ BP!Cleaned(KeptByBackup[p])'
  BY <1>1, <1>2, PreparedStays, CleanedStays DEF BackupKeeps
<1>3. CASE \E q \in BackupProc : BackupStep(q)
  BY <1>3, OwnBackupPromise
<1>4. CASE \E q \in RestoreProc : RestoreStep(q)
  <2>1. PICK q \in RestoreProc : RestoreStep(q)
    BY <1>4
  <2>2. RP!HostEffect(restoreJob[q].session)
    BY <1>1, <2>1, RestoreKnows DEF RestoreStep
  <2>. QED  BY <1>1, <1>2, <2>1, <2>2, RestoreSpares DEF RestoreStep, B!NoteLayers
<1>5. CASE (\E q \in RestoreProc : RestoreCrash(q)) \/ UNCHANGED vars
  BY <1>2, <1>5 DEF RestoreCrash, R!Crash, R!host, vars, Spares
<1>6. CASE (\E q \in BackupProc : BackupCrash(q)) \/ HelperDies
  BY <1>6 DEF BackupCrash, HelperDies, B!Disturbed
<1>. QED  BY <1>3, <1>4, <1>5, <1>6 DEF Next

(* What the view calls a promise is one of the containers as they are.     *)
LEMMA BackupMeans ==
  ASSUME Inv, Known, BackupKeeps
  PROVE  BackupUndisturbed
<1>1. HostInv /\ KeptByBackup = backupJob
  BY JobsSeen DEF Inv, BackupSideInv
<1>2. ASSUME NEW c \in ContainerId, Alive(c)
      PROVE  /\ conf[c] = SeenByBackup[c] \/ (conf[c].mode = "restore" /\ SeenByBackup[c].mode = "restore")
             /\ BP!Alive(c)
  <2>1. conf[c] \in Own /\ SeenByBackup[c] = AsBackupSees(conf[c]) /\ BackupView!Alive(c)
    BY <1>1, <1>2, SeenContainers
  <2>. QED  BY <2>1, BackupIsSeen, RestoreIsSeen DEF Own, BP!Alive, BackupView!Alive
<1>3. B!SoloPrepare
  <2>. SUFFICES ASSUME NEW p \in BackupProc, backupCalm[p], backupJob[p].pc = "prepared", ~backupJob[p].errs,
                       NEW v \in Enabled
                PROVE  B!Served(v, backupJob[p].image)
    BY DEF B!SoloPrepare, B!At
  <2>. DEFINE image == backupJob[p].image
  <2>1. v \in BP!VolumeSpecs /\ BP!Exposed(v, image)
    BY <1>1 DEF BackupKeeps, BP!Prepared
  <2>2. BP!Tidy
    <3>1. \A cf \in FromRestore : cf.volume = None
      BY BackupAssumed DEF FromRestore
    <3>2. BP!VolumeSpecs \subseteq Volume /\ None \notin Volume
      BY VolumesAssumption, NoneAssumption DEF BP!VolumeSpecs
    <3>. QED  BY <3>1, <3>2 DEF BP!Tidy, BP!InOrder
  <2>3. PICK c \in running : SeenByBackup[c] = BP!HelperOptions(v, image)
    BY <2>1 DEF BP!Exposed, BP!HelperRuns
  <2>4. c \in ContainerId /\ Alive(c) /\ SeenByBackup[c].mode = "backup"
    BY <1>1, <2>3 DEF HostInv, HostType, BP!HelperOptions
  <2>5. conf[c] = BP!HelperOptions(v, image)
    BY <1>2, <2>3, <2>4
  <2>6. /\ BP!HelperOptions(v, image) = B!HelperOptions(v, image)
        /\ BP!BackupAt(FriendlyName[v]) = B!BackupAt(FriendlyName[v])
    BY DEF BP!HelperOptions, B!HelperOptions, BP!HelperName, B!HelperName, BP!BackupAt, B!BackupAt
  <2>7. mounts[B!BackupAt(FriendlyName[v])] # <<>>
    BY <2>1, <2>2, <2>6 DEF BP!Exposed
  <2>. QED  BY <2>3, <2>5, <2>6, <2>7 DEF B!Served
<1>4. B!SoloCleanup
  <2>. SUFFICES ASSUME NEW p \in BackupProc, backupCalm[p], backupJob[p].pc = "cleaned", ~backupJob[p].errs
                PROVE  /\ \A c \in ContainerId :
                            Alive(c) /\ conf[c].mode \in {"backup", "legacy"} =>
                              conf[c].volume = None \/ conf[c].friendly = None
                       /\ \A s \in backupJob[p].listed :
                            mounts[B!BackupAt(s.conf.friendly)] # <<>> => s.conf.friendly \in stacked
    BY DEF B!SoloCleanup, B!At, B!Alive, Alive
  <2>1. BP!Cleaned(backupJob[p]) /\ backupJob[p].found = {}
    BY <1>1 DEF BackupKeeps, Known, BP!Inv, BP!JobsInv, BP!JobInv
  <2>2. \A c \in ContainerId : BP!Alive(c) => ~BP!IsManaged(SeenByBackup[c])
    BY <2>1 DEF BP!Cleaned
  <2>3. \A s \in backupJob[p].listed : BP!Reclaimed(s.conf.friendly)
    BY <2>1 DEF BP!Cleaned
  <2>4. ASSUME NEW c \in ContainerId, Alive(c), conf[c].mode \in {"backup", "legacy"}
        PROVE  conf[c].volume = None \/ conf[c].friendly = None
    BY <1>2, <2>2, <2>4 DEF BP!IsManaged
  <2>. QED  BY <2>3, <2>4 DEF BP!Reclaimed, BP!BackupAt, B!BackupAt
<1>. QED  BY <1>3, <1>4 DEF BackupUndisturbed

(* A prepare or cleanup that exits with 0 and that nobody of the backup    *)
(* side disturbs has done what it promises, whatever restores and          *)
(* restore-cleanups do meanwhile: every enabled volume has its running     *)
(* helper and its mount, or no managed helper and, but where mounts were   *)
(* stacked, none of their mounts is left.                                  *)
THEOREM BackupUndisturbedKept == Spec => []BackupUndisturbed
<1>1. Init => BP!LayersNoted /\ BackupKeeps
  BY DEF Init, B!Init, BP!LayersNoted, BackupKeeps, BP!BackupAt, B!MountPoint
<1>2. Inv /\ Inv' /\ Known /\ BP!LayersNoted /\ BackupKeeps /\ [Next]_vars
        => BP!LayersNoted' /\ BackupKeeps'
  BY LayersStep, BackupKeepsStep
<1>3. Inv /\ Known /\ BackupKeeps => BackupUndisturbed
  BY BackupMeans
<1>. QED  BY <1>1, <1>2, <1>3, Invariance, KnownKept, PTL DEF Spec

-------------------------------------------------------------------------------
(* The promise of the restore side.                                        *)

(* What the backup side does leaves the restore containers as they are.    *)
LEMMA RestoresStay ==
  ASSUME HostInv, HostInv', Spares(OwnRestore, "restore"), NEW c \in ContainerId,
         Alive(c), SeenByRestore[c].mode = "restore"
  PROVE  SeenByRestore'[c] = SeenByRestore[c] /\ (c \in running' <=> c \in running)
<1>1. conf[c] \in Own /\ SeenByRestore[c] = AsRestoreSees(conf[c])
  BY SeenContainers
<1>2. conf[c] \in OwnRestore
  BY <1>1, BackupIsSeen DEF Own
<1>3. conf'[c] = conf[c] /\ (c \in running' <=> c \in running)
  BY <1>2 DEF Spares
<1>4. SeenByRestore'[c] = IF conf'[c] # None THEN AsRestoreSees(conf'[c]) ELSE None
  BY DEF SeenByRestore, Alive, AsRestoreSees
<1>. QED  BY <1>1, <1>3, <1>4 DEF Alive

(* So a restore that is under way keeps what it has made sure of.          *)
LEMMA AssuredStays ==
  ASSUME Inv, Inv', Known, Spares(OwnRestore, "restore"), UNCHANGED <<content, restoreJob>>,
         NEW p \in RestoreProc, RP!Assured(restoreJob[p])
  PROVE  RP!Assured(restoreJob[p])'
<1>. DEFINE j == restoreJob[p]
<1>1. HostInv /\ HostInv' /\ j \in RP!Job /\ RP!JobInv(SeenByRestore, j) /\ restoreJob' = restoreJob
  BY DEF Inv, Known, RP!Inv, RP!JobsInv
<1>2. ASSUME j.pc \in {"start", "startnew"}
      PROVE  SeenByRestore'[j.cur] = RP!HelperOptions(j)
  <2>1. j.cur \in ContainerId /\ SeenByRestore[j.cur] = RP!HelperOptions(j)
    BY <1>1, <1>2 DEF RP!JobInv, RP!Holding, RP!Assured
  <2>2. j.pc \in RP!Restoring \cap RP!Named
    BY <1>2 DEF RP!Restoring, RP!Checking, RP!Mounting, RP!Named
  <2>3. SeenByRestore[j.cur] \in RP!Conf /\ SeenByRestore[j.cur].mode = "restore"
    BY <1>1, <2>1, <2>2, RP!HelperOptionsOK, RestoreAssumed DEF RP!KnownConf, RP!OfSession
  <2>4. Alive(j.cur)
    BY <2>1, <2>3, RestoreAssumed DEF SeenByRestore
  <2>. QED  BY <1>1, <2>1, <2>3, <2>4, RestoresStay
<1>3. ASSUME RP!HelperRuns(j)
      PROVE  \E c \in running' : SeenByRestore'[c] = RP!HelperOptions(j)
  <2>1. PICK c \in running : SeenByRestore[c] = RP!HelperOptions(j)
    BY <1>3 DEF RP!HelperRuns
  <2>2. c \in ContainerId /\ Alive(c) /\ SeenByRestore[c].mode = "restore"
    BY <1>1, <2>1 DEF HostInv, HostType, RP!HelperOptions
  <2>. QED  BY <1>1, <2>1, <2>2, RestoresStay
<1>4. j.pc = "ready" => mounts'[RP!RestoreAt(FriendlyName[j.source])] = mounts[RP!RestoreAt(FriendlyName[j.source])]
  BY <1>1 DEF RP!JobInv, RP!Named, RP!RestoreAt, Spares
<1>. QED  BY <1>1, <1>2, <1>3, <1>4 DEF RP!Assured, RP!HelperRuns

(* What undisturbed restores have made sure of.                            *)
RestoreKeeps ==
  \A p \in RestoreProc : restoreCalm[p] => RP!Assured(restoreJob[p])

(* A restore keeps its own promise, and keeps it while the backup side     *)
(* moves.                                                                  *)
LEMMA RestoreKeepsStep ==
  ASSUME "find" \notin Trouble, Inv, Inv', Known, RestoreKeeps, [Next]_vars
  PROVE  RestoreKeeps'
<1>. SUFFICES ASSUME NEW p \in RestoreProc, restoreCalm'[p]
              PROVE  RP!Assured(restoreJob[p])'
  BY DEF RestoreKeeps
<1>1. KeepsKnown /\ HostInv /\ HostInv' /\ RP!JobsInv /\ RP!Inv /\ BP!JobsInv
  BY StepKeepsKnown DEF Inv, Known, BP!Inv, RP!Inv
<1>2. ASSUME Spares(OwnRestore, "restore"), UNCHANGED <<content, restoreJob, restoreCalm>>
      PROVE  RP!Assured(restoreJob[p])'
  BY <1>1, <1>2, AssuredStays DEF RestoreKeeps
<1>3. CASE \E q \in RestoreProc : RestoreStep(q)
  <2>1. /\ R!Step(p)
        /\ restoreJob[p].pc \in R!Resting \/ restoreCalm[p]
    BY <1>3 DEF RestoreStep, R!Alone
  <2>2. RP!Step(p) /\ R!Resting = RP!Resting /\ "find" \notin AnyTrouble
    BY <1>1, <2>1, RestoreKnows DEF R!Resting, RP!Resting, AnyTrouble
  <2>3. restoreJob[p].pc \notin RP!Resting => RP!Promised(p)
    BY <2>1, <2>2 DEF RestoreKeeps, RP!Promised
  <2>4. RP!Promised(p)'
    BY <1>1, <2>2, <2>3, RP!StepPromise, RestoreAssumed
  <2>. QED  BY <2>4 DEF RP!Promised
<1>4. CASE \E q \in BackupProc : BackupStep(q)
  <2>1. PICK q \in BackupProc : BackupStep(q)
    BY <1>4
  <2>2. BP!HostEffect
    BY <1>1, <2>1, BackupKnows DEF BackupStep
  <2>. QED  BY <1>1, <1>2, <2>1, <2>2, BackupSpares DEF BackupStep
<1>5. CASE (\E q \in BackupProc : BackupCrash(q)) \/ UNCHANGED vars
  BY <1>2, <1>5 DEF BackupCrash, B!Crash, B!host, vars, Spares
<1>6. CASE (\E q \in RestoreProc : RestoreCrash(q)) \/ HelperDies
  BY <1>6 DEF RestoreCrash, HelperDies, R!Disturbed
<1>. QED  BY <1>3, <1>4, <1>5, <1>6 DEF Next

(* What the view calls the promise is one of the containers as they are.   *)
LEMMA RestoreMeans ==
  ASSUME Inv, RestoreKeeps
  PROVE  RestoreUndisturbed
<1>1. HostInv
  BY DEF Inv
<1>. SUFFICES ASSUME NEW p \in RestoreProc, restoreCalm[p], restoreJob[p].pc = "ready"
              PROVE  /\ \E c \in running : conf[c] = R!HelperOptions(restoreJob[p])
                     /\ mounts[R!RestoreAt(FriendlyName[restoreJob[p].source])] # <<>>
                     /\ ~restoreJob[p].force => content[restoreJob[p].target] = "empty"
  BY DEF RestoreUndisturbed, R!SoloRestore, R!At
<1>. DEFINE j == restoreJob[p]
<1>2. RP!Assured(j)
  BY DEF RestoreKeeps
<1>3. PICK c \in running : SeenByRestore[c] = RP!HelperOptions(j)
  BY <1>2 DEF RP!Assured, RP!HelperRuns
<1>4. c \in ContainerId /\ Alive(c) /\ SeenByRestore[c].mode = "restore"
  BY <1>1, <1>3 DEF HostInv, HostType, RP!HelperOptions
<1>5. conf[c] = SeenByRestore[c]
  BY <1>1, <1>4, SeenContainers, BackupIsSeen, RestoreIsSeen DEF Own
<1>6. /\ RP!HelperOptions(j) = R!HelperOptions(j)
      /\ RP!RestoreAt(FriendlyName[j.source]) = R!RestoreAt(FriendlyName[j.source])
  BY DEF RP!HelperOptions, R!HelperOptions, RP!RestoreAt, R!RestoreAt
<1>. QED  BY <1>2, <1>3, <1>5, <1>6 DEF RP!Assured, RP!Mounting

(* Where a find that fails does not occur, a restore that exits with 0 and *)
(* that nobody of the restore side disturbs has its helper running, a      *)
(* mount on its path and its target still empty, whatever prepares and     *)
(* cleanups do meanwhile.                                                  *)
THEOREM RestoreUndisturbedKept ==
  ASSUME "find" \notin Trouble
  PROVE  Spec => []RestoreUndisturbed
<1>1. Init => RestoreKeeps
  BY DEF Init, R!Init, RestoreKeeps
<1>2. Inv /\ Inv' /\ Known /\ RestoreKeeps /\ [Next]_vars => RestoreKeeps'
  BY RestoreKeepsStep
<1>3. Inv /\ RestoreKeeps => RestoreUndisturbed
  BY RestoreMeans
<1>. QED  BY <1>1, <1>2, <1>3, Invariance, KnownKept, PTL DEF Spec

-------------------------------------------------------------------------------
(* What holds of every command, disturbed or not: a cleanup of either side *)
(* unmounts no path of which it knows a helper that is still there, and    *)
(* one that exits with 0 has removed what it listed; no restore gets to    *)
(* its helper without having seen its target empty, unless it is forced.   *)
WhoeverMoves ==
  /\ B!UmountAfterRemoval /\ B!CleanupExit
  /\ R!NoOverwrite /\ R!UmountAfterRemoval /\ R!CleanupExit

(* The promises that need nobody's rest hold while both sides run.         *)
THEOREM WhoeverMovesKept == Spec => []WhoeverMoves
<1>1. Inv /\ Known => WhoeverMoves
  <2>. SUFFICES ASSUME Inv, Known PROVE WhoeverMoves
    OBVIOUS
  <2>1. /\ HostInv /\ KeptByBackup = backupJob
        /\ \A p \in BackupProc : backupJob[p] \in BP!Job /\ BP!JobInv(SeenByBackup, backupJob[p])
        /\ \A p \in RestoreProc : restoreJob[p] \in RP!Job /\ RP!JobInv(SeenByRestore, restoreJob[p])
    BY JobsSeen DEF Inv, BackupSideInv, Known, BP!Inv, BP!JobsInv, RP!Inv, RP!JobsInv
  <2>2. \A c \in ContainerId : /\ SeenByBackup[c] = None => ~Alive(c)
                               /\ SeenByRestore[c] = None => ~Alive(c)
    BY <2>1, SeenContainers DEF BackupView!Alive, RestoreView!Alive
  <2>3. B!UmountAfterRemoval /\ B!CleanupExit
    <3>. SUFFICES ASSUME NEW p \in BackupProc
                  PROVE  /\ \A f \in Name : B!At(p, "umount") /\ B!IsFirst(f, backupJob[p].targets) =>
                              \A s \in backupJob[p].listed : s.conf.friendly = f => ~B!Alive(s.id)
                         /\ B!At(p, "cleaned") /\ ~backupJob[p].errs =>
                              \A s \in backupJob[p].listed :
                                ~B!Alive(s.id) /\ s.conf.friendly \notin UnsafeName
      BY DEF B!UmountAfterRemoval, B!CleanupExit
    <3>1. \A s \in backupJob[p].listed : s.id \in ContainerId
      BY <2>1 DEF BP!Job, BP!Summary
    <3>. QED  BY <2>1, <2>2, <3>1 DEF BP!JobInv, B!At, B!IsFirst, BP!IsFirst, B!Alive, Alive
  <2>4. R!UmountAfterRemoval /\ R!CleanupExit
    <3>. SUFFICES ASSUME NEW p \in RestoreProc
                  PROVE  /\ R!At(p, "umount") =>
                              \A s \in restoreJob[p].listed :
                                R!TargetKey(s.conf) = restoreJob[p].key => ~R!Alive(s.id)
                         /\ R!At(p, "cleaned") /\ ~restoreJob[p].errs =>
                              \A s \in restoreJob[p].listed :
                                ~R!Alive(s.id) /\ s.conf.friendly \notin UnsafeName
      BY DEF R!UmountAfterRemoval, R!CleanupExit
    <3>1. /\ \A s \in restoreJob[p].listed : s.id \in ContainerId
          /\ \A cf : RP!TargetKey(cf) = R!TargetKey(cf)
      BY <2>1 DEF RP!Job, RP!Summary, RP!TargetKey, R!TargetKey
    <3>. QED  BY <2>1, <2>2, <3>1 DEF RP!JobInv, R!At, R!Alive, Alive
  <2>5. R!NoOverwrite
    BY <2>1 DEF RP!JobInv, R!NoOverwrite, R!Mounting, RP!Mounting
  <2>. QED  BY <2>3, <2>4, <2>5 DEF WhoeverMoves
<1>. QED  BY <1>1, Invariance, KnownKept, PTL

===============================================================================
