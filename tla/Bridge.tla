--------------------------------- MODULE Bridge ---------------------------------
(***************************************************************************)
(* The two sides of revopia together, on one daemon and one bridge: the    *)
(* processes of Backup and those of Restore, which know nothing of each    *)
(* other.  A step of a side is a step of its own module here and one of    *)
(* the environment for the other side; BackupView and RestoreView are what *)
(* each side sees.                                                         *)
(***************************************************************************)
EXTENDS DockerHost, FiniteSets

CONSTANTS
  BackupProc,       \* processes that run prepare and cleanup
  RestoreProc,      \* processes that run restore and restore-cleanup
  Volume,           \* Docker volumes, numbered in the order of their names
  Enabled,          \* the volumes with the label backup.enable=true
  Name,             \* friendly names, numbered in their order
  RestoreDir,       \* the friendly name "restore"
  FriendlyName,     \* friendlyNameForVolume; None where it fails
  UnsafeName,       \* names validateCleanupFriendlyName rejects
  Session,          \* session identifiers
  Image,            \* helper images
  Sources,          \* bound: the volumes that restores name as source
  Targets,          \* bound: the volumes that restores name as target
  Contents,         \* what the volumes may hold at first
  BackupCommands,   \* the commands of the backup side: "prepare", "cleanup"
  RestoreCommands,  \* RestoreCommands[p]: "restore", "cleanup"
  Trouble,          \* what may go wrong, as in Backup and Restore
  MaxLayers         \* bound: the mounts stacked on one mount point

VARIABLES
  content,          \* content[v]: "absent", "empty" or "data"
  backupJob,        \* the local states of the processes of each side
  restoreJob,
  backupCalm,       \* history: p started, and none but the other side has moved since
  restoreCalm,
  stacked           \* history of Backup

vars == <<conf, running, mounts, content, backupJob, restoreJob, backupCalm, restoreCalm, stacked>>

B == INSTANCE Backup WITH
       Proc <- BackupProc, job <- backupJob, alone <- backupCalm,
       Commands <- BackupCommands, OtherName <- {}, Foreign <- {}

R == INSTANCE Restore WITH
       Proc <- RestoreProc, job <- restoreJob, alone <- restoreCalm,
       Commands <- RestoreCommands, OtherName <- {}, Foreign <- {}

ASSUME RestoreDirAssumption == RestoreDir \in Name
ASSUME NumbersAssumption == Volume \subseteq Nat /\ Name \subseteq Nat
ASSUME VolumesAssumption ==
  /\ Enabled \subseteq Volume /\ Sources \subseteq Volume /\ Targets \subseteq Volume
  /\ FriendlyName \in [Volume -> Name \union {None}]
  /\ Contents \subseteq [Volume -> {"absent", "empty", "data"}]
ASSUME BoundsAssumption ==
  IsFiniteSet(BackupProc) /\ IsFiniteSet(RestoreProc) /\ MaxLayers \in Nat

-------------------------------------------------------------------------------
(* An identifier is new to both sides.                                     *)
NewIdentifiers ==
  \A c \in ContainerId : conf[c] = None /\ conf'[c] # None => B!Fresh(c) /\ R!Fresh(c)

BackupStep(p) ==
  /\ B!Step(p)
  /\ NewIdentifiers
  /\ B!Alone(p) /\ B!NoteLayers
  /\ UNCHANGED <<content, restoreJob, restoreCalm>>

RestoreStep(p) ==
  /\ R!Step(p)
  /\ NewIdentifiers
  /\ R!Alone(p) /\ B!NoteLayers
  /\ UNCHANGED <<backupJob, backupCalm>>

BackupCrash(p) ==
  /\ B!Crash(p)
  /\ B!Disturbed
  /\ UNCHANGED <<content, restoreJob, restoreCalm, stacked>>

RestoreCrash(p) ==
  /\ R!Crash(p)
  /\ R!Disturbed
  /\ UNCHANGED <<backupJob, backupCalm, stacked>>

HelperDies ==
  /\ \E c \in ContainerId : B!Dies(c)
  /\ B!Disturbed /\ R!Disturbed
  /\ UNCHANGED <<content, restoreJob, stacked>>

Init == B!Init /\ R!Init

Next ==
  \/ \E p \in BackupProc : BackupStep(p) \/ BackupCrash(p)
  \/ \E p \in RestoreProc : RestoreStep(p) \/ RestoreCrash(p)
  \/ HelperDies

Spec == Init /\ [][Next]_vars

-------------------------------------------------------------------------------
(* What each side sees of the other's containers: the labels its code      *)
(* reads.  The containers a side expects of the other are written down     *)
(* here, apart from the options the other side builds.                     *)

AsBackupSees(cf) ==
  [name |-> cf.name, mode |-> cf.mode, volume |-> cf.volume, friendly |-> cf.friendly,
   image |-> cf.image, at |-> cf.at, data |-> cf.data]

AsRestoreSees(cf) ==
  IF cf.mode = "restore" THEN cf
  ELSE [name |-> cf.name, mode |-> cf.mode, volume |-> cf.volume, session |-> None,
        source |-> None, target |-> None, friendly |-> cf.friendly,
        image |-> cf.image, at |-> cf.at, data |-> cf.data]

SeenByBackup ==
  [c \in ContainerId |-> IF Alive(c) THEN AsBackupSees(conf[c]) ELSE None]

(* The summaries a process of the backup side keeps, as it reads them.     *)
KeptByBackup ==
  LET read(S) == {[id |-> s.id, conf |-> AsBackupSees(s.conf)] : s \in S}
  IN  [p \in BackupProc |-> [backupJob[p] EXCEPT !.found = read(@), !.listed = read(@)]]

SeenByRestore ==
  [c \in ContainerId |-> IF Alive(c) THEN AsRestoreSees(conf[c]) ELSE None]

Exposed(S) == {v \in S : FriendlyName[v] # None}

FromRestore ==
  {[name |-> <<"restore", k>>, mode |-> "restore", volume |-> None, friendly |-> FriendlyName[s],
    image |-> i, at |-> <<"restore", FriendlyName[s]>>, data |-> t] :
     k \in Session, s \in Exposed(Sources), t \in Targets, i \in Image}
  \union
  {[name |-> <<"check", k, t>>, mode |-> "restore", volume |-> None, friendly |-> None,
    image |-> i, at |-> None, data |-> t] :
     k \in Session, t \in Targets, i \in Image}

FromBackup ==
  {[name |-> <<"helper", v>>, mode |-> "backup", volume |-> v, session |-> None,
    source |-> None, target |-> None, friendly |-> FriendlyName[v],
    image |-> i, at |-> <<"backup", FriendlyName[v]>>, data |-> v] :
     v \in Exposed(Enabled), i \in Image}

AnyTrouble == Trouble \union {"foreign", "die", "umount"}

BackupView == INSTANCE Backup WITH
  Proc <- BackupProc, job <- KeptByBackup, alone <- backupCalm, conf <- SeenByBackup,
  Commands <- BackupCommands, Trouble <- AnyTrouble,
  OtherName <- {cf.name : cf \in FromRestore}, Foreign <- FromRestore

RestoreView == INSTANCE Restore WITH
  Proc <- RestoreProc, job <- restoreJob, alone <- restoreCalm, conf <- SeenByRestore,
  Commands <- RestoreCommands, Trouble <- AnyTrouble,
  OtherName <- {cf.name : cf \in FromBackup}, Foreign <- FromBackup

ASSUME NoneAssumption ==
  None \notin Volume \union Name \union Session \union ContainerId \union BackupView!MountPoint
             \union BackupView!Conf \union RestoreView!Conf

-------------------------------------------------------------------------------
(* Properties.                                                             *)

(* The composition implements each side in its own view: whatever the      *)
(* other side does is what the side's own model allows its environment     *)
(* (Moves leaves the history variables out).                               *)
ImplementsBackup == BackupView!Init /\ [][BackupView!Moves]_<<host, backupJob>>

ImplementsRestore == RestoreView!Init /\ [][RestoreView!Moves]_<<host, content, restoreJob>>

(* A prepare or cleanup that nobody of the backup side disturbs keeps its  *)
(* promise, whatever restores and restore-cleanups do meanwhile.           *)
BackupUndisturbed == B!SoloPrepare /\ B!SoloCleanup

(* A restore that nobody of the restore side disturbs keeps its promise,   *)
(* whatever prepares and cleanups do meanwhile.                            *)
RestoreUndisturbed == R!SoloRestore

(* What vision.md:53 says: the backup view and the restore view stay       *)
(* separate, so no mount is made over the directory of the restore view    *)
(* while a target is mounted there.                                        *)
NotCovered ==
  LET at == <<"backup", RestoreDir>>
  IN  Len(mounts'[at]) > Len(mounts[at]) => \A f \in Name : mounts[<<"restore", f>>] = <<>>

ViewsApart == [][NotCovered]_vars
===============================================================================
