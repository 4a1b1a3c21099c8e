-------------------------------- MODULE Backup --------------------------------
(***************************************************************************)
(* The backup side of revopia: the processes that run `revopia prepare`    *)
(* (internal/bridge/backup.go) and `revopia cleanup`                       *)
(* (internal/bridge/cleanup.go), each a sequence of calls to the daemon    *)
(* between which any other process, the daemon and the user may act.       *)
(* An action is one call together with the code that decides on it and     *)
(* with what the process does with the answer.                             *)
(***************************************************************************)
EXTENDS DockerHost, FiniteSets

CONSTANTS
  Proc,          \* operating system processes that run a command, one at a time
  Volume,        \* Docker volumes, numbered in the order of their names
  Enabled,       \* the volumes with the label backup.enable=true
  Name,          \* friendly names, numbered in their order
  FriendlyName,  \* friendlyNameForVolume; None where it fails
  UnsafeName,    \* names validateCleanupFriendlyName rejects
  Image,         \* helper images, and all else helperMatches compares as it is
  OtherName,     \* names of containers that prepare does not give
  Foreign,       \* options of containers that others create
  Commands,      \* the commands that are run: "prepare", "cleanup"
  Trouble,       \* what may go wrong: "fault", "busy", "die", "crash", "foreign", "umount"
  MaxLayers      \* bound: the mounts stacked on one mount point

VARIABLES
  job,           \* job[p]: the local state of process p
  alone,         \* history: p started and nothing else has taken a step since
  stacked        \* history: the friendly names that had two layers at a time

vars == <<conf, running, mounts, job, alone, stacked>>

MountPoint == {"backup", "restore"} \X Name

(* Wrong: the helpers mount below the root of the restore view.            *)
BackupAt_Restore(f) == <<"restore", f>>

BackupAt(f) == <<"backup", f>>

Conf ==
  {cf \in [name : ({"helper"} \X Volume) \union OtherName,
           mode : {"backup", "legacy", "restore", "cleanup", "alien"},
           volume : Volume \union {None}, friendly : Name \union {None},
           image : Image,
           at : MountPoint \union {None}, data : Volume \union {None}] :
     cf.at # None => cf.data # None}

ASSUME NumbersAssumption == Volume \subseteq Nat /\ Name \subseteq Nat
ASSUME VolumesAssumption ==
  /\ Enabled \subseteq Volume
  /\ FriendlyName \in [Volume -> Name \union {None}]
ASSUME NoneAssumption == None \notin Volume \union Name \union Conf \union ContainerId \union MountPoint
(* Restore and cleanup containers carry no revopia.volume label            *)
(* (restoreHelperLabels, cleanupUnmountLabels); an alien one no label of   *)
(* the project at all.  Backup helpers mount in the backup view only.      *)
ASSUME ForeignAssumption ==
  /\ Foreign \subseteq Conf
  /\ \A cf \in Foreign :
       IF cf.mode \in {"restore", "cleanup", "alien"}
       THEN cf.volume = None
       ELSE \A f \in Name : cf.at # <<"restore", f>>

-------------------------------------------------------------------------------
(* What the commands derive from a volume and from a container's labels.   *)

IsFirst(x, S) == x \in S /\ \A y \in S : x <= y

(* Of two volumes with the same friendly name the first keeps it.          *)
VolumeSpecs ==
  {v \in Enabled : /\ FriendlyName[v] # None
                   /\ \A w \in Enabled : w < v => FriendlyName[w] # FriendlyName[v]}

SpecErr == VolumeSpecs # Enabled

HelperName(v) == <<"helper", v>>

(* Wrong: the volume to mount is left out.                                *)
HelperOptions_NoSource(v, image) ==
  [name |-> HelperName(v), mode |-> "backup", volume |-> v,
   friendly |-> FriendlyName[v], image |-> image,
   at |-> BackupAt(FriendlyName[v]), data |-> None]

HelperOptions(v, image) ==
  [name |-> HelperName(v), mode |-> "backup", volume |-> v,
   friendly |-> FriendlyName[v], image |-> image,
   at |-> BackupAt(FriendlyName[v]), data |-> v]

(* Wrong: the helper of another image would be taken over.                *)
HelperMatches_AnyImage(cf, v, image) ==
  /\ cf.mode = "backup" /\ cf.volume = v /\ cf.friendly = FriendlyName[v]
  /\ cf.at = BackupAt(FriendlyName[v]) /\ cf.data = v

(* Wrong: the target is compared with that of the restore view.            *)
HelperMatches_OtherView(cf, v, image) ==
  /\ cf.image = image
  /\ cf.mode = "backup" /\ cf.volume = v /\ cf.friendly = FriendlyName[v]
  /\ cf.at = <<"restore", FriendlyName[v]>> /\ cf.data = v

HelperMatches(cf, v, image) ==
  /\ cf.image = image
  /\ cf.mode = "backup" /\ cf.volume = v /\ cf.friendly = FriendlyName[v]
  /\ cf.at = BackupAt(FriendlyName[v]) /\ cf.data = v

HelpersForVolume(v) == {c \in ContainerId : Alive(c) /\ conf[c].mode # "alien" /\ conf[c].volume = v}

BackupHelpers == {c \in ContainerId : Alive(c) /\ conf[c].mode # "alien"}

(* Wrong: what has a friendly name is taken for a backup helper.           *)
IsManaged_ByName(cf) == cf.friendly # None

IsManaged(cf) == cf.mode \in {"backup", "legacy"} /\ cf.volume # None /\ cf.friendly # None

-------------------------------------------------------------------------------
(* The local state of a process.                                           *)

Resting == {"idle", "prepared", "cleaned"}
Preparing == {"volumes", "list", "scan", "replace", "start", "startnew", "rollback", "wait"}
Cleaning == {"listall", "remove", "umount"}

Idle == [pc |-> "idle", image |-> None, todo |-> {}, found |-> {}, cur |-> None,
         listed |-> {}, targets |-> {}, blocked |-> {}, errs |-> FALSE]

At(p, label) == job[p].pc = label

Become(p, j) == job' = [job EXCEPT ![p] = j]

Goto(p, label) == Become(p, [job[p] EXCEPT !.pc = label])

(* The body of Prepare's loop is over for volume v.                        *)
NextVolume(p, v, failed) ==
  LET rest == job[p].todo \ {v}
  IN  Become(p, [job[p] EXCEPT !.pc = IF rest = {} THEN "prepared" ELSE "list",
                               !.todo = rest, !.found = {}, !.cur = None,
                               !.errs = @ \/ failed])

(* Wrong: the loop does not advance.                                       *)
NextHelper_Again(p, c) == Become(p, [job[p] EXCEPT !.pc = "scan", !.cur = None])

(* A candidate is dealt with and the scan goes on.                         *)
NextHelper(p, c) ==
  Become(p, [job[p] EXCEPT !.pc = "scan", !.cur = None,
                           !.found = {s \in @ : s.id # c}])

May(trouble) == trouble \in Trouble

(* An identifier that means nothing to anybody, as a new one would.        *)
Fresh(c) ==
  /\ ~Alive(c)
  /\ \A p \in Proc : /\ job[p].cur # c
                     /\ \A s \in job[p].found \union job[p].listed : s.id # c

Layers(f) == Len(mounts[BackupAt(f)])

(* Every prepare may add a layer: none starts that could pass the bound.   *)
Headroom ==
  \A f \in Name :
    Layers(f) + Cardinality({p \in Proc : job[p].pc \in Preparing}) < MaxLayers

RoomAt(at) ==
  \/ at = None
  \/ \E f \in Name : at = BackupAt(f) /\ Headroom
  \/ \E f \in Name : at = <<"restore", f>> /\ Len(mounts[at]) < MaxLayers

-------------------------------------------------------------------------------
(* revopia prepare                                                         *)

StartPrepare(p, image) ==
  /\ "prepare" \in Commands
  /\ job[p].pc \in Resting
  /\ Headroom
  /\ Become(p, [Idle EXCEPT !.pc = "volumes", !.image = image])
  /\ UNCHANGED host

VolumeList(p) ==
  /\ At(p, "volumes")
  /\ \/ Become(p, [job[p] EXCEPT !.pc = IF VolumeSpecs = {} THEN "prepared" ELSE "list",
                                 !.todo = VolumeSpecs, !.errs = SpecErr])
     \/ /\ May("fault")
        /\ Become(p, [job[p] EXCEPT !.pc = "prepared", !.errs = TRUE])
  /\ UNCHANGED host

ListHelpers(p, v) ==
  /\ At(p, "list") /\ IsFirst(v, job[p].todo)
  /\ \/ Become(p, [job[p] EXCEPT !.pc = "scan", !.found = Summaries(HelpersForVolume(v))])
     \/ May("fault") /\ NextVolume(p, v, TRUE)
  /\ UNCHANGED host

(* removeContainer, with the answer or the error ensureHelper gets.  An    *)
(* error may hide a removal that took place.                               *)
RemoveAndGoOn(p, v, c) ==
  \/ ContainerRemove(c) /\ NextHelper(p, c)
  \/ /\ May("fault")
     /\ ContainerRemove(c) \/ UNCHANGED host
     /\ NextVolume(p, v, TRUE)

RemoveUnexpected(p, v, s) ==
  /\ At(p, "scan") /\ IsFirst(v, job[p].todo)
  /\ s \in job[p].found
  /\ s.conf.name # HelperName(v)
  /\ RemoveAndGoOn(p, v, s.id)

(* ContainerInspect of a candidate with the expected name, and what to do  *)
(* with it.                                                                *)
Inspect(p, v, s) ==
  LET c == s.id
      hold(label) == Become(p, [job[p] EXCEPT !.pc = label, !.cur = c])
  IN  /\ At(p, "scan") /\ IsFirst(v, job[p].todo)
      /\ s \in job[p].found
      /\ s.conf.name = HelperName(v)
      /\ \/ ~Alive(c) /\ NextHelper(p, c)
         \/ /\ Alive(c)
            /\ IF ~HelperMatches(conf[c], v, job[p].image) THEN hold("replace")
               ELSE IF c \in running THEN Goto(p, "wait")
               ELSE hold("start")
         \/ May("fault") /\ NextVolume(p, v, TRUE)
      /\ UNCHANGED host

Replace(p, v) ==
  /\ At(p, "replace") /\ IsFirst(v, job[p].todo)
  /\ RemoveAndGoOn(p, v, job[p].cur)

StartExisting(p, v) ==
  LET c == job[p].cur
  IN  /\ At(p, "start") /\ IsFirst(v, job[p].todo)
      /\ \/ ContainerStart(c) /\ Goto(p, "wait")
         \/ ~Alive(c) /\ NextHelper(p, c) /\ UNCHANGED host
         \/ May("fault") /\ ContainerStartFails(c) /\ NextVolume(p, v, TRUE)
         \/ May("fault") /\ ~Alive(c) /\ NextVolume(p, v, TRUE) /\ UNCHANGED host

(* createContainerWithAutoPull: a name in use is a conflict; an error may  *)
(* also hide a container that was created.                                 *)
Create(p, v, c) ==
  LET options == HelperOptions(v, job[p].image)
      made == Fresh(c) /\ ContainerCreate(c, options)
  IN  /\ At(p, "scan") /\ IsFirst(v, job[p].todo)
      /\ job[p].found = {}
      /\ \/ /\ made
            /\ Become(p, [job[p] EXCEPT !.pc = "startnew", !.cur = c])
         \/ /\ NameTaken(options.name)
            /\ NextVolume(p, v, TRUE) /\ UNCHANGED host
         \/ /\ May("fault")
            /\ made \/ UNCHANGED host
            /\ NextVolume(p, v, TRUE)

StartNew(p, v) ==
  LET c == job[p].cur
  IN  /\ At(p, "startnew") /\ IsFirst(v, job[p].todo)
      /\ \/ ContainerStart(c) /\ Goto(p, "wait")
         \/ ~Alive(c) /\ Goto(p, "rollback") /\ UNCHANGED host
         \/ May("fault") /\ ContainerStartFails(c) /\ Goto(p, "rollback")
         \/ May("fault") /\ ~Alive(c) /\ Goto(p, "rollback") /\ UNCHANGED host

(* createAndStartHelper removes what it could not start and ignores        *)
(* whether that succeeds.                                                  *)
Rollback(p, v) ==
  /\ At(p, "rollback") /\ IsFirst(v, job[p].todo)
  /\ \/ ContainerRemove(job[p].cur)
     \/ May("fault") /\ UNCHANGED host
  /\ NextVolume(p, v, TRUE)

(* waitForVisibleMount looks for a mount on the path, whatever it shows.   *)
WaitSeen(p, v) ==
  /\ At(p, "wait") /\ IsFirst(v, job[p].todo)
  /\ mounts[BackupAt(FriendlyName[v])] # <<>>
  /\ NextVolume(p, v, FALSE)
  /\ UNCHANGED host

WaitExpired(p, v) ==
  /\ At(p, "wait") /\ IsFirst(v, job[p].todo)
  /\ mounts[BackupAt(FriendlyName[v])] = <<>> \/ May("fault")
  /\ NextVolume(p, v, TRUE)
  /\ UNCHANGED host

PrepareStep(p) ==
  \/ \E image \in Image : StartPrepare(p, image)
  \/ VolumeList(p)
  \/ \E v \in job[p].todo :
       \/ ListHelpers(p, v)
       \/ \E s \in job[p].found : RemoveUnexpected(p, v, s) \/ Inspect(p, v, s)
       \/ Replace(p, v) \/ StartExisting(p, v)
       \/ \E c \in ContainerId : Create(p, v, c)
       \/ StartNew(p, v) \/ Rollback(p, v)
       \/ WaitSeen(p, v) \/ WaitExpired(p, v)

-------------------------------------------------------------------------------
(* revopia cleanup                                                         *)

StartCleanup(p) ==
  /\ "cleanup" \in Commands
  /\ job[p].pc \in Resting
  /\ Become(p, [Idle EXCEPT !.pc = "listall"])
  /\ UNCHANGED host

(* Summaries that are not of a managed backup helper are passed over.      *)
CleanupList(p) ==
  LET helpers == {s \in Summaries(BackupHelpers) : IsManaged(s.conf)}
  IN  /\ At(p, "listall")
      /\ \/ Become(p, [job[p] EXCEPT !.pc = "remove", !.found = helpers, !.listed = helpers])
         \/ /\ May("fault")
            /\ Become(p, [job[p] EXCEPT !.pc = "cleaned", !.errs = TRUE])
      /\ UNCHANGED host

(* Wrong: a removal that failed is only logged.                            *)
Removed_Silent(p, s, failed) ==
  LET f == s.conf.friendly
  IN  Become(p, [job[p] EXCEPT
                   !.found = @ \ {s},
                   !.targets = IF f \in UnsafeName THEN @ ELSE @ \union {f},
                   !.errs = @ \/ f \in UnsafeName])

(* The friendly name of a removed helper becomes a target if it is safe,   *)
(* and a blocked one if the removal is reported to have failed.            *)
Removed(p, s, failed) ==
  LET f == s.conf.friendly
  IN  Become(p, [job[p] EXCEPT
                   !.found = @ \ {s},
                   !.targets = IF f \in UnsafeName THEN @ ELSE @ \union {f},
                   !.blocked = IF failed THEN @ \union {f} ELSE @,
                   !.errs = @ \/ failed \/ f \in UnsafeName])

RemoveHelper(p, s) ==
  /\ At(p, "remove")
  /\ s \in job[p].found
  /\ \/ ContainerRemove(s.id) /\ Removed(p, s, FALSE)
     \/ /\ May("fault")
        /\ ContainerRemove(s.id) \/ UNCHANGED host
        /\ Removed(p, s, TRUE)

(* The loop over the targets, in the order of their names.                 *)
AtTarget(p, f) ==
  /\ At(p, "remove")
  /\ job[p].found = {}
  /\ IsFirst(f, job[p].targets)

(* Wrong: the error of the umount is lost.                                 *)
NextTarget_Silent(p, f, failed) ==
  Become(p, [job[p] EXCEPT !.pc = "remove", !.targets = @ \ {f}])

NextTarget(p, f, failed) ==
  Become(p, [job[p] EXCEPT !.pc = "remove", !.targets = @ \ {f}, !.errs = @ \/ failed])

SkipBlocked(p, f) ==
  /\ AtTarget(p, f)
  /\ f \in job[p].blocked
  /\ NextTarget(p, f, TRUE)
  /\ UNCHANGED host

(* Wrong: the mount is reclaimed although a helper was not removed.        *)
CheckTarget_Unblocked(p, f) ==
  /\ AtTarget(p, f)
  /\ \/ mounts[BackupAt(f)] = <<>> /\ NextTarget(p, f, FALSE)
     \/ mounts[BackupAt(f)] # <<>> /\ Goto(p, "umount")
  /\ UNCHANGED host

(* cleanupUnmountAt up to the umount: what is no mount point is skipped.   *)
CheckTarget(p, f) ==
  /\ AtTarget(p, f)
  /\ f \notin job[p].blocked
  /\ \/ mounts[BackupAt(f)] = <<>> /\ NextTarget(p, f, FALSE)
     \/ mounts[BackupAt(f)] # <<>> /\ Goto(p, "umount")
     \/ May("fault") /\ NextTarget(p, f, TRUE)
  /\ UNCHANGED host

(* runCleanupUnmountContainer as a whole: one umount of the path.  It may  *)
(* be refused because the path is busy or no longer a mount point, and the *)
(* process may be told of an error although the layer is gone.             *)
UmountTarget(p, f) ==
  LET at == BackupAt(f)
  IN  /\ At(p, "umount") /\ IsFirst(f, job[p].targets)
      /\ \/ Umount(at) /\ NextTarget(p, f, FALSE)
         \/ /\ mounts[at] = <<>> \/ May("busy") \/ May("fault")
            /\ NextTarget(p, f, TRUE) /\ UNCHANGED host
         \/ May("fault") /\ Umount(at) /\ NextTarget(p, f, TRUE)

CleanupDone(p) ==
  /\ At(p, "remove")
  /\ job[p].found = {} /\ job[p].targets = {}
  /\ Goto(p, "cleaned")
  /\ UNCHANGED host

CleanupStep(p) ==
  \/ StartCleanup(p)
  \/ CleanupList(p)
  \/ \E s \in job[p].found : RemoveHelper(p, s)
  \/ \E f \in job[p].targets : SkipBlocked(p, f) \/ CheckTarget(p, f) \/ UmountTarget(p, f)
  \/ CleanupDone(p)

-------------------------------------------------------------------------------
(* What else happens to the processes and the containers.                  *)

(* The process is killed between two calls; nothing it did is undone.      *)
Crash(p) ==
  /\ May("crash")
  /\ job[p].pc \notin Resting
  /\ Become(p, Idle)
  /\ UNCHANGED host

(* A container ends by itself or is removed by its user.                   *)
Dies(c) == May("die") /\ Vanish(c) /\ UNCHANGED job

ForeignCreate(c, cf) ==
  /\ May("foreign")
  /\ Fresh(c)
  /\ ContainerCreate(c, cf)
  /\ UNCHANGED job

ForeignStart(c) ==
  /\ May("foreign")
  /\ conf[c] \in Foreign
  /\ c \notin running
  /\ RoomAt(conf[c].at)
  /\ ContainerStart(c) \/ ContainerStartFails(c)
  /\ UNCHANGED job

ForeignExit(c) ==
  /\ May("foreign")
  /\ conf[c] \in Foreign
  /\ ContainerExit(c)
  /\ UNCHANGED job

(* The user unmounts by hand, as TROUBLESHOOTING.md says, the umount       *)
(* container of a command that has given up on it gets its turn, or        *)
(* restore-cleanup unmounts in its view.                                   *)
LateUmount(at) == May("umount") /\ Umount(at) /\ UNCHANGED job

Environment ==
  \/ \E c \in ContainerId :
       \/ Dies(c)
       \/ \E cf \in Foreign : ForeignCreate(c, cf)
       \/ ForeignStart(c) \/ ForeignExit(c)
  \/ \E at \in MountPoint : LateUmount(at)

-------------------------------------------------------------------------------
Init ==
  /\ conf = [c \in ContainerId |-> None]
  /\ running = {}
  /\ mounts = [at \in MountPoint |-> <<>>]
  /\ job = [p \in Proc |-> Idle]
  /\ alone = [p \in Proc |-> FALSE]
  /\ stacked = {}

Step(p) == PrepareStep(p) \/ CleanupStep(p)

(* The history of a step of p: who else was moving, what was stacked.      *)
Alone(p) == alone' = [q \in Proc |-> q = p /\ (job[p].pc \in Resting \/ alone[p])]
Disturbed == alone' = [q \in Proc |-> FALSE]
NoteLayers == stacked' = stacked \union {f \in Name : Len(mounts[BackupAt(f)]') > 1}

(* Who may move, and how, without the history.                             *)
Moves == Environment \/ \E p \in Proc : Step(p) \/ Crash(p)

Next ==
  \/ \E p \in Proc : Step(p) /\ Alone(p) /\ NoteLayers
  \/ \E p \in Proc : Crash(p) /\ Disturbed /\ NoteLayers
  \/ Environment /\ Disturbed /\ NoteLayers

Spec == Init /\ [][Next]_vars

(* A started command goes on: the operating system runs the process and    *)
(* every call returns, at the latest when the context of the command       *)
(* expires.  That a command is started at all is not assumed.              *)
Continue(p) == job[p].pc \notin Resting /\ Step(p) /\ Alone(p) /\ NoteLayers

FairSpec == Spec /\ \A p \in Proc : WF_vars(Continue(p))

-------------------------------------------------------------------------------
(* Properties.                                                             *)

Summary == [id : ContainerId, conf : Conf]

Job == [pc : Resting \union Preparing \union Cleaning, image : Image \union {None},
        todo : SUBSET VolumeSpecs, found : SUBSET Summary, cur : ContainerId \union {None},
        listed : SUBSET Summary, targets : SUBSET Name, blocked : SUBSET Name,
        errs : BOOLEAN]

(* Every variable holds a value of its kind (the local variables of        *)
(* Prepare and Cleanup, the daemon's containers, the stacks of mounts).    *)
TypeOK ==
  /\ conf \in [ContainerId -> Conf \union {None}]
  /\ running \subseteq {c \in ContainerId : Alive(c)}
  /\ mounts \in [MountPoint -> Seq(Volume)]
  /\ job \in [Proc -> Job]
  /\ alone \in [Proc -> BOOLEAN]
  /\ stacked \subseteq Name

(* vision.md: cleanup has two phases, first the helpers, then the mounts.  *)
(* When cleanup unmounts a path, every helper it listed for that path is   *)
(* gone, whatever other processes, failed removals and the daemon did in   *)
(* between.                                                                *)
UmountAfterRemoval ==
  \A p \in Proc : \A f \in Name :
    At(p, "umount") /\ IsFirst(f, job[p].targets) =>
      \A s \in job[p].listed : s.conf.friendly = f => ~Alive(s.id)

(* A cleanup that exits with 0 has removed every managed helper it listed, *)
(* none of them with a friendly name it must not unmount.                  *)
CleanupExit ==
  \A p \in Proc :
    At(p, "cleaned") /\ ~job[p].errs =>
      \A s \in job[p].listed : ~Alive(s.id) /\ s.conf.friendly \notin UnsafeName

(* A cleanup that exits with 0 and that nobody disturbed leaves no managed *)
(* helper, and no mount on the path of a helper it listed, but where       *)
(* mounts were stacked.                                                    *)
SoloCleanup ==
  \A p \in Proc :
    alone[p] /\ At(p, "cleaned") /\ ~job[p].errs =>
      /\ \A c \in ContainerId :
           Alive(c) /\ conf[c].mode \in {"backup", "legacy"} =>
             conf[c].volume = None \/ conf[c].friendly = None
      /\ \A s \in job[p].listed :
           mounts[BackupAt(s.conf.friendly)] # <<>> => s.conf.friendly \in stacked

(* The volume has the helper Prepare promises, and its path is a mount.    *)
Served(v, image) ==
  /\ \E c \in running : conf[c] = HelperOptions(v, image)
  /\ mounts[BackupAt(FriendlyName[v])] # <<>>

(* A prepare that exits with 0 and that nobody disturbed leaves every      *)
(* enabled volume with a running helper of its own configuration and a     *)
(* mount on its path, whatever containers it found, but helpers of an      *)
(* earlier configuration on the path of an earlier volume: the mount of    *)
(* such a one is taken for the earlier volume's, and goes with it when the *)
(* loop comes to its volume (waitForVisibleMount, mount.go:40-66).         *)
SoloPrepare ==
  \A p \in Proc :
    alone[p] /\ At(p, "prepared") /\ ~job[p].errs =>
      \A v \in Enabled : Served(v, job[p].image)

(* Where only prepares run, all for one image, and no call fails: once a   *)
(* prepare has succeeded, or all of them are done, every volume is served  *)
(* and stays so, whoever lost the race for a container's name and whoever  *)
(* was killed at any point.                                                *)
PreparedStaysServed ==
  (\E p \in Proc : At(p, "prepared") /\ ~job[p].errs) \/ (\A p \in Proc : At(p, "prepared")) =>
    \A v \in VolumeSpecs : \E image \in Image : Served(v, image)

(* The steps of prepare and cleanup never touch a container of a restore,  *)
(* of a cleanup or of another project, nor the mounts of the restore view  *)
(* (vision.md: the cleanups of the two views are separate).                *)
LeavesOthersAlone ==
  job' # job =>
    /\ \A c \in ContainerId :
         Alive(c) /\ conf[c].mode \in {"restore", "cleanup", "alien"} =>
           conf'[c] = conf[c] /\ (c \in running <=> c \in running')
    /\ \A f \in Name : mounts'[<<"restore", f>>] = mounts[<<"restore", f>>]

RestoreUntouched == [][LeavesOthersAlone]_vars

(* Every command that was started ends, or is killed.                      *)
CommandsEnd == \A p \in Proc : job[p].pc \notin Resting ~> job[p].pc \in Resting

(* What the hint of a refused umount promises (cleanup_unmount.go:331): a  *)
(* later cleanup, with the lazy umount or once nobody holds the path,      *)
(* reclaims the mount.                                                     *)
RetryReclaims ==
  \A p \in Proc :
    alone[p] /\ At(p, "cleaned") /\ ~job[p].errs =>
      \A f \in Name \ stacked : mounts[BackupAt(f)] = <<>>
===============================================================================
