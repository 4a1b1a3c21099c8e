-------------------------------- MODULE Restore --------------------------------
(***************************************************************************)
(* The restore side of revopia: the processes that run `revopia restore`   *)
(* (internal/bridge/restore.go, restore_helper.go) and `revopia            *)
(* restore-cleanup` (internal/bridge/restore_cleanup.go), each a sequence  *)
(* of calls to the daemon between which anybody else may act.  As in       *)
(* Backup an action is one call with the code that decides on it and what  *)
(* the process does with the answer.                                       *)
(***************************************************************************)
EXTENDS DockerHost, FiniteSets

CONSTANTS
  Proc,          \* operating system processes that run a command, one at a time
  Volume,        \* Docker volumes
  Name,          \* friendly names
  FriendlyName,  \* friendlyNameForVolume; None where it fails
  UnsafeName,    \* names validateCleanupFriendlyName rejects
  Session,       \* session identifiers, given by the user or made up
  Image,         \* helper images, and all else restoreHelperMatches compares as it is
  Sources,       \* bound: the volumes that restores name as source
  Targets,       \* bound: the volumes that restores name as target
  Contents,      \* what the volumes may hold at first
  OtherName,     \* names of containers that restore does not give
  Foreign,       \* options of containers that others create
  Commands,      \* Commands[p]: the commands p is run with, "restore" or "cleanup"
  Trouble,       \* what may go wrong: "fault", "busy", "die", "crash", "foreign", "umount", "write", "find"
  MaxLayers      \* bound: the mounts stacked on one mount point

VARIABLES
  content,       \* content[v]: "absent", "empty" or "data"
  job,           \* job[p]: the local state of process p
  alone          \* history: p started and nothing else has taken a step since

vars == <<conf, running, mounts, content, job, alone>>

MountPoint == {"backup", "restore"} \X Name

(* restoreHelperMounts, restoreVisiblePath                                 *)
RestoreAt(f) == <<"restore", f>>

(* Wrong: restore-cleanup unmounts below the root of the backup view.      *)
CleanupAt_Backup(f) == <<"backup", f>>

CleanupAt(f) == <<"restore", f>>

Conf ==
  {cf \in [name : ({"restore"} \X Session) \union ({"check"} \X Session \X Volume) \union OtherName,
           mode : {"restore", "backup", "alien"}, volume : Volume \union {None},
           session : Session \union {None}, source : Volume \union {None}, target : Volume \union {None},
           friendly : Name \union {None}, image : Image,
           at : MountPoint \union {None}, data : Volume \union {None}] :
     cf.at # None => cf.data # None}

ASSUME VolumesAssumption ==
  /\ Sources \subseteq Volume /\ Targets \subseteq Volume
  /\ FriendlyName \in [Volume -> Name \union {None}]
  /\ Contents \subseteq [Volume -> {"absent", "empty", "data"}]
ASSUME NoneAssumption ==
  None \notin Volume \union Name \union Session \union Conf \union ContainerId \union MountPoint
(* Restore helpers mount in the restore view only; all other containers    *)
(* stay out of it and carry no session.                                    *)
ASSUME ForeignAssumption ==
  /\ Foreign \subseteq Conf
  /\ \A cf \in Foreign :
       IF cf.mode = "restore"
       THEN \A f \in Name : cf.at # <<"backup", f>>
       ELSE cf.session = None /\ \A f \in Name : cf.at # RestoreAt(f)

-------------------------------------------------------------------------------
(* What the commands derive from a session and from a container's labels.  *)

(* Wrong: the helper carries the label that backup helpers are found by.   *)
HelperOptions_Volume(j) ==
  [name |-> <<"restore", j.session>>, mode |-> "restore", volume |-> j.source, session |-> j.session,
   source |-> j.source, target |-> j.target, friendly |-> FriendlyName[j.source],
   image |-> j.image, at |-> RestoreAt(FriendlyName[j.source]), data |-> j.target]

(* Wrong: the volume to mount is left out.                                 *)
HelperOptions_NoTarget(j) ==
  [name |-> <<"restore", j.session>>, mode |-> "restore", volume |-> None, session |-> j.session,
   source |-> j.source, target |-> j.target, friendly |-> FriendlyName[j.source],
   image |-> j.image, at |-> RestoreAt(FriendlyName[j.source]), data |-> None]

HelperOptions(j) ==
  [name |-> <<"restore", j.session>>, mode |-> "restore", volume |-> None, session |-> j.session,
   source |-> j.source, target |-> j.target, friendly |-> FriendlyName[j.source],
   image |-> j.image, at |-> RestoreAt(FriendlyName[j.source]), data |-> j.target]

(* The empty check carries the labels mode, session and target only, and   *)
(* mounts the target outside of the bridge.                                *)
CheckOptions(j) ==
  [name |-> <<"check", j.session, j.target>>, mode |-> "restore", volume |-> None, session |-> j.session,
   source |-> None, target |-> j.target, friendly |-> None,
   image |-> j.image, at |-> None, data |-> j.target]

(* Wrong: the helper of another target of the session would be taken over. *)
HelperMatches_AnyTarget(cf, j) ==
  [cf EXCEPT !.target = j.target, !.data = j.target] = HelperOptions(j)

(* The name has been compared before.                                      *)
HelperMatches(cf, j) == cf = HelperOptions(j)

(* Wrong: the session of the command is not looked at.                     *)
InSession_Any(cf, session) == TRUE

(* Without a session restore-cleanup takes all of them.                    *)
InSession(cf, session) == session = None \/ cf.session = session

SessionContainers(session) ==
  {c \in ContainerId : Alive(c) /\ conf[c].mode = "restore" /\ InSession(conf[c], session)}

IsManaged(cf, session) ==
  /\ InSession(cf, session)
  /\ cf.mode = "restore"
  /\ None \notin {cf.session, cf.source, cf.target, cf.friendly}

TargetKey(cf) == <<cf.session, cf.source, cf.target, cf.friendly>>

KeyName(key) == key[4]

-------------------------------------------------------------------------------
(* The local state of a process.                                           *)

Resting == {"idle", "ready", "failed", "cleaned"}
Checking == {"check", "checkstart", "checkwait", "checkdrop"}
Mounting == {"list", "scan", "replace", "start", "startnew", "rollback", "wait"}
Restoring == {"source", "target", "volume"} \union Checking \union Mounting
Cleaning == {"listall", "remove", "umount"}

Idle == [pc |-> "idle", source |-> None, target |-> None, session |-> None, image |-> None,
         force |-> FALSE, cur |-> None, exit |-> "none", sawEmpty |-> FALSE,
         found |-> {}, listed |-> {}, targets |-> {}, blocked |-> {}, key |-> None, errs |-> FALSE]

At(p, label) == job[p].pc = label

Become(p, j) == job' = [job EXCEPT ![p] = j]

Goto(p, label) == Become(p, [job[p] EXCEPT !.pc = label])

(* Restore returns at the first error.                                     *)
Fail(p) == Become(p, [Idle EXCEPT !.pc = "failed"])

(* Wrong: the helpers are listed again whenever one is gone.               *)
NextHelper_Relist(p, c) == Become(p, [job[p] EXCEPT !.pc = "list", !.cur = None, !.found = {}])

NextHelper(p, c) ==
  Become(p, [job[p] EXCEPT !.pc = "scan", !.cur = None, !.found = {s \in @ : s.id # c}])

May(trouble) == trouble \in Trouble

Fresh(c) ==
  /\ ~Alive(c)
  /\ \A p \in Proc : /\ job[p].cur # c
                     /\ \A s \in job[p].found \union job[p].listed : s.id # c

Headroom ==
  \A f \in Name :
    Len(mounts[RestoreAt(f)]) + Cardinality({p \in Proc : job[p].pc \in Restoring}) < MaxLayers

RoomAt(at) ==
  \/ at = None
  \/ \E f \in Name : at = RestoreAt(f) /\ Headroom
  \/ \E f \in Name : at = <<"backup", f>> /\ Len(mounts[at]) < MaxLayers

-------------------------------------------------------------------------------
(* revopia restore                                                         *)

(* validateRestoreInputs: the source may be the target only when that is   *)
(* asked for; force stands for --dangerously-allow-non-empty-target.       *)
StartRestore(p, s, t, session, image, force, same) ==
  /\ "restore" \in Commands[p]
  /\ job[p].pc \in Resting
  /\ Headroom
  /\ IF s = t /\ ~same
     THEN Fail(p)
     ELSE Become(p, [Idle EXCEPT !.pc = "source", !.source = s, !.target = t,
                                 !.session = session, !.image = image, !.force = force])
  /\ UNCHANGED <<host, content>>

InspectSource(p) ==
  LET s == job[p].source
  IN  /\ At(p, "source")
      /\ \/ content[s] # "absent" /\ FriendlyName[s] # None /\ Goto(p, "target")
         \/ /\ content[s] = "absent" \/ FriendlyName[s] = None \/ May("fault")
            /\ Fail(p)
      /\ UNCHANGED <<host, content>>

(* What follows once the target volume is there.                           *)
TargetReady(p) == Goto(p, IF job[p].force THEN "list" ELSE "check")

InspectTarget(p) ==
  /\ At(p, "target")
  /\ \/ content[job[p].target] # "absent" /\ TargetReady(p)
     \/ content[job[p].target] = "absent" /\ Goto(p, "volume")
     \/ May("fault") /\ Fail(p)
  /\ UNCHANGED <<host, content>>

(* VolumeCreate returns a volume of that name that has appeared meanwhile. *)
CreateTarget(p) ==
  LET t == job[p].target
      made == content' = [content EXCEPT ![t] = IF @ = "absent" THEN "empty" ELSE @]
  IN  /\ At(p, "volume")
      /\ \/ made /\ TargetReady(p)
         \/ May("fault") /\ (made \/ UNCHANGED content) /\ Fail(p)
      /\ UNCHANGED host

(* ensureVolumeEmpty does not try again when the name is in use.           *)
CheckCreate(p, c) ==
  LET options == CheckOptions(job[p])
      made == Fresh(c) /\ ContainerCreate(c, options)
  IN  /\ At(p, "check")
      /\ \/ /\ made
            /\ Become(p, [job[p] EXCEPT !.pc = "checkstart", !.cur = c])
         \/ NameTaken(options.name) /\ Fail(p) /\ UNCHANGED host
         \/ May("fault") /\ (made \/ UNCHANGED host) /\ Fail(p)
      /\ UNCHANGED content

(* The deferred removal comes after every outcome.                         *)
CheckStart(p) ==
  LET c == job[p].cur
      lost == Become(p, [job[p] EXCEPT !.pc = "checkdrop", !.exit = "nonzero"])
  IN  /\ At(p, "checkstart")
      /\ \/ ContainerStart(c) /\ Goto(p, "checkwait")
         \/ ~Alive(c) /\ lost /\ UNCHANGED host
         \/ May("fault") /\ (ContainerStart(c) \/ UNCHANGED host) /\ lost
      /\ UNCHANGED content

(* The container looks into the volume with `find ... | grep -q .` and     *)
(* exits.  The shell looks at grep only: a find that fails shows nothing,  *)
(* as in an empty volume.                                                  *)
CheckExit(p) ==
  /\ At(p, "checkwait")
  /\ job[p].cur \in running
  /\ running' = running \ {job[p].cur}
  /\ \E shown \in BOOLEAN :
       /\ shown = (content[job[p].target] = "data") \/ (~shown /\ May("find"))
       /\ Become(p, [job[p] EXCEPT !.exit = IF shown THEN "nonzero" ELSE "zero",
                                   !.sawEmpty = ~shown])
  /\ UNCHANGED <<conf, mounts, content>>

(* Wrong: the end of the container is enough, however it came.             *)
CheckWait_AnyExit(p) ==
  /\ At(p, "checkwait")
  /\ job[p].exit # "none" \/ ~Alive(job[p].cur)
  /\ Become(p, [job[p] EXCEPT !.pc = "checkdrop", !.exit = "zero"])
  /\ UNCHANGED <<host, content>>

(* A container that is removed while it runs is killed: not empty.         *)
CheckWait(p) ==
  /\ At(p, "checkwait")
  /\ \/ job[p].exit # "none" /\ Goto(p, "checkdrop")
     \/ /\ May("fault") \/ (job[p].exit = "none" /\ ~Alive(job[p].cur))
        /\ Become(p, [job[p] EXCEPT !.pc = "checkdrop", !.exit = "nonzero"])
  /\ UNCHANGED <<host, content>>

CheckDrop(p) ==
  /\ At(p, "checkdrop")
  /\ ContainerRemove(job[p].cur) \/ (May("fault") /\ UNCHANGED host)
  /\ IF job[p].exit = "zero"
     THEN Become(p, [job[p] EXCEPT !.pc = "list", !.cur = None])
     ELSE Fail(p)
  /\ UNCHANGED content

ListHelpers(p) ==
  /\ At(p, "list")
  /\ \/ Become(p, [job[p] EXCEPT !.pc = "scan",
                                 !.found = Summaries(SessionContainers(job[p].session))])
     \/ May("fault") /\ Fail(p)
  /\ UNCHANGED <<host, content>>

(* removeContainer of a candidate.                                         *)
RemoveAndGoOn(p, c) ==
  \/ ContainerRemove(c) /\ NextHelper(p, c)
  \/ May("fault") /\ (ContainerRemove(c) \/ UNCHANGED host) /\ Fail(p)

(* An empty check that was left behind has an unexpected name, too.        *)
RemoveUnexpected(p, s) ==
  /\ At(p, "scan")
  /\ s.conf.name # HelperOptions(job[p]).name
  /\ RemoveAndGoOn(p, s.id)
  /\ UNCHANGED content

Inspect(p, s) ==
  LET c == s.id
      hold(label) == Become(p, [job[p] EXCEPT !.pc = label, !.cur = c])
  IN  /\ At(p, "scan")
      /\ s.conf.name = HelperOptions(job[p]).name
      /\ \/ ~Alive(c) /\ NextHelper(p, c)
         \/ /\ Alive(c)
            /\ IF ~HelperMatches(conf[c], job[p]) THEN hold("replace")
               ELSE IF c \in running THEN Goto(p, "wait")
               ELSE hold("start")
         \/ May("fault") /\ Fail(p)
      /\ UNCHANGED <<host, content>>

Replace(p) ==
  /\ At(p, "replace")
  /\ RemoveAndGoOn(p, job[p].cur)
  /\ UNCHANGED content

StartExisting(p) ==
  LET c == job[p].cur
  IN  /\ At(p, "start")
      /\ \/ ContainerStart(c) /\ Goto(p, "wait")
         \/ ~Alive(c) /\ NextHelper(p, c) /\ UNCHANGED host
         \/ May("fault") /\ (ContainerStartFails(c) \/ UNCHANGED host) /\ Fail(p)
      /\ UNCHANGED content

Create(p, c) ==
  LET options == HelperOptions(job[p])
      made == Fresh(c) /\ ContainerCreate(c, options)
  IN  /\ At(p, "scan")
      /\ job[p].found = {}
      /\ \/ /\ made
            /\ Become(p, [job[p] EXCEPT !.pc = "startnew", !.cur = c])
         \/ NameTaken(options.name) /\ Fail(p) /\ UNCHANGED host
         \/ May("fault") /\ (made \/ UNCHANGED host) /\ Fail(p)
      /\ UNCHANGED content

StartNew(p) ==
  LET c == job[p].cur
  IN  /\ At(p, "startnew")
      /\ \/ ContainerStart(c) /\ Goto(p, "wait")
         \/ ~Alive(c) /\ Goto(p, "rollback") /\ UNCHANGED host
         \/ May("fault") /\ (ContainerStartFails(c) \/ UNCHANGED host) /\ Goto(p, "rollback")
      /\ UNCHANGED content

Rollback(p) ==
  /\ At(p, "rollback")
  /\ ContainerRemove(job[p].cur) \/ (May("fault") /\ UNCHANGED host)
  /\ Fail(p)
  /\ UNCHANGED content

(* waitForRestoreVisibleMount looks for a mount, whatever it shows.        *)
Wait(p) ==
  LET visible == mounts[RestoreAt(FriendlyName[job[p].source])] # <<>>
  IN  /\ At(p, "wait")
      /\ \/ visible /\ Become(p, [job[p] EXCEPT !.pc = "ready", !.cur = None, !.found = {}])
         \/ (~visible \/ May("fault")) /\ Fail(p)
      /\ UNCHANGED <<host, content>>

RestoreStep(p) ==
  \/ \E s \in Sources, t \in Targets, session \in Session, image \in Image, force, same \in BOOLEAN :
       StartRestore(p, s, t, session, image, force, same)
  \/ InspectSource(p) \/ InspectTarget(p) \/ CreateTarget(p)
  \/ \E c \in ContainerId : CheckCreate(p, c) \/ Create(p, c)
  \/ CheckStart(p) \/ CheckWait(p) \/ CheckDrop(p)
  \/ ListHelpers(p)
  \/ \E s \in job[p].found : RemoveUnexpected(p, s) \/ Inspect(p, s)
  \/ Replace(p) \/ StartExisting(p) \/ StartNew(p) \/ Rollback(p) \/ Wait(p)

-------------------------------------------------------------------------------
(* revopia restore-cleanup                                                 *)

StartCleanup(p, session) ==
  /\ "cleanup" \in Commands[p]
  /\ job[p].pc \in Resting
  /\ Become(p, [Idle EXCEPT !.pc = "listall", !.session = session])
  /\ UNCHANGED <<host, content>>

CleanupList(p) ==
  LET session == job[p].session
      helpers == {s \in Summaries(SessionContainers(session)) : IsManaged(s.conf, session)}
  IN  /\ At(p, "listall")
      /\ \/ Become(p, [job[p] EXCEPT !.pc = "remove", !.found = helpers, !.listed = helpers,
                                     !.targets = {TargetKey(s.conf) : s \in helpers}])
         \/ May("fault") /\ Become(p, [job[p] EXCEPT !.pc = "cleaned", !.errs = TRUE])
      /\ UNCHANGED <<host, content>>

(* Wrong: neither a failed removal nor an unsafe name is recorded.         *)
Removed_Ignored(p, s, failed) == Become(p, [job[p] EXCEPT !.found = @ \ {s}])

(* Here an unsafe name is a target, too, but a blocked one.                *)
Removed(p, s, failed) ==
  LET unsafe == s.conf.friendly \in UnsafeName
  IN  Become(p, [job[p] EXCEPT
                   !.found = @ \ {s},
                   !.blocked = IF failed \/ unsafe THEN @ \union {TargetKey(s.conf)} ELSE @,
                   !.errs = @ \/ failed \/ unsafe])

RemoveHelper(p, s) ==
  /\ At(p, "remove")
  /\ \/ ContainerRemove(s.id) /\ Removed(p, s, FALSE)
     \/ May("fault") /\ (ContainerRemove(s.id) \/ UNCHANGED host) /\ Removed(p, s, TRUE)
  /\ UNCHANGED content

NextTarget(p, key, failed) ==
  Become(p, [job[p] EXCEPT !.pc = "remove", !.targets = @ \ {key}, !.key = None, !.errs = @ \/ failed])

(* The targets are sorted by their session identifiers first: every order  *)
(* is possible.                                                            *)
SkipBlocked(p, key) ==
  /\ At(p, "remove") /\ job[p].found = {}
  /\ key \in job[p].blocked
  /\ NextTarget(p, key, TRUE)
  /\ UNCHANGED <<host, content>>

(* Wrong: the mount is reclaimed although a helper was not removed.        *)
CheckTarget_Unblocked(p, key) ==
  LET mounted == mounts[CleanupAt(KeyName(key))] # <<>>
  IN  /\ At(p, "remove") /\ job[p].found = {}
      /\ \/ ~mounted /\ NextTarget(p, key, FALSE)
         \/ mounted /\ Become(p, [job[p] EXCEPT !.pc = "umount", !.key = key])
      /\ UNCHANGED <<host, content>>

CheckTarget(p, key) ==
  LET mounted == mounts[CleanupAt(KeyName(key))] # <<>>
  IN  /\ At(p, "remove") /\ job[p].found = {}
      /\ key \notin job[p].blocked
      /\ \/ ~mounted /\ NextTarget(p, key, FALSE)
         \/ mounted /\ Become(p, [job[p] EXCEPT !.pc = "umount", !.key = key])
         \/ May("fault") /\ NextTarget(p, key, TRUE)
      /\ UNCHANGED <<host, content>>

(* One umount of the path, as in Backup.                                   *)
UmountTarget(p) ==
  LET key == job[p].key
      at == CleanupAt(KeyName(key))
  IN  /\ At(p, "umount")
      /\ \/ Umount(at) /\ NextTarget(p, key, FALSE)
         \/ /\ mounts[at] = <<>> \/ May("busy") \/ May("fault")
            /\ NextTarget(p, key, TRUE) /\ UNCHANGED host
         \/ May("fault") /\ Umount(at) /\ NextTarget(p, key, TRUE)
      /\ UNCHANGED content

CleanupDone(p) ==
  /\ At(p, "remove")
  /\ job[p].found = {} /\ job[p].targets = {}
  /\ Goto(p, "cleaned")
  /\ UNCHANGED <<host, content>>

CleanupStep(p) ==
  \/ \E session \in Session \union {None} : StartCleanup(p, session)
  \/ CleanupList(p)
  \/ \E s \in job[p].found : RemoveHelper(p, s)
  \/ \E key \in job[p].targets : SkipBlocked(p, key) \/ CheckTarget(p, key)
  \/ UmountTarget(p) \/ CleanupDone(p)

-------------------------------------------------------------------------------
(* What else happens to the processes, the containers and the volumes.     *)

Crash(p) ==
  /\ May("crash")
  /\ job[p].pc \notin Resting
  /\ Become(p, Idle)
  /\ UNCHANGED <<host, content>>

Dies(c) == May("die") /\ Vanish(c) /\ UNCHANGED <<content, job>>

ForeignCreate(c, cf) ==
  /\ May("foreign")
  /\ Fresh(c)
  /\ ContainerCreate(c, cf)
  /\ UNCHANGED <<content, job>>

ForeignStart(c) ==
  /\ May("foreign")
  /\ conf[c] \in Foreign /\ c \notin running
  /\ RoomAt(conf[c].at)
  /\ ContainerStart(c) \/ ContainerStartFails(c)
  /\ UNCHANGED <<content, job>>

LateUmount(at) == May("umount") /\ Umount(at) /\ UNCHANGED <<content, job>>

(* Kopia writes to the path of a restore, or anybody to a volume.          *)
Write(v) ==
  /\ May("write")
  /\ content[v] = "empty"
  /\ content' = [content EXCEPT ![v] = "data"]
  /\ UNCHANGED <<host, job>>

Environment ==
  \/ \E c \in ContainerId :
       \/ Dies(c)
       \/ \E cf \in Foreign : ForeignCreate(c, cf)
       \/ ForeignStart(c)
  \/ \E at \in MountPoint : LateUmount(at)
  \/ \E v \in Volume : Write(v)

-------------------------------------------------------------------------------
Init ==
  /\ conf = [c \in ContainerId |-> None]
  /\ running = {}
  /\ mounts = [at \in MountPoint |-> <<>>]
  /\ content \in Contents
  /\ job = [p \in Proc |-> Idle]
  /\ alone = [p \in Proc |-> FALSE]

Step(p) == RestoreStep(p) \/ CheckExit(p) \/ CleanupStep(p)

Alone(p) == alone' = [q \in Proc |-> q = p /\ (job[p].pc \in Resting \/ alone[p])]
Disturbed == alone' = [q \in Proc |-> FALSE]

(* Who may move, and how, without the history.                             *)
Moves == Environment \/ \E p \in Proc : Step(p) \/ Crash(p)

Next ==
  \/ \E p \in Proc : Step(p) /\ Alone(p)
  \/ \E p \in Proc : Crash(p) /\ Disturbed
  \/ Environment /\ Disturbed

Spec == Init /\ [][Next]_vars

(* As in Backup; the empty check runs and exits by itself.                 *)
Continue(p) == job[p].pc \notin Resting /\ Step(p) /\ Alone(p)

FairSpec == Spec /\ \A p \in Proc : WF_vars(Continue(p))

-------------------------------------------------------------------------------
(* Properties.                                                             *)

Summary == [id : ContainerId, conf : Conf]
Key == Session \X Volume \X Volume \X Name

Job == [pc : Resting \union Restoring \union Cleaning,
        source : Volume \union {None}, target : Volume \union {None},
        session : Session \union {None}, image : Image \union {None}, force : BOOLEAN,
        cur : ContainerId \union {None}, exit : {"none", "zero", "nonzero"}, sawEmpty : BOOLEAN,
        found : SUBSET Summary, listed : SUBSET Summary,
        targets : SUBSET Key, blocked : SUBSET Key, key : Key \union {None}, errs : BOOLEAN]

(* Every variable holds a value of its kind (the local variables of        *)
(* Restore and RestoreCleanup, containers, mounts and volumes).            *)
TypeOK ==
  /\ conf \in [ContainerId -> Conf \union {None}]
  /\ running \subseteq {c \in ContainerId : Alive(c)}
  /\ mounts \in [MountPoint -> Seq(Volume)]
  /\ content \in [Volume -> {"absent", "empty", "data"}]
  /\ job \in [Proc -> Job]
  /\ alone \in [Proc -> BOOLEAN]

(* vision.md: a target that is not empty needs the dangerous flag.  No     *)
(* restore without it gets to a helper that could write to the target      *)
(* unless its own check has seen the target empty: not by a failed call,   *)
(* a check container that was killed or one left behind by another run.    *)
NoOverwrite ==
  \A p \in Proc :
    job[p].pc \in Mounting \union {"ready"} /\ ~job[p].force => job[p].sawEmpty

(* A restore that exits with 0 and that nobody disturbed has a helper of   *)
(* its own configuration running and a mount on its path, and its target   *)
(* is still empty, whatever containers it found.                           *)
SoloRestore ==
  \A p \in Proc :
    alone[p] /\ At(p, "ready") =>
      /\ \E c \in running : conf[c] = HelperOptions(job[p])
      /\ mounts[RestoreAt(FriendlyName[job[p].source])] # <<>>
      /\ ~job[p].force => content[job[p].target] = "empty"

(* When restore-cleanup unmounts for a session, source and target, every   *)
(* helper it listed for them is gone.                                      *)
UmountAfterRemoval ==
  \A p \in Proc :
    At(p, "umount") =>
      \A s \in job[p].listed : TargetKey(s.conf) = job[p].key => ~Alive(s.id)

(* A restore-cleanup that exits with 0 has removed every helper it listed, *)
(* none of them with a friendly name it must not unmount.                  *)
CleanupExit ==
  \A p \in Proc :
    At(p, "cleaned") /\ ~job[p].errs =>
      \A s \in job[p].listed : ~Alive(s.id) /\ s.conf.friendly \notin UnsafeName

(* A restore, and a restore-cleanup with a session, neither starts nor     *)
(* removes a container of another session (vision.md: only the session     *)
(* that is given is cleaned).                                              *)
LeavesOtherSessions ==
  \A p \in Proc :
    job'[p] # job[p] /\ job[p].pc \notin Resting /\ job[p].session # None =>
      \A c \in ContainerId :
        Alive(c) /\ conf[c].session # job[p].session =>
          conf'[c] = conf[c] /\ (c \in running <=> c \in running')

SessionOnly == [][LeavesOtherSessions]_vars

(* Every command that was started ends, or is killed.                      *)
CommandsEnd == \A p \in Proc : job[p].pc \notin Resting ~> job[p].pc \in Resting

(* What README.md:312 says of restore: without the dangerous flag it       *)
(* refuses a target that is not empty.                                     *)
RefusesNonEmpty ==
  \A p \in Proc :
    alone[p] /\ At(p, "ready") /\ ~job[p].force => content[job[p].target] = "empty"

(* What vision.md:121 says of restore-cleanup: with a session it cleans    *)
(* that session only, so the mount it takes away is one of the session.    *)
TakesOwnMount ==
  \A p \in Proc :
    alone[p] /\ At(p, "umount") /\ job[p].session # None =>
      Head(mounts[CleanupAt(KeyName(job[p].key))]) = job[p].key[3]
===============================================================================
