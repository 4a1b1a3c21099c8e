----------------------------- MODULE RestoreProofs -----------------------------
(***************************************************************************)
(* Theorems about Restore, for any number of processes, sessions, volumes, *)
(* containers and names, and whatever trouble there is: its types, that no *)
(* restore passes its empty check by accident, the two phases of           *)
(* restore-cleanup and what its exit code means, and that a command keeps  *)
(* to its session and to the restore view.  The last section has what a    *)
(* restore promises that nobody disturbs.                                  *)
(*                                                                         *)
(* The invariant has a part for the host and a part for each process, as   *)
(* in BackupProofs.  The empty check adds that an exit code of zero is     *)
(* never there without what was seen, however the check container ended.   *)
(***************************************************************************)
EXTENDS Restore, DockerHostProofs

Holding == {"checkstart", "checkwait", "checkdrop", "replace", "start", "startnew", "rollback"}

(* A restore beyond its inspection of the source.                          *)
Named == (Restoring \ {"source"}) \union {"ready"}

Untouched == Restoring \union {"idle", "ready", "failed", "listall"}

(* Restore containers mount in the restore view or nowhere, all others     *)
(* stay out of it and carry no session.                                    *)
ConfOK(cf) ==
  IF cf.mode = "restore"
  THEN \A f \in Name : cf.at # <<"backup", f>>
  ELSE cf.session = None /\ \A f \in Name : cf.at # RestoreAt(f)

KnownConf == {cf \in Conf : ConfOK(cf)}

HostInv == HostType(KnownConf, MountPoint, Volume)

OfSession(cf, session) == cf.mode = "restore" /\ InSession(cf, session)

(* What a process with local state j relies on, k being the containers.    *)
JobInv(k, j) ==
  /\ j.pc \in Restoring \union {"ready"} =>
       j.source \in Volume /\ j.target \in Volume /\ j.session \in Session /\ j.image \in Image
  /\ j.pc \in Named => FriendlyName[j.source] \in Name
  /\ j.pc \in Holding => j.cur \in ContainerId
  /\ j.cur # None => k[j.cur] = None \/ OfSession(k[j.cur], j.session)
  /\ \A s \in j.found \union j.listed :
       OfSession(s.conf, j.session) /\ (k[s.id] = None \/ k[s.id] = s.conf)
  /\ j.exit = "zero" => j.sawEmpty
  /\ j.pc \in Mounting \union {"ready"} /\ ~j.force => j.sawEmpty
  /\ j.pc \in Untouched => j.listed = {} /\ j.blocked = {} /\ j.targets = {}
  /\ j.pc \in {"listall", "umount", "cleaned"} => j.found = {}
  /\ j.pc = "remove" => j.found \subseteq j.listed
  /\ \A s \in j.listed : TargetKey(s.conf) \in Key
  /\ \A s \in j.listed \ j.found :
       /\ k[s.id] = None \/ TargetKey(s.conf) \in j.blocked
       /\ s.conf.friendly \in UnsafeName => j.errs
  /\ j.blocked # {} => j.errs
  /\ j.pc = "umount" => j.key \in Key /\ j.key \notin j.blocked

JobsInv ==
  /\ job \in [Proc -> Job]
  /\ \A p \in Proc : JobInv(conf, job[p])

Inv ==
  /\ HostInv
  /\ JobsInv
  /\ content \in [Volume -> {"absent", "empty", "data"}]
  /\ alone \in [Proc -> BOOLEAN]

(* What a step of a process of the session may do to the host.             *)
HostEffect(session) ==
  \/ UNCHANGED host
  \/ \E c \in ContainerId :
       /\ Alive(c) => OfSession(conf[c], session)
       /\ Changes(c)
  \/ \E c \in ContainerId, cf \in KnownConf :
       /\ OfSession(cf, session)
       /\ Fresh(c) /\ ContainerCreate(c, cf)
  \/ \E f \in Name : Umount(CleanupAt(f))

(* What a process knows of stays as it is or disappears.                   *)
KeepsKnown ==
  \A c \in ContainerId : conf'[c] = conf[c] \/ conf'[c] = None \/ Fresh(c)

-------------------------------------------------------------------------------
(* The host.                                                               *)

(* Containers that are known mount volumes on mount points.                *)
LEMMA KnownConfMounts == MountsVolumes(KnownConf, MountPoint, Volume)
<1>1. None \notin Conf
  BY NoneAssumption
<1>. QED  BY <1>1 DEF MountsVolumes, KnownConf, Conf

(* What restoreHelperCreateOptions builds is a container of the session,   *)
(* in the restore view.                                                    *)
LEMMA HelperOptionsOK ==
  ASSUME NEW j \in Job, JobInv(conf, j), j.pc \in Restoring \cap Named
  PROVE  HelperOptions(j) \in KnownConf /\ OfSession(HelperOptions(j), j.session)
<1>1. /\ j.source \in Volume /\ j.target \in Volume /\ j.session \in Session
      /\ j.image \in Image /\ FriendlyName[j.source] \in Name
  BY DEF JobInv
<1>2. RestoreAt(FriendlyName[j.source]) \in MountPoint
  BY <1>1 DEF RestoreAt, MountPoint
<1>3. j.target # None
  BY <1>1, NoneAssumption
<1>4. HelperOptions(j) \in Conf
  BY <1>1, <1>2, <1>3 DEF HelperOptions, Conf
<1>5. \A f \in Name : RestoreAt(FriendlyName[j.source]) # <<"backup", f>>
  BY DEF RestoreAt
<1>. QED  BY <1>4, <1>5 DEF KnownConf, ConfOK, HelperOptions, OfSession, InSession

(* So is the container of the empty check, which mounts outside the bridge. *)
LEMMA CheckOptionsOK ==
  ASSUME NEW j \in Job, JobInv(conf, j), j.pc \in Restoring
  PROVE  CheckOptions(j) \in KnownConf /\ OfSession(CheckOptions(j), j.session)
<1>1. j.target \in Volume /\ j.session \in Session /\ j.image \in Image
  BY DEF JobInv
<1>2. CheckOptions(j) \in Conf
  BY <1>1 DEF CheckOptions, Conf
<1>3. \A f \in Name : None # <<"backup", f>>
  BY NoneAssumption DEF MountPoint
<1>. QED  BY <1>2, <1>3 DEF KnownConf, ConfOK, CheckOptions, OfSession, InSession

(* What a process does to the host keeps the host's part of the invariant  *)
(* and what other processes know.                                          *)
LEMMA HostEffectLemma ==
  ASSUME HostInv, NEW session, HostEffect(session)
  PROVE  HostInv' /\ KeepsKnown
<1>1. CASE UNCHANGED host
  BY <1>1 DEF host, HostInv, HostType, Alive, KeepsKnown
<1>2. CASE \E c \in ContainerId : Changes(c)
  BY <1>2, KnownConfMounts, ChangesKeepType, ChangesOne DEF KeepsKnown, HostInv, HostType
<1>3. CASE \E c \in ContainerId, cf \in KnownConf : Fresh(c) /\ ContainerCreate(c, cf)
  BY <1>3, KnownConfMounts, CreateKeepsType DEF KeepsKnown, HostInv, HostType, ContainerCreate
<1>4. CASE \E f \in Name : Umount(CleanupAt(f))
  <2>1. \A f \in Name : CleanupAt(f) \in MountPoint
    BY DEF CleanupAt, MountPoint
  <2>. QED  BY <1>4, <2>1, UmountKeepsType DEF KeepsKnown, HostInv, Umount
<1>. QED  BY <1>1, <1>2, <1>3, <1>4 DEF HostEffect

-------------------------------------------------------------------------------
(* The processes.                                                          *)

(* What a process relies on is not upset by containers that disappear or   *)
(* by new ones it does not know.                                           *)
LEMMA JobInvStable ==
  ASSUME NEW k, NEW l, NEW j, JobInv(k, j),
         j.cur # None => l[j.cur] = k[j.cur] \/ l[j.cur] = None,
         \A s \in j.found \union j.listed : l[s.id] = k[s.id] \/ l[s.id] = None
  PROVE  JobInv(l, j)
BY DEF JobInv

(* The jobs of the processes that do not move.                             *)
LEMMA OthersKeep ==
  ASSUME JobsInv, KeepsKnown, NEW q \in Proc
  PROVE  JobInv(conf', job[q])
<1>1. job[q] \in Job /\ JobInv(conf, job[q])
  BY DEF JobsInv
<1>2. job[q].cur # None => conf'[job[q].cur] = conf[job[q].cur] \/ conf'[job[q].cur] = None
  BY <1>1 DEF KeepsKnown, Fresh, Job
<1>3. \A s \in job[q].found \union job[q].listed :
        conf'[s.id] = conf[s.id] \/ conf'[s.id] = None
  BY <1>1 DEF KeepsKnown, Fresh, Job, Summary
<1>. QED  BY <1>1, <1>2, <1>3, JobInvStable

(* It is enough to look at the process that moves.                         *)
LEMMA BecomeKeepsJobs ==
  ASSUME JobsInv, KeepsKnown, NEW p \in Proc, NEW j \in Job,
         JobInv(conf', j), Become(p, j)
  PROVE  JobsInv'
<1>1. job' \in [Proc -> Job]
  BY DEF JobsInv, Become
<1>2. \A q \in Proc : JobInv(conf', job'[q])
  BY OthersKeep DEF JobsInv, Become
<1>. QED  BY <1>1, <1>2 DEF JobsInv

(* A process that holds nothing relies on nothing.                         *)
LEMMA IdleOK ==
  ASSUME NEW k
  PROVE  /\ Idle \in Job /\ [Idle EXCEPT !.pc = "failed"] \in Job
         /\ JobInv(k, Idle) /\ JobInv(k, [Idle EXCEPT !.pc = "failed"])
<1>1. Idle \in Job /\ [Idle EXCEPT !.pc = "failed"] \in Job
  BY DEF Idle, Job, Resting
<1>2. JobInv(k, Idle)
  BY DEF Idle, JobInv, Holding, Named, Restoring, Checking, Mounting, Untouched
<1>3. JobInv(k, [Idle EXCEPT !.pc = "failed"])
  BY DEF Idle, JobInv, Holding, Named, Restoring, Checking, Mounting, Untouched
<1>. QED  BY <1>1, <1>2, <1>3

(* Restore returns with an error.                                          *)
LEMMA FailKeepsJobs ==
  ASSUME JobsInv, KeepsKnown, NEW p \in Proc, Fail(p)
  PROVE  JobsInv'
BY IdleOK, BecomeKeepsJobs DEF Fail

(* The labels a restore goes on to with what it has: the inspections, the  *)
(* check and the helper, each with what has to be there.                   *)
MayGoOn(j, label) ==
  /\ j.pc \in Restoring
  /\ label \in Restoring \ {"source"}
  /\ FriendlyName[j.source] \in Name
  /\ label \in Holding => j.pc \in Holding
  /\ label \in Mounting => j.pc \in Mounting \/ j.force

LEMMA GotoKeepsJobs ==
  ASSUME JobsInv, KeepsKnown, NEW p \in Proc, NEW label,
         MayGoOn(job[p], label), Goto(p, label)
  PROVE  JobsInv'
<1>. DEFINE j == [job[p] EXCEPT !.pc = label]
<1>1. job[p] \in Job /\ JobInv(conf', job[p])
  BY OthersKeep DEF JobsInv
<1>2. j \in Job
  BY <1>1 DEF Job, MayGoOn
<1>3. JobInv(conf', j)
  BY <1>1 DEF JobInv, Job, MayGoOn, Named, Holding, Restoring, Checking, Mounting, Untouched
<1>. QED  BY <1>2, <1>3, BecomeKeepsJobs DEF Goto

(* The loop of ensureRestoreHelper goes on with the next candidate.        *)
LEMMA NextHelperKeepsJobs ==
  ASSUME JobsInv, KeepsKnown, NEW p \in Proc, NEW c,
         job[p].pc \in Mounting, NextHelper(p, c)
  PROVE  JobsInv'
<1>. DEFINE j == [job[p] EXCEPT !.pc = "scan", !.cur = None,
                                !.found = {s \in @ : s.id # c}]
<1>1. job[p] \in Job /\ JobInv(conf', job[p])
  BY OthersKeep DEF JobsInv
<1>2. j \in Job
  BY <1>1 DEF Job, Restoring, Mounting
<1>3. JobInv(conf', j)
  BY <1>1 DEF JobInv, Job, Named, Holding, Restoring, Checking, Mounting, Untouched
<1>. QED  BY <1>2, <1>3, BecomeKeepsJobs DEF NextHelper

(* A container a process found is one of its session, or gone.             *)
LEMMA FoundHelpers ==
  ASSUME HostInv, JobsInv, NEW p \in Proc, NEW s \in job[p].found
  PROVE  s.id \in ContainerId /\ (Alive(s.id) => OfSession(conf[s.id], job[p].session))
<1>1. job[p] \in Job /\ JobInv(conf, job[p])
  BY DEF JobsInv
<1>. QED  BY <1>1 DEF JobInv, Job, Summary, Alive

(* So is the one it is about to check, to replace or to start.             *)
LEMMA CurHelper ==
  ASSUME HostInv, JobsInv, NEW p \in Proc, job[p].pc \in Holding
  PROVE  /\ job[p].cur \in ContainerId
         /\ Alive(job[p].cur) => OfSession(conf[job[p].cur], job[p].session)
BY NoneAssumption DEF JobsInv, JobInv, Alive

(* removeContainer of a container of the session, done or not.             *)
LEMMA RemoveEffect ==
  ASSUME NEW session, NEW c \in ContainerId, Alive(c) => OfSession(conf[c], session),
         ContainerRemove(c) \/ UNCHANGED host
  PROVE  HostEffect(session)
BY DEF ContainerRemove, HostEffect, Changes

-------------------------------------------------------------------------------
(* The steps of restore up to the empty check.                             *)

(* A restore starts with no candidate and no check.                        *)
LEMMA StartRestoreOK ==
  ASSUME HostInv, JobsInv, NEW p \in Proc, NEW s \in Sources, NEW t \in Targets,
         NEW session \in Session, NEW image \in Image, NEW force \in BOOLEAN,
         NEW same \in BOOLEAN, StartRestore(p, s, t, session, image, force, same)
  PROVE  HostEffect(job[p].session) /\ JobsInv'
<1>. DEFINE j == [Idle EXCEPT !.pc = "source", !.source = s, !.target = t,
                              !.session = session, !.image = image, !.force = force]
<1>1. HostEffect(job[p].session) /\ KeepsKnown
  BY HostEffectLemma DEF StartRestore, HostEffect
<1>2. s \in Volume /\ t \in Volume
  BY VolumesAssumption
<1>3. j \in Job
  BY <1>2 DEF Idle, Job, Restoring
<1>4. JobInv(conf', j)
  BY <1>2 DEF Idle, JobInv, Holding, Named, Checking, Mounting, Untouched
<1>5. Become(p, j) \/ Fail(p)
  BY DEF StartRestore
<1>. HIDE DEF j
<1>. QED  BY <1>1, <1>3, <1>4, <1>5, BecomeKeepsJobs, FailKeepsJobs

(* The source has a friendly name when its inspection lets it pass.        *)
LEMMA InspectSourceOK ==
  ASSUME HostInv, JobsInv, NEW p \in Proc, InspectSource(p)
  PROVE  HostEffect(job[p].session) /\ JobsInv'
<1>1. HostEffect(job[p].session) /\ KeepsKnown
  BY HostEffectLemma DEF InspectSource, HostEffect
<1>2. CASE Goto(p, "target") /\ FriendlyName[job[p].source] # None
  <2>1. job[p].pc = "source" /\ job[p].source \in Volume
    BY DEF InspectSource, At, JobsInv, JobInv, Restoring
  <2>2. MayGoOn(job[p], "target")
    BY <1>2, <2>1, VolumesAssumption DEF MayGoOn, Restoring, Checking, Mounting, Holding
  <2>. QED  BY <1>1, <1>2, <2>2, GotoKeepsJobs
<1>3. CASE Fail(p)
  BY <1>1, <1>3, FailKeepsJobs
<1>. QED  BY <1>2, <1>3 DEF InspectSource

(* The check is left out only when that was asked for.                     *)
LEMMA TargetReadyOK ==
  ASSUME JobsInv, KeepsKnown, NEW p \in Proc, job[p].pc \in {"target", "volume"},
         TargetReady(p)
  PROVE  JobsInv'
<1>. DEFINE label == IF job[p].force THEN "list" ELSE "check"
<1>1. FriendlyName[job[p].source] \in Name
  BY DEF JobsInv, JobInv, Named, Restoring
<1>2. MayGoOn(job[p], label)
  BY <1>1 DEF MayGoOn, Restoring, Checking, Mounting, Holding
<1>. HIDE DEF label
<1>3. Goto(p, label)
  BY DEF TargetReady, label
<1>. QED  BY <1>2, <1>3, GotoKeepsJobs

(* The target is there, or has to be created.                              *)
LEMMA InspectTargetOK ==
  ASSUME HostInv, JobsInv, NEW p \in Proc, InspectTarget(p)
  PROVE  HostEffect(job[p].session) /\ JobsInv'
<1>1. HostEffect(job[p].session) /\ KeepsKnown
  BY HostEffectLemma DEF InspectTarget, HostEffect
<1>2. job[p].pc = "target"
  BY DEF InspectTarget, At
<1>3. CASE Goto(p, "volume")
  <2>1. MayGoOn(job[p], "volume")
    BY <1>2 DEF JobsInv, JobInv, Named, MayGoOn, Restoring, Checking, Mounting, Holding
  <2>. QED  BY <1>1, <1>3, <2>1, GotoKeepsJobs
<1>. QED  BY <1>1, <1>2, <1>3, TargetReadyOK, FailKeepsJobs DEF InspectTarget

(* VolumeCreate, done or not.                                              *)
LEMMA CreateTargetOK ==
  ASSUME HostInv, JobsInv, NEW p \in Proc, CreateTarget(p)
  PROVE  HostEffect(job[p].session) /\ JobsInv'
<1>1. HostEffect(job[p].session) /\ KeepsKnown
  BY HostEffectLemma DEF CreateTarget, HostEffect
<1>. QED  BY <1>1, TargetReadyOK, FailKeepsJobs DEF CreateTarget, At

(* The check container is new and one of the session.                      *)
LEMMA CheckCreateOK ==
  ASSUME HostInv, JobsInv, NEW p \in Proc, NEW c \in ContainerId, CheckCreate(p, c)
  PROVE  HostEffect(job[p].session) /\ JobsInv'
<1>. DEFINE j == [job[p] EXCEPT !.pc = "checkstart", !.cur = c]
            options == CheckOptions(job[p])
<1>1. job[p].pc = "check" /\ job[p] \in Job /\ JobInv(conf, job[p])
  BY DEF CheckCreate, At, JobsInv
<1>2. options \in KnownConf /\ OfSession(options, job[p].session)
  BY <1>1, CheckOptionsOK DEF Restoring, Checking
<1>. HIDE DEF options
<1>3. HostEffect(job[p].session)
  BY <1>2 DEF CheckCreate, HostEffect, options
<1>4. KeepsKnown
  BY <1>3, HostEffectLemma
<1>5. CASE Fail(p)
  BY <1>3, <1>4, <1>5, FailKeepsJobs
<1>6. CASE Fresh(c) /\ ContainerCreate(c, options) /\ Become(p, j)
  <2>1. conf'[c] = options
    BY <1>6 DEF ContainerCreate, HostInv, HostType
  <2>2. JobInv(conf', job[p])
    BY <1>4, OthersKeep
  <2>3. j \in Job
    BY <1>1 DEF Job, Restoring, Checking
  <2>4. JobInv(conf', j)
    BY <1>1, <1>2, <2>1, <2>2
       DEF JobInv, Job, Named, Holding, Restoring, Checking, Mounting, Untouched
  <2>. HIDE DEF j
  <2>. QED  BY <1>3, <1>4, <1>6, <2>3, <2>4, BecomeKeepsJobs
<1>. QED  BY <1>5, <1>6 DEF CheckCreate, options

(* What a check decides, with what it saw: an exit code of zero only when  *)
(* it saw the target empty.                                                *)
LEMMA CheckedKeepsJobs ==
  ASSUME JobsInv, KeepsKnown, NEW p \in Proc, NEW label \in {"checkwait", "checkdrop"},
         NEW exit \in {"none", "zero", "nonzero"}, NEW saw \in BOOLEAN,
         job[p].pc \in Holding \cap Checking, saw \/ exit # "zero",
         Become(p, [job[p] EXCEPT !.pc = label, !.exit = exit, !.sawEmpty = saw])
  PROVE  JobsInv'
<1>. DEFINE j == [job[p] EXCEPT !.pc = label, !.exit = exit, !.sawEmpty = saw]
<1>1. job[p] \in Job /\ JobInv(conf', job[p])
  BY OthersKeep DEF JobsInv
<1>2. label \in Restoring
  BY DEF Restoring, Checking
<1>3. j \in Job
  BY <1>1, <1>2 DEF Job
<1>4. JobInv(conf', j)
  BY <1>1 DEF JobInv, Job, Named, Holding, Restoring, Checking, Mounting, Untouched
<1>. QED  BY <1>3, <1>4, BecomeKeepsJobs

(* The start of the check container, done or not.                          *)
LEMMA CheckStartOK ==
  ASSUME HostInv, JobsInv, NEW p \in Proc, CheckStart(p)
  PROVE  HostEffect(job[p].session) /\ JobsInv'
<1>1. job[p].pc = "checkstart" /\ job[p] \in Job
  BY DEF CheckStart, At, JobsInv
<1>2. /\ job[p].cur \in ContainerId
      /\ Alive(job[p].cur) => OfSession(conf[job[p].cur], job[p].session)
  BY <1>1, CurHelper DEF Holding
<1>3. HostEffect(job[p].session)
  BY <1>2 DEF CheckStart, HostEffect, Changes
<1>4. KeepsKnown
  BY <1>3, HostEffectLemma
<1>5. CASE Goto(p, "checkwait")
  <2>1. MayGoOn(job[p], "checkwait")
    BY <1>1 DEF JobsInv, JobInv, Named, MayGoOn, Restoring, Checking, Mounting, Holding
  <2>. QED  BY <1>3, <1>4, <1>5, <2>1, GotoKeepsJobs
<1>6. CASE Become(p, [job[p] EXCEPT !.pc = "checkdrop", !.exit = "nonzero"])
  <2>1. Become(p, [job[p] EXCEPT !.pc = "checkdrop", !.exit = "nonzero",
                                 !.sawEmpty = job[p].sawEmpty])
    BY <1>1, <1>6 DEF Job
  <2>2. job[p].sawEmpty \in BOOLEAN
    BY <1>1 DEF Job
  <2>. QED  BY <1>1, <1>3, <1>4, <2>1, <2>2, CheckedKeepsJobs DEF Holding, Checking
<1>. QED  BY <1>5, <1>6 DEF CheckStart

(* The check container exits, with what it saw of the target.              *)
LEMMA CheckExitOK ==
  ASSUME HostInv, JobsInv, NEW p \in Proc, CheckExit(p)
  PROVE  HostEffect(job[p].session) /\ JobsInv'
<1>1. job[p].pc = "checkwait" /\ job[p] \in Job
  BY DEF CheckExit, At, JobsInv
<1>2. /\ job[p].cur \in ContainerId
      /\ Alive(job[p].cur) => OfSession(conf[job[p].cur], job[p].session)
  BY <1>1, CurHelper DEF Holding
<1>3. Changes(job[p].cur)
  BY DEF CheckExit, Changes, ContainerExit, LayerStaysOrGoes
<1>4. HostEffect(job[p].session)
  BY <1>2, <1>3 DEF HostEffect
<1>5. KeepsKnown
  BY <1>4, HostEffectLemma
<1>6. PICK shown \in BOOLEAN :
        Become(p, [job[p] EXCEPT !.exit = IF shown THEN "nonzero" ELSE "zero",
                                 !.sawEmpty = ~shown])
  BY DEF CheckExit
<1>7. Become(p, [job[p] EXCEPT !.pc = "checkwait", !.exit = IF shown THEN "nonzero" ELSE "zero",
                               !.sawEmpty = ~shown])
  BY <1>1, <1>6 DEF Job
<1>. QED  BY <1>1, <1>4, <1>5, <1>7, CheckedKeepsJobs DEF Holding, Checking

(* ContainerWait: the exit code that is there, or not empty.               *)
LEMMA CheckWaitOK ==
  ASSUME HostInv, JobsInv, NEW p \in Proc, CheckWait(p)
  PROVE  HostEffect(job[p].session) /\ JobsInv'
<1>1. job[p].pc = "checkwait" /\ job[p] \in Job
  BY DEF CheckWait, At, JobsInv
<1>2. HostEffect(job[p].session) /\ KeepsKnown
  BY HostEffectLemma DEF CheckWait, HostEffect
<1>3. CASE Goto(p, "checkdrop")
  <2>1. MayGoOn(job[p], "checkdrop")
    BY <1>1 DEF JobsInv, JobInv, Named, MayGoOn, Restoring, Checking, Mounting, Holding
  <2>. QED  BY <1>2, <1>3, <2>1, GotoKeepsJobs
<1>4. CASE Become(p, [job[p] EXCEPT !.pc = "checkdrop", !.exit = "nonzero"])
  <2>1. Become(p, [job[p] EXCEPT !.pc = "checkdrop", !.exit = "nonzero",
                                 !.sawEmpty = job[p].sawEmpty])
    BY <1>1, <1>4 DEF Job
  <2>2. job[p].sawEmpty \in BOOLEAN
    BY <1>1 DEF Job
  <2>. QED  BY <1>1, <1>2, <2>1, <2>2, CheckedKeepsJobs DEF Holding, Checking
<1>. QED  BY <1>3, <1>4 DEF CheckWait

(* The restore goes on to its helper with an exit code of zero only.       *)
LEMMA CheckDropOK ==
  ASSUME HostInv, JobsInv, NEW p \in Proc, CheckDrop(p)
  PROVE  HostEffect(job[p].session) /\ JobsInv'
<1>. DEFINE j == [job[p] EXCEPT !.pc = "list", !.cur = None]
<1>1. job[p].pc = "checkdrop" /\ job[p] \in Job
  BY DEF CheckDrop, At, JobsInv
<1>2. /\ job[p].cur \in ContainerId
      /\ Alive(job[p].cur) => OfSession(conf[job[p].cur], job[p].session)
  BY <1>1, CurHelper DEF Holding
<1>3. HostEffect(job[p].session)
  BY <1>2, RemoveEffect DEF CheckDrop
<1>4. KeepsKnown
  BY <1>3, HostEffectLemma
<1>5. CASE Fail(p)
  BY <1>3, <1>4, <1>5, FailKeepsJobs
<1>6. CASE job[p].exit = "zero" /\ Become(p, j)
  <2>1. JobInv(conf', job[p])
    BY <1>4, OthersKeep
  <2>2. j \in Job
    BY <1>1 DEF Job, Restoring, Mounting
  <2>3. JobInv(conf', j)
    BY <1>1, <1>6, <2>1
       DEF JobInv, Job, Named, Holding, Restoring, Checking, Mounting, Untouched
  <2>. HIDE DEF j
  <2>. QED  BY <1>3, <1>4, <1>6, <2>2, <2>3, BecomeKeepsJobs
<1>. QED  BY <1>5, <1>6 DEF CheckDrop

-------------------------------------------------------------------------------
(* The steps of restore from its list of helpers on.                       *)

(* restoreHelpersBySession: what is listed is of the session.              *)
LEMMA ListHelpersOK ==
  ASSUME HostInv, JobsInv, NEW p \in Proc, ListHelpers(p)
  PROVE  HostEffect(job[p].session) /\ JobsInv'
<1>. DEFINE found == Summaries(SessionContainers(job[p].session))
            j == [job[p] EXCEPT !.pc = "scan", !.found = found]
<1>1. HostEffect(job[p].session) /\ KeepsKnown /\ conf' = conf
  BY HostEffectLemma DEF ListHelpers, HostEffect, host
<1>2. job[p] \in Job /\ JobInv(conf', job[p]) /\ job[p].pc = "list"
  BY <1>1, OthersKeep DEF JobsInv, ListHelpers, At
<1>3. \A s \in found : /\ s \in Summary
                       /\ OfSession(s.conf, job[p].session)
                       /\ conf'[s.id] = s.conf
  BY <1>1 DEF Summaries, Summary, SessionContainers, OfSession, HostInv, HostType, KnownConf, Alive
<1>4. j \in Job
  BY <1>2, <1>3 DEF Job, Restoring, Mounting
<1>5. JobInv(conf', j)
  BY <1>2, <1>3 DEF JobInv, Job, Named, Holding, Restoring, Checking, Mounting, Untouched
<1>6. Become(p, j) \/ Fail(p)
  BY DEF ListHelpers
<1>. HIDE DEF j
<1>. QED  BY <1>1, <1>4, <1>5, <1>6, BecomeKeepsJobs, FailKeepsJobs

(* Both ways ensureRestoreHelper goes on after a removal.                  *)
LEMMA RemoveAndGoOnOK ==
  ASSUME HostInv, JobsInv, NEW p \in Proc, NEW c \in ContainerId,
         Alive(c) => OfSession(conf[c], job[p].session),
         job[p].pc \in Mounting, RemoveAndGoOn(p, c)
  PROVE  HostEffect(job[p].session) /\ JobsInv'
<1>1. HostEffect(job[p].session)
  BY RemoveEffect DEF RemoveAndGoOn
<1>2. KeepsKnown
  BY <1>1, HostEffectLemma
<1>. QED  BY <1>1, <1>2, NextHelperKeepsJobs, FailKeepsJobs DEF RemoveAndGoOn

(* The removal of a container of the session with another name.            *)
LEMMA RemoveUnexpectedOK ==
  ASSUME HostInv, JobsInv, NEW p \in Proc, NEW s \in job[p].found, RemoveUnexpected(p, s)
  PROVE  HostEffect(job[p].session) /\ JobsInv'
BY FoundHelpers, RemoveAndGoOnOK DEF RemoveUnexpected, At, Mounting

(* The removal of a helper that does not match.                            *)
LEMMA ReplaceOK ==
  ASSUME HostInv, JobsInv, NEW p \in Proc, Replace(p)
  PROVE  HostEffect(job[p].session) /\ JobsInv'
BY CurHelper, RemoveAndGoOnOK DEF Replace, At, Mounting, Holding

(* Within the loop a restore goes on with what it has.                     *)
LEMMA MountingGoesOn ==
  ASSUME JobsInv, NEW p \in Proc, job[p].pc \in Mounting, NEW label \in Mounting,
         label \in Holding => job[p].pc \in Holding
  PROVE  MayGoOn(job[p], label)
BY DEF JobsInv, JobInv, MayGoOn, Named, Restoring, Checking, Mounting

(* ContainerInspect and what ensureRestoreHelper decides on it.            *)
LEMMA InspectOK ==
  ASSUME HostInv, JobsInv, NEW p \in Proc, NEW s \in job[p].found, Inspect(p, s)
  PROVE  HostEffect(job[p].session) /\ JobsInv'
<1>. DEFINE j(label) == [job[p] EXCEPT !.pc = label, !.cur = s.id]
<1>1. HostEffect(job[p].session) /\ KeepsKnown /\ conf' = conf
  BY HostEffectLemma DEF Inspect, HostEffect, host
<1>2. job[p] \in Job /\ JobInv(conf', job[p]) /\ job[p].pc = "scan"
  BY <1>1, OthersKeep DEF JobsInv, Inspect, At
<1>. s.id \in ContainerId /\ (Alive(s.id) => OfSession(conf[s.id], job[p].session))
  BY FoundHelpers
<1>. "replace" \in Restoring /\ "start" \in Restoring
  BY DEF Restoring, Mounting
<1>3. j("replace") \in Job /\ j("start") \in Job
  BY <1>2 DEF Job
<1>4. JobInv(conf', j("replace")) /\ JobInv(conf', j("start"))
  BY <1>1, <1>2
     DEF JobInv, Job, Named, Holding, Restoring, Checking, Mounting, Untouched, Alive
<1>5. \/ NextHelper(p, s.id) \/ Fail(p) \/ Goto(p, "wait")
      \/ Become(p, j("replace")) \/ Become(p, j("start"))
  BY DEF Inspect
<1>6. MayGoOn(job[p], "wait")
  BY <1>2, MountingGoesOn DEF Mounting, Holding
<1>. HIDE DEF j
<1>. QED  BY <1>1, <1>2, <1>3, <1>4, <1>5, <1>6, NextHelperKeepsJobs, FailKeepsJobs, GotoKeepsJobs,
             BecomeKeepsJobs DEF Mounting

(* The start of a helper that matches and does not run.                    *)
LEMMA StartExistingOK ==
  ASSUME HostInv, JobsInv, NEW p \in Proc, StartExisting(p)
  PROVE  HostEffect(job[p].session) /\ JobsInv'
<1>. DEFINE c == job[p].cur
<1>1. job[p].pc = "start"
  BY DEF StartExisting, At
<1>2. c \in ContainerId /\ (Alive(c) => OfSession(conf[c], job[p].session))
  BY <1>1, CurHelper DEF Holding
<1>3. HostEffect(job[p].session)
  BY <1>2 DEF StartExisting, HostEffect, Changes
<1>4. KeepsKnown
  BY <1>3, HostEffectLemma
<1>5. Goto(p, "wait") \/ NextHelper(p, c) \/ Fail(p)
  BY DEF StartExisting
<1>6. MayGoOn(job[p], "wait") /\ job[p].pc \in Mounting
  BY <1>1, MountingGoesOn DEF Mounting, Holding
<1>. QED  BY <1>3, <1>4, <1>5, <1>6, GotoKeepsJobs, NextHelperKeepsJobs, FailKeepsJobs

(* The container restore creates is new and of the session.                *)
LEMMA CreateOK ==
  ASSUME HostInv, JobsInv, NEW p \in Proc, NEW c \in ContainerId, Create(p, c)
  PROVE  HostEffect(job[p].session) /\ JobsInv'
<1>. DEFINE j == [job[p] EXCEPT !.pc = "startnew", !.cur = c]
            options == HelperOptions(job[p])
<1>1. job[p].pc = "scan" /\ job[p] \in Job /\ JobInv(conf, job[p])
  BY DEF Create, At, JobsInv
<1>2. options \in KnownConf /\ OfSession(options, job[p].session)
  BY <1>1, HelperOptionsOK DEF Named, Restoring, Mounting
<1>. HIDE DEF options
<1>3. HostEffect(job[p].session)
  BY <1>2 DEF Create, HostEffect, options
<1>4. KeepsKnown
  BY <1>3, HostEffectLemma
<1>5. CASE Fail(p)
  BY <1>3, <1>4, <1>5, FailKeepsJobs
<1>6. CASE Fresh(c) /\ ContainerCreate(c, options) /\ Become(p, j)
  <2>1. conf'[c] = options
    BY <1>6 DEF ContainerCreate, HostInv, HostType
  <2>2. JobInv(conf', job[p])
    BY <1>4, OthersKeep
  <2>3. j \in Job
    BY <1>1 DEF Job, Restoring, Mounting
  <2>4. JobInv(conf', j)
    BY <1>1, <1>2, <2>1, <2>2
       DEF JobInv, Job, Named, Holding, Restoring, Checking, Mounting, Untouched
  <2>. HIDE DEF j
  <2>. QED  BY <1>3, <1>4, <1>6, <2>3, <2>4, BecomeKeepsJobs
<1>. QED  BY <1>5, <1>6 DEF Create, options

(* The start of the helper restore created.                                *)
LEMMA StartNewOK ==
  ASSUME HostInv, JobsInv, NEW p \in Proc, StartNew(p)
  PROVE  HostEffect(job[p].session) /\ JobsInv'
<1>. DEFINE c == job[p].cur
<1>1. job[p].pc = "startnew"
  BY DEF StartNew, At
<1>2. c \in ContainerId /\ (Alive(c) => OfSession(conf[c], job[p].session))
  BY <1>1, CurHelper DEF Holding
<1>3. HostEffect(job[p].session)
  BY <1>2 DEF StartNew, HostEffect, Changes
<1>4. KeepsKnown
  BY <1>3, HostEffectLemma
<1>5. Goto(p, "wait") \/ Goto(p, "rollback")
  BY DEF StartNew
<1>6. MayGoOn(job[p], "wait") /\ MayGoOn(job[p], "rollback")
  BY <1>1, MountingGoesOn DEF Mounting, Holding
<1>. QED  BY <1>3, <1>4, <1>5, <1>6, GotoKeepsJobs

(* The removal of the helper that could not be started.                    *)
LEMMA RollbackOK ==
  ASSUME HostInv, JobsInv, NEW p \in Proc, Rollback(p)
  PROVE  HostEffect(job[p].session) /\ JobsInv'
<1>1. job[p].pc \in Holding
  BY DEF Rollback, At, Holding
<1>2. HostEffect(job[p].session)
  BY <1>1, CurHelper, RemoveEffect DEF Rollback
<1>3. KeepsKnown
  BY <1>2, HostEffectLemma
<1>. QED  BY <1>2, <1>3, FailKeepsJobs DEF Rollback

(* waitForRestoreVisibleMount, seen or expired.                            *)
LEMMA WaitOK ==
  ASSUME HostInv, JobsInv, NEW p \in Proc, Wait(p)
  PROVE  HostEffect(job[p].session) /\ JobsInv'
<1>. DEFINE j == [job[p] EXCEPT !.pc = "ready", !.cur = None, !.found = {}]
<1>1. HostEffect(job[p].session) /\ KeepsKnown
  BY HostEffectLemma DEF Wait, HostEffect
<1>2. job[p] \in Job /\ JobInv(conf', job[p]) /\ job[p].pc = "wait"
  BY <1>1, OthersKeep DEF JobsInv, Wait, At
<1>3. j \in Job
  BY <1>2 DEF Job, Resting
<1>4. JobInv(conf', j)
  BY <1>2 DEF JobInv, Job, Named, Holding, Restoring, Checking, Mounting, Untouched
<1>5. Become(p, j) \/ Fail(p)
  BY DEF Wait
<1>. HIDE DEF j
<1>. QED  BY <1>1, <1>3, <1>4, <1>5, BecomeKeepsJobs, FailKeepsJobs

(* A step of restore does to the host what a process of its session may    *)
(* do, and keeps what every process relies on.                             *)
LEMMA RestoreStepOK ==
  ASSUME HostInv, JobsInv, NEW p \in Proc, RestoreStep(p)
  PROVE  HostEffect(job[p].session) /\ JobsInv'
BY StartRestoreOK, InspectSourceOK, InspectTargetOK, CreateTargetOK, CheckCreateOK, CreateOK,
   CheckStartOK, CheckWaitOK, CheckDropOK, ListHelpersOK, RemoveUnexpectedOK, InspectOK,
   ReplaceOK, StartExistingOK, StartNewOK, RollbackOK, WaitOK DEF RestoreStep

-------------------------------------------------------------------------------
(* The steps of restore-cleanup.                                           *)

(* A restore-cleanup starts with no helper and no target.                  *)
LEMMA StartCleanupOK ==
  ASSUME HostInv, JobsInv, NEW p \in Proc, NEW session \in Session \union {None},
         StartCleanup(p, session)
  PROVE  HostEffect(job[p].session) /\ JobsInv'
<1>. DEFINE j == [Idle EXCEPT !.pc = "listall", !.session = session]
<1>1. HostEffect(job[p].session) /\ KeepsKnown
  BY HostEffectLemma DEF StartCleanup, HostEffect
<1>2. j \in Job
  BY DEF Idle, Job, Cleaning
<1>3. JobInv(conf', j)
  BY DEF Idle, JobInv, Named, Holding, Restoring, Checking, Mounting, Untouched
<1>. QED  BY <1>1, <1>2, <1>3, BecomeKeepsJobs DEF StartCleanup

(* restore-cleanup is at none of the labels a restore relies on.           *)
LEMMA NotRestoring ==
  ASSUME NEW label \in {"remove", "umount", "cleaned"}
  PROVE  /\ label \notin Restoring \union Mounting \union {"ready"} \union Named
         /\ label \notin Holding \union Untouched
BY DEF Named, Holding, Restoring, Checking, Mounting, Untouched

(* A container that isManagedRestoreHelperSummary accepts has a whole key. *)
LEMMA ManagedKey ==
  ASSUME NEW cf \in Conf, NEW session, IsManaged(cf, session)
  PROVE  OfSession(cf, session) /\ TargetKey(cf) \in Key
<1>1. cf.session \in Session /\ cf.source \in Volume /\ cf.target \in Volume /\ cf.friendly \in Name
  BY DEF IsManaged, Conf
<1>. QED  BY <1>1 DEF IsManaged, OfSession, TargetKey, Key

(* restoreHelpersBySession, less what isManagedRestoreHelperSummary        *)
(* rejects.                                                                *)
LEMMA CleanupListOK ==
  ASSUME HostInv, JobsInv, NEW p \in Proc, CleanupList(p)
  PROVE  HostEffect(job[p].session) /\ JobsInv'
<1>. DEFINE session == job[p].session
            helpers == {s \in Summaries(SessionContainers(session)) : IsManaged(s.conf, session)}
            keys == {TargetKey(s.conf) : s \in helpers}
            j1 == [job[p] EXCEPT !.pc = "remove", !.found = helpers, !.listed = helpers,
                                 !.targets = keys]
            j2 == [job[p] EXCEPT !.pc = "cleaned", !.errs = TRUE]
<1>1. HostEffect(job[p].session) /\ KeepsKnown /\ conf' = conf
  BY HostEffectLemma DEF CleanupList, HostEffect, host
<1>2. job[p] \in Job /\ JobInv(conf', job[p]) /\ job[p].pc = "listall"
  BY <1>1, OthersKeep DEF JobsInv, CleanupList, At
<1>3. \A s \in helpers : /\ s \in Summary
                         /\ OfSession(s.conf, session) /\ TargetKey(s.conf) \in Key
                         /\ conf'[s.id] = s.conf
  BY <1>1, ManagedKey
     DEF HostInv, HostType, KnownConf, Summaries, Summary, SessionContainers, Alive
<1>4. keys \subseteq Key
  BY <1>3
<1>5. j1 \in Job /\ j2 \in Job
  BY <1>2, <1>3, <1>4 DEF Job, Cleaning, Resting
<1>6. Become(p, j1) \/ Become(p, j2)
  BY DEF CleanupList
<1>. HIDE DEF keys
<1>7. JobInv(conf', j1)
  BY <1>2, <1>3, NotRestoring DEF JobInv, Job
<1>8. JobInv(conf', j2)
  BY <1>2, NotRestoring DEF JobInv, Job
<1>. HIDE DEF j1, j2
<1>. QED  BY <1>1, <1>5, <1>6, <1>7, <1>8, BecomeKeepsJobs

(* A helper of the list is removed, or its target is blocked.              *)
LEMMA RemoveHelperOK ==
  ASSUME HostInv, JobsInv, NEW p \in Proc, NEW s \in job[p].found, RemoveHelper(p, s)
  PROVE  HostEffect(job[p].session) /\ JobsInv'
<1>. DEFINE unsafe == s.conf.friendly \in UnsafeName
            j(failed) ==
              [job[p] EXCEPT
                 !.found = @ \ {s},
                 !.blocked = IF failed \/ unsafe THEN @ \union {TargetKey(s.conf)} ELSE @,
                 !.errs = @ \/ failed \/ unsafe]
<1>1. /\ s.id \in ContainerId
      /\ Alive(s.id) => OfSession(conf[s.id], job[p].session)
  BY FoundHelpers
<1>2. HostEffect(job[p].session)
  BY <1>1, RemoveEffect DEF RemoveHelper
<1>3. KeepsKnown
  BY <1>2, HostEffectLemma
<1>4. job[p] \in Job /\ JobInv(conf', job[p]) /\ job[p].pc = "remove" /\ s \in Summary
  BY <1>3, OthersKeep DEF JobsInv, RemoveHelper, At, Job
<1>5. TargetKey(s.conf) \in Key
  BY <1>4 DEF JobInv
<1>6. \A failed \in BOOLEAN : j(failed) \in Job
  BY <1>4, <1>5 DEF Job
<1>7. ASSUME NEW failed \in BOOLEAN
      PROVE  /\ j(failed).pc = "remove" /\ j(failed).found = job[p].found \ {s}
             /\ j(failed).listed = job[p].listed /\ job[p].blocked \subseteq j(failed).blocked
             /\ j(failed).blocked # {} => job[p].blocked # {} \/ j(failed).errs
             /\ failed => TargetKey(s.conf) \in j(failed).blocked
             /\ job[p].errs \/ unsafe => j(failed).errs
             /\ j(failed).session = job[p].session /\ j(failed).cur = job[p].cur
             /\ j(failed).exit = job[p].exit /\ j(failed).sawEmpty = job[p].sawEmpty
  BY <1>4 DEF Job
<1>8. \/ Become(p, j(TRUE))
      \/ ContainerRemove(s.id) /\ Become(p, j(FALSE))
  BY DEF RemoveHelper, Removed
<1>. HIDE DEF j
<1>9. JobInv(conf', j(TRUE))
  BY <1>4, <1>7, NotRestoring DEF JobInv
<1>10. ASSUME ContainerRemove(s.id) PROVE JobInv(conf', j(FALSE))
  <2>1. conf'[s.id] = None
    BY <1>1, <1>10 DEF ContainerRemove, Vanish, Alive, host, HostInv, HostType
  <2>. QED  BY <1>4, <1>7, <2>1, NotRestoring DEF JobInv
<1>. QED  BY <1>2, <1>3, <1>6, <1>8, <1>9, <1>10, BecomeKeepsJobs

(* The loop of RestoreCleanup over its targets goes on.                    *)
LEMMA NextTargetKeepsJobs ==
  ASSUME JobsInv, KeepsKnown, NEW p \in Proc, NEW key, NEW failed \in BOOLEAN,
         job[p].pc \in {"remove", "umount"}, job[p].found = {}, NextTarget(p, key, failed)
  PROVE  JobsInv'
<1>. DEFINE rest == job[p].targets \ {key}
            errs == job[p].errs \/ failed
            j == [job[p] EXCEPT !.pc = "remove", !.targets = rest, !.key = None, !.errs = errs]
<1>1. job[p] \in Job /\ JobInv(conf', job[p])
  BY OthersKeep DEF JobsInv
<1>2. j \in Job
  <2>1. "remove" \in Cleaning /\ rest \in SUBSET Key /\ errs \in BOOLEAN
    BY <1>1 DEF Cleaning, Job
  <2>. HIDE DEF rest, errs
  <2>. QED  BY <1>1, <2>1 DEF Job
<1>3. /\ j.pc = "remove" /\ j.found = {}
      /\ job[p].errs => j.errs
      /\ j.listed = job[p].listed /\ j.blocked = job[p].blocked
      /\ j.session = job[p].session /\ j.cur = job[p].cur
      /\ j.exit = job[p].exit /\ j.sawEmpty = job[p].sawEmpty
  BY <1>1 DEF Job
<1>. HIDE DEF j
<1>4. JobInv(conf', j)
  BY <1>1, <1>3, NotRestoring DEF JobInv
<1>. QED  BY <1>2, <1>4, BecomeKeepsJobs DEF NextTarget, j

(* A blocked target is passed over.                                        *)
LEMMA SkipBlockedOK ==
  ASSUME HostInv, JobsInv, NEW p \in Proc, NEW key \in job[p].targets, SkipBlocked(p, key)
  PROVE  HostEffect(job[p].session) /\ JobsInv'
<1>1. HostEffect(job[p].session) /\ KeepsKnown
  BY HostEffectLemma DEF SkipBlocked, HostEffect
<1>. QED  BY <1>1, NextTargetKeepsJobs DEF SkipBlocked, At

(* A target about to be unmounted is not blocked.                          *)
LEMMA CheckTargetOK ==
  ASSUME HostInv, JobsInv, NEW p \in Proc, NEW key \in job[p].targets, CheckTarget(p, key)
  PROVE  HostEffect(job[p].session) /\ JobsInv'
<1>. DEFINE j == [job[p] EXCEPT !.pc = "umount", !.key = key]
<1>1. HostEffect(job[p].session) /\ KeepsKnown
  BY HostEffectLemma DEF CheckTarget, HostEffect
<1>2. /\ job[p] \in Job /\ JobInv(conf', job[p])
      /\ job[p].pc = "remove" /\ job[p].found = {} /\ key \notin job[p].blocked
  BY <1>1, OthersKeep DEF JobsInv, CheckTarget, At
<1>3. key \in Key
  BY <1>2 DEF Job
<1>4. j \in Job
  BY <1>2, <1>3 DEF Job, Cleaning
<1>5. JobInv(conf', j)
  BY <1>2, <1>3, NotRestoring DEF JobInv, Job
<1>6. Become(p, j) \/ NextTarget(p, key, FALSE) \/ NextTarget(p, key, TRUE)
  BY DEF CheckTarget
<1>. HIDE DEF j
<1>. QED  BY <1>1, <1>2, <1>4, <1>5, <1>6, BecomeKeepsJobs, NextTargetKeepsJobs

(* The umount of a target, in the restore view.                            *)
LEMMA UmountTargetOK ==
  ASSUME HostInv, JobsInv, NEW p \in Proc, UmountTarget(p)
  PROVE  HostEffect(job[p].session) /\ JobsInv'
<1>1. job[p] \in Job /\ job[p].pc = "umount" /\ job[p].found = {} /\ job[p].key \in Key
  BY DEF JobsInv, JobInv, UmountTarget, At
<1>2. KeyName(job[p].key) \in Name
  BY <1>1 DEF Key, KeyName
<1>3. HostEffect(job[p].session)
  BY <1>2 DEF UmountTarget, HostEffect
<1>4. KeepsKnown
  BY <1>3, HostEffectLemma
<1>. QED  BY <1>1, <1>3, <1>4, NextTargetKeepsJobs DEF UmountTarget

(* The end of a restore-cleanup: no helper of its list is left to look at. *)
LEMMA CleanupDoneOK ==
  ASSUME HostInv, JobsInv, NEW p \in Proc, CleanupDone(p)
  PROVE  HostEffect(job[p].session) /\ JobsInv'
<1>. DEFINE j == [job[p] EXCEPT !.pc = "cleaned"]
<1>1. HostEffect(job[p].session) /\ KeepsKnown
  BY HostEffectLemma DEF CleanupDone, HostEffect
<1>2. job[p] \in Job /\ JobInv(conf', job[p]) /\ job[p].pc = "remove" /\ job[p].found = {}
  BY <1>1, OthersKeep DEF JobsInv, CleanupDone, At
<1>3. j \in Job
  BY <1>2 DEF Job, Resting
<1>4. JobInv(conf', j)
  BY <1>2, NotRestoring DEF JobInv, Job
<1>. QED  BY <1>1, <1>3, <1>4, BecomeKeepsJobs DEF CleanupDone, Goto

(* A step of restore-cleanup does the same.                                *)
LEMMA CleanupStepOK ==
  ASSUME HostInv, JobsInv, NEW p \in Proc, CleanupStep(p)
  PROVE  HostEffect(job[p].session) /\ JobsInv'
BY StartCleanupOK, CleanupListOK, RemoveHelperOK, SkipBlockedOK, CheckTargetOK,
   UmountTargetOK, CleanupDoneOK DEF CleanupStep

(* Every step of a process does to the host what a process of its session  *)
(* may do, and keeps what every process relies on.                         *)
LEMMA StepOK ==
  ASSUME HostInv, JobsInv, NEW p \in Proc, Step(p)
  PROVE  HostEffect(job[p].session) /\ JobsInv'
BY RestoreStepOK, CheckExitOK, CleanupStepOK DEF Step

-------------------------------------------------------------------------------
(* The invariant.                                                          *)

(* The invariant holds when no command has run yet.                        *)
LEMMA InitInv == Init => Inv
<1>. SUFFICES ASSUME Init PROVE Inv
  OBVIOUS
<1>1. HostInv
  <2>1. \A at \in MountPoint : mounts[at] \in Seq(Volume)
    BY DEF Init
  <2>. QED  BY <2>1 DEF Init, HostInv, HostType, Alive
<1>2. Idle \in Job /\ \A k : JobInv(k, Idle)
  BY IdleOK
<1>3. content \in [Volume -> {"absent", "empty", "data"}]
  BY VolumesAssumption DEF Init
<1>. QED  BY <1>1, <1>2, <1>3 DEF Init, Inv, JobsInv

(* A step of a process changes the volumes by creating one, if at all.     *)
LEMMA StepContent ==
  ASSUME content \in [Volume -> {"absent", "empty", "data"}], NEW p, Step(p)
  PROVE  content' \in [Volume -> {"absent", "empty", "data"}]
<1>1. UNCHANGED content \/ CreateTarget(p)
  BY DEF Step, RestoreStep, CleanupStep, StartRestore, InspectSource, InspectTarget,
     CheckCreate, Create, CheckStart, CheckWait, CheckDrop, ListHelpers, RemoveUnexpected,
     Inspect, Replace, StartExisting, StartNew, Rollback, Wait, CheckExit, StartCleanup,
     CleanupList, RemoveHelper, SkipBlocked, CheckTarget, UmountTarget, CleanupDone
<1>. QED  BY <1>1 DEF CreateTarget

(* The volumes are what they are, whatever a step does to them.            *)
LEMMA ContentType ==
  ASSUME Inv, Next
  PROVE  content' \in [Volume -> {"absent", "empty", "data"}]
<1>1. CASE UNCHANGED content
  BY <1>1 DEF Inv
<1>2. CASE \E v \in Volume : Write(v)
  BY <1>2 DEF Inv, Write
<1>3. CASE Environment
  BY <1>1, <1>2, <1>3 DEF Environment, Dies, ForeignCreate, ForeignStart, LateUmount
<1>. QED  BY <1>1, <1>3, StepContent DEF Next, Crash, Inv

(* A process is killed between two calls.                                  *)
LEMMA CrashKeepsJobs ==
  ASSUME HostInv, JobsInv, NEW p \in Proc, Crash(p)
  PROVE  HostInv' /\ JobsInv'
<1>1. HostInv' /\ KeepsKnown
  BY HostEffectLemma DEF Crash, HostEffect
<1>2. Idle \in Job /\ JobInv(conf', Idle)
  BY IdleOK
<1>. QED  BY <1>1, <1>2, BecomeKeepsJobs DEF Crash

(* Containers that end, those that others create and start, and umounts by *)
(* others.                                                                 *)
LEMMA EnvironmentKeeps ==
  ASSUME HostInv, JobsInv, Environment
  PROVE  HostInv' /\ JobsInv'
<1>1. Foreign \subseteq KnownConf
  BY ForeignAssumption DEF ConfOK, KnownConf
<1>2. HostInv' /\ KeepsKnown
  <2>1. CASE \E c \in ContainerId : Dies(c) \/ ForeignStart(c)
    <3>1. PICK c \in ContainerId : Changes(c)
      BY <2>1 DEF Dies, ForeignStart, Changes
    <3>. QED  BY <3>1, KnownConfMounts, ChangesKeepType, ChangesOne
              DEF KeepsKnown, HostInv, HostType
  <2>2. CASE \E c \in ContainerId, cf \in Foreign : ForeignCreate(c, cf)
    <3>1. PICK c \in ContainerId, cf \in KnownConf : Fresh(c) /\ ContainerCreate(c, cf)
      BY <1>1, <2>2 DEF ForeignCreate
    <3>. QED  BY <3>1, KnownConfMounts, CreateKeepsType
              DEF KeepsKnown, HostInv, HostType, ContainerCreate
  <2>3. CASE \E at \in MountPoint : LateUmount(at)
    BY <2>3, UmountKeepsType DEF LateUmount, Umount, KeepsKnown, HostInv
  <2>4. CASE \E v \in Volume : Write(v)
    BY <2>4 DEF Write, KeepsKnown, host, HostInv, HostType, Alive
  <2>. QED  BY <2>1, <2>2, <2>3, <2>4 DEF Environment
<1>3. job' = job
  BY DEF Environment, Dies, ForeignCreate, ForeignStart, LateUmount, Write
<1>. QED  BY <1>2, <1>3, OthersKeep DEF JobsInv

(* Every step keeps the invariant.                                         *)
LEMMA NextInv == Inv /\ [Next]_vars => Inv'
<1>. SUFFICES ASSUME Inv, [Next]_vars PROVE Inv'
  OBVIOUS
<1>1. CASE UNCHANGED vars
  BY <1>1 DEF vars, Inv, HostInv, HostType, JobsInv, Alive
<1>2. CASE Next
  <2>1. content' \in [Volume -> {"absent", "empty", "data"}]
    BY <1>2, ContentType
  <2>2. HostInv' /\ JobsInv'
    BY <1>2, StepOK, HostEffectLemma, CrashKeepsJobs, EnvironmentKeeps DEF Next, Inv
  <2>3. alone' \in [Proc -> BOOLEAN]
    BY <1>2 DEF Next, Alone, Disturbed, Inv
  <2>. QED  BY <2>1, <2>2, <2>3 DEF Inv
<1>. QED  BY <1>1, <1>2

(* Inv is an invariant of the system.                                      *)
THEOREM Invariance == Spec => []Inv
BY InitInv, NextInv, PTL DEF Spec

-------------------------------------------------------------------------------
(* Every variable of the daemon, of the mount table, of the volumes and of *)
(* the processes always holds a value of its kind.                         *)
THEOREM TypeCorrectness == Spec => []TypeOK
<1>1. Inv => TypeOK
  BY DEF Inv, HostInv, HostType, KnownConf, JobsInv, TypeOK
<1>. QED  BY <1>1, Invariance, PTL

(* No restore without the dangerous flag gets to a helper that could write *)
(* to its target unless its own check has seen the target empty, whatever  *)
(* happens to the check container, to the calls or to other restores.      *)
THEOREM CheckedBeforeMount == Spec => []NoOverwrite
<1>1. Inv => NoOverwrite
  BY DEF Inv, JobsInv, JobInv, NoOverwrite
<1>. QED  BY <1>1, Invariance, PTL

(* restore-cleanup unmounts for no session, source and target of which it  *)
(* knows a helper that is still there.                                     *)
THEOREM TwoPhases == Spec => []UmountAfterRemoval
<1>1. Inv => UmountAfterRemoval
  BY DEF Inv, JobsInv, JobInv, UmountAfterRemoval, At, Alive
<1>. QED  BY <1>1, Invariance, PTL

(* A restore-cleanup that exits with 0 has removed every helper it listed, *)
(* none of them with a friendly name it must not unmount.                  *)
THEOREM ExitCode == Spec => []CleanupExit
<1>1. Inv => CleanupExit
  BY DEF Inv, JobsInv, JobInv, CleanupExit, At, Alive
<1>. QED  BY <1>1, Invariance, PTL

(* What a process of a session does to the host leaves the containers of   *)
(* other sessions as they are.                                             *)
LEMMA EffectKeepsSessions ==
  ASSUME HostInv, NEW session, session # None, HostEffect(session),
         NEW c \in ContainerId, Alive(c), conf[c].session # session
  PROVE  conf'[c] = conf[c] /\ (c \in running <=> c \in running')
<1>1. CASE UNCHANGED host
  BY <1>1 DEF host
<1>2. CASE \E d \in ContainerId : /\ Alive(d) => OfSession(conf[d], session)
                                  /\ Changes(d)
  <2>1. PICK d \in ContainerId : (Alive(d) => OfSession(conf[d], session)) /\ Changes(d)
    BY <1>2
  <2>2. d # c
    BY <2>1, ChangesOne DEF OfSession, InSession, HostInv
  <2>. QED  BY <2>1, <2>2, ChangesOne DEF HostInv
<1>3. CASE \E d \in ContainerId, cf \in KnownConf : Fresh(d) /\ ContainerCreate(d, cf)
  BY <1>3 DEF ContainerCreate, HostInv, HostType
<1>4. CASE \E f \in Name : Umount(CleanupAt(f))
  BY <1>4 DEF Umount
<1>. QED  BY <1>1, <1>2, <1>3, <1>4 DEF HostEffect

(* A restore, and a restore-cleanup with a session, neither starts nor     *)
(* removes a container of another session.                                 *)
THEOREM SessionsApart == Spec => SessionOnly
<1>1. Inv /\ [Next]_vars => [LeavesOtherSessions]_vars
  <2>. SUFFICES ASSUME Inv, Next PROVE LeavesOtherSessions
    OBVIOUS
  <2>1. ASSUME NEW p \in Proc, job'[p] # job[p], NEW q \in Proc, Step(q) PROVE q = p
    <3>1. \E j : Become(q, j)
      BY <2>1 DEF Step, RestoreStep, CleanupStep, StartRestore, InspectSource, InspectTarget,
         CreateTarget, TargetReady, CheckCreate, Create, CheckStart, CheckWait, CheckDrop,
         ListHelpers, RemoveUnexpected, RemoveAndGoOn, Inspect, Replace, StartExisting,
         StartNew, Rollback, Wait, CheckExit, StartCleanup, CleanupList, RemoveHelper, Removed,
         SkipBlocked, CheckTarget, UmountTarget, CleanupDone, NextTarget, NextHelper, Fail, Goto
    <3>. QED  BY <2>1, <3>1 DEF Become, Inv, JobsInv
  <2>2. CASE \E p \in Proc : Step(p)
    BY <2>1, <2>2, StepOK, EffectKeepsSessions DEF LeavesOtherSessions, Inv
  <2>3. CASE \E p \in Proc : Crash(p)
    BY <2>3 DEF Crash, host, LeavesOtherSessions
  <2>4. CASE Environment
    BY <2>4 DEF Environment, Dies, ForeignCreate, ForeignStart, LateUmount, Write,
               LeavesOtherSessions
  <2>. QED  BY <2>2, <2>3, <2>4 DEF Next
<1>. QED  BY <1>1, Invariance, PTL DEF Spec, SessionOnly

-------------------------------------------------------------------------------
(* The promise of a restore that nobody disturbs: when it exits with 0 its *)
(* helper runs, its path is a mount and its target is still empty,         *)
(* whatever containers it found, whichever of its calls failed before and  *)
(* whatever stood on the daemon at its start.  A find that fails shows     *)
(* nothing, as an empty volume does: the promise is for a find that works. *)

HelperRuns(j) == \E c \in running : conf[c] = HelperOptions(j)

(* What a restore with local state j has made sure of, as long as it is    *)
(* alone.                                                                  *)
Assured(j) ==
  /\ j.pc \in {"source", "target", "volume"} => j.exit = "none"
  /\ j.pc \in Checking => content[j.target] # "absent"
  /\ j.pc \in Checking /\ j.exit = "zero" => content[j.target] = "empty"
  /\ j.pc \in Mounting \union {"ready"} /\ ~j.force => content[j.target] = "empty"
  /\ j.pc \in {"start", "startnew"} => conf[j.cur] = HelperOptions(j)
  /\ j.pc \in {"wait", "ready"} => HelperRuns(j)
  /\ j.pc = "ready" => mounts[RestoreAt(FriendlyName[j.source])] # <<>>

SoloInv == \A p \in Proc : alone[p] => Assured(job[p])

-------------------------------------------------------------------------------
(* What a step leaves of the promise of the process that takes it.         *)

Promised(p) == Assured(job[p])

(* The local state a step gives to a process.                              *)
LEMMA Becomes ==
  ASSUME JobsInv, NEW p \in Proc, NEW j, Become(p, j)
  PROVE  job'[p] = j
BY DEF JobsInv, Become

(* Nothing is promised by a restore that has failed.                       *)
LEMMA FailPromise ==
  ASSUME JobsInv, NEW p \in Proc, Fail(p)
  PROVE  Promised(p)'
<1>. DEFINE j == [Idle EXCEPT !.pc = "failed"]
<1>1. job'[p] = j /\ j.pc = "failed"
  BY Becomes DEF Fail, Idle
<1>. QED  BY <1>1 DEF Promised, Assured, Checking, Mounting

(* The steps up to the creation of the check container: the target is      *)
(* there when they are over, and no check has ended.                       *)
LEMMA InspectionPromise ==
  ASSUME Inv, NEW p \in Proc, Promised(p),
         InspectSource(p) \/ InspectTarget(p) \/ CreateTarget(p)
  PROVE  Promised(p)'
<1>1. job[p] \in Job /\ job[p].pc \in {"source", "target", "volume"} /\ job[p].exit = "none"
  BY DEF Inv, JobsInv, Promised, Assured, InspectSource, InspectTarget, CreateTarget, At
<1>2. CASE Fail(p)
  BY <1>2, FailPromise DEF Inv
<1>3. CASE Goto(p, "target") \/ Goto(p, "volume")
  <2>1. PICK label \in {"target", "volume"} : Goto(p, label)
    BY <1>3
  <2>2. job'[p] = [job[p] EXCEPT !.pc = label]
    BY <2>1, Becomes DEF Goto, Inv
  <2>. QED  BY <1>1, <2>2 DEF Promised, Assured, Checking, Mounting, Job
<1>4. CASE TargetReady(p) /\ content'[job[p].target] # "absent"
  <2>1. PICK label \in {"list", "check"} : Goto(p, label) /\ (label = "list" => job[p].force)
    BY <1>4 DEF TargetReady
  <2>2. job'[p] = [job[p] EXCEPT !.pc = label]
    BY <2>1, Becomes DEF Goto, Inv
  <2>. QED  BY <1>1, <1>4, <2>1, <2>2 DEF Promised, Assured, Checking, Mounting, Job
<1>5. CASE InspectTarget(p)
  BY <1>2, <1>3, <1>4, <1>5 DEF InspectTarget
<1>6. CASE CreateTarget(p)
  <2>1. job[p].target \in Volume
    BY <1>6 DEF Inv, JobsInv, JobInv, Restoring, CreateTarget, At
  <2>2. Fail(p) \/ (TargetReady(p) /\ content'[job[p].target] # "absent")
    BY <1>6, <2>1 DEF CreateTarget, Inv
  <2>. QED  BY <1>2, <1>4, <2>2
<1>. QED  BY <1>2, <1>3, <1>5, <1>6 DEF InspectSource

(* The check, from its creation to its exit: an exit code of zero is that  *)
(* of a find that saw the target empty.                                    *)
LEMMA CheckPromise ==
  ASSUME "find" \notin Trouble, Inv, NEW p \in Proc, Promised(p),
         \/ CheckStart(p) \/ CheckExit(p) \/ CheckWait(p) \/ CheckDrop(p)
         \/ \E c \in ContainerId : CheckCreate(p, c)
  PROVE  Promised(p)'
<1>1. job[p] \in Job /\ job[p].pc \in Checking /\ content' = content
  BY DEF Inv, JobsInv, CheckStart, CheckExit, CheckWait, CheckDrop, CheckCreate, At, Checking
<1>2. content[job[p].target] # "absent" /\ (job[p].exit = "zero" => content[job[p].target] = "empty")
  BY <1>1 DEF Promised, Assured
<1>3. CASE Fail(p)
  BY <1>3, FailPromise DEF Inv
<1>4. ASSUME NEW j, Become(p, j), j.pc \in Checking, j.target = job[p].target,
             j.exit = "zero" => content[job[p].target] = "empty"
      PROVE  Promised(p)'
  <2>1. job'[p] = j
    BY <1>4, Becomes DEF Inv
  <2>. QED  BY <1>1, <1>2, <1>4, <2>1 DEF Promised, Assured, Checking, Mounting
<1>5. CASE \E c \in ContainerId : CheckCreate(p, c)
  <2>1. PICK c \in ContainerId : CheckCreate(p, c)
    BY <1>5
  <2>. DEFINE j == [job[p] EXCEPT !.pc = "checkstart", !.cur = c]
  <2>2. j.pc \in Checking /\ j.target = job[p].target /\ j.exit = job[p].exit
    BY <1>1 DEF Job, Checking
  <2>3. Become(p, j) \/ Fail(p)
    BY <2>1 DEF CheckCreate
  <2>. HIDE DEF j
  <2>. QED  BY <1>2, <1>3, <1>4, <2>2, <2>3
<1>6. CASE CheckStart(p) \/ CheckWait(p)
  <2>. DEFINE j1 == [job[p] EXCEPT !.pc = "checkwait"]
              j2 == [job[p] EXCEPT !.pc = "checkdrop"]
              j3 == [job[p] EXCEPT !.pc = "checkdrop", !.exit = "nonzero"]
  <2>1. /\ j1.pc \in Checking /\ j1.target = job[p].target /\ j1.exit = job[p].exit
        /\ j2.pc \in Checking /\ j2.target = job[p].target /\ j2.exit = job[p].exit
        /\ j3.pc \in Checking /\ j3.target = job[p].target /\ j3.exit = "nonzero"
    BY <1>1 DEF Job, Checking
  <2>2. Become(p, j1) \/ Become(p, j2) \/ Become(p, j3)
    BY <1>6 DEF CheckStart, CheckWait, Goto
  <2>. HIDE DEF j1, j2, j3
  <2>. QED  BY <1>2, <1>4, <2>1, <2>2
<1>7. CASE CheckExit(p)
  <2>1. PICK shown \in BOOLEAN :
          /\ shown = (content[job[p].target] = "data") \/ (~shown /\ May("find"))
          /\ Become(p, [job[p] EXCEPT !.exit = IF shown THEN "nonzero" ELSE "zero",
                                      !.sawEmpty = ~shown])
    BY <1>7 DEF CheckExit
  <2>. DEFINE j == [job[p] EXCEPT !.exit = IF shown THEN "nonzero" ELSE "zero",
                                  !.sawEmpty = ~shown]
  <2>2. job[p].target \in Volume
    BY <1>1 DEF Inv, JobsInv, JobInv, Restoring
  <2>3. ~shown => content[job[p].target] = "empty"
    BY <1>2, <2>1, <2>2 DEF Inv, May
  <2>4. j.pc \in Checking /\ j.target = job[p].target /\ (j.exit = "zero" => ~shown)
    BY <1>1 DEF Job
  <2>5. Become(p, j)
    BY <2>1
  <2>. HIDE DEF j
  <2>. QED  BY <1>4, <2>3, <2>4, <2>5
<1>8. CASE CheckDrop(p)
  <2>. DEFINE j == [job[p] EXCEPT !.pc = "list", !.cur = None]
  <2>1. CASE job[p].exit = "zero" /\ Become(p, j)
    <3>1. job'[p] = j /\ j.pc = "list" /\ j.target = job[p].target
      BY <1>1, <2>1, Becomes DEF Inv, Job
    <3>2. content[job[p].target] = "empty"
      BY <1>2, <2>1
    <3>. QED  BY <1>1, <3>1, <3>2 DEF Promised, Assured, Checking, Mounting
  <2>. QED  BY <1>3, <1>8, <2>1 DEF CheckDrop
<1>. QED  BY <1>5, <1>6, <1>7, <1>8

(* The loop of ensureRestoreHelper and the wait: the helper that runs in   *)
(* the end is one that restoreHelperMatches accepts or the one created.    *)
LEMMA HelperPromise ==
  ASSUME Inv, NEW p \in Proc, Promised(p),
         \/ ListHelpers(p) \/ Replace(p) \/ StartExisting(p) \/ StartNew(p) \/ Rollback(p)
         \/ Wait(p) \/ \E c \in ContainerId : Create(p, c)
         \/ \E s \in job[p].found : RemoveUnexpected(p, s) \/ Inspect(p, s)
  PROVE  Promised(p)'
<1>1. job[p] \in Job /\ job[p].pc \in Mounting /\ content' = content
  BY DEF Inv, JobsInv, ListHelpers, Replace, StartExisting, StartNew, Rollback, Wait, Create,
         RemoveUnexpected, Inspect, At, Mounting
<1>2. ~job[p].force => content[job[p].target] = "empty"
  BY <1>1 DEF Promised, Assured
<1>3. CASE Fail(p)
  BY <1>3, FailPromise DEF Inv
<1>. DEFINE options == HelperOptions(job[p])
            Same(j) == /\ j.session = job[p].session /\ j.source = job[p].source
                       /\ j.target = job[p].target /\ j.image = job[p].image
                       /\ j.force = job[p].force
<1>4. ASSUME NEW j, Become(p, j), j.pc \in Mounting \union {"ready"}, Same(j),
             j.pc \in {"start", "startnew"} => conf'[j.cur] = options,
             j.pc \in {"wait", "ready"} => \E c \in running' : conf'[c] = options,
             j.pc = "ready" => mounts'[RestoreAt(FriendlyName[j.source])] # <<>>
      PROVE  Promised(p)'
  <2>1. job'[p] = j
    BY <1>4, Becomes DEF Inv
  <2>2. HelperOptions(j) = options
    BY <1>4 DEF HelperOptions
  <2>. HIDE DEF options
  <2>. QED  BY <1>1, <1>2, <1>4, <2>1, <2>2 DEF Promised, Assured, HelperRuns, Checking, Mounting
<1>5. ASSUME NEW label \in {"wait", "rollback"}, Goto(p, label),
             label = "wait" => \E c \in running' : conf'[c] = options
      PROVE  Promised(p)'
  <2>. DEFINE j == [job[p] EXCEPT !.pc = label]
  <2>1. j.pc = label /\ Same(j)
    BY <1>1 DEF Job
  <2>2. Become(p, j)
    BY <1>5 DEF Goto
  <2>. HIDE DEF j, options
  <2>. QED  BY <1>4, <1>5, <2>1, <2>2 DEF Mounting
<1>6. ASSUME NEW c, NextHelper(p, c)
      PROVE  Promised(p)'
  <2>. DEFINE j == [job[p] EXCEPT !.pc = "scan", !.cur = None, !.found = {s \in @ : s.id # c}]
  <2>1. j.pc = "scan" /\ Same(j)
    BY <1>1 DEF Job
  <2>2. Become(p, j)
    BY <1>6 DEF NextHelper
  <2>. HIDE DEF j, options
  <2>. QED  BY <1>4, <2>1, <2>2 DEF Mounting
<1>7. CASE ListHelpers(p)
  <2>. DEFINE j == [job[p] EXCEPT !.pc = "scan",
                                  !.found = Summaries(SessionContainers(job[p].session))]
  <2>1. j.pc = "scan" /\ Same(j)
    BY <1>1 DEF Job
  <2>2. Become(p, j) \/ Fail(p)
    BY <1>7 DEF ListHelpers
  <2>. HIDE DEF j, options
  <2>. QED  BY <1>3, <1>4, <2>1, <2>2 DEF Mounting
<1>8. CASE Replace(p) \/ Rollback(p) \/ \E s \in job[p].found : RemoveUnexpected(p, s)
  BY <1>3, <1>6, <1>8 DEF Replace, Rollback, RemoveUnexpected, RemoveAndGoOn
<1>9. CASE \E s \in job[p].found : Inspect(p, s)
  <2>1. PICK s \in job[p].found : Inspect(p, s)
    BY <1>9
  <2>. DEFINE j(label) == [job[p] EXCEPT !.pc = label, !.cur = s.id]
  <2>2. \A label : j(label).pc = label /\ j(label).cur = s.id /\ Same(j(label))
    BY <1>1 DEF Job
  <2>3. UNCHANGED host
    BY <2>1 DEF Inspect
  <2>4. \/ NextHelper(p, s.id) \/ Fail(p)
        \/ Become(p, j("replace"))
        \/ Become(p, j("start")) /\ conf'[s.id] = options
        \/ Goto(p, "wait") /\ \E c \in running' : conf'[c] = options
    BY <2>1, <2>3 DEF Inspect, HelperMatches, host
  <2>. HIDE DEF j, options, Same
  <2>5. CASE Become(p, j("replace"))
    BY <1>4, <2>2, <2>5 DEF Mounting
  <2>6. CASE Become(p, j("start")) /\ conf'[s.id] = options
    BY <1>4, <2>2, <2>6 DEF Mounting
  <2>. QED  BY <1>3, <1>5, <1>6, <2>4, <2>5, <2>6
<1>10. CASE StartExisting(p) \/ StartNew(p)
  <2>. DEFINE c == job[p].cur
  <2>1. conf[c] = options /\ c \in ContainerId
    BY <1>10 DEF Promised, Assured, StartExisting, StartNew, At, Inv, JobsInv, JobInv, Holding
  <2>2. ASSUME ContainerStart(c) PROVE \E d \in running' : conf'[d] = options
    BY <2>1, <2>2 DEF ContainerStart
  <2>3. \/ Goto(p, "wait") /\ ContainerStart(c)
        \/ Goto(p, "rollback") \/ NextHelper(p, c) \/ Fail(p)
    BY <1>10 DEF StartExisting, StartNew
  <2>. HIDE DEF options
  <2>. QED  BY <1>3, <1>5, <1>6, <2>2, <2>3
<1>11. CASE \E c \in ContainerId : Create(p, c)
  <2>1. PICK c \in ContainerId : Create(p, c)
    BY <1>11
  <2>. DEFINE j == [job[p] EXCEPT !.pc = "startnew", !.cur = c]
  <2>2. j.pc = "startnew" /\ j.cur = c /\ Same(j)
    BY <1>1 DEF Job
  <2>3. ASSUME ContainerCreate(c, options) PROVE conf'[c] = options
    BY <2>3 DEF ContainerCreate, Inv, HostInv, HostType
  <2>4. Fail(p) \/ (ContainerCreate(c, options) /\ Become(p, j))
    BY <2>1 DEF Create
  <2>. HIDE DEF j, options, Same
  <2>. QED  BY <1>3, <1>4, <2>2, <2>3, <2>4 DEF Mounting
<1>12. CASE Wait(p)
  <2>. DEFINE j == [job[p] EXCEPT !.pc = "ready", !.cur = None, !.found = {}]
  <2>1. j.pc = "ready" /\ Same(j)
    BY <1>1 DEF Job
  <2>2. HelperRuns(job[p]) /\ UNCHANGED host
    BY <1>12 DEF Promised, Assured, Wait, At
  <2>3. \/ Fail(p)
        \/ Become(p, j) /\ mounts[RestoreAt(FriendlyName[job[p].source])] # <<>>
    BY <1>12 DEF Wait
  <2>4. \E c \in running' : conf'[c] = options
    BY <2>2 DEF HelperRuns, host
  <2>. HIDE DEF j, options
  <2>. QED  BY <1>3, <1>4, <2>1, <2>2, <2>3, <2>4 DEF host
<1>. QED  BY <1>7, <1>8, <1>9, <1>10, <1>11, <1>12

(* What restore-cleanup does is not part of the promise.                   *)
LEMMA CleanupPromise ==
  ASSUME Inv, NEW p \in Proc, CleanupStep(p)
  PROVE  Promised(p)'
<1>. DEFINE Labels == {"listall", "remove", "umount", "cleaned"}
<1>1. job[p] \in Job
  BY DEF Inv, JobsInv
<1>2. ASSUME NEW j, Become(p, j), j.pc \in Labels
      PROVE  Promised(p)'
  <2>1. job'[p] = j
    BY <1>2, Becomes DEF Inv
  <2>. QED  BY <1>2, <2>1 DEF Promised, Assured, Checking, Mounting
<1>3. CASE \E session \in Session \union {None} : StartCleanup(p, session)
  <2>1. PICK session \in Session \union {None} : StartCleanup(p, session)
    BY <1>3
  <2>. DEFINE j == [Idle EXCEPT !.pc = "listall", !.session = session]
  <2>2. j.pc = "listall" /\ Become(p, j)
    BY <2>1 DEF StartCleanup, Idle
  <2>. HIDE DEF j
  <2>. QED  BY <1>2, <2>2
<1>4. CASE CleanupList(p)
  <2>. DEFINE helpers == {s \in Summaries(SessionContainers(job[p].session)) :
                            IsManaged(s.conf, job[p].session)}
              j1 == [job[p] EXCEPT !.pc = "remove", !.found = helpers, !.listed = helpers,
                                   !.targets = {TargetKey(s.conf) : s \in helpers}]
              j2 == [job[p] EXCEPT !.pc = "cleaned", !.errs = TRUE]
  <2>1. j1.pc = "remove" /\ j2.pc = "cleaned"
    BY <1>1 DEF Job
  <2>2. Become(p, j1) \/ Become(p, j2)
    BY <1>4 DEF CleanupList
  <2>. HIDE DEF j1, j2
  <2>. QED  BY <1>2, <2>1, <2>2
<1>5. ASSUME NEW s, NEW failed, Removed(p, s, failed), At(p, "remove")
      PROVE  Promised(p)'
  <2>. DEFINE unsafe == s.conf.friendly \in UnsafeName
              blocked == IF failed \/ unsafe THEN job[p].blocked \union {TargetKey(s.conf)}
                                            ELSE job[p].blocked
              errs == job[p].errs \/ failed \/ unsafe
              j == [job[p] EXCEPT !.found = job[p].found \ {s}, !.blocked = blocked, !.errs = errs]
  <2>1. Become(p, j)
    BY <1>5 DEF Removed
  <2>. HIDE DEF blocked, errs
  <2>2. j.pc = "remove"
    BY <1>1, <1>5 DEF Job, At
  <2>. HIDE DEF j
  <2>. QED  BY <1>2, <2>1, <2>2
<1>6. ASSUME NEW key, NEW failed, NextTarget(p, key, failed)
      PROVE  Promised(p)'
  <2>. DEFINE errs == job[p].errs \/ failed
              j == [job[p] EXCEPT !.pc = "remove", !.targets = job[p].targets \ {key},
                                  !.key = None, !.errs = errs]
  <2>1. Become(p, j)
    BY <1>6 DEF NextTarget
  <2>. HIDE DEF errs
  <2>2. j.pc = "remove"
    BY <1>1 DEF Job
  <2>. HIDE DEF j
  <2>. QED  BY <1>2, <2>1, <2>2
<1>7. ASSUME NEW key, CheckTarget(p, key)
      PROVE  Promised(p)'
  <2>. DEFINE j == [job[p] EXCEPT !.pc = "umount", !.key = key]
  <2>1. j.pc = "umount"
    BY <1>1 DEF Job
  <2>2. Become(p, j) \/ NextTarget(p, key, FALSE) \/ NextTarget(p, key, TRUE)
    BY <1>7 DEF CheckTarget
  <2>. HIDE DEF j
  <2>. QED  BY <1>2, <1>6, <2>1, <2>2
<1>8. CASE CleanupDone(p)
  <2>. DEFINE j == [job[p] EXCEPT !.pc = "cleaned"]
  <2>1. j.pc = "cleaned" /\ Become(p, j)
    BY <1>1, <1>8 DEF CleanupDone, Goto, Job
  <2>. HIDE DEF j
  <2>. QED  BY <1>2, <2>1
<1>9. CASE \E s \in job[p].found : RemoveHelper(p, s)
  BY <1>5, <1>9 DEF RemoveHelper
<1>10. CASE \E key \in job[p].targets : SkipBlocked(p, key) \/ CheckTarget(p, key)
  BY <1>6, <1>7, <1>10 DEF SkipBlocked
<1>11. CASE UmountTarget(p)
  BY <1>6, <1>11 DEF UmountTarget
<1>. QED  BY <1>3, <1>4, <1>8, <1>9, <1>10, <1>11 DEF CleanupStep

(* A restore starts with nothing to keep.                                  *)
LEMMA StartPromise ==
  ASSUME Inv, NEW p \in Proc, NEW s, NEW t, NEW session, NEW image, NEW force, NEW same,
         StartRestore(p, s, t, session, image, force, same)
  PROVE  Promised(p)'
<1>1. CASE Fail(p)
  BY <1>1, FailPromise DEF Inv
<1>2. CASE Become(p, [Idle EXCEPT !.pc = "source", !.source = s, !.target = t,
                                  !.session = session, !.image = image, !.force = force])
  <2>. DEFINE j == [Idle EXCEPT !.pc = "source", !.source = s, !.target = t,
                                !.session = session, !.image = image, !.force = force]
  <2>1. j.pc = "source" /\ j.exit = "none"
    BY DEF Idle
  <2>. HIDE DEF j
  <2>2. job'[p] = j
    BY <1>2, Becomes DEF Inv, j
  <2>. QED  BY <2>1, <2>2 DEF Promised, Assured, Checking, Mounting
<1>. QED  BY <1>1, <1>2 DEF StartRestore

(* A process that moves keeps its own promise, be it new or one it had.    *)
LEMMA StepPromise ==
  ASSUME "find" \notin Trouble, Inv, NEW p \in Proc, Step(p),
         job[p].pc \notin Resting => Promised(p)
  PROVE  Promised(p)'
<1>1. CASE \E s \in Sources, t \in Targets, session \in Session, image \in Image,
              force, same \in BOOLEAN : StartRestore(p, s, t, session, image, force, same)
  BY <1>1, StartPromise
<1>2. CASE CleanupStep(p)
  BY <1>2, CleanupPromise
<1>3. CASE InspectSource(p) \/ InspectTarget(p) \/ CreateTarget(p)
  <2>1. job[p].pc \notin Resting
    BY <1>3 DEF InspectSource, InspectTarget, CreateTarget, At, Resting
  <2>. QED  BY <1>3, <2>1, InspectionPromise
<1>4. CASE \/ CheckStart(p) \/ CheckExit(p) \/ CheckWait(p) \/ CheckDrop(p)
           \/ \E c \in ContainerId : CheckCreate(p, c)
  <2>1. job[p].pc \notin Resting
    BY <1>4 DEF CheckStart, CheckExit, CheckWait, CheckDrop, CheckCreate, At, Resting
  <2>. QED  BY <1>4, <2>1, CheckPromise
<1>5. CASE \/ ListHelpers(p) \/ Replace(p) \/ StartExisting(p) \/ StartNew(p) \/ Rollback(p)
           \/ Wait(p) \/ \E c \in ContainerId : Create(p, c)
           \/ \E s \in job[p].found : RemoveUnexpected(p, s) \/ Inspect(p, s)
  <2>1. job[p].pc \notin Resting
    BY <1>5 DEF ListHelpers, Replace, StartExisting, StartNew, Rollback, Wait, Create,
                RemoveUnexpected, Inspect, At, Resting
  <2>. QED  BY <1>5, <2>1, HelperPromise
<1>. QED  BY <1>1, <1>2, <1>3, <1>4, <1>5 DEF Step, RestoreStep

-------------------------------------------------------------------------------
(* The promise.                                                            *)

(* Where a find that fails does not occur, a restore that exits with 0 and *)
(* that nobody disturbed has a helper of its own configuration running and *)
(* a mount on its path, and its target is still empty.                     *)
THEOREM UndisturbedRestore ==
  ASSUME "find" \notin Trouble
  PROVE  Spec => []SoloRestore
<1>1. Init => SoloInv
  BY DEF Init, SoloInv
<1>2. Inv /\ SoloInv /\ [Next]_vars => SoloInv'
  <2>. SUFFICES ASSUME Inv, SoloInv, [Next]_vars, NEW p \in Proc, alone'[p]
                PROVE  Promised(p)'
    BY DEF SoloInv, Promised
  <2>1. CASE \E q \in Proc : Step(q) /\ Alone(q)
    <3>1. Step(p) /\ (job[p].pc \in Resting \/ alone[p])
      BY <2>1 DEF Alone
    <3>. QED  BY <3>1, StepPromise DEF SoloInv, Promised
  <2>2. CASE Disturbed
    BY <2>2 DEF Disturbed
  <2>3. CASE UNCHANGED vars
    BY <2>3 DEF vars, SoloInv, Promised, Assured, HelperRuns
  <2>. QED  BY <2>1, <2>2, <2>3 DEF Next
<1>3. SoloInv => SoloRestore
  BY DEF SoloInv, SoloRestore, Assured, HelperRuns, At
<1>. QED  BY <1>1, <1>2, <1>3, Invariance, PTL DEF Spec
===============================================================================
