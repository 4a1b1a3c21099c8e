----------------------------- MODULE BackupProofs -----------------------------
(***************************************************************************)
(* Theorems about Backup, for any number of processes, volumes, containers *)
(* and names, and whatever trouble there is: its types, the two phases of  *)
(* cleanup and what its exit code means, and that prepare and cleanup      *)
(* leave restore containers and the restore view alone.                    *)
(*                                                                         *)
(* The invariant has a part for the host and a part for each process, in   *)
(* terms of the containers as they are: a container a process knows of is  *)
(* the one it saw or gone, for an identifier is not used again, and it is  *)
(* a backup helper.                                                        *)
(***************************************************************************)
EXTENDS Backup, DockerHostProofs

HelperModes == {"backup", "legacy"}

Holding == {"replace", "start", "startnew", "rollback"}

Untouched == Preparing \union {"idle", "prepared", "listall"}

ConfOK(cf) ==
  IF cf.mode \in HelperModes
  THEN \A f \in Name : cf.at # <<"restore", f>>
  ELSE cf.volume = None

KnownConf == {cf \in Conf : ConfOK(cf)}

HostInv == HostType(KnownConf, MountPoint, Volume)

(* What a process with local state j relies on, k being the containers.    *)
JobInv(k, j) ==
  /\ j.pc \in Holding => j.cur \in ContainerId
  /\ j.pc \in Preparing => j.image \in Image
  /\ j.cur # None => k[j.cur] = None \/ k[j.cur].mode \in HelperModes
  /\ \A s \in j.found \union j.listed :
       s.conf.mode \in HelperModes /\ (k[s.id] = None \/ k[s.id] = s.conf)
  /\ j.pc \in Untouched => j.listed = {} /\ j.blocked = {} /\ j.targets = {}
  /\ j.pc \in {"listall", "umount", "cleaned"} => j.found = {}
  /\ j.pc = "remove" => j.found \subseteq j.listed
  /\ \A s \in j.listed : s.conf.friendly \in Name
  /\ \A s \in j.listed \ j.found :
       /\ k[s.id] = None \/ s.conf.friendly \in j.blocked
       /\ s.conf.friendly \in UnsafeName => j.errs
  /\ j.blocked # {} => j.errs
  /\ j.pc = "umount" => \A f \in Name : IsFirst(f, j.targets) => f \notin j.blocked

JobsInv ==
  /\ job \in [Proc -> Job]
  /\ \A p \in Proc : JobInv(conf, job[p])

Inv ==
  /\ HostInv
  /\ JobsInv
  /\ alone \in [Proc -> BOOLEAN]
  /\ stacked \subseteq Name

(* What a step of a process may do to the host.                            *)
HostEffect ==
  \/ UNCHANGED host
  \/ \E c \in ContainerId :
       /\ Alive(c) => conf[c].mode \in HelperModes
       /\ Changes(c)
  \/ \E c \in ContainerId, v \in VolumeSpecs, image \in Image :
       Fresh(c) /\ ContainerCreate(c, HelperOptions(v, image))
  \/ \E f \in Name : Umount(BackupAt(f))

(* What a process knows of stays as it is or disappears.                   *)
KeepsKnown ==
  \A c \in ContainerId : conf'[c] = conf[c] \/ conf'[c] = None \/ Fresh(c)

-------------------------------------------------------------------------------
(* Containers that are known mount volumes on mount points.                *)
LEMMA KnownConfMounts == MountsVolumes(KnownConf, MountPoint, Volume)
<1>1. None \notin Conf
  BY NoneAssumption
<1>. QED  BY <1>1 DEF MountsVolumes, KnownConf, Conf

(* What helperCreateOptions builds is a container of the backup view.      *)
LEMMA HelperOptionsOK ==
  ASSUME NEW v \in VolumeSpecs, NEW image \in Image
  PROVE  /\ HelperOptions(v, image) \in Conf
         /\ HelperOptions(v, image).mode = "backup"
         /\ ConfOK(HelperOptions(v, image))
<1>1. v \in Volume /\ v \in Nat /\ FriendlyName[v] \in Name
  BY VolumesAssumption, NumbersAssumption DEF VolumeSpecs
<1>2. BackupAt(FriendlyName[v]) \in MountPoint
  BY <1>1 DEF BackupAt, MountPoint
<1>3. HelperName(v) \in ({"helper"} \X Volume) \union OtherName
  BY <1>1 DEF HelperName
<1>4. v # None
  BY <1>1, NoneAssumption
<1>5. HelperOptions(v, image) \in Conf
  BY <1>1, <1>2, <1>3, <1>4 DEF HelperOptions, Conf
<1>6. \A f \in Name : BackupAt(FriendlyName[v]) # <<"restore", f>>
  BY DEF BackupAt
<1>. QED  BY <1>5, <1>6 DEF HelperOptions, ConfOK, HelperModes

-------------------------------------------------------------------------------
(* What a process does to the host keeps the host's part of the invariant  *)
(* and what other processes know, and touches nothing of a restore.        *)
LEMMA HostEffectLemma ==
  ASSUME HostInv, HostEffect
  PROVE  HostInv' /\ KeepsKnown
<1>1. CASE UNCHANGED host
  BY <1>1 DEF host, HostInv, HostType, Alive, KeepsKnown
<1>2. CASE \E c \in ContainerId : Changes(c)
  BY <1>2, KnownConfMounts, ChangesKeepType, ChangesOne DEF KeepsKnown, HostInv, HostType
<1>3. CASE \E c \in ContainerId, v \in VolumeSpecs, image \in Image :
             Fresh(c) /\ ContainerCreate(c, HelperOptions(v, image))
  <2>1. PICK c \in ContainerId, v \in VolumeSpecs, image \in Image :
               Fresh(c) /\ ContainerCreate(c, HelperOptions(v, image))
    BY <1>3
  <2>2. HelperOptions(v, image) \in KnownConf
    BY HelperOptionsOK DEF KnownConf
  <2>. QED  BY <2>1, <2>2, KnownConfMounts, CreateKeepsType
            DEF KeepsKnown, HostInv, HostType, ContainerCreate
<1>4. CASE \E f \in Name : Umount(BackupAt(f))
  <2>1. \A f \in Name : BackupAt(f) \in MountPoint
    BY DEF BackupAt, MountPoint
  <2>. QED  BY <1>4, <2>1, UmountKeepsType DEF KeepsKnown, HostInv, Umount
<1>. QED  BY <1>1, <1>2, <1>3, <1>4 DEF HostEffect

(* What a process relies on is not upset by containers that disappear or   *)
(* by new ones it does not know.                                           *)
LEMMA JobInvStable ==
  ASSUME NEW k, NEW l, NEW j, JobInv(k, j),
         j.cur # None => l[j.cur] = k[j.cur] \/ l[j.cur] = None,
         \A s \in j.found \union j.listed : l[s.id] = k[s.id] \/ l[s.id] = None
  PROVE  JobInv(l, j)
BY DEF JobInv

(* The jobs of the processes that do not move.                             *)
LEMMA OthersKeep ==
  ASSUME JobsInv, KeepsKnown, NEW q \in Proc
  PROVE  JobInv(conf', job[q])
<1>1. job[q] \in Job /\ JobInv(conf, job[q])
  BY DEF JobsInv
<1>2. job[q].cur # None => conf'[job[q].cur] = conf[job[q].cur] \/ conf'[job[q].cur] = None
  BY <1>1 DEF KeepsKnown, Fresh, Job
<1>3. \A s \in job[q].found \union job[q].listed :
        conf'[s.id] = conf[s.id] \/ conf'[s.id] = None
  BY <1>1 DEF KeepsKnown, Fresh, Job, Summary
<1>. QED  BY <1>1, <1>2, <1>3, JobInvStable

(* It is enough to look at the process that moves.                         *)
LEMMA BecomeKeepsJobs ==
  ASSUME JobsInv, KeepsKnown, NEW p \in Proc, NEW j \in Job,
         JobInv(conf', j), Become(p, j)
  PROVE  JobsInv'
<1>1. job' \in [Proc -> Job]
  BY DEF JobsInv, Become
<1>2. \A q \in Proc : JobInv(conf', job'[q])
  BY OthersKeep DEF JobsInv, Become
<1>. QED  BY <1>1, <1>2 DEF JobsInv

-------------------------------------------------------------------------------
(* The three ways a step ends for the process.                             *)

(* Prepare goes on to wait for the mount, or to roll back.                 *)
LEMMA GotoKeepsJobs ==
  ASSUME JobsInv, KeepsKnown, NEW p \in Proc, NEW label,
         job[p].pc \in Preparing, label \in {"rollback", "wait"},
         label = "rollback" => job[p].pc \in Holding, Goto(p, label)
  PROVE  JobsInv'
<1>. DEFINE j == [job[p] EXCEPT !.pc = label]
<1>1. job[p] \in Job /\ JobInv(conf', job[p])
  BY OthersKeep DEF JobsInv
<1>2. j \in Job
  BY <1>1 DEF Job, Preparing
<1>3. JobInv(conf', j)
  BY <1>1 DEF JobInv, Job, Holding, Preparing, Untouched
<1>. QED  BY <1>2, <1>3, BecomeKeepsJobs DEF Goto

(* The loop of Prepare goes on with the next volume.                       *)
LEMMA NextVolumeKeepsJobs ==
  ASSUME JobsInv, KeepsKnown, NEW p \in Proc, NEW v, NEW failed \in BOOLEAN,
         job[p].pc \in Preparing, NextVolume(p, v, failed)
  PROVE  JobsInv'
<1>. DEFINE rest == job[p].todo \ {v}
            j == [job[p] EXCEPT !.pc = IF rest = {} THEN "prepared" ELSE "list",
                                !.todo = rest, !.found = {}, !.cur = None,
                                !.errs = @ \/ failed]
<1>1. job[p] \in Job /\ JobInv(conf', job[p])
  BY OthersKeep DEF JobsInv
<1>2. j \in Job
  BY <1>1 DEF Job, Preparing, Resting
<1>3. JobInv(conf', j)
  BY <1>1 DEF JobInv, Job, Holding, Preparing, Untouched
<1>. QED  BY <1>2, <1>3, BecomeKeepsJobs DEF NextVolume

(* The loop of ensureHelper goes on with the next candidate.               *)
LEMMA NextHelperKeepsJobs ==
  ASSUME JobsInv, KeepsKnown, NEW p \in Proc, NEW c,
         job[p].pc \in Preparing, NextHelper(p, c)
  PROVE  JobsInv'
<1>. DEFINE j == [job[p] EXCEPT !.pc = "scan", !.cur = None,
                                !.found = {s \in @ : s.id # c}]
<1>1. job[p] \in Job /\ JobInv(conf', job[p])
  BY OthersKeep DEF JobsInv
<1>2. j \in Job
  BY <1>1 DEF Job, Preparing
<1>3. JobInv(conf', j)
  BY <1>1 DEF JobInv, Job, Holding, Preparing, Untouched
<1>. QED  BY <1>2, <1>3, BecomeKeepsJobs DEF NextHelper

-------------------------------------------------------------------------------
(* The steps of prepare.                                                   *)

(* A container a process found is a backup helper, or gone.                *)
LEMMA FoundHelpers ==
  ASSUME HostInv, JobsInv, NEW p \in Proc, NEW s \in job[p].found
  PROVE  s.id \in ContainerId /\ (Alive(s.id) => conf[s.id].mode \in HelperModes)
<1>1. job[p] \in Job /\ JobInv(conf, job[p])
  BY DEF JobsInv
<1>. QED  BY <1>1 DEF JobInv, Job, Summary, Alive

(* So is the one it is about to replace or to start.                       *)
LEMMA CurHelper ==
  ASSUME HostInv, JobsInv, NEW p \in Proc, job[p].pc \in Holding
  PROVE  job[p].cur \in ContainerId /\ (Alive(job[p].cur) => conf[job[p].cur].mode \in HelperModes)
BY NoneAssumption DEF JobsInv, JobInv, Alive

(* removeContainer of a backup helper, done or not.                        *)
LEMMA RemoveEffect ==
  ASSUME NEW c \in ContainerId, Alive(c) => conf[c].mode \in HelperModes,
         ContainerRemove(c) \/ UNCHANGED host
  PROVE  HostEffect
BY DEF ContainerRemove, HostEffect, Changes

(* A prepare starts with no candidate and no target.                       *)
LEMMA StartPrepareOK ==
  ASSUME HostInv, JobsInv, NEW p \in Proc, NEW image \in Image, StartPrepare(p, image)
  PROVE  HostEffect /\ JobsInv'
<1>. DEFINE j == [Idle EXCEPT !.pc = "volumes", !.image = image]
<1>1. HostEffect /\ KeepsKnown
  BY HostEffectLemma DEF StartPrepare, HostEffect
<1>2. j \in Job
  BY DEF Idle, Job, Preparing
<1>3. JobInv(conf', j)
  BY DEF Idle, JobInv, Holding, Preparing, Untouched
<1>. QED  BY <1>1, <1>2, <1>3, BecomeKeepsJobs DEF StartPrepare

(* VolumeList and buildVolumeSpecs.                                        *)
LEMMA VolumeListOK ==
  ASSUME HostInv, JobsInv, NEW p \in Proc, VolumeList(p)
  PROVE  HostEffect /\ JobsInv'
<1>. DEFINE j1 == [job[p] EXCEPT !.pc = IF VolumeSpecs = {} THEN "prepared" ELSE "list",
                                 !.todo = VolumeSpecs, !.errs = SpecErr]
            j2 == [job[p] EXCEPT !.pc = "prepared", !.errs = TRUE]
<1>1. HostEffect /\ KeepsKnown
  BY HostEffectLemma DEF VolumeList, HostEffect
<1>2. job[p] \in Job /\ JobInv(conf', job[p])
  BY <1>1, OthersKeep DEF JobsInv
<1>3. j1 \in Job /\ j2 \in Job
  BY <1>2 DEF Job, Preparing, Resting, SpecErr
<1>4. JobInv(conf', j1) /\ JobInv(conf', j2)
  BY <1>2 DEF VolumeList, At, JobInv, Job, Holding, Preparing, Untouched
<1>5. Become(p, j1) \/ Become(p, j2)
  BY DEF VolumeList
<1>. QED  BY <1>1, <1>3, <1>4, <1>5, BecomeKeepsJobs

(* What listHelpersForVolume returns has a volume label: backup helpers.   *)
LEMMA ListHelpersOK ==
  ASSUME HostInv, JobsInv, NEW p \in Proc, NEW v \in job[p].todo, ListHelpers(p, v)
  PROVE  HostEffect /\ JobsInv'
<1>. DEFINE found == Summaries(HelpersForVolume(v))
            j == [job[p] EXCEPT !.pc = "scan", !.found = found]
<1>1. HostEffect /\ KeepsKnown /\ conf' = conf
  BY HostEffectLemma DEF ListHelpers, HostEffect, host
<1>2. job[p] \in Job /\ JobInv(conf', job[p])
  BY <1>1, OthersKeep DEF JobsInv
<1>3. v \in Volume
  BY <1>2, VolumesAssumption DEF Job, VolumeSpecs
<1>4. \A s \in found : /\ s \in Summary
                       /\ s.conf.mode \in HelperModes
                       /\ conf'[s.id] = s.conf
  <2>1. SUFFICES ASSUME NEW c \in HelpersForVolume(v)
                 PROVE  conf[c] \in Conf /\ conf[c].mode \in HelperModes
    BY <1>1 DEF Summaries, Summary, HelpersForVolume
  <2>2. conf[c] \in Conf /\ ConfOK(conf[c]) /\ conf[c].volume = v
    BY <2>1 DEF HelpersForVolume, HostInv, HostType, KnownConf, Alive
  <2>. QED  BY <2>2, <1>3, NoneAssumption DEF ConfOK
<1>5. j \in Job
  BY <1>2, <1>4 DEF Job, Preparing
<1>6. ASSUME At(p, "list") PROVE JobInv(conf', j)
  BY <1>2, <1>4, <1>6 DEF At, JobInv, Job, Holding, Preparing, Untouched
<1>7. CASE Become(p, j)
  BY <1>1, <1>5, <1>6, <1>7, BecomeKeepsJobs DEF ListHelpers
<1>8. CASE NextVolume(p, v, TRUE)
  BY <1>1, <1>8, NextVolumeKeepsJobs DEF ListHelpers, At, Preparing
<1>. QED  BY <1>7, <1>8, <1>1 DEF ListHelpers

(* Both ways ensureHelper goes on after a removal.                         *)
LEMMA RemoveAndGoOnOK ==
  ASSUME HostInv, JobsInv, NEW p \in Proc, NEW v, NEW c \in ContainerId,
         Alive(c) => conf[c].mode \in HelperModes,
         job[p].pc \in Preparing, RemoveAndGoOn(p, v, c)
  PROVE  HostEffect /\ JobsInv'
<1>1. HostEffect
  BY RemoveEffect DEF RemoveAndGoOn
<1>2. KeepsKnown
  BY <1>1, HostEffectLemma
<1>. QED  BY <1>1, <1>2, NextHelperKeepsJobs, NextVolumeKeepsJobs DEF RemoveAndGoOn

(* The removal of a helper with another name.                              *)
LEMMA RemoveUnexpectedOK ==
  ASSUME HostInv, JobsInv, NEW p \in Proc, NEW v \in job[p].todo, NEW s \in job[p].found,
         RemoveUnexpected(p, v, s)
  PROVE  HostEffect /\ JobsInv'
BY FoundHelpers, RemoveAndGoOnOK DEF RemoveUnexpected, At, Preparing

(* The removal of a helper that does not match.                            *)
LEMMA ReplaceOK ==
  ASSUME HostInv, JobsInv, NEW p \in Proc, NEW v \in job[p].todo, Replace(p, v)
  PROVE  HostEffect /\ JobsInv'
BY CurHelper, RemoveAndGoOnOK DEF Replace, At, Preparing, Holding

(* ContainerInspect and what ensureHelper decides on it.                   *)
LEMMA InspectOK ==
  ASSUME HostInv, JobsInv, NEW p \in Proc, NEW v \in job[p].todo, NEW s \in job[p].found,
         Inspect(p, v, s)
  PROVE  HostEffect /\ JobsInv'
<1>. DEFINE j1 == [job[p] EXCEPT !.pc = "replace", !.cur = s.id]
            j2 == [job[p] EXCEPT !.pc = "start", !.cur = s.id]
<1>1. HostEffect /\ KeepsKnown /\ conf' = conf
  BY HostEffectLemma DEF Inspect, HostEffect, host
<1>2. job[p] \in Job /\ JobInv(conf', job[p]) /\ job[p].pc = "scan"
  BY <1>1, OthersKeep DEF JobsInv, Inspect, At
<1>3. j1 \in Job /\ j2 \in Job
  BY <1>2, FoundHelpers DEF Job, Preparing
<1>4. JobInv(conf', j1) /\ JobInv(conf', j2)
  BY <1>1, <1>2, FoundHelpers DEF JobInv, Job, Holding, Preparing, Untouched, Alive
<1>5. \/ NextHelper(p, s.id) \/ NextVolume(p, v, TRUE) \/ Goto(p, "wait")
      \/ Become(p, j1) \/ Become(p, j2)
  BY DEF Inspect
<1>. HIDE DEF j1, j2
<1>6. job[p].pc \in Preparing
  BY <1>2 DEF Preparing
<1>7. CASE NextHelper(p, s.id)
  BY <1>1, <1>6, <1>7, NextHelperKeepsJobs
<1>8. CASE NextVolume(p, v, TRUE)
  BY <1>1, <1>6, <1>8, NextVolumeKeepsJobs
<1>9. CASE Goto(p, "wait")
  BY <1>1, <1>6, <1>9, GotoKeepsJobs
<1>10. CASE Become(p, j1) \/ Become(p, j2)
  BY <1>1, <1>3, <1>4, <1>10, BecomeKeepsJobs
<1>. QED  BY <1>1, <1>5, <1>7, <1>8, <1>9, <1>10

(* The start of a helper that matches and does not run.                    *)
LEMMA StartExistingOK ==
  ASSUME HostInv, JobsInv, NEW p \in Proc, NEW v \in job[p].todo, StartExisting(p, v)
  PROVE  HostEffect /\ JobsInv'
<1>. DEFINE c == job[p].cur
<1>1. job[p].pc \in Preparing /\ job[p].pc \in Holding
  BY DEF StartExisting, At, Preparing, Holding
<1>2. c \in ContainerId /\ (Alive(c) => conf[c].mode \in HelperModes)
  BY <1>1, CurHelper
<1>3. HostEffect
  BY <1>2 DEF StartExisting, HostEffect, Changes
<1>4. KeepsKnown
  BY <1>3, HostEffectLemma
<1>5. Goto(p, "wait") \/ NextHelper(p, c) \/ NextVolume(p, v, TRUE)
  BY DEF StartExisting
<1>. QED  BY <1>1, <1>3, <1>4, <1>5, GotoKeepsJobs, NextHelperKeepsJobs, NextVolumeKeepsJobs

(* The container prepare creates is new and a backup helper.               *)
LEMMA CreateOK ==
  ASSUME HostInv, JobsInv, NEW p \in Proc, NEW v \in job[p].todo, NEW c \in ContainerId,
         Create(p, v, c)
  PROVE  HostEffect /\ JobsInv'
<1>. DEFINE j == [job[p] EXCEPT !.pc = "startnew", !.cur = c]
            options == HelperOptions(v, job[p].image)
<1>1. /\ job[p].pc = "scan" /\ job[p] \in Job
      /\ job[p].image \in Image /\ v \in VolumeSpecs
  BY DEF Create, At, JobsInv, JobInv, Preparing, Job
<1>2. HostEffect
  BY <1>1 DEF Create, HostEffect
<1>3. KeepsKnown
  BY <1>2, HostEffectLemma
<1>4. CASE NextVolume(p, v, TRUE)
  BY <1>1, <1>2, <1>3, <1>4, NextVolumeKeepsJobs DEF Preparing
<1>5. CASE Fresh(c) /\ ContainerCreate(c, options) /\ Become(p, j)
  <2>1. conf'[c] = options
    BY <1>5 DEF ContainerCreate, HostInv, HostType, KnownConf
  <2>2. conf'[c].mode \in HelperModes
    BY <1>1, <2>1, HelperOptionsOK DEF HelperModes
  <2>3. JobInv(conf', job[p])
    BY <1>3, OthersKeep
  <2>4. j \in Job
    BY <1>1 DEF Job, Preparing
  <2>5. JobInv(conf', j)
    BY <1>1, <2>2, <2>3 DEF JobInv, Job, Holding, Preparing, Untouched
  <2>. HIDE DEF j
  <2>. QED  BY <1>2, <1>3, <1>5, <2>4, <2>5, BecomeKeepsJobs
<1>. QED  BY <1>4, <1>5 DEF Create

(* The start of the helper prepare created.                                *)
LEMMA StartNewOK ==
  ASSUME HostInv, JobsInv, NEW p \in Proc, NEW v \in job[p].todo, StartNew(p, v)
  PROVE  HostEffect /\ JobsInv'
<1>. DEFINE c == job[p].cur
<1>1. job[p].pc \in Preparing /\ job[p].pc \in Holding
  BY DEF StartNew, At, Preparing, Holding
<1>2. c \in ContainerId /\ (Alive(c) => conf[c].mode \in HelperModes)
  BY <1>1, CurHelper
<1>3. HostEffect
  BY <1>2 DEF StartNew, HostEffect, Changes
<1>4. KeepsKnown
  BY <1>3, HostEffectLemma
<1>5. Goto(p, "wait") \/ Goto(p, "rollback")
  BY DEF StartNew
<1>. QED  BY <1>1, <1>3, <1>4, <1>5, GotoKeepsJobs

(* The removal of the helper that could not be started.                    *)
LEMMA RollbackOK ==
  ASSUME HostInv, JobsInv, NEW p \in Proc, NEW v \in job[p].todo, Rollback(p, v)
  PROVE  HostEffect /\ JobsInv'
<1>1. job[p].pc \in Preparing /\ job[p].pc \in Holding
  BY DEF Rollback, At, Preparing, Holding
<1>2. HostEffect
  BY <1>1, CurHelper, RemoveEffect DEF Rollback
<1>3. KeepsKnown
  BY <1>2, HostEffectLemma
<1>. QED  BY <1>1, <1>2, <1>3, NextVolumeKeepsJobs DEF Rollback

(* waitForVisibleMount, seen or expired.                                   *)
LEMMA WaitOK ==
  ASSUME HostInv, JobsInv, NEW p \in Proc, NEW v \in job[p].todo,
         WaitSeen(p, v) \/ WaitExpired(p, v)
  PROVE  HostEffect /\ JobsInv'
<1>1. HostEffect
  BY DEF WaitSeen, WaitExpired, HostEffect
<1>2. KeepsKnown
  BY <1>1, HostEffectLemma
<1>. QED  BY <1>1, <1>2, NextVolumeKeepsJobs DEF WaitSeen, WaitExpired, At, Preparing

(* A step of prepare does to the host what a process may do, and keeps     *)
(* what every process relies on.                                           *)
LEMMA PrepareStepOK ==
  ASSUME HostInv, JobsInv, NEW p \in Proc, PrepareStep(p)
  PROVE  HostEffect /\ JobsInv'
BY StartPrepareOK, VolumeListOK, ListHelpersOK, RemoveUnexpectedOK, InspectOK, ReplaceOK,
   StartExistingOK, CreateOK, StartNewOK, RollbackOK, WaitOK DEF PrepareStep

-------------------------------------------------------------------------------
(* The steps of cleanup.                                                   *)

(* A cleanup starts with no helper and no target.                          *)
LEMMA StartCleanupOK ==
  ASSUME HostInv, JobsInv, NEW p \in Proc, StartCleanup(p)
  PROVE  HostEffect /\ JobsInv'
<1>. DEFINE j == [Idle EXCEPT !.pc = "listall"]
<1>1. HostEffect /\ KeepsKnown
  BY HostEffectLemma DEF StartCleanup, HostEffect
<1>2. j \in Job
  BY DEF Idle, Job, Cleaning
<1>3. JobInv(conf', j)
  BY DEF Idle, JobInv, Holding, Preparing, Untouched
<1>. QED  BY <1>1, <1>2, <1>3, BecomeKeepsJobs DEF StartCleanup

(* listBackupHelpers, less what isManagedHelperSummary rejects.            *)
LEMMA CleanupListOK ==
  ASSUME HostInv, JobsInv, NEW p \in Proc, CleanupList(p)
  PROVE  HostEffect /\ JobsInv'
<1>. DEFINE helpers == {s \in Summaries(BackupHelpers) : IsManaged(s.conf)}
            j1 == [job[p] EXCEPT !.pc = "remove", !.found = helpers, !.listed = helpers]
            j2 == [job[p] EXCEPT !.pc = "cleaned", !.errs = TRUE]
<1>1. HostEffect /\ KeepsKnown /\ conf' = conf
  BY HostEffectLemma DEF CleanupList, HostEffect, host
<1>2. job[p] \in Job /\ JobInv(conf', job[p]) /\ job[p].pc = "listall"
  BY <1>1, OthersKeep DEF JobsInv, CleanupList, At
<1>3. \A s \in helpers : /\ s \in Summary
                         /\ s.conf.mode \in HelperModes
                         /\ s.conf.friendly \in Name
                         /\ conf'[s.id] = s.conf
  BY <1>1 DEF HostInv, HostType, KnownConf, Summaries, Summary, BackupHelpers, Alive, IsManaged,
              HelperModes, Conf
<1>4. j1 \in Job /\ j2 \in Job
  BY <1>2, <1>3 DEF Job, Cleaning, Resting
<1>5. JobInv(conf', j1)
  BY <1>2, <1>3 DEF JobInv, Job, Holding, Preparing, Untouched
<1>6. JobInv(conf', j2)
  BY <1>2 DEF JobInv, Job, Holding, Preparing, Untouched
<1>7. Become(p, j1) \/ Become(p, j2)
  BY DEF CleanupList
<1>. HIDE DEF j1, j2
<1>. QED  BY <1>1, <1>4, <1>5, <1>6, <1>7, BecomeKeepsJobs

(* A helper of the list is removed, or its name is blocked.                *)
LEMMA RemoveHelperOK ==
  ASSUME HostInv, JobsInv, NEW p \in Proc, NEW s \in job[p].found, RemoveHelper(p, s)
  PROVE  HostEffect /\ JobsInv'
<1>. DEFINE f == s.conf.friendly
            j(failed) ==
              [job[p] EXCEPT !.found = @ \ {s},
                             !.targets = IF f \in UnsafeName THEN @ ELSE @ \union {f},
                             !.blocked = IF failed THEN @ \union {f} ELSE @,
                             !.errs = @ \/ failed \/ f \in UnsafeName]
<1>1. /\ s.id \in ContainerId
      /\ Alive(s.id) => conf[s.id].mode \in HelperModes
  BY FoundHelpers
<1>2. HostEffect
  BY <1>1, RemoveEffect DEF RemoveHelper
<1>3. KeepsKnown
  BY <1>2, HostEffectLemma
<1>4. job[p] \in Job /\ JobInv(conf', job[p]) /\ job[p].pc = "remove" /\ s \in Summary
  BY <1>3, OthersKeep DEF JobsInv, RemoveHelper, At, Job
<1>5. f \in Name
  BY <1>4 DEF JobInv
<1>6. \A failed \in BOOLEAN : j(failed) \in Job
  BY <1>4, <1>5 DEF Job
<1>7. JobInv(conf', j(TRUE))
  BY <1>4, <1>5 DEF JobInv, Job, Holding, Preparing, Untouched
<1>8. ASSUME ContainerRemove(s.id) PROVE JobInv(conf', j(FALSE))
  <2>1. conf'[s.id] = None
    BY <1>1, <1>8 DEF ContainerRemove, Vanish, Alive, host, HostInv, HostType, KnownConf
  <2>. QED  BY <1>4, <2>1 DEF JobInv, Job, Holding, Preparing, Untouched
<1>9. \/ Become(p, j(TRUE))
      \/ ContainerRemove(s.id) /\ Become(p, j(FALSE))
  BY DEF RemoveHelper, Removed
<1>. HIDE DEF j
<1>. QED  BY <1>2, <1>3, <1>6, <1>7, <1>8, <1>9, BecomeKeepsJobs

(* The loop of Cleanup over its targets goes on.                           *)
LEMMA NextTargetKeepsJobs ==
  ASSUME JobsInv, KeepsKnown, NEW p \in Proc, NEW f, NEW failed \in BOOLEAN,
         job[p].pc \in {"remove", "umount"}, job[p].found = {}, NextTarget(p, f, failed)
  PROVE  JobsInv'
<1>. DEFINE j == [job[p] EXCEPT !.pc = "remove", !.targets = @ \ {f}, !.errs = @ \/ failed]
<1>1. job[p] \in Job /\ JobInv(conf', job[p])
  BY OthersKeep DEF JobsInv
<1>2. j \in Job
  BY <1>1 DEF Job, Cleaning
<1>3. JobInv(conf', j)
  BY <1>1 DEF JobInv, Job, Holding, Preparing, Untouched
<1>. QED  BY <1>2, <1>3, BecomeKeepsJobs DEF NextTarget

(* A blocked target is passed over.                                        *)
LEMMA SkipBlockedOK ==
  ASSUME HostInv, JobsInv, NEW p \in Proc, NEW f \in job[p].targets, SkipBlocked(p, f)
  PROVE  HostEffect /\ JobsInv'
<1>1. HostEffect /\ KeepsKnown
  BY HostEffectLemma DEF SkipBlocked, HostEffect
<1>. QED  BY <1>1, NextTargetKeepsJobs DEF SkipBlocked, AtTarget, At

(* A target about to be unmounted is the first one, and not blocked.       *)
LEMMA CheckTargetOK ==
  ASSUME HostInv, JobsInv, NEW p \in Proc, NEW f \in job[p].targets, CheckTarget(p, f)
  PROVE  HostEffect /\ JobsInv'
<1>. DEFINE j == [job[p] EXCEPT !.pc = "umount"]
<1>1. HostEffect /\ KeepsKnown
  BY HostEffectLemma DEF CheckTarget, HostEffect
<1>2. /\ job[p] \in Job /\ JobInv(conf', job[p])
      /\ job[p].pc = "remove" /\ job[p].found = {}
      /\ IsFirst(f, job[p].targets) /\ f \notin job[p].blocked
  BY <1>1, OthersKeep DEF JobsInv, CheckTarget, AtTarget, At
<1>3. j \in Job
  BY <1>2 DEF Job, Cleaning
<1>4. \A g \in Name : IsFirst(g, j.targets) => g = f
  BY <1>2, NumbersAssumption DEF IsFirst, Job
<1>5. JobInv(conf', j)
  BY <1>2, <1>4 DEF JobInv, Job, Holding, Preparing, Untouched
<1>6. Become(p, j) \/ NextTarget(p, f, FALSE) \/ NextTarget(p, f, TRUE)
  BY DEF CheckTarget, Goto
<1>. HIDE DEF j
<1>. QED  BY <1>1, <1>2, <1>3, <1>5, <1>6, BecomeKeepsJobs, NextTargetKeepsJobs

(* The umount of a target.                                                 *)
LEMMA UmountTargetOK ==
  ASSUME HostInv, JobsInv, NEW p \in Proc, NEW f \in job[p].targets, UmountTarget(p, f)
  PROVE  HostEffect /\ JobsInv'
<1>1. job[p] \in Job /\ job[p].pc = "umount" /\ job[p].found = {} /\ f \in Name
  BY DEF JobsInv, JobInv, UmountTarget, At, Job
<1>2. HostEffect
  BY <1>1 DEF UmountTarget, HostEffect
<1>3. KeepsKnown
  BY <1>2, HostEffectLemma
<1>. QED  BY <1>1, <1>2, <1>3, NextTargetKeepsJobs DEF UmountTarget

(* The end of a cleanup: no helper of its list is left to look at.         *)
LEMMA CleanupDoneOK ==
  ASSUME HostInv, JobsInv, NEW p \in Proc, CleanupDone(p)
  PROVE  HostEffect /\ JobsInv'
<1>. DEFINE j == [job[p] EXCEPT !.pc = "cleaned"]
<1>1. HostEffect /\ KeepsKnown
  BY HostEffectLemma DEF CleanupDone, HostEffect
<1>2. job[p] \in Job /\ JobInv(conf', job[p]) /\ job[p].pc = "remove" /\ job[p].found = {}
  BY <1>1, OthersKeep DEF JobsInv, CleanupDone, At
<1>3. j \in Job
  BY <1>2 DEF Job, Resting
<1>4. JobInv(conf', j)
  BY <1>2 DEF JobInv, Job, Holding, Preparing, Untouched
<1>. QED  BY <1>1, <1>3, <1>4, BecomeKeepsJobs DEF CleanupDone, Goto

(* A step of cleanup does to the host what a process may do, and keeps     *)
(* what every process relies on.                                           *)
LEMMA CleanupStepOK ==
  ASSUME HostInv, JobsInv, NEW p \in Proc, CleanupStep(p)
  PROVE  HostEffect /\ JobsInv'
BY StartCleanupOK, CleanupListOK, RemoveHelperOK, SkipBlockedOK, CheckTargetOK,
   UmountTargetOK, CleanupDoneOK DEF CleanupStep

-------------------------------------------------------------------------------
(* The invariant.                                                          *)

(* The invariant holds when no command has run yet.                        *)
LEMMA InitInv == Init => Inv
<1>. SUFFICES ASSUME Init PROVE Inv
  OBVIOUS
<1>1. HostInv
  <2>1. \A at \in MountPoint : mounts[at] \in Seq(Volume)
    BY DEF Init
  <2>. QED  BY <2>1 DEF Init, HostInv, HostType, KnownConf, Alive
<1>2. Idle \in Job
  BY DEF Idle, Job, Resting
<1>3. \A k : JobInv(k, Idle)
  BY DEF Idle, JobInv, Holding, Preparing, Untouched
<1>. QED  BY <1>1, <1>2, <1>3 DEF Init, Inv, JobsInv

(* A process is killed between two calls.                                  *)
LEMMA CrashKeepsJobs ==
  ASSUME HostInv, JobsInv, NEW p \in Proc, Crash(p)
  PROVE  HostInv' /\ JobsInv'
<1>1. HostInv' /\ KeepsKnown
  BY HostEffectLemma DEF Crash, HostEffect
<1>2. Idle \in Job
  BY DEF Idle, Job, Resting
<1>3. JobInv(conf', Idle)
  BY DEF Idle, JobInv, Holding, Preparing, Untouched
<1>. QED  BY <1>1, <1>2, <1>3, BecomeKeepsJobs DEF Crash

(* Containers that end, and those that others create and start.            *)
LEMMA EnvironmentKeeps ==
  ASSUME HostInv, JobsInv, Environment
  PROVE  HostInv' /\ JobsInv'
<1>1. Foreign \subseteq KnownConf
  BY ForeignAssumption DEF ConfOK, KnownConf, HelperModes, Conf
<1>2. HostInv' /\ KeepsKnown
  <2>1. CASE \E c \in ContainerId : Dies(c) \/ ForeignStart(c) \/ ForeignExit(c)
    <3>1. PICK c \in ContainerId : Changes(c)
      BY <2>1 DEF Dies, ForeignStart, ForeignExit, Changes
    <3>. QED  BY <3>1, KnownConfMounts, ChangesKeepType, ChangesOne
              DEF KeepsKnown, HostInv, HostType
  <2>2. CASE \E c \in ContainerId, cf \in Foreign : ForeignCreate(c, cf)
    <3>1. PICK c \in ContainerId, cf \in KnownConf : Fresh(c) /\ ContainerCreate(c, cf)
      BY <1>1, <2>2 DEF ForeignCreate
    <3>. QED  BY <3>1, KnownConfMounts, CreateKeepsType
              DEF KeepsKnown, HostInv, HostType, ContainerCreate
  <2>3. CASE \E at \in MountPoint : LateUmount(at)
    BY <2>3, UmountKeepsType DEF LateUmount, Umount, KeepsKnown, HostInv
  <2>. QED  BY <2>1, <2>2, <2>3 DEF Environment
<1>3. job' = job
  BY DEF Environment, Dies, ForeignCreate, ForeignStart, ForeignExit, LateUmount
<1>. QED  BY <1>2, <1>3, OthersKeep DEF JobsInv

(* Every step keeps the invariant.                                         *)
LEMMA NextInv == Inv /\ [Next]_vars => Inv'
<1>. SUFFICES ASSUME Inv, [Next]_vars PROVE Inv'
  OBVIOUS
<1>. USE DEF Inv
<1>1. CASE \E p \in Proc : Step(p) /\ Alone(p) /\ NoteLayers
  <2>1. HostEffect /\ JobsInv'
    BY <1>1, PrepareStepOK, CleanupStepOK DEF Step
  <2>. QED  BY <1>1, <2>1, HostEffectLemma DEF Alone, NoteLayers
<1>2. CASE \E p \in Proc : Crash(p) /\ Disturbed /\ NoteLayers
  BY <1>2, CrashKeepsJobs DEF Disturbed, NoteLayers
<1>3. CASE Environment /\ Disturbed /\ NoteLayers
  BY <1>3, EnvironmentKeeps DEF Disturbed, NoteLayers
<1>4. CASE UNCHANGED vars
  BY <1>4 DEF vars, HostInv, HostType, KnownConf, JobsInv, Alive
<1>. QED  BY <1>1, <1>2, <1>3, <1>4 DEF Next

(* Inv is an invariant of the system.                                      *)
THEOREM Invariance == Spec => []Inv
BY InitInv, NextInv, PTL DEF Spec

-------------------------------------------------------------------------------
(* Every variable of the daemon, of the mount table and of the processes   *)
(* always holds a value of its kind.                                       *)
THEOREM TypeCorrectness == Spec => []TypeOK
<1>1. Inv => TypeOK
  BY DEF Inv, HostInv, HostType, KnownConf, JobsInv, TypeOK
<1>. QED  BY <1>1, Invariance, PTL

(* Cleanup unmounts no path of which it knows a helper that is still       *)
(* there, whatever other processes and failed calls do.                    *)
THEOREM TwoPhases == Spec => []UmountAfterRemoval
<1>1. Inv => UmountAfterRemoval
  BY DEF Inv, JobsInv, JobInv, UmountAfterRemoval, At, Alive
<1>. QED  BY <1>1, Invariance, PTL

(* A cleanup that exits with 0 has removed every managed helper it listed, *)
(* and none of them had an unsafe name.                                    *)
THEOREM ExitCode == Spec => []CleanupExit
<1>1. Inv => CleanupExit
  BY DEF Inv, JobsInv, JobInv, CleanupExit, At, Alive
<1>. QED  BY <1>1, Invariance, PTL

(* What a process does to the host leaves the containers of restores and   *)
(* of others, and the mounts of the restore view, as they are.             *)
LEMMA EffectLeavesOthersAlone ==
  ASSUME HostInv, HostEffect
  PROVE  LeavesOthersAlone
<1>1. CASE UNCHANGED host
  BY <1>1 DEF host, LeavesOthersAlone
<1>2. CASE \E c \in ContainerId : (Alive(c) => conf[c].mode \in HelperModes) /\ Changes(c)
  <2>1. PICK c \in ContainerId : (Alive(c) => conf[c].mode \in HelperModes) /\ Changes(c)
    BY <1>2
  <2>2. /\ Alive(c)
        /\ \A d \in ContainerId : d # c => conf'[d] = conf[d] /\ (d \in running' <=> d \in running)
        /\ \A at \in MountPoint : at # conf[c].at => mounts'[at] = mounts[at]
    BY <2>1, ChangesOne DEF HostInv
  <2>3. conf[c].mode \in HelperModes /\ \A f \in Name : conf[c].at # <<"restore", f>>
    BY <2>1, <2>2 DEF HostInv, HostType, KnownConf, ConfOK, Alive
  <2>4. \A f \in Name : mounts'[<<"restore", f>>] = mounts[<<"restore", f>>]
    BY <2>2, <2>3 DEF MountPoint
  <2>. QED  BY <2>2, <2>3, <2>4 DEF LeavesOthersAlone, HelperModes
<1>3. CASE \E c \in ContainerId, v \in VolumeSpecs, image \in Image :
             Fresh(c) /\ ContainerCreate(c, HelperOptions(v, image))
  BY <1>3 DEF ContainerCreate, LeavesOthersAlone, Alive, HostInv, HostType, KnownConf
<1>4. CASE \E f \in Name : Umount(BackupAt(f))
  <2>1. PICK f \in Name : Umount(BackupAt(f))
    BY <1>4
  <2>2. \A g \in Name : BackupAt(f) # <<"restore", g>>
    BY DEF BackupAt
  <2>3. \A g \in Name : mounts'[<<"restore", g>>] = mounts[<<"restore", g>>]
    BY <2>1, <2>2 DEF Umount, HostInv, HostType, KnownConf, MountPoint
  <2>. QED  BY <2>1, <2>3 DEF Umount, LeavesOthersAlone
<1>. QED  BY <1>1, <1>2, <1>3, <1>4 DEF HostEffect

(* Prepare and cleanup never touch a container that is no backup helper,   *)
(* nor a mount of the restore view.                                        *)
THEOREM ViewsSeparate == Spec => RestoreUntouched
<1>1. Inv /\ [Next]_vars => [LeavesOthersAlone]_vars
  <2>. SUFFICES ASSUME Inv, [Next]_vars PROVE LeavesOthersAlone \/ UNCHANGED vars
    OBVIOUS
  <2>1. CASE \E p \in Proc : Step(p) /\ Alone(p) /\ NoteLayers
    BY <2>1, PrepareStepOK, CleanupStepOK, EffectLeavesOthersAlone DEF Step, Inv
  <2>2. CASE \E p \in Proc : Crash(p) /\ Disturbed /\ NoteLayers
    BY <2>2 DEF Crash, host, LeavesOthersAlone
  <2>3. CASE Environment /\ Disturbed /\ NoteLayers
    BY <2>3 DEF Environment, Dies, ForeignCreate, ForeignStart, ForeignExit, LateUmount,
               LeavesOthersAlone
  <2>. QED  BY <2>1, <2>2, <2>3 DEF Next
<1>. QED  BY <1>1, Invariance, PTL DEF Spec, RestoreUntouched
===============================================================================
