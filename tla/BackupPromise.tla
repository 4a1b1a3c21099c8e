----------------------------- MODULE BackupPromise -----------------------------
(***************************************************************************)
(* The promises of prepare and cleanup, for any constants.                 *)
(*                                                                         *)
(* The first part is about a prepare and a cleanup that nobody disturbs:   *)
(* what their exit code 0 means, whatever containers they found and        *)
(* whatever stood on the daemon at their start.  Prepare takes the volumes *)
(* one by one and looks at the path of each once: when it replaces the     *)
(* helper of a later volume that mounts on the path of an earlier one, the *)
(* mount it has found there may go away again.  Its helpers run all the    *)
(* same; that the paths are mounts is shown where no earlier configuration *)
(* has left such a helper.                                                 *)
(*                                                                         *)
(* The second part is about prepares that run at the same time, for any    *)
(* number of processes and volumes: where only prepares run, all for one   *)
(* image, and no call fails, every volume ends up served, although a       *)
(* prepare that loses the race for a container's name gives the volume up  *)
(* and any of them may be killed.  No helper of the current configuration  *)
(* is ever removed, so what a prepare has seen of one stays true; and      *)
(* while the helper of a volume does not run, some process is still going  *)
(* to start it.  That a running helper's path stays a mount while old      *)
(* helpers go is a count: there are as many layers of a volume on a path   *)
(* as containers that mount it there.                                      *)
(***************************************************************************)
EXTENDS BackupProofs, FiniteSetTheorems

(* The container does not mount on the path of a volume before its own.    *)
InOrder(cf) ==
  \A v, w \in VolumeSpecs :
    cf.volume = v /\ w < v => cf.at # BackupAt(FriendlyName[w])

Tidy == \A cf \in Foreign : InOrder(cf)

HelperRuns(v, image) == \E c \in running : conf[c] = HelperOptions(v, image)

(* What prepare has made sure of for a volume it is done with.             *)
Exposed(v, image) ==
  /\ HelperRuns(v, image)
  /\ Tidy => mounts[BackupAt(FriendlyName[v])] # <<>>

(* What it has made sure of for the volume at hand.                        *)
AtHand(j, v) ==
  /\ j.pc \in {"scan", "replace", "start"} => \A s \in j.found : s.conf.volume = v
  /\ j.pc = "replace" /\ Alive(j.cur) => conf[j.cur].volume = v
  /\ j.pc \in {"start", "startnew"} => conf[j.cur] = HelperOptions(v, j.image)
  /\ j.pc = "wait" => HelperRuns(v, j.image)

(* The places of prepare's loop from which it may still succeed.           *)
Looping == {"list", "scan", "replace", "start", "startnew", "wait"}

(* What an undisturbed prepare has made sure of.                           *)
Prepared(j) ==
  j.pc \in Looping \union {"prepared"} /\ ~j.errs =>
    /\ VolumeSpecs = Enabled
    /\ j.pc = "prepared" => j.todo = {}
    /\ \A v \in VolumeSpecs \ j.todo : Exposed(v, j.image)
    /\ \A v \in VolumeSpecs \ j.todo, w \in j.todo : v < w
    /\ \A v \in j.todo : IsFirst(v, j.todo) => AtHand(j, v)

(* What an undisturbed cleanup has made sure of.                           *)
Reclaimed(f) == mounts[BackupAt(f)] # <<>> => f \in stacked

Cleaned(j) ==
  j.pc \in {"remove", "umount", "cleaned"} /\ ~j.errs =>
    /\ \A c \in ContainerId :
         Alive(c) /\ IsManaged(conf[c]) => \E s \in j.found : s.id = c
    /\ \A s \in j.listed \ j.found :
         s.conf.friendly \in j.targets \/ Reclaimed(s.conf.friendly)
    /\ j.pc = "cleaned" => j.targets = {}

(* Two layers on a path have been noted.                                   *)
LayersNoted == \A f \in Name : Len(mounts[BackupAt(f)]) > 1 => f \in stacked

(* All containers are in order if those of others are.                     *)
OrderInv == Tidy => \A c \in ContainerId : Alive(c) => InOrder(conf[c])

Promises ==
  /\ OrderInv /\ LayersNoted
  /\ \A p \in Proc : alone[p] => Prepared(job[p]) /\ Cleaned(job[p])

-------------------------------------------------------------------------------
(* The volumes and the helpers.                                            *)

(* Volumes are ordered, and no two that are exposed share a path.          *)
LEMMA OwnPaths ==
  ASSUME NEW v \in VolumeSpecs, NEW w \in VolumeSpecs
  PROVE  /\ v \in Nat /\ w \in Nat
         /\ FriendlyName[v] \in Name
         /\ v # w => FriendlyName[v] # FriendlyName[w]
BY VolumesAssumption, NumbersAssumption DEF VolumeSpecs

(* A container that ensureHelper takes over is the one it would create.    *)
LEMMA MatchIsHelper ==
  ASSUME NEW cf \in Conf, NEW v, NEW image,
         cf.name = HelperName(v), HelperMatches(cf, v, image)
  PROVE  cf = HelperOptions(v, image)
BY DEF Conf, HelperMatches, HelperOptions

(* What prepare creates is in order.                                       *)
LEMMA HelperInOrder ==
  ASSUME NEW v \in VolumeSpecs, NEW image
  PROVE  InOrder(HelperOptions(v, image))
BY OwnPaths DEF InOrder, HelperOptions, BackupAt

-------------------------------------------------------------------------------
(* What the daemon's calls leave of the volumes prepare is done with.      *)

(* The removal of a later volume's helper.                                 *)
LEMMA RemovalKeepsEarlier ==
  ASSUME HostInv, OrderInv, NEW v \in VolumeSpecs, NEW w \in VolumeSpecs, NEW image,
         w < v, Exposed(w, image),
         NEW c \in ContainerId, Alive(c) => conf[c].volume = v, ContainerRemove(c)
  PROVE  Exposed(w, image)'
<1>1. CASE ~Alive(c)
  BY <1>1 DEF ContainerRemove, host, Exposed, HelperRuns
<1>2. CASE Alive(c)
  <2>1. Vanish(c) /\ conf[c].volume = v /\ v # w
    BY <1>2, OwnPaths DEF ContainerRemove
  <2>2. PICK d \in running : conf[d] = HelperOptions(w, image)
    BY DEF Exposed, HelperRuns
  <2>3. d # c /\ d \in ContainerId
    BY <2>1, <2>2 DEF HelperOptions, HostInv, HostType
  <2>4. conf'[d] = conf[d] /\ d \in running'
    BY <2>1, <2>2, <2>3 DEF Vanish, HostInv, HostType
  <2>5. ASSUME Tidy PROVE mounts'[BackupAt(FriendlyName[w])] = mounts[BackupAt(FriendlyName[w])]
    <3>1. conf[c].at # BackupAt(FriendlyName[w])
      BY <1>2, <2>1, <2>5 DEF OrderInv, InOrder
    <3>2. BackupAt(FriendlyName[w]) \in MountPoint
      BY OwnPaths DEF BackupAt, MountPoint
    <3>. QED  BY <2>1, <3>1, <3>2, ChangesOne DEF Changes, HostInv
  <2>. QED  BY <2>2, <2>4, <2>5 DEF Exposed, HelperRuns
<1>. QED  BY <1>1, <1>2

(* The start of a container can only add a mount.                          *)
LEMMA StartKeepsExposed ==
  ASSUME HostInv, NEW w \in VolumeSpecs, NEW image, Exposed(w, image),
         NEW c \in ContainerId, ContainerStart(c)
  PROVE  Exposed(w, image)'
<1>1. HelperRuns(w, image)'
  BY DEF Exposed, HelperRuns, ContainerStart
<1>2. BackupAt(FriendlyName[w]) \in MountPoint
  BY OwnPaths DEF BackupAt, MountPoint
<1>3. ASSUME Tidy PROVE mounts'[BackupAt(FriendlyName[w])] # <<>>
  <2>1. mounts[BackupAt(FriendlyName[w])] # <<>>
    BY <1>3 DEF Exposed
  <2>. DEFINE at == conf[c].at
              data == conf[c].data
  <2>2. CASE c \in running \/ at = None
    BY <2>1, <2>2 DEF ContainerStart
  <2>3. CASE ~(c \in running \/ at = None)
    <3>1. mounts' = [mounts EXCEPT ![at] = <<data>> \o @] /\ at \in MountPoint
      BY <2>3, KnownConfMounts DEF ContainerStart, Push, HostInv, HostType, MountsVolumes, Alive
    <3>2. mounts[at] \in Seq(Volume) /\ data \in Volume
      BY <2>3, <3>1, KnownConfMounts DEF HostInv, HostType, MountsVolumes, ContainerStart, Alive
    <3>3. <<data>> \o mounts[at] # <<>>
      BY <3>2
    <3>. QED  BY <1>2, <2>1, <3>1, <3>3 DEF HostInv, HostType
  <2>. QED  BY <2>2, <2>3
<1>. QED  BY <1>1, <1>3 DEF Exposed

(* A container that is created is another one.                             *)
LEMMA CreateKeepsExposed ==
  ASSUME HostInv, NEW w, NEW image, Exposed(w, image),
         NEW c \in ContainerId, NEW cf, ContainerCreate(c, cf)
  PROVE  Exposed(w, image)'
<1>1. PICK d \in running : conf[d] = HelperOptions(w, image)
  BY DEF Exposed, HelperRuns
<1>2. d # c
  BY <1>1, NoneAssumption DEF ContainerCreate, HostInv, HostType, Alive
<1>. QED  BY <1>1, <1>2 DEF Exposed, HelperRuns, ContainerCreate, HostInv, HostType

-------------------------------------------------------------------------------
(* The steps of prepare.                                                   *)

(* The local state a step gives to a process.                              *)
LEMMA Becomes ==
  ASSUME JobsInv, NEW p \in Proc, NEW j, Become(p, j)
  PROVE  job'[p] = j
BY DEF JobsInv, Become

(* Nothing is promised once something has failed.                          *)
LEMMA FailedVolume ==
  ASSUME Inv, NEW p \in Proc, NEW v, NextVolume(p, v, TRUE)
  PROVE  Prepared(job[p])'
<1>. DEFINE rest == job[p].todo \ {v}
            errs == job[p].errs \/ TRUE
            j == [job[p] EXCEPT !.pc = IF rest = {} THEN "prepared" ELSE "list",
                                !.todo = rest, !.found = {}, !.cur = None, !.errs = errs]
<1>1. Become(p, j)
  BY DEF NextVolume
<1>2. job[p] \in Job /\ errs = TRUE
  BY DEF Inv, JobsInv
<1>. HIDE DEF errs
<1>3. j.errs = TRUE
  BY <1>2 DEF Job
<1>. HIDE DEF j
<1>4. job'[p] = j
  BY <1>1, Becomes DEF Inv
<1>. QED  BY <1>3, <1>4 DEF Prepared

(* A step with a volume at hand that goes on with the same volume.         *)
LEMMA SameVolume ==
  ASSUME Inv, NEW p \in Proc, Prepared(job[p]), job[p].pc \in Looping,
         NEW v, v \in job[p].todo, IsFirst(v, job[p].todo),
         NEW j, Become(p, j), j.pc \in Looping,
         j.todo = job[p].todo, j.errs = job[p].errs, j.image = job[p].image,
         ~job[p].errs =>
           /\ \A w \in VolumeSpecs : \A i : w < v /\ Exposed(w, i) => Exposed(w, i)'
           /\ j.pc \in {"scan", "replace", "start"} => \A s \in j.found : s.conf.volume = v
           /\ j.pc = "replace" /\ conf'[j.cur] # None => conf'[j.cur].volume = v
           /\ j.pc \in {"start", "startnew"} => conf'[j.cur] = HelperOptions(v, job[p].image)
           /\ j.pc = "wait" => \E c \in running' : conf'[c] = HelperOptions(v, job[p].image)
  PROVE  Prepared(job[p])'
<1>1. job'[p] = j
  BY Becomes DEF Inv
<1>. SUFFICES ASSUME ~job[p].errs
              PROVE  /\ VolumeSpecs = Enabled
                     /\ \A w \in VolumeSpecs \ j.todo : Exposed(w, j.image)'
                     /\ \A u \in VolumeSpecs \ job[p].todo, w \in job[p].todo : u < w
                     /\ \A w \in job[p].todo : IsFirst(w, job[p].todo) => w = v
  BY <1>1 DEF Prepared, AtHand, HelperRuns, Looping, Alive
<1>2. job[p].todo \subseteq VolumeSpecs /\ \A w \in VolumeSpecs : w \in Nat
  BY OwnPaths DEF Inv, JobsInv, Job
<1>3. /\ VolumeSpecs = Enabled
      /\ \A w \in VolumeSpecs \ job[p].todo : Exposed(w, job[p].image)
      /\ \A u \in VolumeSpecs \ job[p].todo, w \in job[p].todo : u < w
  BY DEF Prepared
<1>4. \A w \in job[p].todo : IsFirst(w, job[p].todo) => w = v
  BY <1>2 DEF IsFirst
<1>. QED  BY <1>3, <1>4

(* A prepare starts, and lists the volumes.                                *)
LEMMA StartPromise ==
  ASSUME Inv, NEW p \in Proc, VolumeList(p) \/ \E image \in Image : StartPrepare(p, image)
  PROVE  Prepared(job[p])'
<1>1. CASE \E image \in Image : StartPrepare(p, image)
  <2>1. PICK image \in Image : StartPrepare(p, image)
    BY <1>1
  <2>. DEFINE j == [Idle EXCEPT !.pc = "volumes", !.image = image]
  <2>2. j.pc = "volumes" /\ Become(p, j)
    BY <2>1 DEF StartPrepare, Idle
  <2>. HIDE DEF j
  <2>3. job'[p].pc = "volumes"
    BY <2>2, Becomes DEF Inv
  <2>. QED  BY <2>3 DEF Prepared, Looping
<1>2. CASE VolumeList(p)
  <2>. DEFINE j1 == [job[p] EXCEPT !.pc = IF VolumeSpecs = {} THEN "prepared" ELSE "list",
                                   !.todo = VolumeSpecs, !.errs = SpecErr]
              j2 == [job[p] EXCEPT !.pc = "prepared", !.errs = TRUE]
  <2>1. job[p] \in Job
    BY DEF Inv, JobsInv
  <2>. HIDE DEF SpecErr
  <2>2. /\ j1.pc = IF VolumeSpecs = {} THEN "prepared" ELSE "list"
        /\ j1.todo = VolumeSpecs /\ j1.errs = SpecErr /\ j2.errs = TRUE
    BY <2>1 DEF Job
  <2>3. Become(p, j1) \/ Become(p, j2)
    BY <1>2 DEF VolumeList
  <2>. HIDE DEF j1, j2
  <2>4. job'[p] = j1 \/ job'[p] = j2
    BY <2>3, Becomes DEF Inv
  <2>. QED  BY <2>2, <2>4 DEF Prepared, AtHand, SpecErr
<1>. QED  BY <1>1, <1>2

(* What is known of the volume at hand when nothing has failed so far.     *)
LEMMA Known ==
  ASSUME Inv, NEW p \in Proc, Prepared(job[p]), job[p].pc \in Looping, ~job[p].errs,
         NEW v \in job[p].todo, IsFirst(v, job[p].todo)
  PROVE  AtHand(job[p], v)
BY DEF Prepared

(* The list of a volume's helpers.                                         *)
LEMMA ListPromise ==
  ASSUME Inv, NEW p \in Proc, Prepared(job[p]), NEW v \in job[p].todo, ListHelpers(p, v)
  PROVE  Prepared(job[p])'
<1>. DEFINE found == Summaries(HelpersForVolume(v))
            j == [job[p] EXCEPT !.pc = "scan", !.found = found]
<1>1. CASE Become(p, j)
  <2>1. job[p] \in Job /\ job[p].pc \in Looping /\ IsFirst(v, job[p].todo) /\ UNCHANGED host
    BY DEF Inv, JobsInv, ListHelpers, At, Looping
  <2>2. \A s \in found : s.conf.volume = v
    BY DEF Summaries, HelpersForVolume
  <2>3. /\ j.pc = "scan" /\ j.found = found
        /\ j.todo = job[p].todo /\ j.errs = job[p].errs /\ j.image = job[p].image
    BY <2>1 DEF Job
  <2>4. \A w, i : Exposed(w, i) => Exposed(w, i)'
    BY <2>1 DEF host, Exposed, HelperRuns
  <2>. HIDE DEF j, found
  <2>. QED  BY <1>1, <2>1, <2>2, <2>3, <2>4, SameVolume DEF Looping
<1>. QED  BY <1>1, FailedVolume DEF ListHelpers

(* The scan goes on with fewer candidates of the same volume.              *)
LEMMA NextPromise ==
  ASSUME Inv, NEW p \in Proc, Prepared(job[p]), NEW v \in job[p].todo, IsFirst(v, job[p].todo),
         job[p].pc \in {"scan", "replace", "start"}, NEW c, NextHelper(p, c),
         ~job[p].errs =>
           \A w \in VolumeSpecs : \A i : w < v /\ Exposed(w, i) => Exposed(w, i)'
  PROVE  Prepared(job[p])'
<1>. DEFINE j == [job[p] EXCEPT !.pc = "scan", !.cur = None, !.found = {s \in @ : s.id # c}]
<1>1. job[p] \in Job /\ job[p].pc \in Looping
  BY DEF Inv, JobsInv, Looping
<1>2. /\ j.pc = "scan" /\ j.found \subseteq job[p].found
      /\ j.todo = job[p].todo /\ j.errs = job[p].errs /\ j.image = job[p].image
  BY <1>1 DEF Job
<1>3. ~job[p].errs => \A s \in job[p].found : s.conf.volume = v
  BY <1>1, Known DEF AtHand
<1>4. Become(p, j)
  BY DEF NextHelper
<1>. HIDE DEF j
<1>. QED  BY <1>1, <1>2, <1>3, <1>4, SameVolume DEF Looping

(* A helper of the volume at hand is removed.                              *)
LEMMA RemovePromise ==
  ASSUME Inv, OrderInv, NEW p \in Proc, Prepared(job[p]), NEW v \in job[p].todo,
         \/ \E s \in job[p].found : RemoveUnexpected(p, v, s)
         \/ Replace(p, v)
  PROVE  Prepared(job[p])'
<1>1. PICK c : /\ RemoveAndGoOn(p, v, c)
               /\ c \in ContainerId
               /\ ~job[p].errs /\ Alive(c) => conf[c].volume = v
  <2>1. CASE \E s \in job[p].found : RemoveUnexpected(p, v, s)
    <3>1. PICK s \in job[p].found : RemoveUnexpected(p, v, s)
      BY <2>1
    <3>2. s.id \in ContainerId /\ (Alive(s.id) => conf[s.id] = s.conf)
      BY FoundHelpers DEF Inv, JobsInv, JobInv, Alive
    <3>3. ~job[p].errs => s.conf.volume = v
      BY <3>1, Known DEF RemoveUnexpected, At, Looping, AtHand
    <3>. QED  BY <3>1, <3>2, <3>3 DEF RemoveUnexpected
  <2>2. CASE Replace(p, v)
    BY <2>2, CurHelper, Known DEF Inv, Replace, At, Looping, AtHand, Holding
  <2>. QED  BY <2>1, <2>2
<1>2. IsFirst(v, job[p].todo) /\ job[p].pc \in {"scan", "replace", "start"}
  BY DEF RemoveUnexpected, Replace, At
<1>3. v \in VolumeSpecs
  BY DEF Inv, JobsInv, Job
<1>4. ASSUME ~job[p].errs, ContainerRemove(c)
      PROVE  \A w \in VolumeSpecs : \A i : w < v /\ Exposed(w, i) => Exposed(w, i)'
  BY <1>1, <1>3, <1>4, RemovalKeepsEarlier DEF Inv
<1>. QED  BY <1>1, <1>2, <1>4, NextPromise, FailedVolume DEF RemoveAndGoOn

(* A candidate with the expected name is inspected.                        *)
LEMMA InspectPromise ==
  ASSUME Inv, NEW p \in Proc, Prepared(job[p]), NEW v \in job[p].todo,
         NEW s \in job[p].found, Inspect(p, v, s)
  PROVE  Prepared(job[p])'
<1>1. /\ job[p] \in Job /\ job[p].pc = "scan" /\ IsFirst(v, job[p].todo) /\ UNCHANGED host
      /\ s.id \in ContainerId /\ (Alive(s.id) => conf[s.id] = s.conf /\ conf[s.id] \in Conf)
  BY FoundHelpers DEF Inv, JobsInv, JobInv, Inspect, At, HostInv, HostType, KnownConf, Alive
<1>2. \A w, i : Exposed(w, i) => Exposed(w, i)'
  BY <1>1 DEF host, Exposed, HelperRuns
<1>3. ~job[p].errs => \A t \in job[p].found : t.conf.volume = v
  BY <1>1, Known DEF AtHand, Looping
<1>. DEFINE j(label) == [job[p] EXCEPT !.pc = label, !.cur = s.id]
            wait == [job[p] EXCEPT !.pc = "wait"]
<1>4. /\ \A label : /\ j(label).pc = label /\ j(label).cur = s.id /\ j(label).found = job[p].found
                    /\ j(label).todo = job[p].todo /\ j(label).errs = job[p].errs
                    /\ j(label).image = job[p].image
      /\ wait.pc = "wait" /\ wait.todo = job[p].todo /\ wait.errs = job[p].errs
      /\ wait.image = job[p].image
  BY <1>1 DEF Job
<1>5. Alive(s.id) /\ HelperMatches(conf[s.id], v, job[p].image)
        => conf[s.id] = HelperOptions(v, job[p].image)
  BY <1>1, MatchIsHelper DEF Inspect
<1>6. \/ NextHelper(p, s.id) \/ NextVolume(p, v, TRUE)
      \/ Become(p, j("replace")) /\ Alive(s.id)
      \/ Become(p, j("start")) /\ conf[s.id] = HelperOptions(v, job[p].image)
      \/ Become(p, wait) /\ s.id \in running /\ conf[s.id] = HelperOptions(v, job[p].image)
  BY <1>5 DEF Inspect, Goto
<1>. HIDE DEF j, wait
<1>7. CASE Become(p, j("replace")) /\ Alive(s.id)
  BY <1>1, <1>2, <1>3, <1>4, <1>7, SameVolume DEF Looping, host
<1>8. CASE Become(p, j("start")) /\ conf[s.id] = HelperOptions(v, job[p].image)
  BY <1>1, <1>2, <1>3, <1>4, <1>8, SameVolume DEF Looping, host
<1>9. CASE Become(p, wait) /\ s.id \in running /\ conf[s.id] = HelperOptions(v, job[p].image)
  BY <1>1, <1>2, <1>4, <1>9, SameVolume DEF Looping, host
<1>. QED  BY <1>1, <1>2, <1>6, <1>7, <1>8, <1>9, NextPromise, FailedVolume

(* A helper is started, one that was there or the one just created.        *)
LEMMA RunPromise ==
  ASSUME Inv, NEW p \in Proc, Prepared(job[p]), NEW v \in job[p].todo,
         StartExisting(p, v) \/ StartNew(p, v)
  PROVE  Prepared(job[p])'
<1>. DEFINE c == job[p].cur
            wait == [job[p] EXCEPT !.pc = "wait"]
            rollback == [job[p] EXCEPT !.pc = "rollback"]
<1>1. /\ job[p] \in Job /\ job[p].pc \in Looping /\ IsFirst(v, job[p].todo)
      /\ job[p].pc \in {"start", "startnew"} /\ c \in ContainerId
  BY CurHelper DEF Inv, JobsInv, StartExisting, StartNew, At, Looping, Holding
<1>2. ~job[p].errs => conf[c] = HelperOptions(v, job[p].image)
  BY <1>1, Known DEF AtHand
<1>3. /\ wait.pc = "wait" /\ wait.todo = job[p].todo /\ wait.errs = job[p].errs
      /\ wait.image = job[p].image /\ rollback.pc = "rollback"
  BY <1>1 DEF Job
<1>4. \/ Become(p, wait) /\ ContainerStart(c)
      \/ job[p].pc = "start" /\ NextHelper(p, c) /\ UNCHANGED host
      \/ NextVolume(p, v, TRUE) \/ Become(p, rollback)
  BY DEF StartExisting, StartNew, Goto, At
<1>. HIDE DEF wait, rollback
<1>5. CASE Become(p, wait) /\ ContainerStart(c)
  <2>1. \A w \in VolumeSpecs : \A i : w < v /\ Exposed(w, i) => Exposed(w, i)'
    BY <1>1, <1>5, StartKeepsExposed DEF Inv
  <2>2. ~job[p].errs => \E d \in running' : conf'[d] = HelperOptions(v, job[p].image)
    BY <1>2, <1>5 DEF ContainerStart
  <2>. QED  BY <1>1, <1>3, <1>5, <2>1, <2>2, SameVolume DEF Looping
<1>6. CASE job[p].pc = "start" /\ NextHelper(p, c) /\ UNCHANGED host
  <2>1. \A w, i : Exposed(w, i) => Exposed(w, i)'
    BY <1>6 DEF host, Exposed, HelperRuns
  <2>. QED  BY <1>1, <1>6, <2>1, NextPromise
<1>7. CASE Become(p, rollback)
  <2>1. job'[p].pc = "rollback"
    BY <1>3, <1>7, Becomes DEF Inv
  <2>. QED  BY <2>1 DEF Prepared, Looping
<1>. QED  BY <1>4, <1>5, <1>6, <1>7, FailedVolume

(* A helper is created where no candidate is left.                         *)
LEMMA CreatePromise ==
  ASSUME Inv, NEW p \in Proc, Prepared(job[p]), NEW v \in job[p].todo,
         NEW c \in ContainerId, Create(p, v, c)
  PROVE  Prepared(job[p])'
<1>. DEFINE options == HelperOptions(v, job[p].image)
            j == [job[p] EXCEPT !.pc = "startnew", !.cur = c]
<1>1. job[p] \in Job /\ job[p].pc \in Looping /\ IsFirst(v, job[p].todo)
  BY DEF Inv, JobsInv, Create, At, Looping
<1>2. /\ j.pc = "startnew" /\ j.cur = c /\ j.todo = job[p].todo
      /\ j.errs = job[p].errs /\ j.image = job[p].image
  BY <1>1 DEF Job
<1>3. NextVolume(p, v, TRUE) \/ (ContainerCreate(c, options) /\ Become(p, j))
  BY DEF Create
<1>. HIDE DEF j
<1>4. CASE ContainerCreate(c, options) /\ Become(p, j)
  <2>1. conf'[c] = options
    BY <1>4 DEF ContainerCreate, Inv, HostInv, HostType
  <2>2. \A w \in VolumeSpecs : \A i : w < v /\ Exposed(w, i) => Exposed(w, i)'
    BY <1>4, CreateKeepsExposed DEF Inv
  <2>. QED  BY <1>1, <1>2, <1>4, <2>1, <2>2, SameVolume DEF Looping
<1>. QED  BY <1>3, <1>4, FailedVolume

(* The volume at hand is exposed, and the loop takes the next one.         *)
LEMMA WaitPromise ==
  ASSUME Inv, NEW p \in Proc, Prepared(job[p]), NEW v \in job[p].todo, WaitSeen(p, v)
  PROVE  Prepared(job[p])'
<1>. DEFINE rest == job[p].todo \ {v}
            errs == job[p].errs \/ FALSE
            j == [job[p] EXCEPT !.pc = IF rest = {} THEN "prepared" ELSE "list",
                                !.todo = rest, !.found = {}, !.cur = None, !.errs = errs]
<1>1. /\ job[p] \in Job /\ job[p].pc = "wait" /\ IsFirst(v, job[p].todo) /\ UNCHANGED host
      /\ mounts[BackupAt(FriendlyName[v])] # <<>> /\ Become(p, j)
  BY DEF Inv, JobsInv, WaitSeen, At, NextVolume
<1>2. errs = job[p].errs
  BY <1>1 DEF Job
<1>. HIDE DEF errs
<1>3. /\ j.pc = IF rest = {} THEN "prepared" ELSE "list"
      /\ j.todo = rest /\ j.errs = job[p].errs /\ j.image = job[p].image
  BY <1>1, <1>2 DEF Job
<1>. HIDE DEF j
<1>4. job'[p] = j
  BY <1>1, Becomes DEF Inv
<1>. SUFFICES ASSUME ~job[p].errs
              PROVE  /\ VolumeSpecs = Enabled
                     /\ \A w \in VolumeSpecs \ rest : Exposed(w, job[p].image)'
                     /\ \A u \in VolumeSpecs \ rest, w \in rest : u < w
  BY <1>3, <1>4 DEF Prepared, AtHand
<1>5. job[p].todo \subseteq VolumeSpecs /\ \A w \in VolumeSpecs : w \in Nat
  BY <1>1, OwnPaths DEF Job
<1>6. /\ VolumeSpecs = Enabled
      /\ \A w \in VolumeSpecs \ job[p].todo : Exposed(w, job[p].image)
      /\ \A u \in VolumeSpecs \ job[p].todo, w \in job[p].todo : u < w
      /\ AtHand(job[p], v)
  BY <1>1 DEF Prepared, Looping
<1>7. \A w \in VolumeSpecs \ rest : Exposed(w, job[p].image)
  BY <1>1, <1>6 DEF AtHand, Exposed
<1>8. \A w \in VolumeSpecs \ rest : Exposed(w, job[p].image)'
  BY <1>1, <1>3, <1>4, <1>7 DEF host, Exposed, HelperRuns
<1>9. \A w \in rest : v < w
  BY <1>1, <1>5 DEF IsFirst
<1>. QED  BY <1>5, <1>6, <1>8, <1>9

(* Every step of an undisturbed prepare keeps its promise.                 *)
LEMMA PreparePromise ==
  ASSUME Inv, OrderInv, NEW p \in Proc, PrepareStep(p),
         job[p].pc \notin Resting => Prepared(job[p])
  PROVE  Prepared(job[p])'
<1>1. CASE VolumeList(p) \/ \E image \in Image : StartPrepare(p, image)
  BY <1>1, StartPromise
<1>2. CASE \E v \in job[p].todo :
             \/ ListHelpers(p, v)
             \/ \E s \in job[p].found : RemoveUnexpected(p, v, s) \/ Inspect(p, v, s)
             \/ Replace(p, v) \/ StartExisting(p, v)
             \/ \E c \in ContainerId : Create(p, v, c)
             \/ StartNew(p, v) \/ Rollback(p, v)
             \/ WaitSeen(p, v) \/ WaitExpired(p, v)
  <2>1. job[p].pc \notin Resting
    BY <1>2 DEF ListHelpers, RemoveUnexpected, Inspect, Replace, StartExisting, Create,
                StartNew, Rollback, WaitSeen, WaitExpired, At, Resting
  <2>2. PICK v \in job[p].todo :
             \/ ListHelpers(p, v)
             \/ \E s \in job[p].found : RemoveUnexpected(p, v, s) \/ Inspect(p, v, s)
             \/ Replace(p, v) \/ StartExisting(p, v)
             \/ \E c \in ContainerId : Create(p, v, c)
             \/ StartNew(p, v) \/ Rollback(p, v)
             \/ WaitSeen(p, v) \/ WaitExpired(p, v)
    BY <1>2
  <2>3. CASE Rollback(p, v) \/ WaitExpired(p, v)
    BY <2>3, FailedVolume DEF Rollback, WaitExpired
  <2>. QED  BY <2>1, <2>2, <2>3, ListPromise, RemovePromise, InspectPromise, RunPromise,
               CreatePromise, WaitPromise
<1>. QED  BY <1>1, <1>2 DEF PrepareStep

-------------------------------------------------------------------------------
(* The steps of cleanup.                                                   *)

(* The list is taken, and the helpers on it are removed.                   *)
LEMMA ListedPromise ==
  ASSUME Inv, NEW p \in Proc, CleanupList(p)
  PROVE  Cleaned(job[p])' /\ job'[p].pc \in {"remove", "cleaned"}
<1>. DEFINE helpers == {s \in Summaries(BackupHelpers) : IsManaged(s.conf)}
            j1 == [job[p] EXCEPT !.pc = "remove", !.found = helpers, !.listed = helpers]
            j2 == [job[p] EXCEPT !.pc = "cleaned", !.errs = TRUE]
<1>1. job[p] \in Job /\ UNCHANGED host
  BY DEF Inv, JobsInv, CleanupList
<1>2. ASSUME NEW c \in ContainerId, Alive(c), IsManaged(conf[c])
      PROVE  \E s \in helpers : s.id = c
  <2>. DEFINE s == [id |-> c, conf |-> conf[c]]
  <2>1. s \in helpers
    BY <1>2 DEF Summaries, BackupHelpers, IsManaged
  <2>. QED  BY <2>1
<1>. HIDE DEF helpers
<1>3. /\ j1.pc = "remove" /\ j1.found = helpers /\ j1.listed = helpers
      /\ j2.pc = "cleaned" /\ j2.errs = TRUE
  BY <1>1 DEF Job
<1>4. Become(p, j1) \/ Become(p, j2)
  BY DEF CleanupList, helpers
<1>. HIDE DEF j1, j2
<1>5. job'[p] = j1 \/ job'[p] = j2
  BY <1>4, Becomes DEF Inv
<1>. QED  BY <1>1, <1>2, <1>3, <1>5 DEF Cleaned, host, Alive

(* The removal of a helper takes no mount it would have to reclaim.        *)
LEMMA RemovalReclaims ==
  ASSUME HostInv, NEW c, ContainerRemove(c), NoteLayers, NEW f \in Name, Reclaimed(f)
  PROVE  Reclaimed(f)'
<1>1. mounts[BackupAt(f)] = <<>> => mounts'[BackupAt(f)] = <<>>
  <2>1. BackupAt(f) \in MountPoint
    BY DEF BackupAt, MountPoint
  <2>2. CASE UNCHANGED mounts
    BY <2>2
  <2>3. CASE \E i \in DOMAIN mounts[conf[c].at] :
               mounts' = [mounts EXCEPT ![conf[c].at] = WithoutLayer(@, i)]
    BY <2>1, <2>3 DEF HostInv, HostType
  <2>. QED  BY <2>2, <2>3 DEF ContainerRemove, Vanish, LayerStaysOrGoes, host
<1>. QED  BY <1>1 DEF Reclaimed, NoteLayers

(* A helper is gone, and its path waits to be unmounted.                   *)
LEMMA RemovedPromise ==
  ASSUME Inv, NEW p \in Proc, Cleaned(job[p]), NEW s \in job[p].found,
         RemoveHelper(p, s), NoteLayers
  PROVE  Cleaned(job[p])' /\ job'[p].pc = "remove"
<1>. DEFINE f == s.conf.friendly
            targets == IF f \in UnsafeName THEN job[p].targets ELSE job[p].targets \union {f}
            blocked(failed) == IF failed THEN job[p].blocked \union {f} ELSE job[p].blocked
            errs(failed) == job[p].errs \/ failed \/ f \in UnsafeName
            j(failed) == [job[p] EXCEPT !.found = job[p].found \ {s}, !.targets = targets,
                                        !.blocked = blocked(failed), !.errs = errs(failed)]
<1>1. /\ job[p] \in Job /\ job[p].pc = "remove" /\ s.id \in ContainerId
      /\ \A t \in job[p].listed : t.conf.friendly \in Name
      /\ job[p].errs \in BOOLEAN
  BY FoundHelpers DEF Inv, JobsInv, JobInv, RemoveHelper, At, Job
<1>2. /\ errs(TRUE) = TRUE
      /\ ~errs(FALSE) => ~job[p].errs /\ f \notin UnsafeName
  BY <1>1
<1>3. \/ ContainerRemove(s.id) /\ Become(p, j(FALSE))
      \/ Become(p, j(TRUE))
  BY DEF RemoveHelper, Removed
<1>. HIDE DEF errs, blocked, targets
<1>4. \A failed : /\ j(failed).pc = "remove" /\ j(failed).found = job[p].found \ {s}
                  /\ j(failed).listed = job[p].listed /\ j(failed).targets = targets
                  /\ j(failed).errs = errs(failed)
  BY <1>1 DEF Job
<1>. HIDE DEF j
<1>5. CASE Become(p, j(TRUE))
  <2>1. job'[p] = j(TRUE)
    BY <1>5, Becomes DEF Inv
  <2>. QED  BY <1>2, <1>4, <2>1 DEF Cleaned
<1>6. CASE ContainerRemove(s.id) /\ Become(p, j(FALSE))
  <2>1. /\ job'[p].pc = "remove" /\ job'[p].found = job[p].found \ {s}
        /\ job'[p].listed = job[p].listed /\ job'[p].targets = targets
        /\ ~job'[p].errs => ~errs(FALSE)
    <3>1. job'[p] = j(FALSE)
      BY <1>6, Becomes DEF Inv
    <3>. QED  BY <1>4, <3>1
  <2>. SUFFICES ASSUME ~errs(FALSE)
                PROVE  /\ \A c \in ContainerId :
                            Alive(c)' /\ IsManaged(conf[c])' =>
                              \E t \in job[p].found \ {s} : t.id = c
                       /\ \A t \in job[p].listed \ (job[p].found \ {s}) :
                            t.conf.friendly \in targets \/ Reclaimed(t.conf.friendly)'
    BY <2>1 DEF Cleaned
  <2>2. ~job[p].errs /\ targets = job[p].targets \union {f}
    BY <1>2 DEF targets
  <2>3. /\ \A c \in ContainerId :
             Alive(c) /\ IsManaged(conf[c]) => \E t \in job[p].found : t.id = c
        /\ \A t \in job[p].listed \ job[p].found :
             t.conf.friendly \in job[p].targets \/ Reclaimed(t.conf.friendly)
    BY <1>1, <2>2 DEF Cleaned
  <2>4. conf'[s.id] = None /\ \A c \in ContainerId : conf'[c] = conf[c] \/ conf'[c] = None
    BY <1>1, <1>6 DEF ContainerRemove, Vanish, Alive, host, Inv, HostInv, HostType
  <2>5. \A c \in ContainerId :
          Alive(c)' /\ IsManaged(conf[c])' => \E t \in job[p].found \ {s} : t.id = c
    BY <2>3, <2>4 DEF Alive, IsManaged
  <2>6. \A g \in Name : Reclaimed(g) => Reclaimed(g)'
    BY <1>6, RemovalReclaims DEF Inv
  <2>. QED  BY <1>1, <2>2, <2>3, <2>5, <2>6
<1>. QED  BY <1>3, <1>5, <1>6

(* A target is done with: there was no mount, or it has been taken away.   *)
LEMMA TargetPromise ==
  ASSUME Inv, NEW p \in Proc, Cleaned(job[p]), job[p].pc \in {"remove", "umount"},
         NEW f \in Name, NEW failed \in BOOLEAN, NextTarget(p, f, failed),
         conf' = conf, ~failed => Reclaimed(f)',
         \A g \in Name : g # f /\ Reclaimed(g) => Reclaimed(g)'
  PROVE  Cleaned(job[p])' /\ job'[p].pc = "remove"
<1>. DEFINE errs == job[p].errs \/ failed
            j == [job[p] EXCEPT !.pc = "remove", !.targets = job[p].targets \ {f}, !.errs = errs]
<1>1. /\ job[p] \in Job /\ job[p].errs \in BOOLEAN
      /\ \A t \in job[p].listed : t.conf.friendly \in Name
  BY DEF Inv, JobsInv, JobInv, Job
<1>2. ~errs => ~job[p].errs /\ ~failed
  BY <1>1
<1>3. Become(p, j)
  BY DEF NextTarget
<1>. HIDE DEF errs
<1>4. /\ j.pc = "remove" /\ j.found = job[p].found /\ j.listed = job[p].listed
      /\ j.targets = job[p].targets \ {f} /\ j.errs = errs
  BY <1>1 DEF Job
<1>. HIDE DEF j
<1>5. job'[p] = j
  BY <1>3, Becomes DEF Inv
<1>6. ASSUME ~errs
      PROVE  /\ \A c \in ContainerId :
                  Alive(c) /\ IsManaged(conf[c]) => \E t \in job[p].found : t.id = c
             /\ \A t \in job[p].listed \ job[p].found :
                  t.conf.friendly \in job[p].targets \ {f} \/ Reclaimed(t.conf.friendly)'
  <2>1. /\ \A c \in ContainerId :
             Alive(c) /\ IsManaged(conf[c]) => \E t \in job[p].found : t.id = c
        /\ \A t \in job[p].listed \ job[p].found :
             t.conf.friendly \in job[p].targets \/ Reclaimed(t.conf.friendly)
    BY <1>2, <1>6 DEF Cleaned
  <2>2. ASSUME NEW t \in job[p].listed \ job[p].found
        PROVE  t.conf.friendly \in job[p].targets \ {f} \/ Reclaimed(t.conf.friendly)'
    BY <1>1, <1>2, <1>6, <2>1
  <2>. QED  BY <2>1, <2>2
<1>. QED  BY <1>4, <1>5, <1>6 DEF Cleaned, Alive

(* The pass over the targets.                                              *)
LEMMA TargetsPromise ==
  ASSUME Inv, LayersNoted, NEW p \in Proc, Cleaned(job[p]), NEW f \in job[p].targets,
         SkipBlocked(p, f) \/ CheckTarget(p, f) \/ UmountTarget(p, f), NoteLayers
  PROVE  Cleaned(job[p])' /\ job'[p].pc \in {"remove", "umount"}
<1>1. f \in Name /\ job[p] \in Job /\ job[p].pc \in {"remove", "umount"}
  BY DEF Inv, JobsInv, Job, SkipBlocked, CheckTarget, UmountTarget, AtTarget, At
<1>2. ASSUME UNCHANGED host PROVE \A g \in Name : Reclaimed(g) => Reclaimed(g)'
  BY <1>2 DEF Reclaimed, host, NoteLayers
<1>3. CASE \E failed \in BOOLEAN :
             NextTarget(p, f, failed) /\ UNCHANGED host /\ (~failed => mounts[BackupAt(f)] = <<>>)
  <2>1. PICK failed \in BOOLEAN :
             NextTarget(p, f, failed) /\ UNCHANGED host /\ (~failed => mounts[BackupAt(f)] = <<>>)
    BY <1>3
  <2>2. ~failed => Reclaimed(f)'
    BY <2>1 DEF Reclaimed, host
  <2>. QED  BY <1>1, <1>2, <2>1, <2>2, TargetPromise DEF host
<1>4. CASE Goto(p, "umount") /\ UNCHANGED host
  <2>. DEFINE j == [job[p] EXCEPT !.pc = "umount"]
  <2>1. /\ j.pc = "umount" /\ j.found = job[p].found /\ j.listed = job[p].listed
        /\ j.targets = job[p].targets /\ j.errs = job[p].errs
    BY <1>1 DEF Job
  <2>2. Become(p, j)
    BY <1>4 DEF Goto
  <2>. HIDE DEF j
  <2>3. job'[p] = j
    BY <2>2, Becomes DEF Inv
  <2>4. \A t \in job[p].listed : t.conf.friendly \in Name
    BY DEF Inv, JobsInv, JobInv
  <2>. QED  BY <1>1, <1>2, <1>4, <2>1, <2>3, <2>4 DEF Cleaned, host, Alive
<1>5. CASE \E failed \in BOOLEAN : NextTarget(p, f, failed) /\ Umount(BackupAt(f))
  <2>. DEFINE at == BackupAt(f)
  <2>1. PICK failed \in BOOLEAN : NextTarget(p, f, failed) /\ Umount(at)
    BY <1>5
  <2>2. /\ at \in MountPoint /\ mounts[at] \in Seq(Volume) /\ mounts[at] # <<>>
        /\ mounts' = [mounts EXCEPT ![at] = Tail(@)] /\ conf' = conf
    BY <1>1, <2>1 DEF Umount, Inv, HostInv, HostType, BackupAt, MountPoint
  <2>3. Tail(mounts[at]) # <<>> => Len(mounts[at]) > 1
    BY <2>2
  <2>4. Reclaimed(f)'
    BY <1>1, <2>2, <2>3 DEF Reclaimed, LayersNoted, NoteLayers, Inv, HostInv, HostType
  <2>5. ASSUME NEW g \in Name, g # f, Reclaimed(g) PROVE Reclaimed(g)'
    <3>1. BackupAt(g) # at
      BY <2>5 DEF BackupAt
    <3>2. mounts'[BackupAt(g)] = mounts[BackupAt(g)]
      BY <2>2, <3>1 DEF Inv, HostInv, HostType, BackupAt, MountPoint
    <3>. QED  BY <2>5, <3>2 DEF Reclaimed, NoteLayers
  <2>. QED  BY <1>1, <2>1, <2>2, <2>4, <2>5, TargetPromise
<1>. QED  BY <1>3, <1>4, <1>5 DEF SkipBlocked, CheckTarget, UmountTarget

(* A cleanup starts, or comes to its end.                                  *)
LEMMA EndsPromise ==
  ASSUME Inv, NEW p \in Proc,
         StartCleanup(p) \/ (CleanupDone(p) /\ Cleaned(job[p])), NoteLayers
  PROVE  Cleaned(job[p])' /\ job'[p].pc \in {"listall", "cleaned"}
<1>1. CASE StartCleanup(p)
  <2>. DEFINE j == [Idle EXCEPT !.pc = "listall"]
  <2>1. j.pc = "listall" /\ Become(p, j)
    BY <1>1 DEF StartCleanup, Idle
  <2>. HIDE DEF j
  <2>2. job'[p] = j
    BY <2>1, Becomes DEF Inv
  <2>. QED  BY <2>1, <2>2 DEF Cleaned
<1>2. CASE CleanupDone(p) /\ Cleaned(job[p])
  <2>. DEFINE j == [job[p] EXCEPT !.pc = "cleaned"]
  <2>1. job[p] \in Job /\ job[p].pc = "remove" /\ job[p].targets = {} /\ UNCHANGED host
    BY <1>2 DEF Inv, JobsInv, CleanupDone, At
  <2>2. /\ j.pc = "cleaned" /\ j.found = job[p].found /\ j.listed = job[p].listed
        /\ j.targets = job[p].targets /\ j.errs = job[p].errs
    BY <2>1 DEF Job
  <2>3. Become(p, j)
    BY <1>2 DEF CleanupDone, Goto
  <2>. HIDE DEF j
  <2>4. job'[p] = j
    BY <2>3, Becomes DEF Inv
  <2>. QED  BY <1>2, <2>1, <2>2, <2>4 DEF Cleaned, Reclaimed, NoteLayers, host, Alive
<1>. QED  BY <1>1, <1>2

(* Every step of an undisturbed cleanup keeps its promise.                 *)
LEMMA CleanupPromise ==
  ASSUME Inv, LayersNoted, NEW p \in Proc, CleanupStep(p), NoteLayers,
         job[p].pc \notin Resting => Cleaned(job[p])
  PROVE  Cleaned(job[p])' /\ job'[p].pc \in Cleaning \union {"cleaned"}
<1>1. CASE StartCleanup(p)
  BY <1>1, EndsPromise DEF Cleaning
<1>2. CASE CleanupList(p)
  BY <1>2, ListedPromise DEF Cleaning
<1>3. CASE (\E s \in job[p].found : RemoveHelper(p, s)) \/ CleanupDone(p)
           \/ \E f \in job[p].targets : SkipBlocked(p, f) \/ CheckTarget(p, f) \/ UmountTarget(p, f)
  <2>1. job[p].pc \notin Resting
    BY <1>3 DEF RemoveHelper, CleanupDone, SkipBlocked, CheckTarget, UmountTarget, AtTarget, At,
                Resting
  <2>. QED  BY <1>3, <2>1, RemovedPromise, TargetsPromise, EndsPromise DEF Cleaning
<1>. QED  BY <1>1, <1>2, <1>3 DEF CleanupStep

(* A step of prepare is not one of cleanup.                                *)
LEMMA PrepareEnds ==
  ASSUME Inv, NEW p \in Proc, PrepareStep(p)
  PROVE  job'[p].pc \in Preparing \union {"prepared"}
<1>. DEFINE Labels == Preparing \union {"prepared"}
<1>1. job[p] \in Job
  BY DEF Inv, JobsInv
<1>2. ASSUME NEW j, Become(p, j), j.pc \in Labels
      PROVE  job'[p].pc \in Labels
  BY <1>2, Becomes DEF Inv
<1>3. ASSUME NEW v, NEW failed, NextVolume(p, v, failed)
      PROVE  job'[p].pc \in Labels
  <2>. DEFINE rest == job[p].todo \ {v}
              errs == job[p].errs \/ failed
              j == [job[p] EXCEPT !.pc = IF rest = {} THEN "prepared" ELSE "list",
                                  !.todo = rest, !.found = {}, !.cur = None, !.errs = errs]
  <2>1. Become(p, j)
    BY <1>3 DEF NextVolume
  <2>. HIDE DEF errs
  <2>2. j.pc = IF rest = {} THEN "prepared" ELSE "list"
    BY <1>1 DEF Job
  <2>. HIDE DEF j
  <2>. QED  BY <1>2, <2>1, <2>2 DEF Preparing
<1>4. ASSUME NEW c, NextHelper(p, c)
      PROVE  job'[p].pc \in Labels
  <2>. DEFINE j == [job[p] EXCEPT !.pc = "scan", !.cur = None, !.found = {s \in @ : s.id # c}]
  <2>1. j.pc = "scan" /\ Become(p, j)
    BY <1>1, <1>4 DEF Job, NextHelper
  <2>. HIDE DEF j
  <2>. QED  BY <1>2, <2>1 DEF Preparing
<1>5. ASSUME NEW label \in Labels, NEW c, Become(p, [job[p] EXCEPT !.pc = label, !.cur = c])
      PROVE  job'[p].pc \in Labels
  <2>. DEFINE j == [job[p] EXCEPT !.pc = label, !.cur = c]
  <2>1. j.pc = label
    BY <1>1 DEF Job
  <2>2. Become(p, j)
    BY <1>5
  <2>. HIDE DEF j
  <2>. QED  BY <1>2, <2>1, <2>2
<1>6. ASSUME NEW label \in Labels, Goto(p, label)
      PROVE  job'[p].pc \in Labels
  <2>. DEFINE j == [job[p] EXCEPT !.pc = label]
  <2>1. j.pc = label
    BY <1>1 DEF Job
  <2>2. Become(p, j)
    BY <1>6 DEF Goto
  <2>. HIDE DEF j
  <2>. QED  BY <1>2, <2>1, <2>2
<1>. HIDE DEF Labels
<1>7. {"prepared", "volumes", "scan", "replace", "start", "startnew", "wait", "rollback"} \subseteq Labels
  BY DEF Labels, Preparing
<1>8. CASE \E image \in Image : StartPrepare(p, image)
  <2>1. PICK image \in Image : StartPrepare(p, image)
    BY <1>8
  <2>. DEFINE j == [Idle EXCEPT !.pc = "volumes", !.image = image]
  <2>2. j.pc = "volumes" /\ Become(p, j)
    BY <2>1 DEF StartPrepare, Idle
  <2>. HIDE DEF j
  <2>. QED  BY <1>2, <1>7, <2>2 DEF Labels
<1>9. CASE VolumeList(p)
  <2>. DEFINE j1 == [job[p] EXCEPT !.pc = IF VolumeSpecs = {} THEN "prepared" ELSE "list",
                                   !.todo = VolumeSpecs, !.errs = SpecErr]
              j2 == [job[p] EXCEPT !.pc = "prepared", !.errs = TRUE]
  <2>. HIDE DEF SpecErr
  <2>1. j1.pc \in {"prepared", "list"} /\ j2.pc = "prepared"
    BY <1>1 DEF Job
  <2>2. Become(p, j1) \/ Become(p, j2)
    BY <1>9 DEF VolumeList
  <2>. HIDE DEF j1, j2
  <2>. QED  BY <1>2, <2>1, <2>2 DEF Labels, Preparing
<1>10. ASSUME NEW v, ListHelpers(p, v)
       PROVE  job'[p].pc \in Labels
  <2>. DEFINE found == Summaries(HelpersForVolume(v))
              j == [job[p] EXCEPT !.pc = "scan", !.found = found]
  <2>1. Become(p, j) \/ NextVolume(p, v, TRUE)
    BY <1>10 DEF ListHelpers
  <2>. HIDE DEF found
  <2>2. j.pc = "scan"
    BY <1>1 DEF Job
  <2>. HIDE DEF j
  <2>. QED  BY <1>2, <1>3, <1>7, <2>1, <2>2
<1>11. ASSUME NEW v, \/ \E s \in job[p].found : RemoveUnexpected(p, v, s) \/ Inspect(p, v, s)
                     \/ Replace(p, v) \/ StartExisting(p, v)
                     \/ \E c \in ContainerId : Create(p, v, c)
                     \/ StartNew(p, v) \/ Rollback(p, v) \/ WaitSeen(p, v) \/ WaitExpired(p, v)
       PROVE  job'[p].pc \in Labels
  <2>1. \/ \E failed : NextVolume(p, v, failed)
        \/ \E c : NextHelper(p, c)
        \/ \E label \in Labels : \E c : Become(p, [job[p] EXCEPT !.pc = label, !.cur = c])
        \/ \E label \in Labels : Goto(p, label)
    BY <1>7, <1>11 DEF RemoveUnexpected, RemoveAndGoOn, Inspect, Replace, StartExisting, Create,
                       StartNew, Rollback, WaitSeen, WaitExpired
  <2>. QED  BY <1>3, <1>4, <1>5, <1>6, <2>1
<1>. QED  BY <1>8, <1>9, <1>10, <1>11 DEF PrepareStep, Labels

-------------------------------------------------------------------------------
(* The promises.                                                           *)

(* The containers stay in order.                                           *)
LEMMA OrderStep ==
  ASSUME Inv, OrderInv, [Next]_vars
  PROVE  OrderInv'
<1>. SUFFICES ASSUME Tidy, \A c \in ContainerId : Alive(c) => InOrder(conf[c]),
                     NEW d \in ContainerId, Alive(d)'
              PROVE  InOrder(conf[d])'
  BY DEF OrderInv
<1>1. conf'[d] # None /\ (InOrder(conf[d])' <=> InOrder(conf'[d]))
  BY DEF Alive, InOrder
<1>2. CASE conf'[d] = conf[d]
  BY <1>1, <1>2 DEF Alive
<1>3. CASE HostEffect
  <2>1. ASSUME NEW c \in ContainerId, Changes(c) PROVE conf'[d] = conf[d]
    BY <1>1, <2>1, ChangesOne DEF Inv, HostInv, HostType
  <2>2. ASSUME NEW c \in ContainerId, NEW v \in VolumeSpecs, NEW image \in Image,
               ContainerCreate(c, HelperOptions(v, image))
        PROVE  conf'[d] = conf[d] \/ InOrder(conf'[d])
    BY <2>2, HelperInOrder DEF ContainerCreate, Inv, HostInv, HostType
  <2>. QED  BY <1>1, <1>2, <1>3, <2>1, <2>2 DEF HostEffect, host, Umount
<1>4. CASE Environment
  <2>1. ASSUME NEW c \in ContainerId, Changes(c) PROVE conf'[d] = conf[d]
    BY <1>1, <2>1, ChangesOne DEF Inv, HostInv, HostType
  <2>2. ASSUME NEW c \in ContainerId, NEW cf \in Foreign, ForeignCreate(c, cf)
        PROVE  conf'[d] = conf[d] \/ InOrder(conf'[d])
    BY <2>2 DEF ForeignCreate, ContainerCreate, Inv, HostInv, HostType, Tidy
  <2>. QED  BY <1>1, <1>2, <1>4, <2>1, <2>2
            DEF Environment, Dies, ForeignStart, ForeignExit, LateUmount, Umount, Changes
<1>5. CASE \E p \in Proc : Crash(p)
  BY <1>2, <1>5 DEF Crash, host
<1>. QED  BY <1>2, <1>3, <1>4, <1>5, PrepareStepOK, CleanupStepOK DEF Next, Step, Inv, vars

(* What undisturbed commands have made sure of, at every step.             *)
LEMMA NextPromises ==
  ASSUME Inv, Promises, [Next]_vars
  PROVE  Promises'
<1>1. LayersNoted'
  BY DEF Next, vars, Promises, LayersNoted, NoteLayers
<1>2. ASSUME NEW p \in Proc, alone'[p]
      PROVE  Prepared(job[p])' /\ Cleaned(job[p])'
  <2>1. CASE \E q \in Proc : Step(q) /\ Alone(q) /\ NoteLayers
    <3>1. Step(p) /\ NoteLayers /\ (job[p].pc \in Resting \/ alone[p])
      BY <1>2, <2>1 DEF Alone
    <3>2. job[p].pc \notin Resting => Prepared(job[p]) /\ Cleaned(job[p])
      BY <3>1 DEF Promises
    <3>3. CASE PrepareStep(p)
      <4>1. Prepared(job[p])'
        BY <3>2, <3>3, PreparePromise DEF Promises
      <4>2. job'[p].pc \in Preparing \union {"prepared"}
        BY <3>3, PrepareEnds
      <4>. QED  BY <4>1, <4>2 DEF Cleaned, Preparing
    <3>4. CASE CleanupStep(p)
      <4>1. Cleaned(job[p])' /\ job'[p].pc \in Cleaning \union {"cleaned"}
        BY <3>1, <3>2, <3>4, CleanupPromise DEF Promises
      <4>. QED  BY <4>1 DEF Prepared, Looping, Cleaning
    <3>. QED  BY <3>1, <3>3, <3>4 DEF Step
  <2>2. CASE (\E q \in Proc : Crash(q) /\ Disturbed) \/ (Environment /\ Disturbed)
    BY <1>2, <2>2 DEF Disturbed
  <2>3. CASE UNCHANGED vars
    BY <1>2, <2>3 DEF vars, Promises, Prepared, Exposed, AtHand, HelperRuns, Cleaned, Reclaimed,
                      Alive
  <2>. QED  BY <2>1, <2>2, <2>3 DEF Next
<1>. QED  BY <1>1, <1>2, OrderStep DEF Promises

(* They hold at the start, too.                                            *)
LEMMA PromisesKept == Spec => []Promises
<1>1. Init => Promises
  BY DEF Init, Promises, OrderInv, LayersNoted, Alive, BackupAt, MountPoint
<1>2. Inv /\ Promises /\ [Next]_vars => Promises'
  BY NextPromises
<1>. QED  BY <1>1, <1>2, Invariance, PTL DEF Spec

(* A prepare that exits with 0 and that nobody disturbed leaves for each   *)
(* enabled volume a running helper of its own configuration.               *)
SoloHelpers ==
  \A p \in Proc :
    alone[p] /\ At(p, "prepared") /\ ~job[p].errs =>
      \A v \in Enabled : HelperRuns(v, job[p].image)

(* Whatever there was before, the helpers of an undisturbed prepare that   *)
(* exits with 0 run.                                                       *)
THEOREM UndisturbedHelpers == Spec => []SoloHelpers
<1>1. Promises => SoloHelpers
  BY DEF Promises, Prepared, Exposed, SoloHelpers, At
<1>. QED  BY <1>1, PromisesKept, PTL

(* Where no earlier configuration has left a helper on the path of a       *)
(* volume before its own, the paths are mounts as well.                    *)
THEOREM UndisturbedPrepare ==
  ASSUME Tidy
  PROVE  Spec => []SoloPrepare
<1>1. Promises => SoloPrepare
  BY DEF Promises, Prepared, Exposed, HelperRuns, Served, SoloPrepare, At
<1>. QED  BY <1>1, PromisesKept, PTL

(* A cleanup that exits with 0 and that nobody disturbed leaves no managed *)
(* helper, and no mount on the path of a helper it listed, but where       *)
(* mounts were stacked.                                                    *)
THEOREM UndisturbedCleanup == Spec => []SoloCleanup
<1>1. Inv /\ Promises => SoloCleanup
  BY DEF Inv, JobsInv, JobInv, Promises, Cleaned, Reclaimed, IsManaged, SoloCleanup, At
<1>. QED  BY <1>1, Invariance, PromisesKept, PTL

-------------------------------------------------------------------------------
(* Prepares that race.                                                     *)

(* The assumption: one configuration, and others keep off helpers' names.  *)
OnlyPrepares ==
  /\ Commands \subseteq {"prepare"} /\ Trouble \subseteq {"crash", "foreign"}
  /\ Proc # {}
  /\ \A image, other \in Image : image = other
  /\ \A cf \in Foreign, v \in Volume : cf.name # HelperName(v)

IsOwn(cf) == \E v \in VolumeSpecs, image \in Image : cf = HelperOptions(v, image)

HelperOf(cf, v) == IsOwn(cf) /\ cf.volume = v

UpVolumes == {v \in VolumeSpecs : \E c \in running : HelperOf(conf[c], v)}

LayersOf(stack, d) == {i \in DOMAIN stack : stack[i] = d}

RunsAt(at, d) == {c \in running : conf[c].at = at /\ conf[c].data = d}

RunsFinite == IsFiniteSet(running)

Layered ==
  \A at \in MountPoint, d \in Volume :
    Cardinality(RunsAt(at, d)) <= Cardinality(LayersOf(mounts[at], d))

HelpersInv ==
  /\ \A c \in ContainerId : Alive(c) => IsOwn(conf[c]) \/ conf[c] \in Foreign
  /\ \A c, d \in ContainerId : Alive(c) /\ Alive(d) /\ conf[c].name = conf[d].name => c = d
  /\ RunsFinite
  /\ Layered

(* What a process with local state j has seen, k being the containers and  *)
(* U the volumes whose helpers run.                                        *)
PrepareInv(k, U, j) ==
  /\ j.pc \in {"idle", "volumes", "list", "scan", "start", "startnew", "wait", "prepared"}
  /\ \A s \in j.found : /\ IsOwn(s.conf) => k[s.id] = s.conf
                        /\ ~IsOwn(s.conf) => s.conf \in Foreign
  /\ \A v \in j.todo : IsFirst(v, j.todo) =>
       /\ j.pc = "scan" => \A s \in j.found : s.conf.volume = v
       /\ j.pc \in {"start", "startnew"} => HelperOf(k[j.cur], v)
       /\ j.pc = "wait" => v \in U
  /\ j.pc \notin {"idle", "volumes"} /\ ~j.errs => VolumeSpecs \ j.todo \subseteq U
  /\ j.pc = "prepared" => j.todo = {}

(* It is still going to see to volume v.                                   *)
Awaits(j, v) == j.pc \in {"idle", "volumes"} \/ v \in j.todo

(* It is still going to start container c of volume v.                     *)
WillStart(j, v, c) ==
  \/ j.pc \in {"idle", "volumes"}
  \/ /\ v \in j.todo
     /\ \/ ~IsFirst(v, j.todo)
        \/ j.pc = "list"
        \/ j.pc = "scan" /\ \E s \in j.found : s.id = c
        \/ j.pc \in {"start", "startnew"} /\ j.cur = c

(* The volume is served, or will be before all prepares have ended.        *)
Cared(v) ==
  \/ v \in UpVolumes
  \/ \E c \in ContainerId : HelperOf(conf[c], v) /\ \E p \in Proc : WillStart(job[p], v, c)
  \/ /\ \A c \in ContainerId : ~HelperOf(conf[c], v)
     /\ \A p \in Proc : Awaits(job[p], v)

SharedInv ==
  /\ HelpersInv
  /\ \A p \in Proc : PrepareInv(conf, UpVolumes, job[p])
  /\ \A v \in VolumeSpecs : Cared(v)

-------------------------------------------------------------------------------
(* Counting the layers of a volume on a path.                              *)

LEMMA LayersFinite ==
  ASSUME NEW V, NEW s \in Seq(V), NEW d
  PROVE  /\ DOMAIN s = 1 .. Len(s) /\ Len(s) \in Nat
         /\ IsFiniteSet(LayersOf(s, d)) /\ Cardinality(LayersOf(s, d)) \in Nat
<1>1. DOMAIN s = 1 .. Len(s) /\ Len(s) \in Nat
  BY LenProperties
<1>2. IsFiniteSet(1 .. Len(s))
  BY <1>1, FS_Interval
<1>3. LayersOf(s, d) \subseteq 1 .. Len(s)
  BY <1>1 DEF LayersOf
<1>. QED  BY <1>1, <1>2, <1>3, FS_Subset, FS_CardinalityType

(* A stack that keeps each of these layers at another place has no fewer.  *)
LEMMA LayersMoved ==
  ASSUME NEW V, NEW s, NEW t \in Seq(V), NEW d, NEW S \in SUBSET LayersOf(s, d), NEW f,
         f \in [S -> LayersOf(t, d)], \A i, k \in S : f[i] = f[k] => i = k
  PROVE  Cardinality(S) <= Cardinality(LayersOf(t, d))
<1>1. f \in Injection(S, LayersOf(t, d))
  BY DEF Injection, IsInjective
<1>. QED  BY <1>1, LayersFinite, FS_Injection

LEMMA PushedLayers ==
  ASSUME NEW V, NEW s \in Seq(V), NEW v \in V, NEW d, NEW t, t = <<v>> \o s
  PROVE  /\ Cardinality(LayersOf(s, d)) <= Cardinality(LayersOf(t, d))
         /\ v = d => Cardinality(LayersOf(s, d)) + 1 <= Cardinality(LayersOf(t, d))
<1>. DEFINE A == LayersOf(s, d)
            B == LayersOf(t, d)
            f == [i \in A |-> i + 1]
<1>1. DOMAIN s = 1 .. Len(s) /\ Len(s) \in Nat
  BY LenProperties
<1>2. t \in Seq(V) /\ Len(t) = Len(s) + 1 /\ t[1] = v /\ \A i \in 1 .. Len(s) : t[i + 1] = s[i]
  <2>1. <<v>> \in Seq(V) /\ Len(<<v>>) = 1 /\ <<v>>[1] = v
    OBVIOUS
  <2>. QED  BY <1>1, <2>1, ConcatProperties
<1>3. DOMAIN t = 1 .. Len(s) + 1
  BY <1>2, LenProperties
<1>4. f \in [A -> B \ {1}] /\ \A i, k \in A : f[i] = f[k] => i = k
  BY <1>1, <1>2, <1>3 DEF LayersOf
<1>5. IsFiniteSet(B) /\ Cardinality(B) \in Nat /\ Cardinality(A) \in Nat
  BY <1>2, LayersFinite
<1>6. Cardinality(A) <= Cardinality(B \ {1})
  <2>1. IsFiniteSet(B \ {1})
    BY <1>5, FS_Subset
  <2>2. f \in Injection(A, B \ {1})
    BY <1>4 DEF Injection, IsInjective
  <2>. QED  BY <2>1, <2>2, FS_Injection
<1>7. Cardinality(B \ {1}) = IF 1 \in B THEN Cardinality(B) - 1 ELSE Cardinality(B)
  BY <1>5, FS_RemoveElement
<1>8. v = d => 1 \in B
  BY <1>1, <1>2, <1>3 DEF LayersOf
<1>. HIDE DEF A, B, f
<1>9. Cardinality(A) <= Cardinality(B) /\ (v = d => Cardinality(A) + 1 <= Cardinality(B))
  BY <1>5, <1>6, <1>7, <1>8
<1>. QED  BY <1>9 DEF A, B

LEMMA RemovedLayer ==
  ASSUME NEW V, NEW s \in Seq(V), NEW k \in DOMAIN s, NEW d
  PROVE  Cardinality(LayersOf(s, d) \ {k}) <= Cardinality(LayersOf(WithoutLayer(s, k), d))
<1>. DEFINE t == WithoutLayer(s, k)
            A == LayersOf(s, d) \ {k}
            f == [i \in A |-> IF i < k THEN i ELSE i - 1]
<1>1. DOMAIN s = 1 .. Len(s) /\ Len(s) \in Nat /\ k \in 1 .. Len(s)
  BY LenProperties
<1>2. /\ SubSeq(s, 1, k - 1) \in Seq(V) /\ Len(SubSeq(s, 1, k - 1)) = k - 1
      /\ \A i \in 1 .. k - 1 : SubSeq(s, 1, k - 1)[i] = s[i]
  <2>1. \A i \in 1 .. k - 1 : s[i] \in V
    BY <1>1, ElementOfSeq
  <2>2. k - 1 \in Int /\ 1 \in Int /\ (k - 1) - 1 + 1 = k - 1
    BY <1>1
  <2>. QED  BY <1>1, <2>1, <2>2, SubSeqProperties
<1>3. /\ SubSeq(s, k + 1, Len(s)) \in Seq(V) /\ Len(SubSeq(s, k + 1, Len(s))) = Len(s) - k
      /\ \A i \in 1 .. Len(s) - k : SubSeq(s, k + 1, Len(s))[i] = s[k + i]
  <2>1. \A i \in k + 1 .. Len(s) : s[i] \in V
    BY <1>1, ElementOfSeq
  <2>2. k + 1 \in Int /\ Len(s) \in Int /\ Len(s) - (k + 1) + 1 = Len(s) - k
    BY <1>1
  <2>3. \A i \in 1 .. Len(s) - k : (k + 1) + i - 1 = k + i
    BY <1>1
  <2>. QED  BY <1>1, <2>1, <2>2, <2>3, SubSeqProperties
<1>4. /\ t \in Seq(V) /\ Len(t) = Len(s) - 1
      /\ \A i \in 1 .. Len(s) - 1 : t[i] = IF i < k THEN s[i] ELSE s[i + 1]
  <2>. DEFINE head == SubSeq(s, 1, k - 1)
              tail == SubSeq(s, k + 1, Len(s))
  <2>1. head \in Seq(V) /\ tail \in Seq(V) /\ Len(head) = k - 1 /\ Len(tail) = Len(s) - k
    BY <1>2, <1>3
  <2>2. t = head \o tail
    BY DEF WithoutLayer
  <2>3. /\ head \o tail \in Seq(V)
        /\ Len(head \o tail) = Len(head) + Len(tail)
        /\ \A i \in 1 .. Len(head) + Len(tail) :
             (head \o tail)[i] = IF i <= Len(head) THEN head[i] ELSE tail[i - Len(head)]
    BY <2>1, ConcatProperties
  <2>4. \A i \in 1 .. Len(s) - 1 : i >= k => tail[i - (k - 1)] = s[i + 1]
    BY <1>1, <1>3
  <2>. HIDE DEF t, head, tail
  <2>5. Len(head) + Len(tail) = Len(s) - 1
    BY <1>1, <2>1
  <2>6. ASSUME NEW i \in 1 .. Len(s) - 1
        PROVE  t[i] = IF i < k THEN s[i] ELSE s[i + 1]
    <3>1. CASE i < k
      BY <1>1, <1>2, <2>1, <2>2, <2>3, <2>5, <3>1 DEF head
    <3>2. CASE i >= k
      BY <1>1, <2>1, <2>2, <2>3, <2>4, <2>5, <3>2
    <3>. QED  BY <1>1, <3>1, <3>2
  <2>. QED  BY <2>2, <2>3, <2>5, <2>6
<1>5. DOMAIN t = 1 .. Len(s) - 1
  BY <1>4, LenProperties
<1>. HIDE DEF t
<1>6. f \in [A -> LayersOf(t, d)] /\ \A i, j \in A : f[i] = f[j] => i = j
  BY <1>1, <1>4, <1>5 DEF LayersOf
<1>7. A \in SUBSET LayersOf(s, d)
  OBVIOUS
<1>. HIDE DEF f, A
<1>8. Cardinality(A) <= Cardinality(LayersOf(t, d))
  BY <1>4, <1>6, <1>7, LayersMoved
<1>. QED  BY <1>8 DEF t, A

-------------------------------------------------------------------------------
(* No call of the daemon leaves a running container without its layer.     *)

LEMMA CountTypes ==
  ASSUME HostInv, RunsFinite, NEW at \in MountPoint, NEW d
  PROVE  /\ IsFiniteSet(RunsAt(at, d)) /\ Cardinality(RunsAt(at, d)) \in Nat
         /\ IsFiniteSet(LayersOf(mounts[at], d)) /\ Cardinality(LayersOf(mounts[at], d)) \in Nat
         /\ mounts[at] \in Seq(Volume)
<1>1. RunsAt(at, d) \subseteq running
  BY DEF RunsAt
<1>2. mounts[at] \in Seq(Volume)
  BY DEF HostInv, HostType
<1>. QED  BY <1>1, <1>2, FS_Subset, FS_CardinalityType, LayersFinite DEF RunsFinite

(* Where a layer is there for a container, the path is a mount.            *)
LEMMA RunningIsMounted ==
  ASSUME HostInv, RunsFinite, Layered, NEW c \in running, conf[c].at # None
  PROVE  mounts[conf[c].at] # <<>>
<1>1. conf[c].at \in MountPoint /\ conf[c].data \in Volume
  BY KnownConfMounts DEF HostInv, HostType, Alive, MountsVolumes
<1>2. c \in RunsAt(conf[c].at, conf[c].data)
  BY DEF RunsAt
<1>3. Cardinality(RunsAt(conf[c].at, conf[c].data)) > 0
  BY <1>1, <1>2, CountTypes, FS_EmptySet
<1>4. Cardinality(LayersOf(mounts[conf[c].at], conf[c].data)) # 0
  BY <1>1, <1>3, CountTypes DEF Layered
<1>5. LayersOf(mounts[conf[c].at], conf[c].data) # {}
  BY <1>1, <1>4, CountTypes, FS_EmptySet
<1>6. DOMAIN <<>> = {}
  OBVIOUS
<1>. QED  BY <1>5, <1>6 DEF LayersOf

(* A container that starts makes its layer.                                *)
LEMMA StartLayered ==
  ASSUME HostInv, RunsFinite, Layered, NEW c \in ContainerId, ContainerStart(c)
  PROVE  RunsFinite' /\ Layered'
<1>1. conf' = conf /\ running' = running \union {c} /\ Alive(c) /\ conf[c] \in KnownConf
  BY DEF ContainerStart, HostInv, HostType, Alive
<1>2. RunsFinite'
  BY <1>1, FS_AddElement DEF RunsFinite
<1>3. SUFFICES ASSUME NEW at \in MountPoint, NEW d \in Volume
               PROVE  Cardinality(RunsAt(at, d)') <= Cardinality(LayersOf(mounts'[at], d))
  BY <1>2 DEF Layered
<1>4. Cardinality(RunsAt(at, d)) <= Cardinality(LayersOf(mounts[at], d))
  BY DEF Layered
<1>5. CASE c \in running \/ conf[c].at # at
  <2>1. RunsAt(at, d)' = RunsAt(at, d)
    BY <1>1, <1>5 DEF RunsAt
  <2>2. mounts'[at] = mounts[at]
    BY <1>1, <1>5 DEF ContainerStart, Push, HostInv, HostType
  <2>. QED  BY <1>4, <2>1, <2>2
<1>6. CASE c \notin running /\ conf[c].at = at
  <2>1. conf[c].at # None
    BY <1>6, NoneAssumption
  <2>2. mounts'[at] = <<conf[c].data>> \o mounts[at]
    BY <1>6, <2>1 DEF ContainerStart, Push, HostInv, HostType
  <2>3. conf[c].data \in Volume
    BY <1>1, <2>1, KnownConfMounts DEF MountsVolumes
  <2>4. /\ Cardinality(LayersOf(mounts[at], d)) <= Cardinality(LayersOf(mounts'[at], d))
        /\ conf[c].data = d =>
             Cardinality(LayersOf(mounts[at], d)) + 1 <= Cardinality(LayersOf(mounts'[at], d))
    BY <2>2, <2>3, CountTypes, PushedLayers
  <2>5. mounts'[at] \in Seq(Volume)
    BY <1>1, <1>6, <2>2, <2>3, CountTypes, ConcatProperties
  <2>6. Cardinality(LayersOf(mounts'[at], d)) \in Nat
    BY <2>5, LayersFinite
  <2>7. CASE conf[c].data = d
    <3>1. RunsAt(at, d)' = RunsAt(at, d) \union {c} /\ c \notin RunsAt(at, d)
      BY <1>1, <1>6, <2>7 DEF RunsAt
    <3>2. Cardinality(RunsAt(at, d)') = Cardinality(RunsAt(at, d)) + 1
      BY <3>1, CountTypes, FS_AddElement
    <3>. QED  BY <1>4, <2>4, <2>6, <2>7, <3>2, CountTypes
  <2>8. CASE conf[c].data # d
    <3>1. RunsAt(at, d)' = RunsAt(at, d)
      BY <1>1, <2>8 DEF RunsAt
    <3>. QED  BY <1>4, <2>4, <2>6, <3>1, CountTypes
  <2>. QED  BY <2>7, <2>8
<1>. QED  BY <1>5, <1>6

(* A container that stops running takes at most its own layer away.        *)
LEMMA StopLayered ==
  ASSUME HostInv, RunsFinite, Layered, NEW c \in ContainerId, Alive(c),
         running' = running \ {c}, LayerStaysOrGoes(c),
         \A e \in ContainerId \ {c} : conf'[e] = conf[e]
  PROVE  RunsFinite' /\ Layered'
<1>1. RunsFinite'
  BY FS_Subset DEF RunsFinite
<1>2. SUFFICES ASSUME NEW at \in MountPoint, NEW d \in Volume
               PROVE  Cardinality(RunsAt(at, d)') <= Cardinality(LayersOf(mounts'[at], d))
  BY <1>1 DEF Layered
<1>3. Cardinality(RunsAt(at, d)) <= Cardinality(LayersOf(mounts[at], d))
  BY DEF Layered
<1>4. RunsAt(at, d)' = RunsAt(at, d) \ {c}
  BY DEF RunsAt, HostInv, HostType
<1>5. Cardinality(RunsAt(at, d)') = IF c \in RunsAt(at, d) THEN Cardinality(RunsAt(at, d)) - 1
                                                          ELSE Cardinality(RunsAt(at, d))
  BY <1>4, CountTypes, FS_RemoveElement
<1>6. CASE mounts'[at] = mounts[at]
  BY <1>3, <1>5, <1>6, CountTypes
<1>7. CASE mounts'[at] # mounts[at]
  <2>1. c \in running /\ conf[c].at = at
    BY <1>7 DEF LayerStaysOrGoes, HostInv, HostType
  <2>2. PICK i \in DOMAIN mounts[at] :
               mounts[at][i] = conf[c].data /\ mounts'[at] = WithoutLayer(mounts[at], i)
    BY <1>7, <2>1 DEF LayerStaysOrGoes, HostInv, HostType
  <2>3. mounts'[at] \in Seq(Volume)
    BY <2>2, CountTypes, WithoutLayerType
  <2>4. Cardinality(LayersOf(mounts'[at], d)) \in Nat
    BY <2>3, LayersFinite
  <2>5. Cardinality(LayersOf(mounts[at], d) \ {i}) <= Cardinality(LayersOf(mounts'[at], d))
    BY <2>2, CountTypes, RemovedLayer
  <2>6. Cardinality(LayersOf(mounts[at], d) \ {i}) =
          IF i \in LayersOf(mounts[at], d) THEN Cardinality(LayersOf(mounts[at], d)) - 1
                                           ELSE Cardinality(LayersOf(mounts[at], d))
    BY CountTypes, FS_RemoveElement
  <2>7. i \in LayersOf(mounts[at], d) <=> conf[c].data = d
    BY <2>2 DEF LayersOf
  <2>8. c \in RunsAt(at, d) <=> conf[c].data = d
    BY <2>1 DEF RunsAt
  <2>. QED  BY <1>3, <1>5, <2>4, <2>5, <2>6, <2>7, <2>8, CountTypes
<1>. QED  BY <1>6, <1>7

LEMMA ChangesLayered ==
  ASSUME HostInv, RunsFinite, Layered, NEW c \in ContainerId, Changes(c)
  PROVE  RunsFinite' /\ Layered'
<1>1. CASE UNCHANGED host
  BY <1>1 DEF host, RunsFinite, Layered, RunsAt
<1>2. CASE ContainerStart(c)
  BY <1>2, StartLayered
<1>3. CASE Vanish(c) \/ ContainerExit(c)
  <2>1. Alive(c)
    BY <1>3 DEF Vanish, ContainerExit, HostInv, HostType
  <2>2. running' = running \ {c} /\ LayerStaysOrGoes(c)
        /\ \A e \in ContainerId \ {c} : conf'[e] = conf[e]
    BY <1>3 DEF Vanish, ContainerExit, HostInv, HostType
  <2>. QED  BY <2>1, <2>2, StopLayered
<1>4. CASE /\ Alive(c) /\ c \notin running
           /\ conf' = [conf EXCEPT ![c] = None]
           /\ \/ UNCHANGED mounts
              \/ /\ conf[c].at # None
                 /\ mounts' = Push(conf[c].at, conf[c].data)
           /\ UNCHANGED running
  <2>1. RunsFinite'
    BY <1>4 DEF RunsFinite
  <2>2. SUFFICES ASSUME NEW at \in MountPoint, NEW d \in Volume
                 PROVE  Cardinality(RunsAt(at, d)') <= Cardinality(LayersOf(mounts'[at], d))
    BY <2>1 DEF Layered
  <2>3. RunsAt(at, d)' = RunsAt(at, d)
    BY <1>4 DEF RunsAt, HostInv, HostType
  <2>4. Cardinality(RunsAt(at, d)) <= Cardinality(LayersOf(mounts[at], d))
    BY DEF Layered
  <2>5. CASE mounts'[at] = mounts[at]
    BY <2>3, <2>4, <2>5
  <2>6. CASE mounts'[at] # mounts[at]
    <3>1. conf[c].at # None /\ mounts'[at] = <<conf[c].data>> \o mounts[at]
      BY <1>4, <2>6 DEF Push, HostInv, HostType
    <3>2. conf[c].data \in Volume
      BY <1>4, <3>1, KnownConfMounts DEF MountsVolumes, HostInv, HostType, Alive
    <3>3. mounts'[at] \in Seq(Volume)
      BY <3>1, <3>2, CountTypes, ConcatProperties
    <3>4. Cardinality(LayersOf(mounts'[at], d)) \in Nat
      BY <3>3, LayersFinite
    <3>5. Cardinality(LayersOf(mounts[at], d)) <= Cardinality(LayersOf(mounts'[at], d))
      BY <3>1, <3>2, CountTypes, PushedLayers
    <3>. QED  BY <2>3, <2>4, <3>4, <3>5, CountTypes
  <2>. QED  BY <2>5, <2>6
<1>. QED  BY <1>1, <1>2, <1>3, <1>4 DEF Changes, ContainerStartFails

-------------------------------------------------------------------------------
(* What happens to the host: helpers come and start, others come and go.   *)

CalmEffect ==
  \/ UNCHANGED host
  \/ \E c \in ContainerId : ContainerStart(c)
  \/ \E c \in ContainerId : ~IsOwn(conf[c]) /\ Changes(c)
  \/ \E c \in ContainerId, cf \in KnownConf :
       ContainerCreate(c, cf) /\ (IsOwn(cf) \/ cf \in Foreign)

(* Helpers stay, and go on running.                                        *)
Grows ==
  /\ \A c \in ContainerId : IsOwn(conf[c]) => conf'[c] = conf[c]
  /\ UpVolumes \subseteq UpVolumes'

LEMMA OwnConf ==
  ASSUME NEW cf, IsOwn(cf)
  PROVE  cf \in KnownConf /\ cf # None /\ cf.mode = "backup" /\ cf.volume \in VolumeSpecs
         /\ cf.name = HelperName(cf.volume)
         /\ \E image \in Image : cf = HelperOptions(cf.volume, image)
<1>1. PICK v \in VolumeSpecs, image \in Image : cf = HelperOptions(v, image)
  BY DEF IsOwn
<1>2. cf \in Conf /\ ConfOK(cf)
  BY <1>1, HelperOptionsOK
<1>3. cf.volume = v /\ cf.mode = "backup" /\ cf.name = HelperName(v)
  BY <1>1 DEF HelperOptions
<1>. QED  BY <1>1, <1>2, <1>3, NoneAssumption DEF KnownConf

LEMMA ForeignNotOwn ==
  ASSUME OnlyPrepares, NEW cf \in Foreign
  PROVE  ~IsOwn(cf)
<1>1. ASSUME IsOwn(cf) PROVE FALSE
  <2>1. cf.volume \in Volume /\ cf.name = HelperName(cf.volume)
    BY <1>1, OwnConf, VolumesAssumption DEF VolumeSpecs
  <2>. QED  BY <2>1 DEF OnlyPrepares
<1>. QED  BY <1>1

(* Two containers of one volume are one, for they have one name.           *)
LEMMA OneHelper ==
  ASSUME HelpersInv, NEW c \in ContainerId, NEW d \in ContainerId, NEW v,
         HelperOf(conf[c], v), HelperOf(conf[d], v)
  PROVE  c = d
<1>1. conf[c] # None /\ conf[d] # None /\ conf[c].name = conf[d].name
  BY OwnConf DEF HelperOf
<1>. QED  BY <1>1 DEF HelpersInv, Alive

LEMMA CalmEffectGrows ==
  ASSUME HostInv, CalmEffect
  PROVE  Grows
<1>1. SUFFICES /\ \A c \in ContainerId : IsOwn(conf[c]) => conf'[c] = conf[c]
               /\ \A c \in running : IsOwn(conf[c]) => c \in running'
  BY DEF Grows, UpVolumes, HelperOf, HostInv, HostType
<1>2. CASE UNCHANGED host
  BY <1>2 DEF host
<1>3. CASE \E c \in ContainerId : ContainerStart(c)
  BY <1>3 DEF ContainerStart
<1>4. CASE \E c \in ContainerId : ~IsOwn(conf[c]) /\ Changes(c)
  <2>1. PICK c \in ContainerId : ~IsOwn(conf[c]) /\ Changes(c)
    BY <1>4
  <2>2. \A d \in ContainerId : d # c => conf'[d] = conf[d] /\ (d \in running' <=> d \in running)
    BY <2>1, ChangesOne DEF HostInv
  <2>. QED  BY <2>1, <2>2 DEF HostInv, HostType
<1>5. CASE \E c \in ContainerId, cf \in KnownConf : ContainerCreate(c, cf)
  <2>1. PICK c \in ContainerId, cf \in KnownConf : ContainerCreate(c, cf)
    BY <1>5
  <2>2. ~IsOwn(conf[c])
    BY <2>1, OwnConf DEF ContainerCreate, Alive
  <2>. QED  BY <2>1, <2>2 DEF ContainerCreate, HostInv, HostType
<1>. QED  BY <1>2, <1>3, <1>4, <1>5 DEF CalmEffect

LEMMA CalmEffectKeeps ==
  ASSUME HostInv, HelpersInv, CalmEffect
  PROVE  HelpersInv'
<1>1. CASE UNCHANGED host
  BY <1>1 DEF host, HelpersInv, RunsFinite, Layered, RunsAt, Alive
<1>2. CASE \E c \in ContainerId : Changes(c)
  <2>1. PICK c \in ContainerId : Changes(c)
    BY <1>2
  <2>2. RunsFinite' /\ Layered'
    BY <2>1, ChangesLayered DEF HelpersInv
  <2>3. \A d \in ContainerId : conf'[d] = conf[d] \/ conf'[d] = None
    BY <2>1, ChangesOne DEF HostInv, HostType
  <2>4. \A d \in ContainerId : Alive(d)' => Alive(d) /\ conf'[d] = conf[d]
    BY <2>3 DEF Alive
  <2>. QED  BY <2>2, <2>4 DEF HelpersInv
<1>3. CASE \E c \in ContainerId, cf \in KnownConf :
             ContainerCreate(c, cf) /\ (IsOwn(cf) \/ cf \in Foreign)
  <2>1. PICK c \in ContainerId, cf \in KnownConf :
               ContainerCreate(c, cf) /\ (IsOwn(cf) \/ cf \in Foreign)
    BY <1>3
  <2>2. /\ ~Alive(c) /\ conf'[c] = cf /\ (\A d \in ContainerId : Alive(d) => conf[d].name # cf.name)
        /\ \A d \in ContainerId : d # c => conf'[d] = conf[d]
        /\ UNCHANGED <<running, mounts>>
    BY <2>1 DEF ContainerCreate, NameTaken, HostInv, HostType
  <2>3. RunsFinite' /\ Layered'
    <3>1. \A at, d : RunsAt(at, d)' = RunsAt(at, d)
      BY <2>2 DEF RunsAt, HostInv, HostType
    <3>. QED  BY <2>2, <3>1 DEF HelpersInv, RunsFinite, Layered
  <2>. QED  BY <2>1, <2>2, <2>3 DEF HelpersInv, Alive
<1>. QED  BY <1>1, <1>2, <1>3 DEF CalmEffect, Changes

-------------------------------------------------------------------------------
(* What a step has to show of the process that takes it.                   *)

(* What the process goes on to, as the new local state j.                  *)
Goes(p, j) ==
  \A v \in VolumeSpecs :
    /\ \A c \in ContainerId :
         HelperOf(conf[c], v) /\ WillStart(job[p], v, c) => v \in UpVolumes' \/ WillStart(j, v, c)
    /\ Awaits(job[p], v) => Awaits(j, v) \/ \E c \in ContainerId : HelperOf(conf[c], v)
    /\ \A c \in ContainerId : HelperOf(conf'[c], v) => HelperOf(conf[c], v) \/ WillStart(j, v, c)

LEMMA PrepareInvStable ==
  ASSUME NEW k, NEW l, NEW U, NEW W, NEW j \in Job, NEW m, JobInv(m, j), PrepareInv(k, U, j),
         \A c \in ContainerId : IsOwn(k[c]) => l[c] = k[c], U \subseteq W
  PROVE  PrepareInv(l, W, j)
<1>1. \A s \in j.found : s.id \in ContainerId
  BY DEF Job, Summary
<1>2. j.pc \in {"start", "startnew"} => j.cur \in ContainerId
  BY DEF JobInv, Holding
<1>. QED  BY <1>1, <1>2 DEF PrepareInv, HelperOf

LEMMA StepKeepsShared ==
  ASSUME Inv, SharedInv, CalmEffect, NEW p \in Proc, NEW j, Become(p, j),
         PrepareInv(conf', UpVolumes', j), Goes(p, j)
  PROVE  SharedInv'
<1>1. HelpersInv' /\ Grows
  BY CalmEffectGrows, CalmEffectKeeps DEF Inv, SharedInv
<1>2. job'[p] = j /\ \A q \in Proc : q # p => job'[q] = job[q]
  BY DEF Become, Inv, JobsInv
<1>3. \A q \in Proc : PrepareInv(conf', UpVolumes', job'[q])
  BY <1>1, <1>2, PrepareInvStable DEF Inv, JobsInv, SharedInv, Grows
<1>4. ASSUME NEW v \in VolumeSpecs PROVE Cared(v)'
  <2>1. CASE v \in UpVolumes
    BY <1>1, <2>1 DEF Cared, Grows
  <2>2. CASE \E c \in ContainerId :
               HelperOf(conf[c], v) /\ \E q \in Proc : WillStart(job[q], v, c)
    <3>1. PICK c \in ContainerId, q \in Proc : HelperOf(conf[c], v) /\ WillStart(job[q], v, c)
      BY <2>2
    <3>2. HelperOf(conf'[c], v)
      BY <1>1, <3>1 DEF Grows, HelperOf
    <3>3. v \in UpVolumes' \/ WillStart(job'[q], v, c)
      BY <1>2, <3>1 DEF Goes
    <3>. QED  BY <3>2, <3>3 DEF Cared
  <2>3. CASE /\ \A c \in ContainerId : ~HelperOf(conf[c], v)
             /\ \A q \in Proc : Awaits(job[q], v)
    <3>1. CASE \E c \in ContainerId : HelperOf(conf'[c], v)
      <4>1. PICK c \in ContainerId : HelperOf(conf'[c], v)
        BY <3>1
      <4>2. WillStart(job'[p], v, c)
        BY <1>2, <2>3, <4>1 DEF Goes
      <4>. QED  BY <4>1, <4>2 DEF Cared
    <3>2. CASE \A c \in ContainerId : ~HelperOf(conf'[c], v)
      <4>1. \A q \in Proc : Awaits(job'[q], v)
        BY <1>2, <2>3 DEF Goes
      <4>. QED  BY <3>2, <4>1 DEF Cared
    <3>. QED  BY <3>1, <3>2
  <2>. QED  BY <2>1, <2>2, <2>3 DEF SharedInv, Cared
<1>. QED  BY <1>1, <1>3, <1>4 DEF SharedInv

-------------------------------------------------------------------------------
(* The steps of prepare.                                                   *)

(* What the process that moves knows beforehand.                           *)
LEMMA Knows ==
  ASSUME Inv, SharedInv, NEW p \in Proc
  PROVE  job[p] \in Job /\ JobInv(conf, job[p]) /\ PrepareInv(conf, UpVolumes, job[p])
BY DEF Inv, JobsInv, SharedInv

LEMMA FirstIsOne ==
  ASSUME NEW todo \in SUBSET VolumeSpecs, NEW v, NEW w, IsFirst(v, todo), IsFirst(w, todo)
  PROVE  v = w
<1>1. v \in Nat /\ w \in Nat /\ v <= w /\ w <= v
  BY VolumesAssumption, NumbersAssumption DEF IsFirst, VolumeSpecs
<1>. QED  BY <1>1

(* Where the host does not change, nothing becomes or ceases to be up.     *)
LEMMA QuietHost ==
  ASSUME UNCHANGED host
  PROVE  CalmEffect /\ UpVolumes' = UpVolumes /\ conf' = conf
BY DEF host, CalmEffect, UpVolumes

(* A prepare or a process that was killed is before all volumes.           *)
LEMMA FreshShared ==
  ASSUME Inv, SharedInv, NEW p \in Proc, UNCHANGED host,
         (\E image \in Image : StartPrepare(p, image)) \/ Crash(p)
  PROVE  SharedInv'
<1>1. ASSUME NEW j, Become(p, j), j.pc \in {"idle", "volumes"}, j.todo = {}, j.found = {}
      PROVE  SharedInv'
  <2>1. PrepareInv(conf', UpVolumes', j)
    BY <1>1 DEF PrepareInv
  <2>2. Goes(p, j)
    BY <1>1, QuietHost DEF Goes, WillStart, Awaits
  <2>. QED  BY <1>1, <2>1, <2>2, QuietHost, StepKeepsShared
<1>2. CASE Crash(p)
  <2>1. Idle.pc = "idle" /\ Idle.todo = {} /\ Idle.found = {}
    BY DEF Idle
  <2>. QED  BY <1>1, <1>2, <2>1 DEF Crash
<1>3. ASSUME NEW image \in Image, StartPrepare(p, image) PROVE SharedInv'
  <2>. DEFINE j == [Idle EXCEPT !.pc = "volumes", !.image = image]
  <2>1. j.pc = "volumes" /\ j.todo = {} /\ j.found = {}
    BY DEF Idle
  <2>2. Become(p, j)
    BY <1>3 DEF StartPrepare
  <2>. HIDE DEF j
  <2>. QED  BY <1>1, <2>1, <2>2
<1>. QED  BY <1>2, <1>3

LEMMA VolumeListShared ==
  ASSUME OnlyPrepares, Inv, SharedInv, NEW p \in Proc, VolumeList(p)
  PROVE  SharedInv'
<1>. DEFINE label == IF VolumeSpecs = {} THEN "prepared" ELSE "list"
            j == [job[p] EXCEPT !.pc = label, !.todo = VolumeSpecs, !.errs = SpecErr]
<1>1. job[p].pc = "volumes" /\ Become(p, j) /\ UNCHANGED host
  BY DEF VolumeList, At, May, OnlyPrepares
<1>2. j.pc = label /\ j.todo = VolumeSpecs /\ j.found = job[p].found
  BY Knows DEF Job
<1>. HIDE DEF j
<1>3. PrepareInv(conf', UpVolumes', j)
  BY <1>1, <1>2, Knows, QuietHost DEF PrepareInv
<1>4. Goes(p, j)
  BY <1>1, <1>2, QuietHost DEF Goes, WillStart, Awaits
<1>. QED  BY <1>1, <1>3, <1>4, QuietHost, StepKeepsShared

LEMMA ListShared ==
  ASSUME OnlyPrepares, Inv, SharedInv, NEW p \in Proc, NEW v \in job[p].todo, ListHelpers(p, v)
  PROVE  SharedInv'
<1>. DEFINE found == Summaries(HelpersForVolume(v))
            j == [job[p] EXCEPT !.pc = "scan", !.found = found]
<1>1. job[p].pc = "list" /\ IsFirst(v, job[p].todo) /\ Become(p, j) /\ UNCHANGED host
  BY DEF ListHelpers, At, May, OnlyPrepares
<1>2. j.pc = "scan" /\ j.todo = job[p].todo /\ j.found = found /\ j.errs = job[p].errs
      /\ job[p].todo \subseteq VolumeSpecs
  BY Knows DEF Job
<1>3. \A s \in found : s.id \in ContainerId /\ s.conf = conf[s.id] /\ Alive(s.id) /\ s.conf.volume = v
  BY DEF Summaries, HelpersForVolume
<1>4. \A c \in ContainerId : HelperOf(conf[c], v) => \E s \in found : s.id = c
  <2>. SUFFICES ASSUME NEW c \in ContainerId, HelperOf(conf[c], v)
                PROVE  \E s \in found : s.id = c
    OBVIOUS
  <2>1. c \in HelpersForVolume(v)
    BY OwnConf DEF HelperOf, HelpersForVolume, Alive
  <2>. DEFINE s == [id |-> c, conf |-> conf[c]]
  <2>2. s \in found
    BY <2>1 DEF Summaries
  <2>. QED  BY <2>2
<1>. HIDE DEF j, found
<1>5. PrepareInv(conf', UpVolumes', j)
  <2>1. \A w \in j.todo : IsFirst(w, j.todo) => w = v
    BY <1>1, <1>2, FirstIsOne
  <2>2. \A s \in j.found : /\ IsOwn(s.conf) => conf'[s.id] = s.conf
                           /\ ~IsOwn(s.conf) => s.conf \in Foreign
    BY <1>2, <1>3, <1>1, QuietHost DEF SharedInv, HelpersInv
  <2>3. ~j.errs => VolumeSpecs \ j.todo \subseteq UpVolumes'
    BY <1>1, <1>2, Knows, QuietHost DEF PrepareInv
  <2>. QED  BY <1>2, <1>3, <2>1, <2>2, <2>3 DEF PrepareInv
<1>6. Goes(p, j)
  <2>1. \A w : IsFirst(w, job[p].todo) => w = v
    BY <1>1, <1>2, FirstIsOne
  <2>. QED  BY <1>1, <1>2, <1>4, <2>1, QuietHost DEF Goes, WillStart, Awaits
<1>. QED  BY <1>1, <1>5, <1>6, QuietHost, StepKeepsShared

(* A container on the list under the helper's name is the helper.          *)
LEMMA FoundByName ==
  ASSUME OnlyPrepares, Inv, SharedInv, NEW p \in Proc, NEW v \in job[p].todo,
         job[p].pc = "scan", IsFirst(v, job[p].todo), NEW s \in job[p].found
  PROVE  /\ s.conf.volume = v /\ s.id \in ContainerId
         /\ s.conf.name = HelperName(v) => HelperOf(conf[s.id], v)
         /\ s.conf.name # HelperName(v) => ~IsOwn(conf[s.id])
<1>1. s.conf.volume = v /\ s.id \in ContainerId /\ v \in VolumeSpecs
      /\ (IsOwn(s.conf) => conf[s.id] = s.conf) /\ (~IsOwn(s.conf) => s.conf \in Foreign)
      /\ (conf[s.id] = None \/ conf[s.id] = s.conf)
  BY Knows DEF PrepareInv, JobInv, Job, Summary
<1>2. v \in Volume
  BY <1>1, VolumesAssumption DEF VolumeSpecs
<1>3. ASSUME s.conf.name = HelperName(v) PROVE HelperOf(conf[s.id], v)
  BY <1>1, <1>2, <1>3 DEF OnlyPrepares, HelperOf
<1>4. ASSUME IsOwn(conf[s.id]) PROVE s.conf.name = HelperName(v)
  BY <1>1, <1>4, OwnConf
<1>. QED  BY <1>1, <1>3, <1>4

(* What is removed is a container of others; the helper stays on the list. *)
LEMMA RemoveShared ==
  ASSUME OnlyPrepares, Inv, SharedInv, NEW p \in Proc, NEW v \in job[p].todo, NEW s \in job[p].found,
         RemoveUnexpected(p, v, s)
  PROVE  SharedInv'
<1>. DEFINE j == [job[p] EXCEPT !.pc = "scan", !.cur = None, !.found = {t \in @ : t.id # s.id}]
<1>1. job[p].pc = "scan" /\ IsFirst(v, job[p].todo) /\ ContainerRemove(s.id) /\ Become(p, j)
      /\ s.conf.name # HelperName(v)
  BY DEF RemoveUnexpected, RemoveAndGoOn, NextHelper, At, May, OnlyPrepares
<1>2. j.pc = "scan" /\ j.todo = job[p].todo /\ j.found = {t \in job[p].found : t.id # s.id}
      /\ j.errs = job[p].errs /\ job[p].todo \subseteq VolumeSpecs
  BY Knows DEF Job
<1>3. s.id \in ContainerId /\ ~IsOwn(conf[s.id])
  BY <1>1, FoundByName
<1>4. CalmEffect
  BY <1>1, <1>3 DEF ContainerRemove, CalmEffect, Changes
<1>5. Grows
  BY <1>4, CalmEffectGrows DEF Inv
<1>6. \A c \in ContainerId : conf'[c] = conf[c] \/ conf'[c] = None
  BY <1>1 DEF ContainerRemove, Vanish, host, Inv, HostInv, HostType
<1>. HIDE DEF j
<1>7. PrepareInv(conf', UpVolumes', job[p])
  BY <1>5, Knows, PrepareInvStable DEF Grows
<1>8. PrepareInv(conf', UpVolumes', j)
  BY <1>1, <1>2, <1>7 DEF PrepareInv
<1>9. Goes(p, j)
  <2>1. \A c \in ContainerId : \A w : HelperOf(conf'[c], w) => HelperOf(conf[c], w)
    BY <1>6, OwnConf DEF HelperOf
  <2>2. \A c, w : HelperOf(conf[c], w) => c # s.id
    BY <1>3 DEF HelperOf
  <2>. QED  BY <1>1, <1>2, <2>1, <2>2 DEF Goes, WillStart, Awaits
<1>. QED  BY <1>1, <1>4, <1>8, <1>9, StepKeepsShared

(* The candidate is the helper: it runs, or is to be started.              *)
LEMMA InspectShared ==
  ASSUME OnlyPrepares, Inv, SharedInv, NEW p \in Proc, NEW v \in job[p].todo, NEW s \in job[p].found,
         Inspect(p, v, s)
  PROVE  SharedInv'
<1>. DEFINE wait == [job[p] EXCEPT !.pc = "wait"]
            start == [job[p] EXCEPT !.pc = "start", !.cur = s.id]
<1>1. job[p].pc = "scan" /\ IsFirst(v, job[p].todo) /\ UNCHANGED host /\ s.conf.name = HelperName(v)
      /\ v \in VolumeSpecs /\ job[p].todo \subseteq VolumeSpecs /\ job[p].image \in Image
  BY Knows DEF Inspect, At, Job, JobInv, Preparing
<1>2. s.id \in ContainerId /\ HelperOf(conf[s.id], v) /\ Alive(s.id)
  BY <1>1, FoundByName, OwnConf DEF HelperOf, Alive
<1>3. HelperMatches(conf[s.id], v, job[p].image)
  <2>1. PICK image \in Image : conf[s.id] = HelperOptions(v, image)
    BY <1>2, OwnConf DEF HelperOf
  <2>2. image = job[p].image
    BY <1>1 DEF OnlyPrepares
  <2>. QED  BY <2>1, <2>2 DEF HelperMatches, HelperOptions
<1>4. (s.id \in running /\ Become(p, wait)) \/ Become(p, start)
  BY <1>2, <1>3 DEF Inspect, Goto, May, OnlyPrepares
<1>5. /\ wait.pc = "wait" /\ wait.todo = job[p].todo /\ wait.found = job[p].found
      /\ wait.errs = job[p].errs
      /\ start.pc = "start" /\ start.todo = job[p].todo /\ start.found = job[p].found
      /\ start.errs = job[p].errs /\ start.cur = s.id
  BY Knows DEF Job
<1>6. \A w : IsFirst(w, job[p].todo) => w = v
  BY <1>1, FirstIsOne
<1>. HIDE DEF wait, start
<1>7. PrepareInv(conf', UpVolumes', job[p])
  BY <1>1, Knows, QuietHost
<1>8. CASE s.id \in running /\ Become(p, wait)
  <2>1. v \in UpVolumes'
    BY <1>1, <1>2, <1>8, QuietHost DEF UpVolumes
  <2>2. PrepareInv(conf', UpVolumes', wait)
    BY <1>1, <1>5, <1>6, <1>7, <2>1 DEF PrepareInv
  <2>3. Goes(p, wait)
    BY <1>1, <1>5, <1>6, <2>1, QuietHost DEF Goes, WillStart, Awaits
  <2>. QED  BY <1>1, <1>8, <2>2, <2>3, QuietHost, StepKeepsShared
<1>9. CASE Become(p, start)
  <2>1. PrepareInv(conf', UpVolumes', start)
    BY <1>1, <1>2, <1>5, <1>6, <1>7, QuietHost DEF PrepareInv
  <2>2. \A c \in ContainerId : HelperOf(conf[c], v) => c = s.id
    BY <1>2, OneHelper DEF SharedInv
  <2>3. Goes(p, start)
    BY <1>1, <1>5, <1>6, <2>2, QuietHost DEF Goes, WillStart, Awaits
  <2>. QED  BY <1>1, <1>9, <2>1, <2>3, QuietHost, StepKeepsShared
<1>. QED  BY <1>4, <1>8, <1>9

(* The helper is started, by whoever created it.                           *)
LEMMA StartShared ==
  ASSUME OnlyPrepares, Inv, SharedInv, NEW p \in Proc, NEW v \in job[p].todo,
         StartExisting(p, v) \/ StartNew(p, v)
  PROVE  SharedInv'
<1>. DEFINE c == job[p].cur
            wait == [job[p] EXCEPT !.pc = "wait"]
<1>1. job[p].pc \in {"start", "startnew"} /\ IsFirst(v, job[p].todo)
      /\ job[p].todo \subseteq VolumeSpecs
  BY Knows DEF StartExisting, StartNew, At, Job
<1>2. c \in ContainerId /\ HelperOf(conf[c], v) /\ Alive(c)
  BY <1>1, Knows, OwnConf DEF PrepareInv, JobInv, Holding, HelperOf, Alive
<1>3. ContainerStart(c) /\ Become(p, wait)
  BY <1>2 DEF StartExisting, StartNew, Goto, May, OnlyPrepares
<1>4. wait.pc = "wait" /\ wait.todo = job[p].todo /\ wait.found = job[p].found
      /\ wait.errs = job[p].errs
  BY Knows DEF Job
<1>. HIDE DEF wait
<1>5. CalmEffect
  BY <1>2, <1>3 DEF CalmEffect
<1>6. Grows
  BY <1>5, CalmEffectGrows DEF Inv
<1>7. conf' = conf /\ v \in UpVolumes'
  BY <1>1, <1>2, <1>3 DEF ContainerStart, UpVolumes
<1>8. \A w : IsFirst(w, job[p].todo) => w = v
  BY <1>1, FirstIsOne
<1>9. PrepareInv(conf', UpVolumes', wait)
  <2>1. PrepareInv(conf', UpVolumes', job[p])
    BY <1>6, Knows, PrepareInvStable DEF Grows
  <2>. QED  BY <1>1, <1>4, <1>7, <1>8, <2>1 DEF PrepareInv
<1>10. Goes(p, wait)
  BY <1>1, <1>4, <1>7, <1>8 DEF Goes, WillStart, Awaits
<1>. QED  BY <1>3, <1>5, <1>9, <1>10, StepKeepsShared

(* The loop goes on with the next volume: this one is served, or given up  *)
(* for a container that has the helper's name.                             *)
LEMMA NextVolumeShared ==
  ASSUME OnlyPrepares, Inv, SharedInv, NEW p \in Proc, NEW v \in job[p].todo, UNCHANGED host,
         IsFirst(v, job[p].todo), NEW failed \in BOOLEAN, NextVolume(p, v, failed),
         job[p].pc \in {"scan", "wait"},
         job[p].pc = "wait" => v \in UpVolumes,
         job[p].pc = "scan" => failed /\ job[p].found = {},
         \E c \in ContainerId : HelperOf(conf[c], v)
  PROVE  SharedInv'
<1>. DEFINE rest == job[p].todo \ {v}
            errs == job[p].errs \/ failed
            j == [job[p] EXCEPT !.pc = IF rest = {} THEN "prepared" ELSE "list",
                                !.todo = rest, !.found = {}, !.cur = None, !.errs = errs]
<1>1. Become(p, j) /\ (errs = FALSE => ~job[p].errs /\ ~failed)
  BY DEF NextVolume
<1>2. errs \in BOOLEAN
  OBVIOUS
<1>. HIDE DEF errs
<1>3. /\ j.pc = IF rest = {} THEN "prepared" ELSE "list"
      /\ j.todo = rest /\ j.found = {} /\ j.errs = errs
      /\ job[p].todo \subseteq VolumeSpecs
  BY Knows DEF Job
<1>. HIDE DEF j
<1>4. PrepareInv(conf', UpVolumes', j)
  <2>1. ~j.errs => VolumeSpecs \ j.todo \subseteq UpVolumes'
    BY <1>1, <1>2, <1>3, Knows, QuietHost DEF PrepareInv
  <2>. QED  BY <1>3, <2>1 DEF PrepareInv
<1>5. Goes(p, j)
  <2>. SUFFICES ASSUME NEW w \in VolumeSpecs
                PROVE  /\ \A c \in ContainerId :
                            HelperOf(conf[c], w) /\ WillStart(job[p], w, c) =>
                              w \in UpVolumes' \/ WillStart(j, w, c)
                       /\ Awaits(job[p], w) =>
                            Awaits(j, w) \/ \E c \in ContainerId : HelperOf(conf[c], w)
    BY QuietHost DEF Goes
  <2>1. CASE w = v
    BY <2>1, QuietHost DEF WillStart
  <2>2. CASE w # v
    BY <1>3, <2>2 DEF WillStart, Awaits
  <2>. QED  BY <2>1, <2>2
<1>. QED  BY <1>1, <1>4, <1>5, QuietHost, StepKeepsShared

(* Who loses the race for the name leaves the volume to the winner.        *)
LEMMA CreateShared ==
  ASSUME OnlyPrepares, Inv, SharedInv, NEW p \in Proc, NEW v \in job[p].todo, NEW c \in ContainerId,
         Create(p, v, c)
  PROVE  SharedInv'
<1>. DEFINE options == HelperOptions(v, job[p].image)
            j == [job[p] EXCEPT !.pc = "startnew", !.cur = c]
<1>1. /\ job[p].pc = "scan" /\ IsFirst(v, job[p].todo) /\ job[p].found = {}
      /\ v \in VolumeSpecs /\ v \in Volume /\ job[p].todo \subseteq VolumeSpecs
      /\ job[p].image \in Image
  BY Knows, VolumesAssumption DEF Create, At, Job, JobInv, Preparing, VolumeSpecs
<1>2. IsOwn(options) /\ options.volume = v /\ options.name = HelperName(v)
  BY <1>1 DEF IsOwn, HelperOptions
<1>3. \/ ContainerCreate(c, options) /\ Become(p, j)
      \/ NameTaken(options.name) /\ NextVolume(p, v, TRUE) /\ UNCHANGED host
  BY DEF Create, May, OnlyPrepares
<1>4. j.pc = "startnew" /\ j.cur = c /\ j.todo = job[p].todo /\ j.found = job[p].found
      /\ j.errs = job[p].errs
  BY Knows DEF Job
<1>. HIDE DEF j, options
<1>5. CASE ContainerCreate(c, options) /\ Become(p, j)
  <2>1. CalmEffect
    BY <1>2, <1>5, OwnConf DEF CalmEffect
  <2>2. Grows
    BY <2>1, CalmEffectGrows DEF Inv
  <2>3. conf'[c] = options /\ \A d \in ContainerId : d # c => conf'[d] = conf[d]
    BY <1>5 DEF ContainerCreate, Inv, HostInv, HostType
  <2>4. \A d \in ContainerId : ~HelperOf(conf[d], v)
    BY <1>2, <1>5, OwnConf DEF ContainerCreate, NameTaken, Alive, HelperOf
  <2>5. \A w : IsFirst(w, job[p].todo) => w = v
    BY <1>1, FirstIsOne
  <2>6. PrepareInv(conf', UpVolumes', j)
    <3>1. PrepareInv(conf', UpVolumes', job[p])
      BY <2>2, Knows, PrepareInvStable DEF Grows
    <3>. QED  BY <1>1, <1>2, <1>4, <2>3, <2>5, <3>1 DEF PrepareInv, HelperOf
  <2>7. Goes(p, j)
    <3>1. \A d \in ContainerId : \A w : HelperOf(conf'[d], w) => HelperOf(conf[d], w) \/ (d = c /\ w = v)
      BY <1>2, <2>3 DEF HelperOf
    <3>. QED  BY <1>1, <1>4, <2>4, <2>5, <3>1 DEF Goes, WillStart, Awaits
  <2>. QED  BY <1>5, <2>1, <2>6, <2>7, StepKeepsShared
<1>6. CASE NameTaken(options.name) /\ NextVolume(p, v, TRUE) /\ UNCHANGED host
  <2>1. PICK d \in ContainerId : Alive(d) /\ conf[d].name = HelperName(v)
    BY <1>2, <1>6 DEF NameTaken
  <2>2. IsOwn(conf[d])
    BY <1>1, <2>1 DEF SharedInv, HelpersInv, OnlyPrepares
  <2>3. conf[d].volume = v
    BY <2>1, <2>2, OwnConf DEF HelperName
  <2>. QED  BY <1>1, <1>6, <2>2, <2>3, NextVolumeShared DEF HelperOf
<1>. QED  BY <1>3, <1>5, <1>6

(* The mount of a helper that runs is there.                               *)
LEMMA UpIsMounted ==
  ASSUME Inv, SharedInv, NEW v \in UpVolumes
  PROVE  /\ mounts[BackupAt(FriendlyName[v])] # <<>>
         /\ \E c \in ContainerId : HelperOf(conf[c], v)
         /\ \E image \in Image : Served(v, image)
<1>1. PICK c \in running : HelperOf(conf[c], v)
  BY DEF UpVolumes
<1>2. PICK image \in Image : conf[c] = HelperOptions(v, image)
  BY <1>1, OwnConf DEF HelperOf
<1>3. conf[c].at = BackupAt(FriendlyName[v]) /\ c \in ContainerId
  BY <1>2 DEF HelperOptions, Inv, HostInv, HostType
<1>4. FriendlyName[v] \in Name
  BY VolumesAssumption DEF UpVolumes, VolumeSpecs
<1>5. conf[c].at # None
  BY <1>3, <1>4, NoneAssumption DEF BackupAt, MountPoint
<1>6. mounts[BackupAt(FriendlyName[v])] # <<>>
  BY <1>3, <1>5, RunningIsMounted DEF Inv, SharedInv, HelpersInv
<1>. QED  BY <1>1, <1>2, <1>3, <1>6 DEF Served

LEMMA WaitShared ==
  ASSUME OnlyPrepares, Inv, SharedInv, NEW p \in Proc, NEW v \in job[p].todo,
         WaitSeen(p, v) \/ WaitExpired(p, v)
  PROVE  SharedInv'
<1>1. job[p].pc = "wait" /\ IsFirst(v, job[p].todo) /\ UNCHANGED host
  BY DEF WaitSeen, WaitExpired, At
<1>2. v \in UpVolumes
  BY <1>1, Knows DEF PrepareInv
<1>3. NextVolume(p, v, FALSE)
  BY <1>2, UpIsMounted DEF WaitSeen, WaitExpired, May, OnlyPrepares
<1>. QED  BY <1>1, <1>2, <1>3, UpIsMounted, NextVolumeShared

(* No other step is taken by a process.                                    *)
LEMMA StepShared ==
  ASSUME OnlyPrepares, Inv, SharedInv, NEW p \in Proc, Step(p) \/ Crash(p)
  PROVE  SharedInv'
<1>1. job[p].pc \notin {"replace", "rollback", "listall", "remove", "umount"}
  BY Knows DEF PrepareInv
<1>2. ~CleanupStep(p)
  BY <1>1 DEF CleanupStep, StartCleanup, CleanupList, RemoveHelper, SkipBlocked, CheckTarget,
              UmountTarget, CleanupDone, AtTarget, At, OnlyPrepares
<1>3. \A v : ~Replace(p, v) /\ ~Rollback(p, v)
  BY <1>1 DEF Replace, Rollback, At
<1>4. CASE Crash(p)
  BY <1>4, FreshShared DEF Crash
<1>5. CASE \E image \in Image : StartPrepare(p, image)
  BY <1>5, FreshShared DEF StartPrepare
<1>6. CASE VolumeList(p)
  BY <1>6, VolumeListShared
<1>7. ASSUME NEW v \in job[p].todo,
             \/ ListHelpers(p, v)
             \/ \E s \in job[p].found : RemoveUnexpected(p, v, s) \/ Inspect(p, v, s)
             \/ StartExisting(p, v) \/ StartNew(p, v)
             \/ \E c \in ContainerId : Create(p, v, c)
             \/ WaitSeen(p, v) \/ WaitExpired(p, v)
      PROVE  SharedInv'
  BY <1>7, ListShared, RemoveShared, InspectShared, StartShared, CreateShared, WaitShared
<1>. QED  BY <1>2, <1>3, <1>4, <1>5, <1>6, <1>7 DEF Step, PrepareStep

-------------------------------------------------------------------------------
(* Others create, start and end containers of their own.                   *)

LEMMA EnvironmentShared ==
  ASSUME OnlyPrepares, Inv, SharedInv, Environment
  PROVE  SharedInv'
<1>1. Foreign \subseteq KnownConf /\ \A cf \in Foreign : ~IsOwn(cf)
  BY ForeignAssumption, ForeignNotOwn DEF ConfOK, KnownConf, HelperModes, Conf
<1>2. /\ UNCHANGED job
      /\ \/ \E c \in ContainerId : conf[c] \in Foreign /\ Changes(c)
         \/ \E c \in ContainerId, cf \in Foreign : ContainerCreate(c, cf)
  BY DEF Environment, Dies, ForeignCreate, ForeignStart, ForeignExit, LateUmount, Changes, May,
         OnlyPrepares
<1>3. CalmEffect
  BY <1>1, <1>2 DEF CalmEffect
<1>4. HelpersInv' /\ Grows
  BY <1>3, CalmEffectGrows, CalmEffectKeeps DEF Inv, SharedInv
<1>5. \A q \in Proc : PrepareInv(conf', UpVolumes', job[q])
  BY <1>4, Knows, PrepareInvStable DEF Grows
<1>6. \A c \in ContainerId : \A v : HelperOf(conf'[c], v) => HelperOf(conf[c], v)
  <2>1. \A c \in ContainerId : conf'[c] = conf[c] \/ conf'[c] = None \/ conf'[c] \in Foreign
    BY <1>2, ChangesOne DEF ContainerCreate, Inv, HostInv, HostType
  <2>. QED  BY <1>1, <2>1, OwnConf DEF HelperOf
<1>7. ASSUME NEW v \in VolumeSpecs PROVE Cared(v)'
  <2>1. Cared(v)
    BY DEF SharedInv
  <2>2. \A c \in ContainerId : HelperOf(conf[c], v) => HelperOf(conf'[c], v)
    BY <1>4 DEF Grows, HelperOf
  <2>. QED  BY <1>2, <1>4, <1>6, <2>1, <2>2 DEF Cared, Grows
<1>. QED  BY <1>2, <1>4, <1>5, <1>7 DEF SharedInv

LEMMA InitShared == OnlyPrepares /\ Init => SharedInv
<1>. SUFFICES ASSUME OnlyPrepares, Init PROVE SharedInv
  OBVIOUS
<1>1. \A c \in ContainerId : conf[c] = None
  BY DEF Init
<1>2. HelpersInv
  <2>1. RunsFinite
    BY FS_EmptySet DEF Init, RunsFinite
  <2>2. \A at, d : RunsAt(at, d) = {}
    BY DEF Init, RunsAt
  <2>3. Layered
    <3>1. \A at \in MountPoint : \A d : LayersOf(mounts[at], d) = {}
      <4>1. DOMAIN <<>> = {}
        OBVIOUS
      <4>. QED  BY <4>1 DEF Init, LayersOf
    <3>. QED  BY <2>2, <3>1, FS_EmptySet DEF Layered
  <2>. QED  BY <1>1, <2>1, <2>3 DEF HelpersInv, Alive
<1>3. \A p \in Proc : job[p].pc = "idle" /\ job[p].todo = {} /\ job[p].found = {}
  BY DEF Init, Idle
<1>4. \A c \in ContainerId : \A v : ~HelperOf(conf[c], v)
  BY <1>1, OwnConf DEF HelperOf
<1>5. \A p \in Proc : PrepareInv(conf, UpVolumes, job[p])
  BY <1>3 DEF PrepareInv
<1>. QED  BY <1>2, <1>3, <1>4, <1>5 DEF SharedInv, Cared, Awaits

LEMMA NextShared == OnlyPrepares /\ Inv /\ SharedInv /\ [Next]_vars => SharedInv'
<1>. SUFFICES ASSUME OnlyPrepares, Inv, SharedInv, [Next]_vars PROVE SharedInv'
  OBVIOUS
<1>1. CASE UNCHANGED vars
  BY <1>1 DEF vars, SharedInv, HelpersInv, RunsFinite, Layered, RunsAt, Cared, UpVolumes, Alive
<1>. QED  BY <1>1, StepShared, EnvironmentShared DEF Next

(* Where only prepares run, all for one image, and no call fails: once a   *)
(* prepare has succeeded, or all of them are done, every volume is served  *)
(* and stays so, whoever lost the race for a container's name, whoever was *)
(* killed, and whatever helpers of earlier versions there were             *)
(* (ensureHelper, createAndStartHelper and waitForVisibleMount).           *)
THEOREM PreparesServe ==
  ASSUME OnlyPrepares
  PROVE  Spec => []PreparedStaysServed
<1>1. Inv /\ SharedInv => PreparedStaysServed
  <2>. SUFFICES ASSUME Inv, SharedInv, NEW v \in VolumeSpecs,
                       \/ \E p \in Proc : At(p, "prepared") /\ ~job[p].errs
                       \/ \A p \in Proc : At(p, "prepared")
                PROVE  \E image \in Image : Served(v, image)
    BY DEF PreparedStaysServed
  <2>1. v \in UpVolumes
    BY Knows DEF SharedInv, PrepareInv, Cared, WillStart, Awaits, At, OnlyPrepares
  <2>. QED  BY <2>1, UpIsMounted
<1>2. Init => SharedInv
  BY InitShared
<1>3. Inv /\ SharedInv /\ [Next]_vars => SharedInv'
  BY NextShared
<1>. QED  BY <1>1, <1>2, <1>3, Invariance, PTL DEF Spec
===============================================================================
