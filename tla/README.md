# A verification of revopia in TLA+

revopia exposes Docker volumes to Kopia. It starts helper containers that
mount a volume below a directory of the host, the *bridge*, whose mounts
propagate into the Kopia container. This directory holds TLA+ models of the
program, the instances TLC checks, and theorems TLAPS proves. Paths are
relative to the root of the repository; line numbers are those of the modelled
commit.

## The system

| Part | State it keeps | Operations | Modelled in |
| --- | --- | --- | --- |
| `revopia prepare` (`internal/bridge/backup.go`, `mount.go`) | local variables of one process: the volumes still to do, the candidates listed, the container in hand, the errors | list volumes, then for each: list helpers, remove, inspect, start, create, roll back, wait for the mount | `Backup` |
| `revopia cleanup` (`cleanup.go`, `cleanup_unmount.go`) | helpers listed, targets, blocked targets, errors | list, remove each helper, unmount each target | `Backup` |
| `revopia restore` (`restore.go`, `restore_helper.go`) | the session, whether the target was found empty, candidates | inspect or create volumes, empty check in a container, ensure the helper, wait for the mount | `Restore` |
| `revopia restore-cleanup` (`restore_cleanup.go`) | helpers listed, targets by session, source, target and name, blocked targets | list, remove, unmount | `Restore` |
| umount container (`cleanup_unmount.go`) | one container under a name derived from the friendly name | create, remove an older one, create again, start, wait, remove | `UmountContainer`, `UmountRequest` |
| names (`names.go`, `paths.go`, `buildVolumeSpecs`) | none | sanitize, friendly name, specs, path for Kopia | `Names` |
| settings and paths (`config.go`, `paths.go`, flags of `cmd/`, `mountInfoForPath`) | environment and flags, read once by each command | defaults, overriding, joining, the mount table | `Paths` |
| Docker daemon and mount table | containers, who runs, the mounts on each path | external | `DockerHost` |
| both sides at once | the daemon and the bridge they share | each other's environment | `Bridge` |
| `inspect`, wording of errors, log file | none that others read | print | not modelled |
| Ansible role, install script | files and services of the host | | not modelled |

All processes share one thing, the daemon with its containers, and through it
the bridge. revopia has no lock, no database and no daemon of its own: what a
command knows of the others it learns from labels and names of containers and
from the mount table. A command is a sequence of calls; between two of them
anything may happen.

What makes that hard:

- **Concurrency.** Kopia runs `prepare` before and `cleanup` after a snapshot,
  for several sources at once; users run restores beside them.
- **Partial failure.** A call may fail, fail after it took effect, or never
  return until the context expires. Cleanup and prepare go on with the next
  volume, restore stops at the first error.
- **Crashes.** A killed process leaves created, running and half-configured
  containers, which the next command meets as candidates.
- **Mounts outlive containers.** A propagated mount may stay when its container
  goes, and the next one lies on top of it; only the top one is seen
  (`vision.md:133`, `TROUBLESHOOTING.md:99`).
- **Names.** Everything is found again by names derived from user input.

What makes each part correct:

- *prepare*: a success means that every enabled volume has a helper of its own
  configuration and a mount; preparing again, or concurrently where no call
  fails, undoes nothing.
- *cleanup, restore-cleanup*: no mount is reclaimed while a helper that was
  listed for it may still run: for `cleanup` one of the friendly name, for
  `restore-cleanup` one of the target's key (session, source, target and name;
  helpers of another session on the same path do not count); exit code 0 means
  the helpers are gone; no container of the other view, of other sessions or of
  other projects is removed.
- *restore*: a target that is not empty is not exposed for writing unless that
  is asked for; the helper is the session's own.
- *umount container*: at most one layer, of the right path, and success only if
  it was taken, although commands remove each other's containers.
- *both sides*: what a command's exit code 0 promises holds whatever a command
  of the other side did meanwhile, at any point. (Umounts are single steps
  there; the umount container that `cleanup` and `restore-cleanup` share by name
  is looked at apart, in `UmountContainer`.)
- *names*: safe, stable under a second cleaning, one volume per path.
- *paths*: the command, its helper and the umount container mean the same
  directory, from the host and from a container, and none outside the bridge.
- all commands end.

## Modules

| Module | What it is |
| --- | --- |
| `DockerHost` | Containers, their start and end, and stacks of mounts; used by `Backup` and `Restore`. |
| `Backup` | `prepare` and `cleanup`, any number of processes. |
| `Restore` | `restore` and `restore-cleanup`, any number of processes. |
| `UmountRequest` | Abstract: what a caller may rely on when it asks for an umount. |
| `UmountContainer` | The container protocol behind it; implements `UmountRequest`. |
| `Bridge` | `Backup` and `Restore` on one daemon; implements each of them as seen from its side. |
| `Names` | The name functions on sequences of characters. |
| `Paths` | Settings, the paths made of them, the mount table, quoting; extends `Names`. |
| `MCBackup`, `MCRestore`, `MCUmount`, `MCBridge`, `MCPaths` | Values of the constants for TLC. |
| `DockerHostProofs` | Lemmas on the daemon and the mount table that the proofs of both sides use. |
| `BackupProofs`, `RestoreProofs`, `UmountProofs` | Theorems about one component under any interleaving and all trouble; what an undisturbed restore promises; the calm part of the umount protocol. |
| `BackupPromise` | Theorems about what a prepare or cleanup promises that nobody disturbs, and about prepares that race. |
| `BridgeProofs` | Theorems about both sides together: what one side does is the environment the other allows. |
| `BridgePromise` | Theorems about both sides together: what a command promises while the other side runs. |
| `PathsProofs` | Theorems about names and paths of any characters, and the lemmas on folds they rest on. |

### DockerHost

`conf[c]` holds the options container `c` was created with, or `None`;
`running` is a set; `mounts[at]` is a stack of volumes, the visible one first.
Nothing of this is in the repository: it is the daemon as the calls of the
`DockerAPI` interface (`config.go`) use it, and the propagation the
documents report. `Vanish` and `ContainerExit` let the layer of a container go
or stay (`LayerStaysOrGoes`).
`ContainerStartFails` covers a start that did nothing, that took effect
although the answer was an error, and a container that died at once and was
removed because it has AutoRemove. An identifier may be used for a new container
only once no process remembers it (`Fresh`), as the daemon's identifiers are
never used again.

### Backup and Restore

`job[p]` is the record of the local variables of process `p`; `pc` names the
call that comes next. One action is one call together with the code that
decides on it before and what the process does with the answer after, up to the
next call. The body of a loop over volumes, helpers or targets is thus several
actions, and the loops themselves are the sets `todo`, `found` and `targets`
that shrink. `prepare` and `cleanup` take volumes and targets in the order of
their names (`IsFirst`); the order of candidates is the daemon's, hence any.

An error of a call is the disjunct with `May("fault")`; for calls that change
something there are two cases, with and without the effect. The constant
`Trouble` says which kinds of trouble an instance has:

| Value | Meaning |
| --- | --- |
| `fault` | any call returns an error, or its answer is lost; the context's end is the same |
| `busy` | an umount is refused because somebody uses the path |
| `die` | a container ends or is removed by others |
| `crash` | the process is killed |
| `foreign` | containers of other origin appear: old versions, other configurations, other projects |
| `umount` | an umount by hand, or by the container of a command that gave up, of any path of either view |
| `write` | somebody writes to a volume (Restore) |
| `find` | the `find` of the empty check fails (Restore) |

Foreign containers have one of the option records `Foreign` and a name of
`OtherName` or one the commands give; they start, with or without success,
exit (`ForeignExit`) and disappear at any time. `RoomAt` keeps their mounts
within `MaxLayers`. The environment of either module is wide enough for the
other module to be part of it, which `Bridge` shows.

Labels, image, command and mounts that `helperMatches` compares are the fields of
a `Conf` record; what it compares for equality and never tells apart otherwise
(command, network mode, AutoRemove) is part of the image. A container's name is
a tuple that stands for the prefix and the hash; hashes are taken to be
distinct. Pulling a missing image is part of the create call.

The umount container is one action here, `UmountTarget`, as the contract
`UmountRequest` allows. A late umount of a command that gave up is `LateUmount`.

In `Restore` the empty check is modelled call by call, because its container
may be killed or left behind and another restore of the session removes it.
`content[v]` tells whether a volume is absent, empty or holds data. The
history field `sawEmpty` remembers what the process's own check container
reported. `restore` is started with any target, `force` for
`--dangerously-allow-non-empty-target` and `same` for
`--dangerously-allow-source-target`.

The history variable `alone[p]` is true while nobody but `p` has moved since `p`
started; properties that promise a result to an undisturbed command use it. In
`Backup`, `stacked` remembers the paths that had two layers at a time.

### Bridge

The processes of `Backup` (instance `B`) and of `Restore` (instance `R`) share
the containers, the mounts and the identifiers; each side keeps its own `job`.
The module has no container of third parties: the trouble comes from the other
side, from crashes and from helpers that die.

The two modules are composed in the way an open system is: each has an
environment, `Environment`, and the composition must show that whatever the
other side does is a step of it. `BackupView` is `Backup` with the containers as
its code sees them (`AsBackupSees`: the fields that stand for labels the code
reads) and the containers restore creates as `Foreign`; `RestoreView` is the
mirror image. `ImplementsBackup` and `ImplementsRestore` are these refinements.
`FromRestore` and `FromBackup` are written out in `Bridge` and not taken from
`HelperOptions` of the other side: they are the contract between the two. If
`restore` gave its helper a `revopia.volume` label, say, the refinement would
fail. `Moves` is the next-state relation without the history variables, which
record disturbance by anybody and mean something else in the composition: there,
`backupCalm[p]` stays true while only the *restore* side moves. So
`BackupUndisturbed` is stronger than `SoloPrepare` and `SoloCleanup` in `Backup`:
it promises the result while restores run.

What `BackupProofs` proves holds for every `Foreign`, `OtherName` and `Trouble`,
hence also for the environment that `ImplementsBackup` shows the restore side to
be.

### UmountContainer

One friendly name; the requests of any number of `cleanup` and `restore-cleanup`
processes for it. They share the container name
(`cleanupUnmountContainerName`) although they unmount different paths. `box` is
the container under that name, `exit[r]` what the wait call of request `r` has
heard: the call is a step of its own before the start (`Listen`), and the daemon
tells of an exit only to a call that it has (`Tell`). `Removal` kills what runs. At first there may be a container an earlier
command left (`OldBox`), and the paths have any of the `Depths` of layers.
`trouble` never changes: it is the set of what may go wrong in this behaviour,
one of `Troubles`, so that one instance holds the calm behaviours, in which more
can be promised, and the troubled ones. The code also handles a `nil` on the
error channel of the wait call by going on as after success
(`cleanup_unmount.go:174-196`); the client sends errors only, so this is not a
step of the model.

### Names and Paths

The only modules where a name is made of characters. The functions are those of
the source, loops written as folds; the actions are those of users, who create
and remove volumes with any label of `Labels[v]`, and of the administrator, who
decides where a command runs and which environment and flags it gets. The
sanitizer's loop is compared with a definition without state (`SanitizeMeans`).

In `Paths` a path is a sequence of names. `Config` is made as the program makes
it: defaults from the place and the environment (`DefaultConfig`), then flags
(`addBridgeFlags` and its like), so that a default derived from another setting
does not follow that setting's flag. A value is what is left after spaces are
trimmed, `NoPath` if nothing is. `HostPath` is the deployment the documents
describe: a container has the shared directory at `/volumes` and its
`restore` directory at `/restore`. The mount table holds what the kernel
writes (`Escape`), the search reads it as the code does, up to the first line
that cannot be decoded; `MountIsFound` compares it with the table of paths the
lines were written from (`MountsAssumption`: absolute, and nothing to clean). Fields are separated by the spaces the kernel writes;
other white space in a mount point, which `strings.Fields` would take for a
separator too, is left out.

## What is checked

Passing runs.

| Run | Instance | Properties | What it shows |
| --- | --- | --- | --- |
| `solo` | 1 process, 2 volumes, 2 images, 3 identifiers, all trouble | `TypeOK`, `SoloPrepare`, `SoloCleanup` | A command that nobody disturbs keeps its promise, from any state earlier commands, crashes and others left. |
| `concurrent` | 2 processes, 1 enabled volume, 3 identifiers, an unsafe name, a restore helper | `UmountAfterRemoval`, `CleanupExit`, `RestoreUntouched` | Two phases, honest exit code, separate views, under every interleaving. |
| `prepares` | 2 prepares, 1 volume, 3 identifiers, crashes, old helpers, fair | `PreparedStaysServed`, `CommandsEnd` | What one prepare has set up the other does not remove; the race for the container's name ends with the volume served; termination. |
| `umount` | 3 requests, 2 paths, an older container or none, calm or with faults, busy paths and crashes | `TypeOK`, `ImplementsRequest`, `NothingLeft`, `OneSucceeds`, `Answered` | The umount protocol keeps its contract; commands that remove each other's containers all return and, where no call fails, clean up and make progress. |
| `names` | 3 volumes, on one of them all labels of up to 4 of 5 characters; 2 bridge directories and any environment, flags, runtime and place | `SanitizeMeans`, `CleanupTakesNames`, `SessionAccepted`, `SpecsAreFirst`, `UniqueSourceFound`, `CommandsMeet`, `MountIsFound`, `UmountStaysInside`, `HintsCanBePasted` | The sanitizer, and that what it makes is accepted later; one volume per path, the rest reported; unambiguous Kopia paths answered; one directory meant by all; mounts found among any others; no umount outside the view; hints survive a shell. |
| `restore_solo` | 1 process, 3 volumes, 2 identifiers, an unsafe name, all trouble but a failing `find` | `TypeOK`, `SoloRestore`, `NoOverwrite`, `CommandsEnd` | As `solo`, and the target is still empty; the empty check never passes by accident; termination. |
| `restore_races` | a restore beside another restore or a restore-cleanup, 2 sessions, faults, crashes, an unsafe name, a backup helper | `UmountAfterRemoval`, `CleanupExit`, `NoOverwrite`, `SessionOnly` | Two phases, honest exit code, no empty check passed because another restore removed its container, sessions kept apart. |
| `sides` | a process that prepares and cleans up beside one that restores and cleans up, same friendly name, 3 identifiers, crashes, dying helpers | `BackupUndisturbed`, `RestoreUndisturbed`, `ImplementsBackup`, `ImplementsRestore` | Each side finds in the other no more than the environment it was checked and proved in; a command's promise survives the other side. |

Runs that find a disagreement between the code and what the repository says.

| Run | Property | What it shows |
| --- | --- | --- |
| `retry` | `RetryReclaims` | After a refused umount a second cleanup, which the error's own hint recommends, finds no helper any more and leaves the mount. `docs/guide/restore.md:88-99` advises the same for restore-cleanup, which derives its targets in the same way. |
| `restore_blind` | `RefusesNonEmpty` | A `find` that fails makes the empty check pass. |
| `restore_session` | `TakesOwnMount` | The cleanup of one session unmounts another's target. |
| `covered` | `ViewsApart` | A volume with `backup.name=restore` is mounted over the directory of the restore view. |

Disagreements that were met on the way and that no run shows:

- `docs/guide/commands.md:26` says `cleanup` reclaims the propagated mounts. It
  takes one layer of each path (`cleanup.go:85-104`), and a helper that prepare
  replaced (`backup.go:177-190`) may have left another below. `SoloCleanup`
  therefore excepts the paths in `stacked`.
- `vision.md:33` says prepare makes sure that each volume has appeared at its
  path. `waitForVisibleMount` (`mount.go:40-66`) accepts any mount there, also
  one an outdated helper of another volume left on top. `restore` does the same
  (`restore.go:233`): with a reused helper the path may show another session's
  target (`docs/guide/commands.md:46`). The outdated helper may even be removed
  by the same prepare when it comes to that volume (`backup.go:181-186`), and the
  earlier volume is left without a mount although prepare exits with 0. The runs
  have no such container among `Foreign`; see `Tidy` under "What is proved".
- `vision.md:141` says a cleaned name contains no `..`. `sanitizePathName`
  keeps the dots of `a..b` (`names.go:51-76`), so such a volume is prepared and
  its mount never reclaimed. `CleanupTakesNames` therefore excepts these names.
- `vision.md:121` says `restore-cleanup` cleans the current session by default;
  the code and `docs/guide/commands.md:84` take all sessions.
- `docs/guide/commands.md:22` says that `prepare` answers a source path of one
  volume with the path of that volume. Where the friendly name of one volume is
  the raw name of an earlier one, the earlier one's path is printed
  (`paths.go:24-31`). `UniqueSourceFound` therefore excepts such sources.
- `README.md:328` says a setting may be given by environment variable or by the
  flag of the same name, `TROUBLESHOOTING.md:64` names both for the bridge. On
  the host `--bridge-source` alone moves the helpers' mounts but not the roots,
  which were derived before flags are parsed (`config.go:102-104`,
  `cmd/root.go:70`): prepare waits at `/mnt/revopia` in vain, and cleanup skips
  a path that does not exist and exits with 0. `CommandsMeet` therefore excepts
  that flag on the host.
- `restore_errors.go:32` and `:49` recommend a flag `--source-volume`;
  `cmd/restore.go:17` takes the source as an argument and has no such flag.

### Bounds, and why they are enough

- *Processes*: two (three requests in `UmountContainer`; one of each side in
  `Bridge`). The commands interact
  through one container or one path at a time, so each race has two parties;
  the third request is the one that finds the name taken twice.
- *Identifiers*: two to four. A process holds at most one container and the
  candidates it listed; with all identifiers in use a create that would succeed
  waits, and its failing branches remain.
- *Volumes and names*: one or two per run, and three in `Names` and `Restore`,
  where names collide and source and target differ; loops treat volumes one
  after another, and two are enough for "one fails, the other goes on". A label
  of four characters has both edges and a run of unsafe characters between
  safe ones.
- *Settings* (`Paths`): they vary while no volume has a label (`Everyday`), for
  a path depends on settings and friendly name independently. The directories
  have names with each kind of character that the mount table escapes or a
  shell reads, also as the last one.
- `MaxLayers` limits the layers on one path. It is a guard of the commands'
  *start* (`Headroom`), so that no command in progress is stopped by it. Two is
  the least that shows stacking.
- `Symmetry` is used for identifiers, and for processes where the instance
  treats them alike, in runs of safety properties only.
- `CHECK_DEADLOCK FALSE` stands where everything may rest: all commands done and
  no trouble left, or (`UmountContainer`) every request answered.

### Fairness

`FairSpec` has weak fairness of `Continue(p)`: a command that was started takes
its next step if it has one. The operating system runs the process, and every
call returns, for each carries the command's context with its time limit
(`--timeout`, `cmd/root.go:89-113`); the wait for a mount has its own
(`--verify-timeout`). Nothing is assumed of the starts of commands, of users or
of the daemon. In `UmountContainer` the container's own steps are fair too:
`umount` returns.

## What is proved

Theorems hold for every value of the constants that satisfies the named
assumptions: any number of processes, volumes, containers, sessions and layers,
and every kind of trouble unless one is excluded by name.

### The daemon

`DockerHostProofs` states once what each operation of the daemon does to types
and to containers somebody knows: `KeepsKnown` (a known container stays as it is
or disappears, and comes not back under the same identifier), what a removal, a
start and a failed start change, and that a name belongs to one container.

### Every interleaving, all trouble

`BackupProofs` (assumptions `NumbersAssumption`, `VolumesAssumption`,
`NoneAssumption`, `ForeignAssumption`):

- `TypeCorrectness`: `Spec => []TypeOK`.
- `TwoPhases`: `Spec => []UmountAfterRemoval`.
- `ExitCode`: `Spec => []CleanupExit`.
- `ViewsSeparate`: `Spec => RestoreUntouched`.

None of the last three is inductive. That a helper is gone when its path is
unmounted depends on what the process learned earlier and on nobody bringing
back a container under the same identifier. The invariant `Inv` says of each
process (`JobInv`): every summary it remembers is that of the container as it is
now, or the container is gone; it is that of a backup helper; and every listed
helper that is no longer to be removed is gone or its name is blocked. The
argument has two halves. A step of the host, by whomever, either keeps a known
container or makes it disappear (`KeepsKnown`, from `Fresh`), so the other
processes' parts stay true (`JobInvStable`); and a step of a process establishes
its own part, one lemma for each action. That prepare and cleanup leave other
containers alone then follows because what they remove or start is a backup
helper by the invariant (`HostEffect`, `EffectLeavesOthersAlone`). The
assumption `ForeignAssumption` matters here: restore and cleanup containers
carry no `revopia.volume` label, which is what the code relies on.

`RestoreProofs` (`VolumesAssumption`, `NoneAssumption`, `ForeignAssumption`):

- `TypeCorrectness`: `Spec => []TypeOK`.
- `CheckedBeforeMount`: `Spec => []NoOverwrite`.
- `TwoPhases`: `Spec => []UmountAfterRemoval`.
- `ExitCode`: `Spec => []CleanupExit`.
- `SessionsApart`: `Spec => SessionOnly`.

The plan of the proof is the same. What `JobInv` adds is the empty check: the
recorded exit is `zero` only if the process's own container reported the target
empty, so that past the check a restore without `force` has `sawEmpty`; the
container in hand and the candidates are of the process's session; every
listed helper that is no longer to be removed is gone or its key is blocked, and
the key that is being unmounted is not blocked.

`UmountProofs` (`PathsAssumption`; for any number of requests, any depths and any
troubles):

- `TypeCorrectness`: `Spec => []TypeOK`; layers never become negative.
- `KeepsContract`: `Spec => ImplementsRequest`, the refinement with `answer <-
  result` and all other variables as they are.

The invariant says that a request that has not started its container has taken
no layer, that a container that has unmounted belongs to a request that is in
`taken`, and that an exit code 0 is that of such a container. It is needed
because success is reported from `exit[r]`, long after the layer was taken, and
the container may have been replaced by another's in between.

### Commands that remove each other's umount container, but no trouble

`UmountProofs` also has (`RequestsAssumption`: requests are finitely many, and
there is one):

- `NameIsFreed`: `Spec => []NothingLeft`.
- `NotAllFail`: `Spec => []OneSucceeds`.

Both are about the end of all requests, and `CalmInv` says what leads there. A
container under the name has an owner that has not yet removed it, or a request
that found the name taken and will remove it (`NameInv`). Some request is
`Hopeful`: it has answered with success, or still comes to create a container,
or owns the one that is there, or its umount has exited with 0 although its
container is gone. A request that removes another's container is itself about to
create one, so hope passes on. That umount is not refused for want of a
layer is a count: for every path as many layers as requests that wait for
one (`Enough`); it can only turn false, so the invariant is conditional on it,
as the property is.

### Commands nobody disturbs

`BackupPromise`:

- `UndisturbedHelpers`: `Spec => []SoloHelpers`, the part of `SoloPrepare` about
  containers: every enabled volume has its own running helper.
- `UndisturbedPrepare`: `Spec => []SoloPrepare`, where `Tidy`.
- `UndisturbedCleanup`: `Spec => []SoloCleanup`.

`RestoreProofs`:

- `UndisturbedRestore`: `Spec => []SoloRestore`, where `"find" \notin Trouble`.

The invariants follow a command through its loop: the volumes that are no longer
to do have their helpers and mounts (`Exposed`), the helpers that are no longer
listed are gone, the paths that are no longer targets are reclaimed or had
two layers. What makes them inductive is that a container in
the way of a later volume is never the helper of an earlier one.

For *mounts* this fails, and the attempt to prove `SoloPrepare` without an
assumption led to the behaviour described above under the disagreements with
`vision.md:33`: the helper an earlier configuration left for volume 2 lies on the
path of volume 1, whose own layer somebody has unmounted; `prepare` takes the
mount for volume 1's, then comes to volume 2, removes the outdated helper and
with it the mount, and exits with 0. TLC confirms it with one process, two
volumes and that one foreign container. `Tidy` excludes just these: a foreign
container on the path of a volume before the one it is labelled for. The
promise about the helpers needs no such assumption.

`UndisturbedRestore` excludes the failing `find`, with which the promise is false
(run `restore_blind`).

### Prepares that race

Also in `BackupPromise`:

- `PreparesServe`: `Spec => []PreparedStaysServed`, where `OnlyPrepares`: all
  processes run prepare, for one image, no call fails and no helper dies, but
  processes may be killed anywhere and outdated helpers of other names appear,
  start, exit and vanish. This is the assumption of the run `prepares` for any
  number of processes, volumes and containers.

The difficulty is that a prepare which loses the race for the container's name
gives the volume up, and that a killed one leaves a container nobody started.
`SharedInv` has three parts. `HelpersInv`: no helper of the current configuration
is ever removed, and there are as many layers of a volume on a path as running
containers that mount it there (`Layered`), so that the mount stays when old
helpers take theirs away, whichever layer that is. `PrepareInv`: what a process
has passed is served. `Cared`: every volume is served, or its container is there
and some process will still start it, or there is none and every process has
still to see to the volume; a crash makes a process idle, which counts as still
to come.

### Both sides at once

`BridgeProofs` (assumptions `NumbersAssumption`, `VolumesAssumption`,
`BoundsAssumption`, `NoneAssumption` and `RestoreDirAssumption` of `Bridge`):

- `RefinesBackup`: `Spec => ImplementsBackup`.
- `RefinesRestore`: `Spec => ImplementsRestore`.

Whatever restores and restore-cleanups do to the daemon is, as a prepare or a
cleanup sees it, a step of the environment of `Backup`, and the other way round,
for any number of processes on both sides. The proof has three layers.

*What a side sees.* `AsBackupSees` forgets the labels the code does not read, and
the lemmas of the first part show that every call of the daemon, every lookup
and every decision of a command is the same with and without them
(`BackupSeesCalls`, `BackupReads`, `RestoreReads`). So a side's own step is a step
of its own module (`PrepareIsSeen`, `CleanupIsSeen`, `RestoreStepIsSeen`,
`RestoreCleanupIsSeen`).

*What a step does to the daemon.* `BackupEffect` and `RestoreEffect` say it in one
formula for each side: it creates a container of its own kind, removes one,
unmounts a path or does nothing (`Calm`), or it starts a container of its own
(the one of an empty check also exits). One lemma for each action shows that it
is one of these. A calm step is one of the other side's environment in any
state. A start on the bridge is one only if the mount point has room under
`MaxLayers`, because the bound limits what the environment may do.

*The invariant* `Inv` is what that takes. The containers are of the kinds the two
sides create, and each process remembers, holds and starts containers of its own
kind only (`BackupInv`, `RestoreInv`): without it the restore side could start
something the backup side does not expect. And `BackupRoom`, `RestoreRoom`: on
every path there is room for the layers there and one more for each process
that may still make one. The commands find that room when they begin
(`Headroom`), a start uses up what was kept for it, and no process makes
two layers on a path in one run, because one volume belongs to a path.

`BridgePromise` (the same assumptions) has the promises of the commands in the
composition:

- `BackupUndisturbedKept`: `Spec => []BackupUndisturbed`.
- `RestoreUndisturbedKept`: `Spec => []RestoreUndisturbed`, where
  `"find" \notin Trouble`.
- `WhoeverMovesKept`: `Spec => []WhoeverMoves`, the invariants
  `UmountAfterRemoval`, `CleanupExit` and `NoOverwrite` of both sides, which ask
  nobody to keep still.

These do not follow from the refinements. A step of the environment voids the
promise of every command in `Backup` and `Restore`, while here only the own side
does: the promise must survive the other. The proof takes the theories of the
two sides as instances in their views, `BP` and `RP`, and adds what one side
leaves alone.

*What is known* (`Known`) is the invariant of `BackupProofs` in the view of the
backup side and that of `RestoreProofs` in the view of the restore side. A step
of a process establishes its own part by the lemmas of its side (`BackupKnows`,
`RestoreKnows`), which hold in the view because its constants meet their
assumptions (`BackupAssumed`, `RestoreAssumed`); every step keeps the others'
part because containers stay or disappear, and come not back (`StepKeepsKnown`).
`WhoeverMovesKept` follows from `Known`.

*What a side spares* (`Spares`): no step of the restore side starts, removes,
adds or ends a backup helper or touches a mount of the backup view
(`RestoreSpares`), and the other way round (`BackupSpares`). With it, what an
undisturbed command has made sure of (`Prepared`, `Cleaned`, `Assured`) stays
true while the other side moves (`PreparedStays`, `CleanedStays`,
`AssuredStays`), and its own steps keep it by the lemmas of `BackupPromise` and
`RestoreProofs` (`OwnBackupPromise`, `RestoreKeepsStep`).

`BackupUndisturbedKept` covers the mounts without `Tidy`. The containers that
could lie on the path of an earlier volume are of an earlier configuration; in
`Bridge` there are none, and restore containers carry no volume (`PathsInOrder`).
`NoneAssumption` also keeps identifiers of containers apart from `None`, and
`VolumesAssumption` says what a volume's content is: the proofs of the two sides
need both.

### Names and paths of any characters

`PathsProofs` (`NamesAssumption`, `LettersAssumption`, `StampAssumption`,
`PathsAssumption`, `MountsAssumption`):

- `NamesAreReadable`: `PathsSpec => []SanitizeMeans`.
- `FirstAreServed`: `PathsSpec => []SpecsAreFirst`.
- `SourceIsFound`: `PathsSpec => []UniqueSourceFound`.
- `SessionComesBack`: `PathsSpec => []SessionAccepted`.
- `CleanupTakesWhatPrepareMakes`: `PathsSpec => []CleanupTakesNames`.
- `UmountNeverLeaves`: `PathsSpec => []UmountStaysInside`.
- `CommandsAlwaysMeet`: `PathsSpec => []CommandsMeet`.
- `MountIsAlwaysFound`: `PathsSpec => []MountIsFound`.
- `HintsAreRead`: `PathsSpec => []HintsCanBePasted`.

TLC looks at labels of four characters; these hold for any number of volumes with
labels of any characters and length, for any shared directory and settings, and
among any mounts.

Of a state only its types are needed: labels are texts (`LabelsOK`), settings are
paths (`SettingsOK`). The work is in the functions. Each loop of the code is a
fold, which the community modules define by a recursive function on sets. The
library's induction theorems cannot be used, since they take an operator as a
parameter, but the same is said with a set of numbers: one that has 0 and with
every number the next has all, because otherwise it would miss a least one
(`Rise`, from the well-foundedness of `<`). From it `FoldExists`: for any step
there is a function on the sets of positions that has taken the steps of each
set, the last one last. So the function a fold chooses is such a one, and along
`1 .. k` it takes the steps of the loop (`FoldRises`). Each fold then has a lemma
that gives its states one by one (`DashedSteps`, `SpecsSteps`, `CleanSteps`,
`SplitSteps`, `FlattenSteps`, `DecodeSteps`, `ReadSteps`), and what the loop keeps
is carried along them:

- *sanitizer*: after k characters the buffer is the safe ones and first unsafe
  ones among them, each at the place that counts those before it
  (`BufferKnown`); so a safe name without dots and dashes at its edges stays as
  it is (`SanitizeStays`), which is why cleanup accepts what prepare makes.
- *specs*: those listed are the first of their names among the volumes so far
  (`SpecsUpTo`).
- *paths*: what is cleaned has `..` at the front of relative paths only and stays
  as it is (`CleanPath`, `CleanStays`), and joining a sanitized name adds one step
  (`JoinOne`). A name that cleanup accepts is such a step, hence it stays inside
  the view; and prepare, the helper and the umount container add the same
  step to roots that belong together, hence they meet.
- *mount table*: cutting the text of a path at its slashes gives the path back
  (`TextRead`), and decoding escaped characters gives the text back, an escape
  taking four steps (`TextDecoded`).
- *shell*: within quotes each character stands for itself, a quote in them
  taking four steps (`QuotedRead`).

The assumptions say what Docker and the kernel guarantee and what the code's
literals are: a volume's name begins with a letter or digit, letters are none of
the special characters, a time stamp ends in a digit, names in paths have no
slash, mount points are absolute and clean. TLC evaluates them for the instance of
the run `names`.

### Only model-checked

All liveness (`CommandsEnd`, `Answered`): the prover has no rules for it here.

## What is not modelled

- `inspect` and the wording of messages and hints: they read and print. The
  gathering of hints from wrapped errors (`hint.go`) is left out with them.
- In the command modules flags and paths are data: a command starts with values
  already validated, but for the test that source and target of a restore
  differ. How values come about is in `Paths`. The log file is not modelled.
- Symbolic links on the way to a target and other errors of looking at a path:
  they are the fault of `CheckTarget`.
- The umount container inside the commands: `UmountTarget` of `Backup` and of
  `Restore`, and so of `Bridge`, is one step. That `cleanup` and
  `restore-cleanup` of one friendly name remove each other's container
  (`cleanup_unmount.go:146-150`, `names.go:22`) is modelled in `UmountContainer`
  only; for the commands it is an umount that fails, or fails after it took
  effect, where `Trouble` has "fault". The runs of `Bridge` have no such fault:
  what they claim is about exit code 0, which a failed umount does not give.
- The lazy umount: it succeeds where the plain one is refused as busy.
- Removal of volumes while they are prepared or restored.
- The Ansible role and the install script.

## Plan

The umount request of `UmountContainer` in place of `UmountTarget`, so that the
two sides share its containers too, and the classification `inspect` prints.
