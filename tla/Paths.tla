--------------------------------- MODULE Paths ---------------------------------
(***************************************************************************)
(* Where the commands look and where the containers mount: the settings    *)
(* (DefaultConfig in internal/bridge/config.go and the flags of cmd/) and  *)
(* the paths made of them (paths.go, mount.go, cleanup_unmount.go,         *)
(* helperMounts in backup.go, restoreHelperMounts in restore_helper.go).   *)
(* A path is a sequence of names, a name one of characters, as in Names.   *)
(* The state is what the administrator set up: where the command runs,     *)
(* what can be seen of that, the shared directory, environment and flags.  *)
(***************************************************************************)
EXTENDS Names

CONSTANTS
  NoPath,         \* a setting that is not given, or holds spaces only
  DefaultBridge,  \* "/mnt/revopia"
  Bridges,        \* the directories of the host that may be shared
  Given,          \* Given[o]: the paths setting o may have
  OtherMounts,    \* mount points of others, in their order in the mount table
  Everyday        \* bound: settings change while all labels are among these

VARIABLES
  place,          \* "host" or "container": where the command runs
  marked,         \* a file /.dockerenv or /run/.containerenv is there
  cgroup,         \* /proc/1/cgroup can be read and names a container runtime
  runtime,        \* REVOPIA_RUNTIME, in lower case
  bridge,         \* the directory of the host that is shared
  env, flag       \* the settings given by environment and by flag

NameType == {name \in Seq(STRING) : \A i \in DOMAIN name : name[i] # "/"}
PathType == [abs : BOOLEAN, names : Seq(NameType)]

Setting == {"BridgeSource", "VisibleRoot", "RestoreVisibleRoot"}

ASSUME PathsAssumption ==
  /\ DefaultBridge \in PathType /\ Bridges \subseteq PathType
  /\ \A o \in Setting : Given[o] \subseteq PathType

pathVars == <<place, marked, cgroup, runtime, bridge, env, flag>>

-------------------------------------------------------------------------------
(* Paths: filepath.Clean and filepath.Join.                                *)

Root(names) == [abs |-> TRUE, names |-> names]

CleanName(p, name) ==
  LET up == name = <<".", ".">>
      climbs == up /\ p.names # <<>> /\ p.names[Len(p.names)] # <<".", ".">>
      vanishes == name \in {<<>>, <<".">>} \/ (up /\ p.names = <<>> /\ p.abs)
  IN  IF climbs THEN [p EXCEPT !.names = Front(@)]
      ELSE IF vanishes THEN p ELSE [p EXCEPT !.names = Append(@, name)]

Clean(p) == FoldLeft(CleanName, [p EXCEPT !.names = <<>>], p.names)

(* The names in a string, which a slash separates.                         *)
Split(s) ==
  FoldLeft(LAMBDA names, c : IF c = "/" THEN Append(names, <<>>)
                             ELSE Append(Front(names), Append(names[Len(names)], c)),
           << <<>> >>, s)

Join(p, s) == Clean([p EXCEPT !.names = @ \o Split(s)])

(* The path p below from is this one, where from is mounted from to.       *)
Rebase(p, from, to) ==
  [Clean(to) EXCEPT !.names = @ \o SubSeq(p.names, Len(from.names) + 1, Len(p.names))]

HelperTargetRoot == Root(<< <<"bridge">> >>)
RestoreTargetSubdir == <<"restore">>
ContainerVolumes == Root(<< <<"volumes">> >>)
ContainerRestore == Root(<< <<"restore">> >>)

-------------------------------------------------------------------------------
(* The settings of a command.                                              *)

DetectedInContainer == marked \/ cgroup

(* Wrong: what is detected goes before what the administrator says.        *)
DefaultRuntime_MarkerFirst ==
  IF DetectedInContainer THEN "container"
  ELSE IF runtime \in {"host", "container"} THEN runtime ELSE "host"

DefaultRuntime ==
  IF runtime \in {"host", "container"} THEN runtime
  ELSE IF DetectedInContainer THEN "container" ELSE "host"

GetenvDefault(key, fallback) == IF env[key] # NoPath THEN env[key] ELSE fallback

DefaultConfig ==
  LET source == GetenvDefault("BridgeSource", DefaultBridge)
      inside == DefaultRuntime = "container"
  IN  [BridgeSource |-> source,
       VisibleRoot |-> GetenvDefault("VisibleRoot", IF inside THEN ContainerVolumes ELSE source),
       RestoreVisibleRoot |->
         GetenvDefault("RestoreVisibleRoot",
                       IF inside THEN ContainerRestore ELSE Join(source, RestoreTargetSubdir))]

(* A flag goes before the default, which was made before flags were read.  *)
Config ==
  LET default == DefaultConfig
  IN  [o \in Setting |-> IF flag[o] # NoPath THEN flag[o] ELSE default[o]]

-------------------------------------------------------------------------------
(* The paths of a friendly name.                                           *)

VisiblePath(cfg, f) == Join(cfg.VisibleRoot, f)
RestoreVisiblePath(cfg, f) == Join(cfg.RestoreVisibleRoot, f)
HelperTarget(f) == Join(HelperTargetRoot, f)
RestoreHelperTarget(f) == Join(Join(HelperTargetRoot, RestoreTargetSubdir), f)
CleanupUnmountContainerTargetPath(f) == Join(HelperTargetRoot, f)
RestoreCleanupContainerTargetPath(f) == Join(Join(HelperTargetRoot, RestoreTargetSubdir), f)

(* cleanupTargetPathChecked: the path cleanup looks at, NoPath where it is *)
(* refused, for it is the root or leads out of it.                         *)
CleanupTargetPathChecked(visibleRoot, f) ==
  LET root == Clean(visibleRoot)
      target == Clean(Join(root, f))
  IN  IF /\ IsStrictPrefix(root.names, target.names)
         /\ target.names[Len(root.names) + 1] # <<".", ".">>
      THEN target ELSE NoPath

-------------------------------------------------------------------------------
(* The mount table of /proc/self/mountinfo.                                *)

(* The kernel lists mount points as absolute paths, with nothing to clean. *)
ASSUME MountsAssumption ==
  /\ OtherMounts \in Seq(PathType)
  /\ \A i \in DOMAIN OtherMounts : OtherMounts[i].abs /\ Clean(OtherMounts[i]) = OtherMounts[i]

(* The kernel writes these characters as a backslash and three octal       *)
(* digits.                                                                 *)
Byte == [c \in {" ", "\t", "\n", "\\"} |->
           CASE c = " " -> 32 [] c = "\t" -> 9 [] c = "\n" -> 10 [] c = "\\" -> 92]
Digit == <<"0", "1", "2", "3", "4", "5", "6", "7">>
Escape(c) ==
  IF c \in DOMAIN Byte
  THEN <<"\\", Digit[(Byte[c] \div 64) + 1], Digit[((Byte[c] \div 8) % 8) + 1], Digit[(Byte[c] % 8) + 1]>>
  ELSE <<c>>

(* The characters of a path that is absolute and clean.                    *)
Text(p) == FlattenSeq([i \in DOMAIN p.names |-> <<"/">> \o p.names[i]])

MountInfoField(p) ==
  LET text == Text(p)
  IN  FlattenSeq([i \in DOMAIN text |-> Escape(text[i])])

IsOctal(digits) == \A i \in DOMAIN digits : digits[i] \in {Digit[d] : d \in DOMAIN Digit}

(* The character an escape stands for, "?" for all that have no name here. *)
Unescape(digits) ==
  LET value(d) == CHOOSE n \in 0 .. 7 : Digit[n + 1] = d
      byte == (64 * value(digits[1]) + 8 * value(digits[2]) + value(digits[3])) % 256
  IN  IF \E c \in DOMAIN Byte : Byte[c] = byte
      THEN CHOOSE c \in DOMAIN Byte : Byte[c] = byte ELSE "?"

(* Wrong: an escape at the end is taken for one that is cut off.           *)
WholeEscape_Short(raw, i) == i + 3 < Len(raw) /\ IsOctal(SubSeq(raw, i + 1, i + 3))

WholeEscape(raw, i) == i + 3 <= Len(raw) /\ IsOctal(SubSeq(raw, i + 1, i + 3))

DecodeMountInfoPath(raw) ==
  FoldLeftDomain(
    LAMBDA d, i :
      IF d.skip > 0 THEN [d EXCEPT !.skip = @ - 1]
      ELSE IF raw[i] # "\\" THEN [d EXCEPT !.out = Append(@, raw[i])]
      ELSE IF WholeEscape(raw, i)
      THEN [d EXCEPT !.out = Append(@, Unescape(SubSeq(raw, i + 1, i + 3))), !.skip = 3]
      ELSE [d EXCEPT !.bad = TRUE],
    [out |-> <<>>, skip |-> 0, bad |-> FALSE], raw)

(* mountInfoForPath: whether target is a mount point.  A line that cannot  *)
(* be decoded ends the search before the lines below it.                   *)
IsMountPoint(table, target) ==
  LET line == [i \in DOMAIN table |-> DecodeMountInfoPath(MountInfoField(table[i]))]
      ends == {i \in DOMAIN table : line[i].bad \/ Clean(Root(Split(line[i].out))) = Clean(target)}
  IN  ends # {} /\ ~line[Min(ends)].bad

-------------------------------------------------------------------------------
(* The commands that hints recommend, and the shell they are pasted into.  *)

IsShellSafeRune(r) == r \in Letter \union {".", "_", "-", "/", ":", "="}

(* Wrong: a quote inside the quotes stays as it is.                        *)
ShellRune_Bare(r) == <<r>>

ShellRune(r) == IF r = "'" THEN <<"'", "\\", "'", "'">> ELSE <<r>>

ShellArg(value) ==
  IF value # <<>> /\ \A i \in DOMAIN value : IsShellSafeRune(value[i]) THEN value
  ELSE <<"'">> \o FlattenSeq([i \in DOMAIN value |-> ShellRune(value[i])]) \o <<"'">>

(* What a shell makes of a text: one word, or NoPath.                      *)
ShellWord(text) ==
  LET read(w, c) ==
        CASE w.mode = "quoted" /\ c = "'"    -> [w EXCEPT !.mode = "plain"]
          [] w.mode \in {"quoted", "literal"} /\ (w.mode = "literal" \/ c # "'")
               -> [w EXCEPT !.out = Append(@, c), !.mode = IF @ = "literal" THEN "plain" ELSE @]
          [] w.mode = "plain" /\ c = "'"     -> [w EXCEPT !.mode = "quoted"]
          [] w.mode = "plain" /\ c = "\\"    -> [w EXCEPT !.mode = "literal"]
          [] w.mode = "plain" /\ IsShellSafeRune(c) -> [w EXCEPT !.out = Append(@, c)]
          [] OTHER                           -> [w EXCEPT !.mode = "broken"]
      end == FoldLeft(read, [out |-> <<>>, mode |-> "plain"], text)
  IN  IF end.mode = "plain" THEN end.out ELSE NoPath

-------------------------------------------------------------------------------
(* What the administrator does.                                            *)

Unset == [o \in Setting |-> NoPath]

Usual == \A v \in Volume : label[v] \in Everyday

Initially ==
  /\ place = "host" /\ marked = FALSE /\ cgroup = FALSE /\ runtime = ""
  /\ bridge = DefaultBridge /\ env = Unset /\ flag = Unset

PathsInit == Init /\ Initially

(* What users do with volumes; labels that are not Everyday appear while   *)
(* nothing is set.                                                         *)
UserStep == Next /\ (Initially \/ Usual') /\ UNCHANGED pathVars

(* The command runs elsewhere.                                             *)
Move(p, m, c) ==
  /\ Usual
  /\ place' = p /\ marked' = m /\ cgroup' = c
  /\ UNCHANGED <<vars, runtime, bridge, env, flag>>

SetRuntime(r) == Usual /\ runtime' = r /\ UNCHANGED <<vars, place, marked, cgroup, bridge, env, flag>>

ShareBridge(b) == Usual /\ bridge' = b /\ UNCHANGED <<vars, place, marked, cgroup, runtime, env, flag>>

SetEnv(o, p) ==
  /\ Usual
  /\ env' = [env EXCEPT ![o] = p]
  /\ UNCHANGED <<vars, place, marked, cgroup, runtime, bridge, flag>>

SetFlag(o, p) ==
  /\ Usual
  /\ flag' = [flag EXCEPT ![o] = p]
  /\ UNCHANGED <<vars, place, marked, cgroup, runtime, bridge, env>>

Configure ==
  \/ \E p \in {"host", "container"}, m, c \in BOOLEAN : Move(p, m, c)
  \/ \E r \in {"", "host", "container", "other"} : SetRuntime(r)
  \/ \E b \in Bridges : ShareBridge(b)
  \/ \E o \in Setting : \E p \in Given[o] \union {NoPath} : SetEnv(o, p) \/ SetFlag(o, p)

PathsNext == UserStep \/ Configure

PathsSpec == PathsInit /\ [][PathsNext]_<<vars, pathVars>>

-------------------------------------------------------------------------------
(* Properties.                                                             *)

(* The path of the host a path of the command's leads to.  A container has *)
(* the shared directory at /volumes, its restore directory at /restore.    *)
HostPath(p) ==
  IF place = "host" THEN p
  ELSE IF IsPrefix(ContainerVolumes.names, p.names) THEN Rebase(p, ContainerVolumes, bridge)
  ELSE IF IsPrefix(ContainerRestore.names, p.names)
       THEN Rebase(p, ContainerRestore, Join(bridge, RestoreTargetSubdir))
  ELSE NoPath

(* The administrator says where the command runs, or it can be seen; the   *)
(* command knows which directory is shared, and its roots are left to it.  *)
(* On the host the directory has to come from the environment: the roots   *)
(* do not follow the flag --bridge-source.                                 *)
LeftToDefaults ==
  /\ \/ runtime = place
     \/ runtime \notin {"host", "container"} /\ (place = "container" <=> marked \/ cgroup)
  /\ Config.BridgeSource = bridge
  /\ \A o \in Setting \ {"BridgeSource"} : env[o] = NoPath /\ flag[o] = NoPath
  /\ place = "container" \/ flag["BridgeSource"] = NoPath

FriendlyNames == {FriendlyNameForVolume(Specs[i]) : i \in DOMAIN Specs}

(* Whether it runs on the host or in a container, the path a command waits *)
(* at or looks at is the one where the helper mounts the volume and the    *)
(* umount container unmounts, in the backup view and in the restore view:  *)
(* no setting but the shared directory has to be given.                    *)
CommandsMeet ==
  LeftToDefaults =>
    LET cfg == Config
        behind(target) == Rebase(target, HelperTargetRoot, cfg.BridgeSource)
    IN  \A f \in FriendlyNames :
          /\ HostPath(VisiblePath(cfg, f)) = behind(HelperTarget(f))
          /\ HostPath(RestoreVisiblePath(cfg, f)) = behind(RestoreHelperTarget(f))
          /\ ValidCleanupName(f) =>
               /\ HostPath(CleanupTargetPathChecked(cfg.VisibleRoot, f))
                    = behind(CleanupUnmountContainerTargetPath(f))
               /\ HostPath(CleanupTargetPathChecked(cfg.RestoreVisibleRoot, f))
                    = behind(RestoreCleanupContainerTargetPath(f))

(* Among mounts of any names, also such as end in an escape, prepare and   *)
(* cleanup find the mount on a volume's path if and only if it is there.   *)
MountIsFound ==
  LET cfg == Config
      others == OtherMounts \o <<Clean(cfg.VisibleRoot)>>
  IN  cfg.VisibleRoot.abs =>
        \A f \in FriendlyNames :
          LET target == VisiblePath(cfg, f)
          IN  /\ IsMountPoint(others, target) <=> \E i \in DOMAIN others : others[i] = target
              /\ IsMountPoint(Append(others, target), target)

(* Whatever name a container carries in its label: where cleanup and       *)
(* restore-cleanup do not refuse it, they unmount a direct child of the    *)
(* view's directory, and look at a direct child of the view's root.        *)
UmountStaysInside ==
  LET cfg == Config
      child(p, f) == [Clean(p) EXCEPT !.names = Append(@, f)]
  IN  \A v \in enabled :
        LET f == label[v]
        IN  ValidCleanupName(f) =>
              /\ CleanupTargetPathChecked(cfg.VisibleRoot, f) = child(cfg.VisibleRoot, f)
              /\ CleanupTargetPathChecked(cfg.RestoreVisibleRoot, f) = child(cfg.RestoreVisibleRoot, f)
              /\ CleanupUnmountContainerTargetPath(f) = child(HelperTargetRoot, f)
              /\ RestoreCleanupContainerTargetPath(f)
                   = child(child(HelperTargetRoot, RestoreTargetSubdir), f)

(* The path in the commands that the hint of a refused umount recommends   *)
(* is read back by a shell as that path, and so is any other text a hint   *)
(* quotes, whatever its characters.                                        *)
HintsCanBePasted ==
  LET cfg == Config
      readBack(text) == ShellWord(ShellArg(text)) = text
  IN  /\ \A v \in enabled : readBack(label[v])
      /\ cfg.VisibleRoot.abs => \A f \in FriendlyNames : readBack(Text(VisiblePath(cfg, f)))
===============================================================================
