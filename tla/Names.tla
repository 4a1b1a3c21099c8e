--------------------------------- MODULE Names ---------------------------------
(***************************************************************************)
(* The names and paths revopia derives from Docker volumes                 *)
(* (internal/bridge/names.go, paths.go, buildVolumeSpecs in backup.go and  *)
(* validateCleanupFriendlyName in cleanup_unmount.go).  Here names are     *)
(* sequences of characters, for the properties tell them apart by those.   *)
(* The state is the volumes that are enabled for backup and their          *)
(* backup.name labels, as the user creates and removes them.               *)
(***************************************************************************)
EXTENDS Naturals, Sequences, SequencesExt

CONSTANTS
  Letter,         \* letters and digits
  VolumeName,     \* the names volumes may have, in their order
  Labels,         \* Labels[v]: values of backup.name for volume v; <<>> for none
  Stamp           \* the time stamp of a session

VARIABLES
  enabled,        \* the volumes with backup.enable=true, by their number in VolumeName
  label           \* label[v]: the backup.name of volume v

vars == <<enabled, label>>

NoName == <<>>

Volume == DOMAIN VolumeName

(* Docker's names of volumes begin with a letter or digit; labels are of   *)
(* any characters.                                                         *)
ASSUME NamesAssumption ==
  /\ VolumeName \in Seq(Seq(STRING))
  /\ \A v \in Volume : VolumeName[v] # <<>> /\ VolumeName[v][1] \in Letter
  /\ \A v, w \in Volume : VolumeName[v] = VolumeName[w] => v = w
  /\ DOMAIN Labels = Volume
  /\ \A v \in Volume : NoName \in Labels[v] /\ Labels[v] \subseteq Seq(STRING)

ASSUME LettersAssumption ==
  /\ Letter \subseteq STRING
  /\ {"t", "o"} \subseteq Letter
  /\ Letter \intersect {" ", "/", "\\", "'", ".", "-"} = {}

(* Its digits are those of the time.                                       *)
ASSUME StampAssumption ==
  /\ Stamp \in Seq(Letter \union {"-"})
  /\ Stamp # <<>> /\ Stamp[Len(Stamp)] \in Letter

-------------------------------------------------------------------------------
(* sanitizePathName                                                        *)

SafeRune(r) == r \in Letter \union {".", "_", "-"}

(* strings.Trim and TrimSpace: what is left between the outermost          *)
(* characters that stay.                                                   *)
TrimRunes(s, cutset) ==
  LET kept == {i \in DOMAIN s : s[i] \notin cutset}
  IN  IF kept = {} THEN <<>> ELSE SubSeq(s, Min(kept), Max(kept))

(* Wrong: a dash once written is taken for the last one ever after.        *)
WriteRune_NoReset(b, r) ==
  IF SafeRune(r) THEN [b EXCEPT !.out = Append(@, r)]
  ELSE IF b.lastDash THEN b
  ELSE [out |-> Append(b.out, "-"), lastDash |-> TRUE]

WriteRune(b, r) ==
  IF SafeRune(r) THEN [out |-> Append(b.out, r), lastDash |-> FALSE]
  ELSE IF b.lastDash THEN b
  ELSE [out |-> Append(b.out, "-"), lastDash |-> TRUE]

Dashed(s) == FoldLeft(WriteRune, [out |-> <<>>, lastDash |-> FALSE], s).out

(* Wrong: the edges are trimmed before the dashes are written.             *)
SanitizePathName_TrimFirst(raw) == Dashed(TrimRunes(TrimRunes(raw, {" "}), {".", "-"}))

SanitizePathName(raw) == TrimRunes(Dashed(TrimRunes(raw, {" "})), {".", "-"})

-------------------------------------------------------------------------------
(* The friendly name of a volume, NoName where friendlyNameForVolume fails *)
FriendlyNameForVolume(v) ==
  IF SanitizePathName(label[v]) # NoName
  THEN SanitizePathName(label[v])
  ELSE SanitizePathName(VolumeName[v])

(* Wrong: the name of a volume that was refused is not looked at.          *)
AddSpec_NotUsed(acc, v) ==
  LET f == FriendlyNameForVolume(v)
  IN  IF f = NoName
      THEN [acc EXCEPT !.failed = @ \union {v}]
      ELSE [acc EXCEPT !.specs = Append(@, v), !.used = @ \union {f}]

AddSpec(acc, v) ==
  LET f == FriendlyNameForVolume(v)
  IN  IF f = NoName \/ f \in acc.used
      THEN [acc EXCEPT !.failed = @ \union {v}]
      ELSE [acc EXCEPT !.specs = Append(@, v), !.used = @ \union {f}]

(* The volumes in the order of their names, as buildVolumeSpecs sorts them.*)
BuildVolumeSpecs ==
  FoldLeftDomain(LAMBDA acc, v : IF v \in enabled THEN AddSpec(acc, v) ELSE acc,
                 [specs |-> <<>>, used |-> {}, failed |-> {}], VolumeName)

Specs == BuildVolumeSpecs.specs

HasDoubleDot(f) == \E i \in 1 .. Len(f) - 1 : f[i] = "." /\ f[i + 1] = "."

(* Wrong: only jumps out of the directory are looked for.                  *)
ValidCleanupName_NoJump(f) == f # NoName /\ ~HasDoubleDot(f)

(* validateCleanupFriendlyName: the names cleanup unmounts.                *)
ValidCleanupName(f) ==
  /\ f # NoName
  /\ SanitizePathName(f) = f
  /\ ~HasDoubleDot(f)
  /\ "/" \notin {f[i] : i \in DOMAIN f}

(* Wrong: only the friendly name is compared.                              *)
Answers_FriendlyOnly(v, source) == source = FriendlyNameForVolume(v)

(* Kopia's source path is that of the volume, by one of its two names.     *)
Answers(v, source) ==
  \/ source = FriendlyNameForVolume(v)
  \/ source = SanitizePathName(VolumeName[v])

(* kopiaSnapshotPathForSource for the source path VisibleRoot/source: the  *)
(* friendly name in the path that is printed, NoName if none is.           *)
KopiaSnapshotPathForSource(source) ==
  LET hits == {i \in DOMAIN Specs : Answers(Specs[i], source)}
  IN  IF hits = {} THEN NoName ELSE FriendlyNameForVolume(Specs[Min(hits)])

(* Wrong: the names go into the session as they are.                       *)
DefaultRestoreSessionID_Raw(source, target) ==
  source \o <<"-", "t", "o", "-">> \o target \o <<"-">> \o Stamp

DefaultRestoreSessionID(source, target) ==
  SanitizePathName(source) \o <<"-", "t", "o", "-">> \o SanitizePathName(target) \o <<"-">> \o Stamp

-------------------------------------------------------------------------------
(* What the user does with volumes.                                        *)

Init == enabled = {} /\ label = [v \in Volume |-> NoName]

CreateVolume(v, l) ==
  /\ v \notin enabled
  /\ enabled' = enabled \union {v}
  /\ label' = [label EXCEPT ![v] = l]

RemoveVolume(v) ==
  /\ v \in enabled
  /\ enabled' = enabled \ {v}
  /\ label' = [label EXCEPT ![v] = NoName]

Next == \E v \in Volume : RemoveVolume(v) \/ \E l \in Labels[v] : CreateVolume(v, l)

Spec == Init /\ [][Next]_vars

-------------------------------------------------------------------------------
(* Properties.                                                             *)

(* What sanitizePathName makes of a label: its safe characters in their    *)
(* order, a dash for each run of others, and no space, dot or dash at the  *)
(* edges.  No safe character inside a name is lost.                        *)
SanitizeMeans ==
  \A v \in enabled :
    LET s == TrimRunes(label[v], {" "})
        kept == {i \in DOMAIN s : SafeRune(s[i]) \/ i = 1 \/ SafeRune(s[i - 1])}
        place(i) == Cardinality({j \in kept : j <= i})
        rune(i) == IF SafeRune(s[i]) THEN s[i] ELSE "-"
        dashed == [k \in 1 .. Cardinality(kept) |-> rune(CHOOSE i \in kept : place(i) = k)]
    IN  SanitizePathName(label[v]) = TrimRunes(dashed, {".", "-"})

(* Of every name prepare accepts cleanup reclaims the mount, unless it     *)
(* contains "..": in particular no name changes when it is sanitized again.*)
CleanupTakesNames ==
  \A i \in DOMAIN Specs :
    LET f == FriendlyNameForVolume(Specs[i])
    IN  ValidCleanupName(f) \/ HasDoubleDot(f)

(* buildVolumeSpecs exposes each path once, to the first volume that asks  *)
(* for it, and reports every other volume.                                 *)
SpecsAreFirst ==
  LET first(v) ==
        /\ FriendlyNameForVolume(v) # NoName
        /\ \A w \in enabled : w < v => FriendlyNameForVolume(w) # FriendlyNameForVolume(v)
  IN  /\ {Specs[i] : i \in DOMAIN Specs} = {v \in enabled : first(v)}
      /\ BuildVolumeSpecs.failed = {v \in enabled : ~first(v)}

(* A source path that names one prepared volume, by its friendly or its    *)
(* own name, is answered with that volume's path.                          *)
UniqueSourceFound ==
  \A i \in DOMAIN Specs :
    LET v == Specs[i]
        alone(source) == \A j \in DOMAIN Specs :
                           source \in {FriendlyNameForVolume(Specs[j]), SanitizePathName(VolumeName[Specs[j]])} => j = i
    IN  \A source \in {FriendlyNameForVolume(v), SanitizePathName(VolumeName[v])} :
          alone(source) => KopiaSnapshotPathForSource(source) = FriendlyNameForVolume(v)

(* A session that restore made up is one that restore and restore-cleanup  *)
(* accept when the user passes it back, whatever target was named.         *)
SessionAccepted ==
  \A v \in enabled :
    LET session == DefaultRestoreSessionID(VolumeName[v], label[v])
    IN  SanitizePathName(session) = session
===============================================================================
