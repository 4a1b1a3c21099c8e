-------------------------------- MODULE MCPaths --------------------------------
(***************************************************************************)
(* The instance of Paths, and with it of Names, for TLC: a volume with any *)
(* short label beside two volumes whose names and labels meet it and each  *)
(* other; and any settings while the volumes have no labels.               *)
(***************************************************************************)
EXTENDS Paths, TLC

Strings(chars, n) == UNION {[1 .. k -> chars] : k \in 0 .. n}

ThreeVolumes == << <<"a">>, <<"b">>, <<"b", ".">> >>

(* Labels of every kind of character; labels that are another's name, that *)
(* have to be cleaned or that come to nothing.                             *)
AnyLabel == Strings({"a", ".", "-", " ", "/"}, 4) \union Strings({"b", ".", " "}, 2)
MeetingLabels == {<<>>, <<"a">>, <<"/">>, <<" ", "b">>, <<"a", "/", "b">>}
OneOfAny == <<AnyLabel, MeetingLabels, {<<>>, <<"a">>, <<" ", "b">>}>>

Letters == {"a", "b", "t", "o", "0", "mnt", "revopia", "data", "volumes", "restore", "x", "v"}
Zero == <<"0">>
NoLabels == {<<>>}

(* Directories whose names the kernel escapes, also at their end, and that *)
(* look like escapes; roots that Clean changes, and a relative one.        *)
MntRevopia == Root(<< <<"mnt">>, <<"revopia">> >>)
OddBridge == Root(<< <<"data">>, <<"a", " ", "\\", "0", "4", "0", "\\">> >>)
TwoBridges == {MntRevopia, OddBridge}
OddRoot == Root(<< <<"x">>, <<>>, <<".", ".">>, <<"v", "'", "\\">>, <<".">>, <<>> >>)
RelativeRoot == [abs |-> FALSE, names |-> << <<".", ".">>, <<"r">> >>]
GivenPaths == [BridgeSource |-> {OddBridge}, VisibleRoot |-> {OddRoot}, RestoreVisibleRoot |-> {RelativeRoot}]
TwoMounts == <<Root(<< <<"media">>, <<"a", "\n", "b">> >>), Root(<< <<"media">>, <<"\\", "1", "\t">> >>)>>
===============================================================================
