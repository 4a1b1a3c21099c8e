SPECIFICATION PathsSpec
CONSTANTS
  Letter <- Letters
  VolumeName <- ThreeVolumes
  Labels <- OneOfAny
  Stamp <- Zero
  NoPath = NoPath
  DefaultBridge <- MntRevopia
  Bridges <- TwoBridges
  Given <- GivenPaths
  OtherMounts <- TwoMounts
  Everyday <- NoLabels
INVARIANTS
  UmountStaysInside
  CommandsMeet
  MountIsFound
  HintsCanBePasted
  CleanupTakesNames
  SessionAccepted
  SanitizeMeans
  SpecsAreFirst
  UniqueSourceFound
