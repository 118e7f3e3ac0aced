SPECIFICATION Spec
CONSTANTS
  None = None
  Content = {c1, c2, c3}
  FileId = {1, 2, 3, 4, 5, 6}
  Path = {"f", "g", "copy1", "copy2", "copy3", "copy4"}
  UserPath = {"f"}
  RemotePath = {"g"}
  InitialDrive <- EmptyDrive
  InitialHead = 0
  Large = {}
  MtimeSurvives = TRUE
  LocalOps = {"write", "delete"}
  RemoteOps = {}
  EditPhases = {"idle", "fetch", "advance"}
  FaultKinds = {"crash"}
  UserMayPause = FALSE
  SinglePage = TRUE
  MaxLocal = 2
  MaxRemote = 2
  MaxFaults = 1
  MaxSteps <- MCMaxSteps
  MaxChanges = 20
SYMMETRY ContentSymmetry
PROPERTIES LocalCopyPreserved
