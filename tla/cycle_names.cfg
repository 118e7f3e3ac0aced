SPECIFICATION Spec
CONSTANTS
  None = None
  Content = {c1, c2}
  FileId = {1, 2, 3, 4, 5, 6}
  Path = {"f", "g", "copy1", "copy2", "copy3"}
  UserPath = {"f"}
  RemotePath = {"f", "g"}
  InitialDrive <- EmptyDrive
  InitialHead = 0
  Large = {"f"}
  MtimeSurvives = TRUE
  LocalOps = {"write", "delete"}
  RemoteOps = {"create", "duplicate", "edit", "rename", "remove"}
  EditPhases = {"idle", "fetch", "scan", "execute", "advance"}
  FaultKinds = {}
  UserMayPause = TRUE
  SinglePage = TRUE
  MaxLocal = 1
  MaxRemote = 2
  MaxFaults = 0
  MaxSteps <- MCMaxSteps
  MaxChanges = 3
SYMMETRY ContentSymmetry
INVARIANTS RowsDisjoint
