SPECIFICATION Spec
CONSTANTS
  None = None
  Content = {c1, c2}
  FileId = {1, 2, 3, 4, 5, 6}
  Path = {"f", "g", "copy1", "copy2", "copy3", "copy4"}
  UserPath = {"f"}
  RemotePath = {"g"}
  InitialDrive <- EmptyDrive
  InitialHead = 0
  Large = {}
  MtimeSurvives = TRUE
  LocalOps = {"write", "delete"}
  RemoteOps = {"create", "edit", "trash", "remove"}
  EditPhases = {"idle", "fetch", "scan", "execute", "advance"}
  FaultKinds = {"failedCall", "lostResponse", "crash"}
  UserMayPause = FALSE
  SinglePage = FALSE
  MaxLocal = 2
  MaxRemote = 2
  MaxFaults = 1
  MaxSteps <- MCMaxSteps
  MaxChanges = 20
SYMMETRY ContentSymmetry
INVARIANTS TypeOK NoSilentDivergence TokenHonest NoDuplicateUpload 
