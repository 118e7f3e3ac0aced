SPECIFICATION FairSpec
CONSTANTS
  None = None
  Content = {c1, c2}
  FileId = {1, 2, 3, 4, 5, 6}
  Path = {"f", "g", "h", "copy1", "copy2", "copy3"}
  UserPath = {"f"}
  RemotePath = {"g", "h"}
  InitialDrive <- OneFileDrive
  InitialHead = 1
  Large = {}
  MtimeSurvives = TRUE
  LocalOps = {"write"}
  RemoteOps = {"create", "edit"}
  EditPhases = {"idle", "fetch", "scan", "execute", "advance"}
  FaultKinds = {"failedCall", "lostResponse", "crash"}
  UserMayPause = FALSE
  SinglePage = TRUE
  MaxLocal = 2
  MaxRemote = 1
  MaxFaults = 1
  MaxSteps <- MCMaxSteps
  MaxChanges = 20
PROPERTIES Converges 
