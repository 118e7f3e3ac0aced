SPECIFICATION FairSpec
CONSTANTS
  None = None
  Folder = {f1, f2}
  Caller = {c1}
  Broken = {}
  Capacity = 2
  MaxCalls = 1
  MaxRequests = 2
  MaxFailures = 1
  MaxRestarts = 1
 
PROPERTIES FolderServed
