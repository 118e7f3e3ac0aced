SPECIFICATION Spec
CONSTANTS
  None = None
  Folder = {f1, f2}
  Caller = {c1, c2}
  Broken = {}
  Capacity = 1
  MaxCalls = 3
  MaxRequests = 1
  MaxFailures = 1
  MaxRestarts = 1
SYMMETRY Symmetry
INVARIANTS TypeOK
PROPERTIES PauseStands
