SPECIFICATION Spec
CONSTANTS
  None = None
  Account = {a1}
  Reader = {r1, r2}
  Lifetime = 3
  Buffer = 1
  MaxPrompt = 1
  MaxTime = 6
  MaxFailures = 2
SYMMETRY Symmetry
INVARIANTS TypeOK TokenAlive AccountUsable
PROPERTIES RemovalStands
CHECK_DEADLOCK FALSE
