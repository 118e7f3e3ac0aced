SPECIFICATION FairSpec
CONSTANTS
  Sizes = {1, 2, 4, 5}
  SimpleMax = 1
  ChunkSize = 2
  MaxAttempts = 3
INVARIANTS TypeOK StoredBytes ErrorJustified
PROPERTIES CallKeepsPromise CallReturns
CHECK_DEADLOCK FALSE
