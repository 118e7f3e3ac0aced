SPECIFICATION MCSpec
CONSTANTS
  Path = {f, g}
  Content = {c1, c2}
  FileId = {1, 2}
  None = None
  Disks <- MCDisks
  Tables <- MCTables
  Entries <- MCEntries
  MaxEntries = 3
  Name = {f, g, tmp}
  Tmp = tmp
  Half = half_written
  MaxWrites = 2
  MaxFetches = 1
  MaxFaults = 1
SYMMETRY Symmetry
CHECK_DEADLOCK FALSE
INVARIANTS TypeOK MergeAgrees ConflictDetected ConflictJustified 
INVARIANTS ScanWarranted RowHonest NeverHalf
