CONSTANTS
  Strings <- MCStrings
  Bytes <- MCBytes
  Headers = {}
  MaxHeaders = 5
  WritesFail = TRUE
  FileSystems <- MCFileSystems
  Filters <- MCFilters
  MaxSize = 3
SPECIFICATION DumpFairSpec
INVARIANTS
  CalmDumpIsFiles
  CleanDumpIsArchive
  GoroutineStopped
PROPERTIES
  DumpReturns
CHECK_DEADLOCK FALSE
