\* mmap_test1 and mmap_test2 running at once, in every interleaving.  Both
\* tests end (one exits, one is killed), so deadlock is not an error.
CONSTANTS
  PAGE_SIZE <- MCPageSize
  MMAP_AREA_BASE <- MCBase
  VA_WIDTH_SV39 <- MCVaWidth
  Files <- MCFiles
  FileData <- MCFileData
  StoreValues = {}
  MaxMmaps = 4
  Prog1 <- MCProg1
  FdTable1 <- MCFdTable1
  Prog2 <- MCProg2
  FdTable2 <- MCFdTable2
  TestFile = filea
  Test1Result <- MCTest1Result
  Test2KilledAt <- MCTest2KilledAt
  filea = filea
  stdio = stdio
  a1 = a1
  a2 = a2
SPECIFICATION Spec
CHECK_DEADLOCK FALSE
INVARIANTS TypeOK NoPanic TestChecksHold Test1Written
PROPERTIES TestsEnd
