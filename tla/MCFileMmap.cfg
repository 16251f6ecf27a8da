\* One open per file; the task maps, faults, stores and syncs in any order.
\* A task killed by an unfixed fault stops, so deadlock is not an error.
CONSTANTS
  PAGE_SIZE <- MCPageSize
  MMAP_AREA_BASE <- MCBase
  VA_WIDTH_SV39 <- MCVaWidth
  Files <- MCFiles
  FileData <- MCFileData
  FdTable <- MCFdTable
  MmapCalls <- MCMmapCalls
  StoreValues <- MCStoreValues
  MaxMmaps <- MCMaxMmaps
  f1 = f1
  f2 = f2
  a1 = a1
  a2 = a2
SPECIFICATION Spec
CHECK_DEADLOCK FALSE
INVARIANTS
  TypeOK
  NoPanic
  RangesDisjoint
  FramesAccounted
  FramesCoherent
PROPERTIES
  SyncWritesBack
  SyncStaysInRanges
