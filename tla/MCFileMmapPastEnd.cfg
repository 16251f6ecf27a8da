\* f1 mapped for a page more than it has: a fault there asserts.
CONSTANTS
  PAGE_SIZE <- MCPageSize
  MMAP_AREA_BASE <- MCBase
  VA_WIDTH_SV39 <- MCVaWidth
  Files <- MCFiles
  FileData <- MCFileData
  FdTable <- MCFdTable
  MmapCalls <- MCPastEndCalls
  StoreValues <- MCStoreValues
  MaxMmaps <- MCMaxMmaps
  f1 = f1
  f2 = f2
  a1 = a1
  a2 = a2
SPECIFICATION Spec
CHECK_DEADLOCK FALSE
INVARIANT NoPanic
