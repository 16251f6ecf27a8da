\* A mapping as long as the address space, then another: alloc wraps.
CONSTANTS
  PAGE_SIZE <- MCPageSize
  MMAP_AREA_BASE <- MCBase
  VA_WIDTH_SV39 <- MCVaWidth
  Files <- MCFiles
  FileData <- MCFileData
  FdTable <- MCFdTable
  MmapCalls <- MCWrapCalls
  StoreValues <- MCStoreValues
  MaxMmaps <- MCMaxMmaps
  f1 = f1
  f2 = f2
  a1 = a1
  a2 = a2
SPECIFICATION Spec
CHECK_DEADLOCK FALSE
INVARIANT RangesDisjoint
