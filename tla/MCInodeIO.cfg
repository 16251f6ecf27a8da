\* One file grown, cleared and written at offsets below its size; every
\* read_at is compared with the file's bytes.
CONSTANTS
  BLOCK_SZ <- MCBlockSize
  INODE_DIRECT_COUNT <- MCDirectCount
  MaxSize <- MCMaxSize
  MaxBlockId <- MCMaxBlockId
  SizeOffsets <- MCSizeOffsets
  WriteOffsets <- MCWriteOffsets
  WriteLens <- MCWriteLens
  ReadOffsets <- MCReadOffsets
  ReadLens <- MCReadLens
  i1 = i1
  Inodes <- MCInodes
INIT IOInit
NEXT IONext
INVARIANTS
  IOTypeOK
  NoPanic
  ReadAtCorrect
PROPERTIES
  FileSpec
  WriteAtExact
