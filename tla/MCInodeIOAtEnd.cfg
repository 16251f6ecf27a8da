\* write_at at offset == size, which spec section 8 says returns 0 and mutates nothing.
CONSTANTS
  BLOCK_SZ <- MCBlockSize
  INODE_DIRECT_COUNT <- MCDirectCount
  MaxSize <- MCMaxSize
  MaxBlockId <- MCMaxBlockId
  SizeOffsets <- MCSizeOffsets
  WriteOffsets <- MCAtEndOffsets
  WriteLens <- MCWriteLens
  ReadOffsets <- MCReadOffsets
  ReadLens <- MCReadLens
  i1 = i1
  Inodes <- MCInodes
INIT IOInit
NEXT IONext
INVARIANT NoPanic
