\* Sizes up to the full indirect3 tier: clear_size's assert is checked on
\* every file increase_size can build.
CONSTANTS
  BLOCK_SZ <- MCBlockSize
  INODE_DIRECT_COUNT <- MCDirectCount
  MaxSize <- MCFullMaxSize
  MaxBlockId <- MCFullMaxBlockId
  SizeOffsets <- MCSizeOffsets
  i1 = i1
  i2 = i2
  Inodes <- MCOneInode
SPECIFICATION Spec
INVARIANT NoPanic
