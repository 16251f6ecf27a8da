\* Two inodes sharing the block allocator and the disk.
CONSTANTS
  BLOCK_SZ <- MCBlockSize
  INODE_DIRECT_COUNT <- MCTwoDirectCount
  MaxSize <- MCTwoMaxSize
  MaxBlockId <- MCTwoMaxBlockId
  SizeOffsets <- MCTwoSizeOffsets
  i1 = i1
  i2 = i2
  Inodes <- MCTwoInodes
SYMMETRY Symmetry
SPECIFICATION Spec
INVARIANT NoPanic
PROPERTIES
  AbsSpec
