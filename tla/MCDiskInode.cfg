CONSTANTS
  BLOCK_SZ <- MCBlockSize
  INODE_DIRECT_COUNT <- MCDirectCount
  MaxSize <- MCFullMaxSize
  MaxBlockId <- MCFullMaxBlockId
  SizeOffsets <- MCSizeOffsets
  i1 = i1
  i2 = i2
  Inodes <- MCOneInode
SPECIFICATION Spec
CHECK_DEADLOCK FALSE
INVARIANTS
  TypeOK
  GrowthNoPanic
  RootsMatchSize
PROPERTIES
  AbsSpec
