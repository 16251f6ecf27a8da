\* A growth one block past the largest addressable file: the ids the
\* caller allocates for it must all end up in the tree.
CONSTANTS
  BLOCK_SZ <- MCBlockSize
  INODE_DIRECT_COUNT <- MCDirectCount
  MaxSize <- MCPastMaxSize
  MaxBlockId <- MCPastMaxBlockId
  SizeOffsets <- MCPastSizeOffsets
  i1 = i1
  i2 = i2
  Inodes <- MCOneInode
SPECIFICATION Spec
INVARIANT IdsConserved
