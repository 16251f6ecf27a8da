---------------------------- MODULE MCDiskInode ----------------------------
(***************************************************************************)
(* DiskInode at a scale TLC covers.  An 8-byte block holds N = 2 pointers  *)
(* and the inode has 2 direct pointers, so the tiers are: direct blocks    *)
(* 0..1, indirect1 blocks 2..3, indirect2 blocks 4..7 (2 sub-blocks),      *)
(* indirect3 blocks 8..15 (2 level-2 and 4 level-3 blocks).  Every tier    *)
(* boundary, every sub-block boundary and a partly filled last block are   *)
(* a few growths away.                                                     *)
(***************************************************************************)
EXTENDS DiskInode

CONSTANTS i1, i2

MCOneInode == {i1}
MCTwoInodes == {i1, i2}

(* The two inodes are interchangeable. *)
Symmetry == Permutations(MCTwoInodes)

MCBlockSize == 8
MCDirectCount == 2

(* Sizes up to 12 data blocks: the first half of the indirect3 tier, the   *)
(* largest file clear_size can release without its assert failing (run     *)
(* inode_clear_assert covers the rest).                                    *)
MCMaxSize == 12 * MCBlockSize

(* Growth to every byte size.                                              *)
MCSizeOffsets == 0 .. MCBlockSize - 1

(* Exactly the blocks a file of MCMaxSize bytes occupies: 12 data blocks,  *)
(* 1 indirect1, 1 + 2 indirect2 and 1 + 1 + 2 indirect3 index blocks.     *)
MCMaxBlockId == 20

(* Sizes up to the full indirect3 tier (16 data blocks).                   *)
MCFullMaxSize == 16 * MCBlockSize
MCFullMaxBlockId == 27

(* One block past the largest file the tree addresses (2 + 2 + 4 + 8 = 16 *)
(* data blocks), in whole blocks: total_blocks asks for 17 data blocks,    *)
(* 1 + 3 index blocks of the lower tiers and 1 + 3 + 5 of indirect3.       *)
MCPastMaxSize == 17 * MCBlockSize
MCPastMaxBlockId == 30
MCPastSizeOffsets == {0}

(* Two files sharing the allocator and the disk, their growths and clears *)
(* interleaving so that each file's ids are no longer contiguous.  With    *)
(* one direct pointer, a 4-block file reaches the indirect2 tier (direct   *)
(* block 0, indirect1 blocks 1..2, indirect2 block 3) in 7 blocks.         *)
MCTwoDirectCount == 1
MCTwoMaxSize == 4 * MCBlockSize
MCTwoMaxBlockId == 14
MCTwoSizeOffsets == {0}
=============================================================================
