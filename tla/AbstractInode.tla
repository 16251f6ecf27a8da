--------------------------- MODULE AbstractInode ---------------------------
(***************************************************************************)
(* What a disk inode promises the layer above it (easy-fs, layout.rs):     *)
(* a file of `size` bytes is a sequence of ceil(size / BLOCK_SZ) data      *)
(* blocks; besides them it owns exactly the index blocks that a direct /   *)
(* 1-level / 2-level / 3-level pointer tree over those data blocks needs;  *)
(* growing a file takes every id the caller handed over, keeps the blocks  *)
(* already in the file where they are and appends fresh ones; clearing     *)
(* hands back every owned block exactly once.                              *)
(*                                                                         *)
(* The block count is stated here by a reference definition written from  *)
(* the shape of the tree, independently of DiskInode::total_blocks.        *)
(***************************************************************************)
EXTENDS Naturals, Sequences, SequencesExt, FiniteSets

CONSTANTS
  BLOCK_SZ,            \* bytes per block
  INODE_DIRECT_COUNT,  \* number of direct pointers in an inode
  BlockIds,            \* ids the block allocator can hand out
  MaxSize              \* largest file size the caller asks for

VARIABLES
  size,      \* byte length of the file
  blocks,    \* blocks[i]: id of the i-th data block of the file
  owned,     \* every block id (data and index) the inode owns
  free,      \* ids the allocator can still hand out
  released   \* the ids this step's clear handed back, in order; <<>> after
             \* any other step

vars == <<size, blocks, owned, free, released>>

(* Pointers per index block (a block id is 4 bytes).                       *)
Fanout == BLOCK_SZ \div 4

CeilDiv(a, b) == (a + b - 1) \div b

DataBlocksOf(s) == CeilDiv(s, BLOCK_SZ)

(* Leaves tier t can address: tier 0 is the direct pointers, tier t > 0 a  *)
(* t-level tree.                                                           *)
TierCap(t) == IF t = 0 THEN INODE_DIRECT_COUNT ELSE Fanout ^ t

TierStart(t) == MapThenSumSet(TierCap, 0 .. (t - 1))

(* How many of the first d data blocks fall in tier t.                     *)
LeavesIn(t, d) ==
  IF d <= TierStart(t) THEN 0 ELSE Min({d - TierStart(t), TierCap(t)})

(* Index blocks of a t-level tree with L leaves: level j (root = 0) holds  *)
(* one block per started group of Fanout^(t-j) leaves.                     *)
TreeIndexBlocks(t, L) ==
  IF L = 0 THEN 0
  ELSE MapThenSumSet(LAMBDA j : CeilDiv(L, Fanout ^ (t - j)), 0 .. (t - 1))

(* Reference count of the blocks a file of d data blocks occupies.        *)
RefTotalBlocks(d) ==
  d + MapThenSumSet(LAMBDA t : TreeIndexBlocks(t, LeavesIn(t, d)), 1 .. 3)

Init ==
  /\ size = 0
  /\ blocks = <<>>
  /\ owned = {}
  /\ free = BlockIds
  /\ released = <<>>

(* Grow the file: the new ids come from the pool and are all owned, the    *)
(* old data blocks stay in place, and the block count is exact.            *)
Grow ==
  /\ size < size' /\ size' <= MaxSize
  /\ owned \subseteq owned'
  /\ owned' \ owned \subseteq free
  /\ free' = free \ owned'
  /\ Cardinality(owned') = RefTotalBlocks(DataBlocksOf(size'))
  /\ Len(blocks') = DataBlocksOf(size')
  /\ IsPrefix(blocks, blocks')
  /\ \A i, j \in DOMAIN blocks' : i # j => blocks'[i] # blocks'[j]
  /\ ToSet(blocks') \subseteq owned'
  /\ released' = <<>>

(* Clear the file: every owned id is handed back once and returns to the   *)
(* pool.                                                                   *)
Clear ==
  /\ size' = 0
  /\ blocks' = <<>>
  /\ owned' = {}
  /\ ToSet(released') = owned
  /\ Len(released') = Cardinality(owned)
  /\ free' = free \cup owned

(* Another file grows or is cleared: this file's blocks stay where they   *)
(* are, and none of the ids it owns is in the pool.                        *)
Other ==
  /\ UNCHANGED <<size, blocks, owned>>
  /\ released' = <<>>
  /\ free' \cap owned = {}

Next == Grow \/ Clear \/ Other

Spec == Init /\ [][Next]_vars

=============================================================================
