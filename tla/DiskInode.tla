------------------------------ MODULE DiskInode ------------------------------
(***************************************************************************)
(* The block-addressing engine of an easy-fs disk inode                    *)
(* (src/easy-fs/src/layout.rs, struct DiskInode): the record with its size *)
(* and direct / indirect1 / indirect2 / indirect3 pointers, the index      *)
(* blocks it points to, and the operations that change them:              *)
(* increase_size (with its recursive helper build_tree) and clear_size     *)
(* (with collect_tree_blocks), together with the caller that allocates     *)
(* the ids growth consumes and frees the ids clearing returns.             *)
(*                                                                         *)
(* Every call runs to completion under the caller's lock on the inode's    *)
(* block, so each call is one atomic step.  A panic (an unwrap of an       *)
(* exhausted id iterator, a failed assert) stops the kernel: the step      *)
(* records it in `panicked` and nothing moves afterwards.                  *)
(***************************************************************************)
EXTENDS Naturals, Sequences, SequencesExt, FiniteSets

CONSTANTS
  BLOCK_SZ,            \* bytes per block (512 in easy-fs)
  INODE_DIRECT_COUNT,  \* direct pointers per inode (27 in easy-fs)
  MaxBlockId,          \* the allocator hands out ids 1..MaxBlockId
  MaxSize,             \* largest size the caller grows a file to
  SizeOffsets,         \* new sizes the caller asks for, modulo BLOCK_SZ
  Inodes               \* the disk inodes sharing the allocator and the disk

ASSUME BLOCK_SZ % 4 = 0 /\ BLOCK_SZ >= 8

(* Block id 0 is the null pointer: the super block lives there and the     *)
(* allocator never hands it out.                                           *)
BlockIds == 1 .. MaxBlockId
Ptr == 0 .. MaxBlockId

INODE_INDIRECT1_COUNT == BLOCK_SZ \div 4
INODE_INDIRECT2_COUNT == INODE_INDIRECT1_COUNT * INODE_INDIRECT1_COUNT
INODE_INDIRECT3_COUNT == INODE_INDIRECT2_COUNT * INODE_INDIRECT1_COUNT
DIRECT_BOUND == INODE_DIRECT_COUNT
INDIRECT1_BOUND == DIRECT_BOUND + INODE_INDIRECT1_COUNT
INDIRECT2_BOUND == INDIRECT1_BOUND + INODE_INDIRECT2_COUNT

N == INODE_INDIRECT1_COUNT

VARIABLES
  inode,     \* inode[i]: the DiskInode record [size, direct, indirect1..3]
  disk,      \* disk[b][k]: entry k of block b read as an IndirectBlock
  free,      \* ids the allocator has not handed out
  owned,     \* history: owned[i], the ids increase_size consumed for i
             \* since its last clear
  released,  \* released[i]: the Vec<u32> clear_size of i returned in this
             \* step (<<>> after any other step)
  panicked   \* "no", or the check that aborted the kernel

vars == <<inode, disk, free, owned, released, panicked>>

ZeroBlock == [i \in 0 .. N - 1 |-> 0]

(* Block 0 holds the SuperBlock that EasyFileSystem::create wrote:         *)
(* SuperBlock::initialize stores EFS_MAGIC and the five region counts in   *)
(* its first six words; the rest of the block was zeroed.  Only the total *)
(* block count matters here: the device has ids 0 .. MaxBlockId.           *)
EFS_MAGIC == 998244353  \* 0x3b800001

(* SuperBlock::initialize: the record in field order.                      *)
SuperBlockInitialize(total, ib, ia, db, da) == <<EFS_MAGIC, total, ib, ia, db, da>>

SuperBlockImage ==
  LET sb == SuperBlockInitialize(MaxBlockId + 1, 1, 1, 1, MaxBlockId - 2)
  IN  [k \in 0 .. N - 1 |-> IF k < Len(sb) THEN sb[k + 1] ELSE 0]

(* get_block_cache(b).lock().read(..) of entry k: an id past the device   *)
(* fails in the block device (DeviceFault), and the failure propagates.   *)
DeviceFault == -1
ReadEntry(b, k) == IF b \in Ptr THEN disk[b][k] ELSE DeviceFault

-----------------------------------------------------------------------------
(* Block accounting.                                                       *)

(* DiskInode::_data_blocks: blocks holding size bytes, rounded up.         *)
DataBlocks(s) == (s + BLOCK_SZ - 1) \div BLOCK_SZ

(* Fault-injection variant: sub-blocks counted per full group only.       *)
Indirect2BlocksFloor(data_blocks) ==
  IF data_blocks > INDIRECT1_BOUND
  THEN 1 + Min({(data_blocks - INDIRECT1_BOUND) \div N, N})
  ELSE 0

(* Index blocks of the indirect2 tier: its root and one sub-block per     *)
(* started group of N data blocks.                                         *)
Indirect2Blocks(data_blocks) ==
  IF data_blocks > INDIRECT1_BOUND
  THEN 1 + Min({(data_blocks - INDIRECT1_BOUND + N - 1) \div N, N})
  ELSE 0

(* Fault-injection variant: level-3 blocks counted per full group only.   *)
Indirect3BlocksFloor(data_blocks) ==
  LET remaining == data_blocks - INDIRECT2_BOUND
  IN  IF data_blocks > INDIRECT2_BOUND
      THEN 1 + (remaining + INODE_INDIRECT2_COUNT - 1) \div INODE_INDIRECT2_COUNT
             + remaining \div N
      ELSE 0

(* Index blocks of the indirect3 tier: its root, the level-2 blocks and    *)
(* the level-3 blocks.                                                     *)
Indirect3Blocks(data_blocks) ==
  LET remaining == data_blocks - INDIRECT2_BOUND
  IN  IF data_blocks > INDIRECT2_BOUND
      THEN 1 + (remaining + INODE_INDIRECT2_COUNT - 1) \div INODE_INDIRECT2_COUNT
             + (remaining + N - 1) \div N
      ELSE 0

(* DiskInode::total_blocks: data blocks plus the index blocks that address *)
(* them.                                                                   *)
TotalBlocks(s) ==
  LET data_blocks == DataBlocks(s)
  IN  data_blocks + (IF data_blocks > INODE_DIRECT_COUNT THEN 1 ELSE 0)
      + Indirect2Blocks(data_blocks) + Indirect3Blocks(data_blocks)

(* Fault-injection variant: one id too many asked of the allocator.       *)
BlocksNumNeededPlusOne(r, new_size) ==
  TotalBlocks(new_size) - TotalBlocks(r.size) + 1

(* DiskInode::blocks_num_needed of record r, for new_size >= r.size.      *)
BlocksNumNeeded(r, new_size) == TotalBlocks(new_size) - TotalBlocks(r.size)

Decompose2(id) == <<id \div N, id % N>>

(* DiskInode::get_block_id of record r: logical block inner_id to a block *)
(* id, reading index blocks from disk.                                     *)
GetBlockId(r, inner_id) ==
  IF inner_id < INODE_DIRECT_COUNT THEN r.direct[inner_id]
  ELSE IF inner_id < INDIRECT1_BOUND
  THEN ReadEntry(r.indirect1, inner_id - INODE_DIRECT_COUNT)
  ELSE IF inner_id < INDIRECT2_BOUND
  THEN LET last == inner_id - INDIRECT1_BOUND
       IN  ReadEntry(ReadEntry(r.indirect2, last \div N), last % N)
  ELSE LET last == inner_id - INDIRECT2_BOUND
           l1 == ReadEntry(r.indirect3, last \div INODE_INDIRECT2_COUNT)
           l2 == ReadEntry(l1, (last % INODE_INDIRECT2_COUNT) \div N)
       IN  ReadEntry(l2, (last % INODE_INDIRECT2_COUNT) % N)

-----------------------------------------------------------------------------
(* Growth.  increase_size runs on a working copy g of the record (g.ino), *)
(* the disk, the id vector new_blocks with a cursor pos, and its two       *)
(* counters current_blocks (cur) and total_blocks (total).                 *)

(* new_blocks.next().unwrap(): the next id, and a fault when none is left. *)
NextId(g) == IF g.pos <= Len(g.ids) THEN g.ids[g.pos] ELSE 0
Take(g) == [g EXCEPT !.pos = @ + 1, !.fault = @ \/ g.pos > Len(g.ids)]

(* while current_blocks < total_blocks.min(27): fill the direct slots.     *)
RECURSIVE FillDirect(_)
FillDirect(g) ==
  IF g.cur < Min({g.total, INODE_DIRECT_COUNT})
  THEN FillDirect([Take(g) EXCEPT !.ino.direct[g.cur] = NextId(g), !.cur = @ + 1])
  ELSE g

(* Take an id for the indirect1 root when the direct tier has just been   *)
(* filled, and make the counters relative to the indirect1 tier.          *)
AllocIndirect1(g) ==
  LET h == IF g.cur = INODE_DIRECT_COUNT
           THEN [Take(g) EXCEPT !.ino.indirect1 = NextId(g)] ELSE g
  IN  [h EXCEPT !.cur = @ - INODE_DIRECT_COUNT,
                !.total = @ - INODE_DIRECT_COUNT]

(* Fill the entries of the indirect1 block.                                *)
RECURSIVE FillIndirect1(_)
FillIndirect1(g) ==
  IF g.cur < Min({g.total, N})
  THEN FillIndirect1([Take(g) EXCEPT !.disk[g.ino.indirect1][g.cur] = NextId(g),
                                     !.cur = @ + 1])
  ELSE g

AllocIndirect2(g) ==
  LET h == IF g.cur = N THEN [Take(g) EXCEPT !.ino.indirect2 = NextId(g)] ELSE g
  IN  [h EXCEPT !.cur = @ - N, !.total = @ - N]

(* The indirect2 loop from (a0, b0) to (a1, b1): a sub-block id is taken   *)
(* whenever b0 is 0, then one id for the leaf pointer.                     *)
RECURSIVE FillIndirect2(_, _, _, _, _)
FillIndirect2(g, a0, b0, a1, b1) ==
  IF (a0 < a1) \/ (a0 = a1 /\ b0 < b1)
  THEN LET g1 == IF b0 = 0
                 THEN [Take(g) EXCEPT !.disk[g.ino.indirect2][a0] = NextId(g)]
                 ELSE g
           sub == g1.disk[g1.ino.indirect2][a0]
           g2 == [Take(g1) EXCEPT !.disk[sub][b0] = NextId(g1), !.cur = @ + 1]
       IN  IF b0 + 1 = N THEN FillIndirect2(g2, a0 + 1, 0, a1, b1)
                         ELSE FillIndirect2(g2, a0, b0 + 1, a1, b1)
  ELSE g

AllocIndirect3(g) ==
  LET h == IF g.cur = INODE_INDIRECT2_COUNT
           THEN [Take(g) EXCEPT !.ino.indirect3 = NextId(g)] ELSE g
  IN  [h EXCEPT !.cur = @ - INODE_INDIRECT2_COUNT,
                !.total = @ - INODE_INDIRECT2_COUNT]

(* Fault-injection variant: the slot at src_leaf itself counted as old.   *)
IsNewSlotStrict(cur_leaf, src_leaf) == cur_leaf > src_leaf

(* build_tree visits the slot of cur_leaf: it is new, and gets an id, iff  *)
(* cur_leaf >= src_leaf.                                                   *)
IsNewSlot(cur_leaf, src_leaf) == cur_leaf >= src_leaf

(* build_tree(block_id, cur_leaf, src_leaf, dst_leaf, cur_depth,           *)
(* dst_depth) and its while loop over the entries i of block_id; both     *)
(* return the working copy and the new cur_leaf.                          *)
RECURSIVE BuildTree(_, _, _, _, _, _, _), BuildLoop(_, _, _, _, _, _, _, _)
BuildTree(g, block_id, cur_leaf, src_leaf, dst_leaf, cur_depth, dst_depth) ==
  IF cur_depth = dst_depth THEN [g |-> g, leaf |-> cur_leaf + 1]
  ELSE BuildLoop(g, block_id, 0, cur_leaf, src_leaf, dst_leaf, cur_depth,
                 dst_depth)

BuildLoop(g, block_id, i, cur_leaf, src_leaf, dst_leaf, cur_depth, dst_depth) ==
  IF i < N /\ cur_leaf < dst_leaf
  THEN LET g1 == IF IsNewSlot(cur_leaf, src_leaf)
                 THEN [Take(g) EXCEPT !.disk[block_id][i] = NextId(g)]
                 ELSE g
           r == BuildTree(g1, g1.disk[block_id][i], cur_leaf, src_leaf,
                          dst_leaf, cur_depth + 1, dst_depth)
       IN  BuildLoop(r.g, block_id, i + 1, r.leaf, src_leaf, dst_leaf,
                     cur_depth, dst_depth)
  ELSE [g |-> g, leaf |-> cur_leaf]

(* DiskInode::increase_size(new_size, new_blocks) on record r: the working *)
(* copy after the call; each tier returns early when total_blocks does not *)
(* reach it.                                                               *)
IncreaseSizeResult(r, new_size, new_blocks) ==
  LET g0 == [ino |-> [r EXCEPT !.size = new_size], disk |-> disk,
             ids |-> new_blocks, pos |-> 1, fault |-> FALSE,
             cur |-> DataBlocks(r.size), total |-> DataBlocks(new_size)]
      g1 == FillDirect(g0)
      g2 == FillIndirect1(AllocIndirect1(g1))
      g3 == AllocIndirect2(g2)
      from == Decompose2(g3.cur)
      to == Decompose2(Min({g3.total, INODE_INDIRECT2_COUNT}))
      g4 == FillIndirect2(g3, from[1], from[2], to[1], to[2])
      g5 == AllocIndirect3(g4)
  IN  IF g1.total <= INODE_DIRECT_COUNT THEN g1
      ELSE IF g2.total <= N THEN g2
      ELSE IF g4.total <= INODE_INDIRECT2_COUNT THEN g4
      ELSE BuildTree(g5, g5.ino.indirect3, 0, g5.cur, g5.total, 0, 3).g

-----------------------------------------------------------------------------
(* Truncation.  clear_size pushes ids onto the Vec v; a step here is a     *)
(* record c of v, the remaining data_blocks count and the record c.ino.    *)

(* The first n entries of block b, in order.                               *)
Entries(b, n) == [k \in 1 .. n |-> disk[b][k - 1]]

(* collect_tree_blocks(collected, block_id, cur_leaf, max_leaf, cur_depth, *)
(* dst_depth) and its while loop over the entries i of block_id.           *)
RECURSIVE CollectTree(_, _, _, _, _, _), CollectLoop(_, _, _, _, _, _, _)
CollectTree(v, block_id, cur_leaf, max_leaf, cur_depth, dst_depth) ==
  IF cur_depth = dst_depth THEN [v |-> v, leaf |-> cur_leaf + 1]
  ELSE CollectLoop(v, block_id, 0, cur_leaf, max_leaf, cur_depth, dst_depth)

CollectLoop(v, block_id, i, cur_leaf, max_leaf, cur_depth, dst_depth) ==
  IF i < N /\ cur_leaf < max_leaf
  THEN LET r == CollectTree(Append(v, disk[block_id][i]), disk[block_id][i],
                            cur_leaf, max_leaf, cur_depth + 1, dst_depth)
       IN  CollectLoop(r.v, block_id, i + 1, r.leaf, max_leaf, cur_depth,
                       dst_depth)
  ELSE [v |-> v, leaf |-> cur_leaf]

(* Fault-injection variants of the indirect1 tier of clear_size: the root *)
(* left set, and the root zeroed before its entries are read.              *)
ClearIndirect1KeepRoot(c) ==
  LET data == c.data - INODE_DIRECT_COUNT
      root == c.ino.indirect1
  IN  [c EXCEPT !.v = Append(@, root) \o Entries(root, Min({data, N})),
                !.data = data]

ClearIndirect1ZeroFirst(c) ==
  LET data == c.data - INODE_DIRECT_COUNT
  IN  [c EXCEPT !.v = Append(@, 0) \o Entries(0, Min({data, N})),
                !.data = data, !.ino.indirect1 = 0]

(* The indirect1 tier of clear_size: push the root, then the entries in   *)
(* use, then zero the root.                                                *)
ClearIndirect1(c) ==
  LET data == c.data - INODE_DIRECT_COUNT
      root == c.ino.indirect1
  IN  [c EXCEPT !.v = Append(@, root) \o Entries(root, Min({data, N})),
                !.data = data, !.ino.indirect1 = 0]

(* The indirect2 tier: push the root, each full sub-block with all its     *)
(* entries, then the last partial sub-block with its first b1 entries,     *)
(* zero the root; then assert!(data_blocks <= INODE_INDIRECT3_COUNT).      *)
ClearIndirect2(c) ==
  LET data == c.data - N
      to == Decompose2(Min({data, INODE_INDIRECT2_COUNT}))
      sub(a) == disk[c.ino.indirect2][a]
      full == FlattenSeq([a \in 1 .. to[1] |-> <<sub(a - 1)>> \o Entries(sub(a - 1), N)])
      last == IF to[2] > 0 THEN <<sub(to[1])>> \o Entries(sub(to[1]), to[2]) ELSE <<>>
  IN  [c EXCEPT !.v = Append(@, c.ino.indirect2) \o full \o last, !.data = data,
                !.ino.indirect2 = 0, !.fault = ~(data <= INODE_INDIRECT3_COUNT)]

(* The indirect3 tier: push the root, collect the tree, zero the root.     *)
ClearIndirect3(c) ==
  LET data == c.data - INODE_INDIRECT2_COUNT
      root == c.ino.indirect3
  IN  [c EXCEPT !.v = CollectTree(Append(@, root), root, 0, data, 0, 3).v,
                !.data = data, !.ino.indirect3 = 0]

(* DiskInode::clear_size on record r: the Vec it returns (c.v) and the     *)
(* record after the call (c.ino).                                          *)
ClearSizeResult(r) ==
  LET data_blocks == DataBlocks(r.size)
      nd == Min({data_blocks, INODE_DIRECT_COUNT})
      c1 == [v |-> [k \in 1 .. nd |-> r.direct[k - 1]],
             ino |-> [r EXCEPT !.size = 0,
                        !.direct = [k \in DOMAIN @ |-> IF k < nd THEN 0 ELSE @[k]]],
             data |-> data_blocks, fault |-> FALSE]
      c2 == ClearIndirect1(c1)
      c3 == ClearIndirect2(c2)
  IN  IF data_blocks <= INODE_DIRECT_COUNT THEN c1
      ELSE IF c2.data <= N THEN c2
      ELSE IF c3.fault \/ c3.data <= INODE_INDIRECT2_COUNT THEN c3
      ELSE ClearIndirect3(c3)

-----------------------------------------------------------------------------
(* The caller (the vfs layer, not in this source tree): it allocates the   *)
(* ids growth needs from the data bitmap, lowest free bit first, and       *)
(* deallocates what clear_size returns, zeroing each block.               *)

AllocIds(k) ==
  [i \in 1 .. k |-> CHOOSE b \in free : Cardinality({c \in free : c < b}) = i - 1]

Dealloc(ids) ==
  /\ free' = free \cup ids
  /\ disk' = [b \in DOMAIN disk |-> IF b \in ids THEN ZeroBlock ELSE disk[b]]

GrowSizes == {s \in 1 .. MaxSize : s % BLOCK_SZ \in SizeOffsets}

EmptyInode ==
  [size |-> 0, direct |-> [k \in 0 .. INODE_DIRECT_COUNT - 1 |-> 0],
   indirect1 |-> 0, indirect2 |-> 0, indirect3 |-> 0]

Init ==
  /\ inode = [i \in Inodes |-> EmptyInode]
  /\ disk = [b \in Ptr |-> IF b = 0 THEN SuperBlockImage ELSE ZeroBlock]
  /\ free = BlockIds
  /\ owned = [i \in Inodes |-> {}]
  /\ released = [i \in Inodes |-> <<>>]
  /\ panicked = "no"

(* The caller grows file i: it asks blocks_num_needed, allocates that many *)
(* ids and passes them to increase_size.                                   *)
IncreaseSize(i, new_size) ==
  LET need == BlocksNumNeeded(inode[i], new_size)
      new_blocks == AllocIds(need)
      g == IncreaseSizeResult(inode[i], new_size, new_blocks)
  IN  /\ panicked = "no"
      /\ inode[i].size < new_size
      /\ need <= Cardinality(free)
      /\ IF g.fault
         THEN /\ panicked' = "increase_size: new_blocks exhausted"
              /\ UNCHANGED <<inode, disk, free, owned, released>>
         ELSE /\ inode' = [inode EXCEPT ![i] = g.ino]
              /\ disk' = g.disk
              /\ free' = free \ ToSet(new_blocks)
              /\ owned' = [owned EXCEPT ![i] = @ \cup ToSet(SubSeq(new_blocks, 1, g.pos - 1))]
              /\ released' = [j \in Inodes |-> <<>>]
              /\ UNCHANGED panicked

(* The caller clears file i and frees every id clear_size returned.        *)
ClearSize(i) ==
  LET c == ClearSizeResult(inode[i])
  IN  /\ panicked = "no"
      /\ IF c.fault
         THEN /\ panicked' = "clear_size: assert data_blocks <= INODE_INDIRECT3_COUNT"
              /\ UNCHANGED <<inode, disk, free, owned, released>>
         ELSE /\ inode' = [inode EXCEPT ![i] = c.ino]
              /\ released' = [j \in Inodes |-> IF j = i THEN c.v ELSE <<>>]
              /\ owned' = [owned EXCEPT ![i] = {}]
              /\ Dealloc(ToSet(c.v))
              /\ UNCHANGED panicked

Next ==
  \E i \in Inodes :
    \/ \E s \in GrowSizes : IncreaseSize(i, s)
    \/ ClearSize(i)

Spec == Init /\ [][Next]_vars

-----------------------------------------------------------------------------
(* Properties.                                                             *)

InodeRecords ==
  [size : 0 .. MaxSize, direct : [0 .. INODE_DIRECT_COUNT - 1 -> Ptr],
   indirect1 : Ptr, indirect2 : Ptr, indirect3 : Ptr]

TypeOK ==
  /\ inode \in [Inodes -> InodeRecords]
  /\ disk \in [Ptr -> [0 .. N - 1 -> Nat]]
  /\ free \subseteq BlockIds
  /\ owned \in [Inodes -> SUBSET BlockIds]
  /\ released \in [Inodes -> Seq(BlockIds)]
  /\ panicked \in STRING

(* No sequence of growths and clears the caller can make panics the       *)
(* kernel: increase_size never runs out of the ids blocks_num_needed told  *)
(* the caller to supply, and clear_size's assert holds.                    *)
NoPanic == panicked = "no"

(* Growth alone never panics: for every file the tree addresses, up to    *)
(* the full indirect3 tier and from any partly built tree, increase_size   *)
(* finds in new_blocks every id it consumes, so the count                  *)
(* blocks_num_needed gives the caller (from total_blocks' ceilings) is     *)
(* never short.  clear_size's assert is a separate panic, run              *)
(* inode_clear_assert.                                                     *)
GrowthNoPanic == panicked # "increase_size: new_blocks exhausted"

(* No block id is lost: each is free in the data bitmap or owned by a     *)
(* file.  blocks_num_needed tells the caller how many ids to allocate and  *)
(* increase_size must install every one (spec 4.3: total_blocks matches    *)
(* exactly what growth allocates), and clear_size hands all of them back.  *)
IdsConserved == free \cup UNION {owned[i] : i \in Inodes} = BlockIds

(* A root pointer is set exactly when the file reaches its tier, and a     *)
(* direct slot exactly when it holds a data block (spec: tiers fill in     *)
(* order; clear_size zeroes the roots so get_block_id finds nothing).      *)
RootsMatchSize ==
  \A i \in Inodes :
    LET r == inode[i]
        d == DataBlocks(r.size)
    IN  /\ \A k \in DOMAIN r.direct : r.direct[k] # 0 <=> k < d
        /\ r.indirect1 # 0 <=> d > DIRECT_BOUND
        /\ r.indirect2 # 0 <=> d > INDIRECT1_BOUND
        /\ r.indirect3 # 0 <=> d > INDIRECT2_BOUND

(* The data blocks of file i as get_block_id resolves them.                *)
FileBlocks(i) == [k \in 1 .. DataBlocks(inode[i].size) |-> GetBlockId(inode[i], k - 1)]

Abs(i) == INSTANCE AbstractInode
            WITH size <- inode[i].size, blocks <- FileBlocks(i),
                 owned <- owned[i], released <- released[i]

(* Each file's tree implements the abstract inode: a growth keeps the data *)
(* blocks get_block_id resolved before, appends distinct fresh ones,       *)
(* consumes every id the caller supplied and owns exactly the reference    *)
(* number of blocks; a clear_size returns each owned id exactly once; and  *)
(* what the other files do never changes this file's blocks.               *)
AbsSpec ==
  /\ \A i \in Inodes : Abs(i)!Init
  /\ [][\A i \in Inodes : [Abs(i)!Next]_(Abs(i)!vars)]_vars

=============================================================================
