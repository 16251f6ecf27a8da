------------------------------ MODULE InodeIO ------------------------------
(***************************************************************************)
(* Byte I/O of an easy-fs disk inode (layout.rs, DiskInode::read_at and    *)
(* DiskInode::write_at) over the tree engine of module DiskInode.  A block *)
(* is read by get_block_id either as an IndirectBlock (DiskInode's `disk`) *)
(* or as a DataBlock of bytes (`data` here).  The two views never disagree *)
(* about a block in use, because no block is a data block and an index     *)
(* block at once (DiskInode's AbsSpec), and the caller zeroes a freed      *)
(* block in both views.                                                    *)
(*                                                                         *)
(* The caller writes a buffer whose k-th byte is k, so a chunk copied from *)
(* or to the wrong place shows in the contents.                            *)
(***************************************************************************)
EXTENDS DiskInode

CONSTANTS
  WriteOffsets(_),  \* WriteOffsets(size): the offsets a write_at may use
  WriteLens,        \* buffer lengths of write_at
  ReadOffsets,      \* offsets and lengths read_at is checked at
  ReadLens

VARIABLE
  data,      \* data[b][o]: byte o of block b
  lastWrite  \* history: <<i, offset, len>> of the last write_at, or <<>>

ioVars == <<vars, data, lastWrite>>

ZeroData == [o \in 0 .. BLOCK_SZ - 1 |-> 0]

Buffer(len) == [k \in 1 .. len |-> k]

(* Block 0 read as a DataBlock: the u32 words of SuperBlockImage,          *)
(* little-endian, as SuperBlock is #[repr(C)].                             *)
SuperBlockBytes ==
  [o \in 0 .. BLOCK_SZ - 1 |-> (SuperBlockImage[o \div 4] \div 256 ^ (o % 4)) % 256]

(* let end = (offset + buf.len()).min(self.size as usize)                  *)
ClipEnd(offset, len, size) == Min({offset + len, size})

(* Fault-injection variant: buf.len() left out of the end, so the loop    *)
(* copies nothing and write_at returns 0.                                  *)
WriteEndNoLen(offset, len, size) == Min({offset, size})

(* write_at's end, computed as read_at's: (offset + buf.len()).min(size).  *)
WriteEnd(offset, len, size) == Min({offset + len, size})

(* One turn of the copy loop shared by read_at and write_at: the end of    *)
(* the chunk in block start_block, (start / BLOCK_SZ + 1) * BLOCK_SZ       *)
(* clipped to end.                                                         *)
EndCurrentBlock(start, end) == Min({(start \div BLOCK_SZ + 1) * BLOCK_SZ, end})

(* Fault-injection variant: every chunk copied from the start of buf.     *)
CopyChunkFromStart(blk, lo, n, buf, from) ==
  [o \in 0 .. BLOCK_SZ - 1 |-> IF lo <= o /\ o < lo + n THEN buf[o - lo + 1] ELSE blk[o]]

(* write_at's modify closure: data_block[lo .. lo + n] is overwritten by    *)
(* buf[from .. from + n].                                                  *)
CopyChunk(blk, lo, n, buf, from) ==
  [o \in 0 .. BLOCK_SZ - 1 |-> IF lo <= o /\ o < lo + n THEN buf[from + o - lo + 1] ELSE blk[o]]

(* write_at's loop from start (in logical block start_block) to end, with  *)
(* write_size bytes of buf already copied: each turn resolves the block,   *)
(* get_block_cache(..).lock().modify copies the chunk into it; a block id  *)
(* past the device fails in the block device.                             *)
RECURSIVE WriteLoop(_, _, _, _, _, _, _)
WriteLoop(r, d, buf, start, start_block, end, write_size) ==
  LET ecb == EndCurrentBlock(start, end)
      n == ecb - start
      lo == start % BLOCK_SZ
      b == GetBlockId(r, start_block)
  IN  IF b \notin Ptr THEN [data |-> d, fault |-> TRUE]
      ELSE LET d1 == [d EXCEPT ![b] = CopyChunk(d[b], lo, n, buf, write_size)]
           IN  IF ecb = end THEN [data |-> d1, fault |-> FALSE]
               ELSE WriteLoop(r, d1, buf, ecb, start_block + 1, end, write_size + n)

(* read_at's loop: the same walk, appending each chunk to the bytes read. *)
RECURSIVE ReadLoop(_, _, _, _, _)
ReadLoop(r, start, start_block, end, got) ==
  LET ecb == EndCurrentBlock(start, end)
      lo == start % BLOCK_SZ
      b == GetBlockId(r, start_block)
  IN  IF b \notin Ptr THEN [bytes |-> got, fault |-> TRUE]
      ELSE LET got1 == got \o [k \in 1 .. ecb - start |-> data[b][lo + k - 1]]
           IN  IF ecb = end THEN [bytes |-> got1, fault |-> FALSE]
               ELSE ReadLoop(r, ecb, start_block + 1, end, got1)

(* Fault-injection variant: the loop entered even when start = end.       *)
ReadAtResultLateReturn(r, offset, len) ==
  LET end == ClipEnd(offset, len, r.size)
  IN  IF offset > end THEN [bytes |-> <<>>, fault |-> FALSE]
      ELSE ReadLoop(r, offset, offset \div BLOCK_SZ, end, <<>>)

(* DiskInode::read_at(offset, buf[len]) on record r: the bytes it copies   *)
(* into buf, returning early when start >= end.                           *)
ReadAtResult(r, offset, len) ==
  LET end == ClipEnd(offset, len, r.size)
  IN  IF offset >= end THEN [bytes |-> <<>>, fault |-> FALSE]
      ELSE ReadLoop(r, offset, offset \div BLOCK_SZ, end, <<>>)

-----------------------------------------------------------------------------
IOInit == Init /\ lastWrite = <<>> /\ data = [b \in Ptr |-> IF b = 0 THEN SuperBlockBytes ELSE ZeroData]

(* The caller grows file i; increase_size writes index blocks only.       *)
IOIncreaseSize(i, new_size) ==
  IncreaseSize(i, new_size) /\ lastWrite' = <<>> /\ UNCHANGED data

(* The caller clears file i and zeroes every block clear_size returned.   *)
IOClearSize(i) ==
  /\ ClearSize(i)
  /\ lastWrite' = <<>>
  /\ data' = IF panicked' = "no"
             THEN [b \in Ptr |-> IF b \in ToSet(released'[i]) THEN ZeroData ELSE data[b]]
             ELSE data

(* DiskInode::write_at(offset, buf[len]) on file i: assert!(start <= end), *)
(* then the copy loop, which runs at least once even when start = end.    *)
WriteAt(i, offset, len) ==
  LET r == inode[i]
      end == WriteEnd(offset, len, r.size)
      w == WriteLoop(r, data, Buffer(len), offset, offset \div BLOCK_SZ, end, 0)
  IN  /\ panicked = "no"
      /\ \/ /\ ~(offset <= end)
            /\ panicked' = "write_at: assert start <= end"
            /\ UNCHANGED data
         \/ /\ offset <= end /\ w.fault
            /\ panicked' = "block device: block id past the device"
            /\ UNCHANGED data
         \/ /\ offset <= end /\ ~w.fault
            /\ data' = w.data
            /\ UNCHANGED panicked
      /\ lastWrite' = <<i, offset, len>>
      /\ UNCHANGED <<inode, disk, free, owned, released>>

IONext ==
  \E i \in Inodes :
    \/ \E s \in GrowSizes : IOIncreaseSize(i, s)
    \/ IOClearSize(i)
    \/ \E o \in WriteOffsets(inode[i].size), l \in WriteLens : WriteAt(i, o, l)

IOSpec == IOInit /\ [][IONext]_ioVars

-----------------------------------------------------------------------------
(* Properties.                                                             *)

IOTypeOK ==
  /\ TypeOK
  /\ data \in [Ptr -> [0 .. BLOCK_SZ - 1 -> Nat]]

(* The bytes of file i in logical order, as get_block_id locates them.     *)
FileContent(i) ==
  [k \in 1 .. inode[i].size |->
     LET b == GetBlockId(inode[i], (k - 1) \div BLOCK_SZ)
     IN  IF b \in Ptr THEN data[b][(k - 1) % BLOCK_SZ] ELSE -1]

AbsFile(i) == INSTANCE AbstractFile
                WITH content <- FileContent(i),
                     Buffers <- {Buffer(l) : l \in WriteLens}

(* read_at returns exactly the clipped range of the file's bytes, for     *)
(* every offset and length, including offsets at or past the size and     *)
(* ranges that cross block and tier boundaries.                            *)
ReadAtCorrect ==
  \A i \in Inodes, o \in ReadOffsets, l \in ReadLens :
    ReadAtResult(inode[i], o, l) = [bytes |-> AbsFile(i)!Read(o, l), fault |-> FALSE]

(* Each file behaves as the abstract byte sequence: a write_at changes     *)
(* exactly the clipped range to the buffer's bytes, a growth exposes only *)
(* zero bytes (nothing a write or an earlier owner of a block left behind *)
(* leaks into the file), a clear empties it, and no step on another file  *)
(* changes its bytes.                                                      *)
FileSpec ==
  /\ \A i \in Inodes : AbsFile(i)!Init
  /\ [][\A i \in Inodes : AbsFile(i)!Next \/ UNCHANGED FileContent(i)]_ioVars

(* Each write_at that returns lands exactly where the caller asked: file i *)
(* holds the buffer's bytes over [offset, min(offset + len, size)) and is  *)
(* unchanged elsewhere, and no other file changes.  FileSpec allows any    *)
(* offset and buffer and a step that changes nothing; this ties the step  *)
(* to write_at's own arguments, so a lost, shortened or moved write fails. *)
(* lastWrite records the call, so a write that changes nothing is a step *)
(* too, and is checked.                                                    *)
WriteAtExact ==
  [][\A i \in Inodes : \A o \in WriteOffsets(inode[i].size), l \in WriteLens :
       (WriteAt(i, o, l) /\ panicked' = "no") =>
         /\ FileContent(i)' = AbsFile(i)!Written(o, Buffer(l))
         /\ \A j \in Inodes \ {i} : FileContent(j)' = FileContent(j)]_ioVars

=============================================================================
