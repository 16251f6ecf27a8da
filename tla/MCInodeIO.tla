----------------------------- MODULE MCInodeIO -----------------------------
(***************************************************************************)
(* InodeIO at a scale TLC covers: 8-byte blocks (N = 2 pointers), one      *)
(* direct pointer, files up to 4 blocks, so a file spans the direct tier   *)
(* (block 0), the indirect1 tier (blocks 1..2) and the first indirect2     *)
(* sub-block (block 3), and a read or write can cross all three.          *)
(***************************************************************************)
EXTENDS InodeIO

CONSTANTS i1

MCInodes == {i1}
MCBlockSize == 8
MCDirectCount == 1
MCMaxSize == 4 * MCBlockSize

(* 4 data blocks, 1 indirect1 block, the indirect2 root and 1 sub-block.  *)
MCMaxBlockId == 7

(* Growth to whole blocks and to 5 bytes into a block, so the last block  *)
(* is sometimes partly used.                                               *)
MCSizeOffsets == {0, 5}

(* write_at below the size: at a block start, inside a block, and         *)
(* straddling blocks, with a short and a long buffer.                      *)
MCWriteOffsets(size) == {o \in {0, 6, 11, 21} : o < size}
MCWriteLens == {3, 12}

(* read_at everywhere, including at and past the largest size.            *)
MCReadOffsets == {0, 3, 8, 13, 21, 29, 32, 35}
MCReadLens == {1, 6, 19, 40}

(* write_at exactly at the size.                                           *)
MCAtEndOffsets(size) == {size}
=============================================================================
