---------------------------- MODULE MCMmapTests ----------------------------
(***************************************************************************)
(* mmap_test1 and mmap_test2 as written, on filea as the earlier file test *)
(* left it ("Hello, world!", 13 bytes).  Pages are 128 bytes instead of    *)
(* 4096 and the mmap area starts at 1024 instead of 2^32 (beyond TLC's     *)
(* integers); the tests' lengths and offsets keep their relation to the   *)
(* page: each mapping fits in its first page, p[123] lies past the 100-byte *)
(* mapping but inside its page, 42 is unaligned and 1048576 is aligned and *)
(* past the file.  Bytes are their ASCII codes.                            *)
(***************************************************************************)
EXTENDS MmapTests, TLC

CONSTANTS filea, stdio, a1, a2

MCPageSize == 128
MCBase == 8 * MCPageSize
(* 4096 addresses: both tests' areas lie well inside.                    *)
MCVaWidth == 12
MCFiles == {filea}
MCFileData == filea :> <<72, 101, 108, 108, 111, 44, 32, 119, 111, 114, 108, 100, 33>>

(* stdin, stdout and stderr are not OSInodes; open("filea\0") returned 3.  *)
Stdio == [fd \in 0 .. 2 |-> [file |-> filea, arc |-> stdio, readable |-> TRUE,
                             writable |-> TRUE, regular |-> FALSE]]
MCFdTable1 == Stdio @@ (3 :> [file |-> filea, arc |-> a1, readable |-> TRUE,
                              writable |-> TRUE, regular |-> TRUE])
MCFdTable2 == Stdio @@ (3 :> [file |-> filea, arc |-> a2, readable |-> TRUE,
                              writable |-> FALSE, regular |-> TRUE])

Mmap(fd, len, off, reg, want, msg) ==
  [op |-> "mmap", fd |-> fd, len |-> len, off |-> off, reg |-> reg, want |-> want, msg |-> msg]
StoreAt(reg, k, v) == [op |-> "store", reg |-> reg, k |-> k, v |-> v]
LoadAt(reg, k) == [op |-> "load", reg |-> reg, k |-> k]

(* mmap_test1.rs after open: two mappings of filea, close, "hELLO" through *)
(* the first, print p[5..8], "##WO" through the second.                    *)
MCProg1 ==
  << Mmap(3, 100, 0, "res1", "ok", "first mmap failed!"),
     Mmap(3, 120, 0, "res2", "ok", "second mmap failed!"),
     [op |-> "close", fd |-> 3],
     StoreAt("res1", 0, 104), StoreAt("res1", 1, 69), StoreAt("res1", 2, 76),
     StoreAt("res1", 3, 76), StoreAt("res1", 4, 79),
     LoadAt("res1", 5), LoadAt("res1", 6), LoadAt("res1", 7), LoadAt("res1", 8),
     StoreAt("res2", 5, 35), StoreAt("res2", 6, 35), StoreAt("res2", 7, 87),
     StoreAt("res2", 8, 79),
     [op |-> "exit"] >>

(* mmap_test2.rs: four mmaps that must fail (the open of filea read-only   *)
(* comes between the second and the third), a mapping, two loads, the      *)
(* store to the read-only page and the panic after it.                     *)
MCProg2 ==
  << Mmap(999999999, 1024, 0, "none", "fail", "assertion failed: invalid fd"),
     Mmap(0, 1024, 0, "none", "fail", "assertion failed: stdin"),
     Mmap(3, 4096, 42, "none", "fail", "assertion failed: offset not page-aligned"),
     Mmap(3, 4096, 1048576, "none", "fail", "assertion failed: offset too large"),
     Mmap(3, 100, 0, "res", "any", ""),
     LoadAt("res", 0), LoadAt("res", 123),
     StoreAt("res", 0, 6),
     [op |-> "panic", msg |-> "should not reach here!"] >>

MCTest1Result == <<104, 69, 76, 76, 79, 35, 35, 87, 79, 114, 108, 100, 33>>
MCTest2KilledAt == 8
=============================================================================
