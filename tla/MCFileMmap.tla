----------------------------- MODULE MCFileMmap -----------------------------
(***************************************************************************)
(* FileMmap with 2-byte pages.  File f1 (3 bytes: a full page and part of *)
(* a second) is open for reading and writing, file f2 (1 byte) for         *)
(* reading only.  The task maps f1 three ways (its first byte, all of it,  *)
(* and its second page) and f2 once, as mmap_test1 maps one file twice at  *)
(* offset 0 with different lengths, and mmap_test2 maps a read-only file   *)
(* and stores into it.                                                      *)
(***************************************************************************)
EXTENDS FileMmap

CONSTANTS f1, f2, a1, a2

MCPageSize == 2
MCBase == 4 * MCPageSize
(* A 32-byte address space: the areas of the mappings below stay inside.  *)
MCVaWidth == 5
MCFiles == {f1, f2}
MCFileData == (f1 :> <<0, 2, 0>>) @@ (f2 :> <<0>>)

(* fd 0 is stdin (not a regular file); fd 3 and fd 4 open f1 and f2.      *)
MCFdTable ==
  (0 :> [file |-> f1, arc |-> a1, readable |-> TRUE, writable |-> FALSE, regular |-> FALSE])
  @@ (3 :> [file |-> f1, arc |-> a1, readable |-> TRUE, writable |-> TRUE, regular |-> TRUE])
  @@ (4 :> [file |-> f2, arc |-> a2, readable |-> TRUE, writable |-> FALSE, regular |-> TRUE])

(* Mappings that end inside the file's last page.                          *)
MCMmapCalls == {<<3, 1, 0>>, <<3, 3, 0>>, <<3, 1, 2>>, <<4, 1, 0>>}

(* A mapping that runs a page past the end of f1.                          *)
MCPastEndCalls == {<<3, 5, 0>>}

(* A mapping as long as the address space (2^39 bytes in the kernel), and *)
(* a mapping after it.                                                     *)
MCWrapCalls == {<<3, 32, 0>>, <<3, 1, 0>>}

MCStoreValues == {1}
MCMaxMmaps == 3
=============================================================================
