----------------------------- MODULE MCDirEntry -----------------------------
(***************************************************************************)
(* DirEntry over the names of up to 3 bytes of "a" and "b", the longest    *)
(* name the limit allows (27 bytes), and inode numbers that fill 0, 1, 2,  *)
(* 3 and 4 bytes of the u32.  LongNames adds a name of exactly 28 bytes,    *)
(* which DirEntry::new accepts.                                            *)
(***************************************************************************)
EXTENDS DirEntry

ShortNames == UNION {[1 .. n -> {97, 98}] : n \in 0 .. 3}
Repeat(c, n) == [k \in 1 .. n |-> c]

MCNames == ShortNames \cup {Repeat(97, 27)}
MCLongNames == MCNames \cup {Repeat(98, 28)}
MCInodeNumbers == {0, 7, 258, 70000, 2147483647}
=============================================================================
