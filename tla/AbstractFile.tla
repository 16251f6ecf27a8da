---------------------------- MODULE AbstractFile ----------------------------
(***************************************************************************)
(* What byte I/O on a disk inode promises its caller: the file is a byte   *)
(* sequence `content` of length size.  Growing appends zero bytes,         *)
(* clearing empties it, and a write copies a buffer over the bytes from    *)
(* offset on, clipped to the current size (a write never grows the file). *)
(* Read(offset, len) is the byte sequence read_at must return: the bytes   *)
(* from offset up to offset + len, clipped to the size, and nothing when   *)
(* offset is at or past the size.                                          *)
(***************************************************************************)
EXTENDS Naturals, Sequences

CONSTANTS
  MaxSize,   \* largest size a growth reaches
  Buffers    \* the byte sequences callers write

VARIABLE content

ClipEnd(offset, len) ==
  IF offset + len < Len(content) THEN offset + len ELSE Len(content)

Zeros(n) == [k \in 1 .. n |-> 0]

(* content with the first bytes of buf copied over it from offset on.      *)
Written(offset, buf) ==
  [k \in DOMAIN content |->
     IF offset < k /\ k <= ClipEnd(offset, Len(buf)) THEN buf[k - offset]
     ELSE content[k]]

Read(offset, len) ==
  IF offset >= Len(content) THEN <<>>
  ELSE SubSeq(content, offset + 1, ClipEnd(offset, len))

Init == content = <<>>

Grow ==
  \E n \in Len(content) + 1 .. MaxSize : content' = content \o Zeros(n - Len(content))

Clear == content' = <<>>

Write ==
  \E offset \in 0 .. Len(content), buf \in Buffers : content' = Written(offset, buf)

Next == Grow \/ Clear \/ Write

Spec == Init /\ [][Next]_content
=============================================================================
