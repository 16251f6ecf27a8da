------------------------------ MODULE DirEntry ------------------------------
(***************************************************************************)
(* The easy-fs directory entry (src/easy-fs/src/layout.rs, struct          *)
(* DirEntry): a 28-byte NUL-padded name and a u32 inode number, laid out   *)
(* by #[repr(C)] in 32 bytes.  The directory layer (outside src/) writes    *)
(* DirEntry::new(name, inode_number).as_bytes() into a slot of a directory *)
(* block, and reads a slot back into DirEntry::empty().as_bytes_mut()      *)
(* before calling name() and inode_number().  The model keeps one slot.    *)
(* Bytes are numbers 0 .. 255; a name is the byte sequence of a &str,      *)
(* without NUL bytes.                                                      *)
(***************************************************************************)
EXTENDS Integers, Sequences

CONSTANTS
  Names,         \* the names the directory layer stores
  InodeNumbers   \* the inode numbers it stores (below 2^31)

VARIABLES
  slot,       \* slot[k]: byte k of the 32-byte slot in the directory block
  written,    \* history: <<name, inode_number>> of the last entry written
  readback,   \* <<name, inode_number>> the last read returned, or <<>>
  panicked    \* "no", or the check that aborted the kernel

vars == <<slot, written, readback, panicked>>

NAME_LENGTH_LIMIT == 27
DIRENT_SZ == 32
NameField == 0 .. NAME_LENGTH_LIMIT
Bytes == 0 .. 255

(* DirEntry::empty.                                                        *)
Empty == [name |-> [k \in NameField |-> 0], inode_number |-> 0]

(* bytes[..name.len()] in DirEntry::new panics past the 28-byte array.     *)
NewFails(name) == Len(name) > NAME_LENGTH_LIMIT + 1

(* DirEntry::new(name, inode_number): the name copied to the front of a    *)
(* zeroed array.                                                           *)
New(name, ino) ==
  [name |-> [k \in NameField |-> IF k < Len(name) THEN name[k + 1] ELSE 0],
   inode_number |-> ino]

(* Fault-injection variants of as_bytes: the inode number stored most      *)
(* significant byte first, and its bytes not reduced to 8 bits.            *)
AsBytesBigEndian(e) ==
  [k \in 0 .. DIRENT_SZ - 1 |->
     IF k \in NameField THEN e.name[k]
     ELSE (e.inode_number \div 256 ^ (DIRENT_SZ - 1 - k)) % 256]

AsBytesUnmasked(e) ==
  [k \in 0 .. DIRENT_SZ - 1 |->
     IF k \in NameField THEN e.name[k] ELSE e.inode_number \div 256 ^ (k - 28)]

(* DirEntry::as_bytes: the #[repr(C)] record as 32 bytes, the name at 0    *)
(* and the u32 at 28, little-endian on RISC-V.                             *)
AsBytes(e) ==
  [k \in 0 .. DIRENT_SZ - 1 |->
     IF k \in NameField THEN e.name[k] ELSE (e.inode_number \div 256 ^ (k - 28)) % 256]

(* DirEntry::as_bytes_mut of an empty entry, filled with the bytes b.      *)
FromBytes(b) ==
  [name |-> [k \in NameField |-> b[k]],
   inode_number |-> b[28] + 256 * b[29] + 65536 * b[30] + 16777216 * b[31]]

(* Fault-injection variant: the length taken one past the first NUL.      *)
NameLenPastNul(e) ==
  IF \E k \in NameField : e.name[k] = 0
  THEN 1 + CHOOSE k \in NameField : e.name[k] = 0 /\ \A j \in 0 .. k - 1 : e.name[j] # 0
  ELSE -1

(* (0usize..).find(|i| self.name[*i] == 0).unwrap() in DirEntry::name: the *)
(* index of the first NUL; with none in the array the search indexes       *)
(* name[28] and panics (-1 here).                                          *)
NameLen(e) ==
  IF \E k \in NameField : e.name[k] = 0
  THEN CHOOSE k \in NameField : e.name[k] = 0 /\ \A j \in 0 .. k - 1 : e.name[j] # 0
  ELSE -1

(* DirEntry::name: the bytes before the first NUL (from_utf8 cannot fail   *)
(* on them: they are a prefix of a &str cut at a NUL).                     *)
Name(e) == [j \in 1 .. NameLen(e) |-> e.name[j - 1]]

-----------------------------------------------------------------------------
Init ==
  /\ slot = AsBytes(Empty)
  /\ written = <<<<>>, 0>>
  /\ readback = <<>>
  /\ panicked = "no"

(* The directory layer stores the entry for (name, ino) in the slot.       *)
Write(name, ino) ==
  /\ panicked = "no"
  /\ \/ /\ NewFails(name)
        /\ panicked' = "DirEntry::new: range end index out of range"
        /\ UNCHANGED <<slot, written, readback>>
     \/ /\ ~NewFails(name)
        /\ slot' = AsBytes(New(name, ino))
        /\ written' = <<name, ino>>
        /\ readback' = <<>>
        /\ UNCHANGED panicked

(* The directory layer reads the slot back and asks its name and number.   *)
Read ==
  LET e == FromBytes(slot)
  IN  /\ panicked = "no"
      /\ \/ /\ NameLen(e) = -1
            /\ panicked' = "DirEntry::name: index out of bounds"
            /\ UNCHANGED <<slot, written, readback>>
         \/ /\ NameLen(e) # -1
            /\ readback' = <<Name(e), e.inode_number>>
            /\ UNCHANGED <<slot, written, panicked>>

Next == Read \/ \E name \in Names, ino \in InodeNumbers : Write(name, ino)

Spec == Init /\ [][Next]_vars

-----------------------------------------------------------------------------
(* Properties.                                                             *)

TypeOK ==
  /\ slot \in [0 .. DIRENT_SZ - 1 -> Bytes]
  /\ readback \in {<<>>} \cup (Seq(Bytes) \X Nat)
  /\ panicked \in STRING

(* Reading a slot back gives the name and inode number last stored in it  *)
(* (spec 8: DirEntry::new("foo", 7) serialized and reconstructed yields    *)
(* "foo" and 7), for names up to the limit and numbers of every byte width.*)
RoundTrip == readback # <<>> => readback = written

(* The entry on disk keeps a NUL in its name field, as the invariant      *)
(* "name length <= 27" of spec 3 and the assert spec 4.8 puts in new       *)
(* require; without one, every later name() of the slot panics.           *)
StoredNameTerminated == \E k \in NameField : slot[k] = 0
=============================================================================
