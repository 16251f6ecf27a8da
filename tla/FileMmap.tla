------------------------------ MODULE FileMmap ------------------------------
(***************************************************************************)
(* File-backed mmap of the kernel (src/os/src/syscall/mmap.rs) for one     *)
(* task: the linear VirtualAddressAllocator, sys_mmap, demand paging in    *)
(* handle_page_fault with FileMapping::map, user stores into mapped pages, *)
(* and write-back in FileMapping::sync.                                    *)
(*                                                                         *)
(* A file is the byte sequence of module AbstractFile: read_at returns its *)
(* clipped bytes and write_at overwrites a range, which run io_bytes       *)
(* checks of the inode engine.  A syscall and a page fault run with the   *)
(* task's inner_exclusive_access held, so each is one step; a store by     *)
(* the user to a mapped page is one step.  A fault the handler does not   *)
(* fix (returns false) kills the task, and nothing happens afterwards.    *)
(***************************************************************************)
EXTENDS Naturals, Sequences, SequencesExt, FiniteSets, TLC

CONSTANTS
  PAGE_SIZE,      \* bytes per page
  MMAP_AREA_BASE, \* first address the allocator hands out
  VA_WIDTH_SV39,  \* bits of a virtual address (39 on RISC-V Sv39)
  Files,          \* the files
  FileData,       \* FileData[f]: the bytes of file f when the task starts
  FdTable,        \* FdTable[fd]: [file, arc, readable, writable, regular]
  MmapCalls,      \* the (fd, len, offset) triples the task passes to mmap
  StoreValues,    \* bytes the task stores
  MaxMmaps        \* bound on successful mmap calls

ASSUME MMAP_AREA_BASE % PAGE_SIZE = 0 /\ MMAP_AREA_BASE < 2 ^ VA_WIDTH_SV39

VARIABLES
  cur_va,    \* VirtualAddressAllocator::cur_va
  mappings,  \* tcb.file_mappings: Seq of [arc, file, ranges, map, dirty]
  frames,    \* frames[p][j]: byte j of the p-th frame taken by frame_alloc
  pt,        \* the page table: pt[vpn] = [ppn, w]
  content,   \* content[f]: the bytes of file f
  expect,    \* history: expect[f], f's bytes as the task's stores made them
  killed     \* the task was killed by a fault the handler did not fix

VARIABLE panicked  \* "no", or the assert that aborted the kernel

vars == <<cur_va, mappings, frames, pt, content, expect, killed, panicked>>

PageBytes == 0 .. PAGE_SIZE - 1
ZeroPage == [j \in PageBytes |-> 0]
MinOf(a, b) == IF a < b THEN a ELSE b

(* VirtAddr::floor and VirtAddr::ceil, as page numbers.                    *)
Floor(va) == va \div PAGE_SIZE
Ceil(va) == (va + PAGE_SIZE - 1) \div PAGE_SIZE

(* VirtAddr::from(usize), outside src/: the address keeps its low          *)
(* VA_WIDTH_SV39 bits.  A usize sum that wraps at 2^64 keeps them too.     *)
VirtAddrOf(a) == a % (2 ^ VA_WIDTH_SV39)

(* Fault-injection variant: the next area starts right after this one.   *)
AllocNextNoCeil(len) == VirtAddrOf(cur_va + len)

(* VirtualAddressAllocator::alloc(len): the next cur_va, the end of the   *)
(* area as a VirtAddr rounded up to a page (the area itself starts at the  *)
(* current cur_va).  Nothing bounds len.                                   *)
AllocNext(len) == Ceil(VirtAddrOf(cur_va + len)) * PAGE_SIZE

(* MapRange::contains.                                                      *)
InRange(r, va) == r.start <= va /\ va < r.start + r.len

(* Fault-injection variant: the page's address taken as its offset in the *)
(* range.                                                                  *)
FileOffsetNoStart(r, vpn) == vpn * PAGE_SIZE + r.offset

(* MapRange::va_offset: the page's address minus the range's start.      *)
VaOffset(r, vpn) == vpn * PAGE_SIZE - r.start

(* MapRange::file_offset: va_offset plus the range's offset in the file.   *)
FileOffset(r, vpn) == VaOffset(r, vpn) + r.offset

(* The File trait object of an fd entry: File::readable, File::writable,  *)
(* and File::as_any().downcast_ref::<OSInode>() succeeding.               *)
Readable(e) == e.readable

Writable(e) == e.writable

IsOSInode(e) == e.regular

(* parse_permission: W when the file is open for writing.                  *)
ParsePermission(e) == [r |-> Readable(e), w |-> Writable(e)]

Ranges(m) == ToSet(m.ranges)
NumRanges == MapThenSumSet(LAMBDA k : Len(mappings[k].ranges), DOMAIN mappings)

(* tcb.file_mappings.iter_mut().find(|m| m.contains(va)), as an index (0  *)
(* for none), and the first range of mapping m that contains va.           *)
MappingAt(va) == SelectInSeq(mappings, LAMBDA m : \E r \in Ranges(m) : InRange(r, va))
RangeAt(m, va) == m.ranges[SelectInSeq(m.ranges, LAMBDA r : InRange(r, va))]

-----------------------------------------------------------------------------
Init ==
  /\ cur_va = MMAP_AREA_BASE
  /\ mappings = <<>>
  /\ frames = <<>>
  /\ pt = [vpn \in {} |-> [ppn |-> 0, w |-> FALSE]]
  /\ content = FileData
  /\ expect = content
  /\ killed = FALSE
  /\ panicked = "no"

Live == killed = FALSE /\ panicked = "no"

(* Fault-injection variant: a file that is not an OSInode accepted.      *)
MmapFailsAnyFile(fd, len, offset) ==
  \/ len = 0
  \/ offset % PAGE_SIZE # 0
  \/ fd \notin DOMAIN FdTable
  \/ offset >= Len(content[FdTable[fd].file])

(* The checks by which sys_mmap returns -1 and changes nothing: len is 0,  *)
(* the offset is not page aligned, fd is past the table or closed (not in  *)
(* the domain of FdTable), the file is not an OSInode, or the offset is    *)
(* not below the file size.                                                *)
MmapFails(fd, len, offset) ==
  \/ len = 0
  \/ offset % PAGE_SIZE # 0
  \/ fd \notin DOMAIN FdTable
  \/ ~IsOSInode(FdTable[fd])
  \/ offset >= Len(content[FdTable[fd].file])

(* MapRange::new, FileMapping::new_empty (no ranges, frames, dirty parts *)
(* or map) and FileMapping::push.                                          *)
MapRangeNew(start, len, offset, perm) ==
  [start |-> start, len |-> len, offset |-> offset, perm |-> perm]

NewEmpty(arc, file) ==
  [arc |-> arc, file |-> file, ranges |-> <<>>, map |-> [o \in {} |-> 0], dirty |-> {}]

Push(m, rng) == [m EXCEPT !.ranges = Append(@, rng)]

(* sys_mmap(fd, len, offset) when every check passes: it returns the start *)
(* alloc hands out, the current cur_va.  The range joins the FileMapping   *)
(* of the same Arc<Inode> (find_file_mapping), or a new one.               *)
SysMmap(fd, len, offset) ==
  LET e == FdTable[fd]
      k == SelectInSeq(mappings, LAMBDA m : m.arc = e.arc)
      rng == MapRangeNew(cur_va, len, offset, ParsePermission(e))
  IN  /\ Live
      /\ NumRanges < MaxMmaps
      /\ ~MmapFails(fd, len, offset)
      /\ cur_va' = AllocNext(len)
      /\ mappings' =
           IF k # 0 THEN [mappings EXCEPT ![k] = Push(@, rng)]
           ELSE Append(mappings, Push(NewEmpty(e.arc, e.file), rng))
      /\ UNCHANGED <<frames, pt, content, expect, killed, panicked>>

(* Fault-injection variants of FileMapping::map: the frame map never       *)
(* consulted, and a fresh frame never recorded in it.                      *)
IsSharedNever(m, offset) == FALSE
MapInsertNever(m, offset, ppn) == m.map

(* self.map.get(&offset): the file offset already has a frame.             *)
IsShared(m, offset) == offset \in DOMAIN m.map

(* self.map.insert(offset, ppn) for a fresh frame.                         *)
MapInsert(m, offset, ppn) == (offset :> ppn) @@ m.map

(* Fault-injection variant: a shared frame taken as already mapped, so the *)
(* handler returns without mapping the faulting page.                      *)
InstallPteUnlessShared(vpn, ppn, w, shared) ==
  IF shared THEN pt ELSE (vpn :> [ppn |-> ppn, w |-> w]) @@ pt

(* tcb.memory_set.map(fault_vpn, ppn, range.perm).                         *)
InstallPte(vpn, ppn, w, shared) == (vpn :> [ppn |-> ppn, w |-> w]) @@ pt

(* Fault-injection variant: the load limited to the rest of the range     *)
(* (the alternative commented out in handle_page_fault).                  *)
ReadLenVaLimited(r, vpn, offset, file_size) ==
  MinOf(MinOf(PAGE_SIZE, file_size - offset), r.len - VaOffset(r, vpn))

(* handle_page_fault's read_len: a page, clipped to the file.  It is not  *)
(* limited by the range: another, longer range may share the frame.        *)
ReadLen(r, vpn, offset, file_size) == MinOf(PAGE_SIZE, file_size - offset)

(* handle_page_fault(va) for an access to a page with no valid entry.  No  *)
(* mapping contains va: the fault is not fixed and the task dies.          *)
(* Otherwise FileMapping::map finds the frame of the page's file offset,   *)
(* or takes a fresh zeroed frame and records it; a writable range marks    *)
(* the offset dirty; the page is mapped; and a fresh frame is filled with  *)
(* read_at after assert!(file_offset < file_size).                         *)
PageFault(va) ==
  LET vpn == Floor(va)
      k == MappingAt(va)
      m == mappings[k]
      r == RangeAt(m, va)
      offset == FileOffset(r, vpn)
      shared == IsShared(m, offset)
      ppn == IF shared THEN m.map[offset] ELSE Len(frames) + 1
      file_size == Len(content[m.file])
      read_len == ReadLen(r, vpn, offset, file_size)
      loaded == [j \in PageBytes |-> IF j < read_len THEN content[m.file][offset + j + 1] ELSE 0]
  IN  /\ Live
      /\ vpn \notin DOMAIN pt
      /\ \/ /\ k = 0
            /\ killed' = TRUE
            /\ UNCHANGED <<mappings, frames, pt, panicked>>
         \/ /\ k # 0
            /\ mappings' = [mappings EXCEPT
                              ![k].map = IF shared THEN @ ELSE MapInsert(m, offset, ppn),
                              ![k].dirty = IF r.perm.w THEN @ \cup {offset} ELSE @]
            /\ pt' = InstallPte(vpn, ppn, r.perm.w, shared)
            /\ \/ shared /\ UNCHANGED <<frames, panicked>>
               \/ ~shared /\ ~(offset < file_size)
                  /\ panicked' = "handle_page_fault: assert file_offset < file_size"
                  /\ frames' = Append(frames, ZeroPage)
               \/ ~shared /\ offset < file_size
                  /\ frames' = Append(frames, loaded)
                  /\ UNCHANGED panicked
            /\ UNCHANGED killed
      /\ UNCHANGED <<cur_va, content, expect>>

(* The file and file offset of the page vpn maps: the range it was mapped  *)
(* for holds the page's first byte.                                        *)
PageMapping(vpn) == mappings[MappingAt(vpn * PAGE_SIZE)]
PageOffset(vpn) == FileOffset(RangeAt(PageMapping(vpn), vpn * PAGE_SIZE), vpn)

(* The task stores v at va, in a mapped page.  A writable page takes the   *)
(* byte; a read-only one faults with a valid entry, which                  *)
(* handle_page_fault does not fix, and the task dies.                      *)
Store(va, v) ==
  LET vpn == Floor(va)
      f == PageMapping(vpn).file
      pos == PageOffset(vpn) + (va % PAGE_SIZE)
  IN  /\ Live
      /\ vpn \in DOMAIN pt
      /\ \/ /\ pt[vpn].w
            /\ frames' = [frames EXCEPT ![pt[vpn].ppn][va % PAGE_SIZE] = v]
            /\ expect' = IF pos < Len(expect[f]) THEN [expect EXCEPT ![f][pos + 1] = v]
                         ELSE expect
            /\ UNCHANGED killed
         \/ /\ ~pt[vpn].w
            /\ killed' = TRUE
            /\ UNCHANGED <<frames, expect>>
      /\ UNCHANGED <<cur_va, mappings, pt, content, panicked>>

(* Fault-injection variant: the shortest range through the page.          *)
VaLenMin(m, o) ==
  Min({IF r.offset <= o /\ o < r.offset + r.len
       THEN MinOf(PAGE_SIZE, r.offset + r.len - o) ELSE 0 : r \in Ranges(m)})

(* Fault-injection variant: a whole page written back, whatever the       *)
(* ranges through it.                                                      *)
VaLenWholePage(m, o) == PAGE_SIZE

(* sync's write length for dirty offset o of m: the longest tail of a      *)
(* range from o, at most a page, clipped to the file.                      *)
VaLen(m, o) ==
  Max({IF r.offset <= o /\ o < r.offset + r.len
       THEN MinOf(PAGE_SIZE, r.offset + r.len - o) ELSE 0 : r \in Ranges(m)})

WriteLen(m, o, file_size) == MinOf(VaLen(m, o), file_size - o)

(* FileMapping::sync of mapping m on the files' bytes c: each dirty page   *)
(* below the file size is written back with write_at.  The pages are      *)
(* disjoint, so the BTreeSet order of the writes does not matter.          *)
SyncedContent(c, m) ==
  LET file_size == Len(c[m.file])
      PageOf(pos) == (pos \div PAGE_SIZE) * PAGE_SIZE
      Synced(pos) == PageOf(pos) \in m.dirty /\ pos < PageOf(pos) + WriteLen(m, PageOf(pos), file_size)
  IN  [c EXCEPT ![m.file] =
         [j \in 1 .. file_size |->
            IF Synced(j - 1) THEN frames[m.map[PageOf(j - 1)]][(j - 1) % PAGE_SIZE]
            ELSE c[m.file][j]]]

(* The caller syncs mapping k.                                             *)
Sync(k) ==
  /\ Live
  /\ content' = SyncedContent(content, mappings[k])
  /\ UNCHANGED <<cur_va, mappings, frames, pt, expect, killed, panicked>>

(* The task touches any byte of a page of a mapped range.                  *)
Addrs ==
  UNION {Floor(r.start) * PAGE_SIZE .. Ceil(r.start + r.len) * PAGE_SIZE - 1 :
           r \in UNION {Ranges(mappings[k]) : k \in DOMAIN mappings}}

Next ==
  \/ \E c \in MmapCalls : SysMmap(c[1], c[2], c[3])
  \/ \E va \in Addrs : PageFault(va)
  \/ \E va \in Addrs, v \in StoreValues : Store(va, v)
  \/ \E k \in DOMAIN mappings : Sync(k)

Spec == Init /\ [][Next]_vars

-----------------------------------------------------------------------------
(* Properties.                                                             *)

RangeRecords ==
  [start : Nat, len : Nat, offset : Nat, perm : [r : BOOLEAN, w : BOOLEAN]]

TypeOK ==
  /\ cur_va \in Nat
  /\ \A k \in DOMAIN mappings :
       /\ mappings[k].file \in Files
       /\ \A i \in DOMAIN mappings[k].ranges : mappings[k].ranges[i] \in RangeRecords
       /\ mappings[k].map \in [DOMAIN mappings[k].map -> DOMAIN frames]
       /\ mappings[k].dirty \subseteq DOMAIN mappings[k].map
  /\ \A p \in DOMAIN frames : frames[p] \in [PageBytes -> Nat]
  /\ \A vpn \in DOMAIN pt : pt[vpn].ppn \in DOMAIN frames
  /\ killed \in BOOLEAN
  /\ panicked \in STRING

(* No fault of the task panics the kernel: handle_page_fault's assert      *)
(* holds for every page sys_mmap let the task map.                         *)
NoPanic == panicked = "no"

(* The virtual pages of two ranges are disjoint, as FileMapping::map       *)
(* assumes ("currently virtual address ranges never intersect"): the      *)
(* allocator rounds each area up to a page, so no page holds the end of    *)
(* one range and the start of the next.                                    *)
AllRanges == UNION {Ranges(mappings[k]) : k \in DOMAIN mappings}
Pages(r) == Floor(r.start) .. Floor(r.start + r.len - 1)
RangesDisjoint ==
  \A r1, r2 \in AllRanges : r1 # r2 => Pages(r1) \cap Pages(r2) = {}

(* Every mapped page shows the file's bytes as the task's own stores made  *)
(* them: a store through one virtual page of a file offset is seen through *)
(* every other page mapping that offset (the frame is shared through       *)
(* FileMapping::map), and a page faulted in later loads the current bytes.*)
FramesCoherent ==
  \A vpn \in DOMAIN pt :
    LET f == PageMapping(vpn).file
        o == PageOffset(vpn)
    IN  \A j \in PageBytes :
          o + j < Len(expect[f]) => frames[pt[vpn].ppn][j] = expect[f][o + j + 1]

(* Every frame frame_alloc handed to a fault is kept by exactly one        *)
(* FileMapping, under one file offset of a page of its ranges: a fault on  *)
(* a file page that already has a frame (through any range) takes no new   *)
(* one, and no frame is dropped from the map while the mapping holds it.   *)
(* So the frames a task pins (FileMapping::frames, freed only with the     *)
(* mapping) never exceed the distinct file pages of its mappings, however  *)
(* often and through however many ranges it faults.                        *)
FilePages(m) == UNION {{FileOffset(r, vpn) : vpn \in Pages(r)} : r \in Ranges(m)}
FrameOwners(p) ==
  {ko \in UNION {{k} \X DOMAIN mappings[k].map : k \in DOMAIN mappings} :
     mappings[ko[1]].map[ko[2]] = p}
FramesAccounted ==
  /\ \A p \in DOMAIN frames : Cardinality(FrameOwners(p)) = 1
  /\ \A k \in DOMAIN mappings : DOMAIN mappings[k].map \subseteq FilePages(mappings[k])

(* After sync, every byte inside a writable range of the mapping and       *)
(* inside the file, on a page the task touched, holds what the task        *)
(* stored: write-back covers the longest range through each page.          *)
WrittenBack(k) ==
  LET m == mappings[k]
      f == m.file
  IN  \A pos \in 0 .. Len(content[f]) - 1 :
        (/\ (pos \div PAGE_SIZE) * PAGE_SIZE \in m.dirty
         /\ \E r \in Ranges(m) : r.perm.w /\ r.offset <= pos /\ pos < r.offset + r.len)
        => content[f][pos + 1] = expect[f][pos + 1]

SyncWritesBack ==
  [][\A k \in DOMAIN mappings : Sync(k) => WrittenBack(k)']_vars

(* sync changes no byte of the file outside the writable ranges of the     *)
(* mapping.  A page is mapped whole, so the task can store into its tail   *)
(* past every range, and the page's frame holds such bytes; write-back is  *)
(* clipped to the longest range through the page and to the file size, so *)
(* they never reach the file (the WARNING in FileMapping::sync about       *)
(* garbage on shared pages).                                               *)
InWritableRange(m, pos) ==
  \E r \in Ranges(m) : r.perm.w /\ r.offset <= pos /\ pos < r.offset + r.len

SyncStaysInRanges ==
  [][\A k \in DOMAIN mappings :
       Sync(k) =>
         LET f == mappings[k].file
         IN  \A pos \in 0 .. Len(content[f]) - 1 :
               content'[f][pos + 1] # content[f][pos + 1] => InWritableRange(mappings[k], pos)]_vars
=============================================================================
