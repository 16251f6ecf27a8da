# TLA+ models of the easy-fs inode engine and the mmap layer

This directory holds TLA+ specifications of the code under `src/`. TLC checks them.

- `src/easy-fs/src/layout.rs` contains the on-disk layout engine of easy-fs: the super block, the disk inode with its direct/indirect pointer tree, and directory entries.
- `src/user/src/bin/mmap_test1.rs` and `mmap_test2.rs` are the user tests of that `mmap`.
- `src/os/src/syscall/mmap.rs` contains a file-backed `mmap` for the kernel. It faults file pages in on demand and writes them back through the inode's `write_at`.

## The system and how its parts interact

| part | source | state | operations |
|---|---|---|---|
| SuperBlock | layout.rs 24–70 | magic, five region counts, in block 0 | `initialize` (`is_valid` left out) |
| DiskInode: accounting | layout.rs 114–149 | none (pure) | `_data_blocks`, `total_blocks`, `blocks_num_needed` |
| DiskInode: addressing | layout.rs 151–195 | reads the inode and its index blocks | `get_block_id`, `decompose2` |
| DiskInode: growth | layout.rs 197–369 | the inode record, the index blocks | `increase_size`, `build_tree` |
| DiskInode: truncation | layout.rs 373–487 | the inode record; returns ids | `clear_size`, `collect_tree_blocks` |
| DiskInode: byte I/O | layout.rs 490–567 | data block bytes | `read_at`, `write_at` |
| DirEntry | layout.rs 571–612 | 32-byte record | `empty`, `new`, `name`, `inode_number` |
| mmap | mmap.rs 22–264 | VA cursor; per-file mappings with ranges, frames, dirty set and offset→frame map | `sys_mmap`, `handle_page_fault`, `FileMapping::map`, `FileMapping::sync` |

The parts interact as follows:

1. A caller outside `src/` (the vfs `Inode` and `EasyFileSystem`) asks `blocks_num_needed`. It then allocates that many ids from the data bitmap, lowest free bit first, and hands them to `increase_size`.
2. `increase_size` consumes the ids in a fixed order, interleaving index blocks with data blocks.
3. `clear_size` returns every id the inode owns. The caller deallocates each one, zeroing its block.
4. `read_at` and `write_at` resolve logical blocks through `get_block_id`.
5. `mmap` loads pages with `read_at` on a fault and writes them back with `write_at` in `sync`.

Every engine call runs to completion under the caller's lock on the inode's block. There is no concurrency inside a call, so the models take each call as one atomic step. What interleaves is whole calls: calls on different files that share one allocator and one disk, and faults, user stores and syncs of a process.

## Modules

- **`AbstractInode`** states what one inode promises, independently of the tree.
  - State: `size`; `blocks`, the sequence of data-block ids; `owned`, every id the inode holds; `free`, the allocator pool; `released`, the ids a clear hands back.
  - `Grow` keeps the old data blocks as a prefix and appends distinct fresh ids.
  - `Grow` makes the inode own exactly `RefTotalBlocks(data blocks)` ids. That count is a reference definition written from the tree's shape, tier by tier and level by level, and it does not use `total_blocks`.
  - `Clear` hands back every owned id exactly once.
  - `Other` stands for another file's step, which must leave this file alone.
- **`DiskInode`** is the engine itself. Its state and actions map to the code as follows.
  - `inode[i]` is the `DiskInode` record.
  - `disk[b][k]` is entry `k` of block `b` read as an `IndirectBlock`.
  - `free` is the data bitmap.
  - `owned[i]` is a history of the ids `increase_size` consumed for file `i`.
  - `released[i]` is the `Vec` `clear_size` returned in this step.
  - `panicked` records a failed `unwrap` or `assert`.
  - Action `IncreaseSize(i, s)` is the caller's `blocks_num_needed` and allocation followed by the whole `increase_size`. `IncreaseSizeResult` chains the tiers with their early returns. `Take` and `NextId` are `new_blocks.next().unwrap()`, `FillIndirect2` is the hand-unrolled two-level loop, and `BuildTree`/`BuildLoop` are the recursive `build_tree`.
  - Action `ClearSize(i)` is the whole `clear_size`, including its assert and the recursive `collect_tree_blocks`, followed by the caller's deallocation.
  - `TotalBlocks`, `BlocksNumNeeded` and `GetBlockId` translate the accounting and addressing functions.
- **`AbstractFile`** states what byte I/O promises. A file is a byte sequence `content`:
  - `Grow` appends zero bytes;
  - `Clear` empties it;
  - `Write` copies a buffer from an offset, clipped to the size, and never grows the file;
  - `Read(offset, len)` is what `read_at` must return.
- **`InodeIO`** extends `DiskInode` with `data[b][o]`, byte `o` of block `b` read as a `DataBlock`.
  - `ReadAtResult` and `ReadLoop` translate `read_at`, including its early return.
  - Action `WriteAt` is the whole `write_at`: the assert, then `WriteLoop`, which resolves every chunk through `get_block_id` and copies it with `CopyChunk`. A block id past the device fails in the block device, which the model records as a panic.
  - `IOClearSize` is `ClearSize` followed by the caller zeroing the freed blocks.
  - The buffer written is `1, 2, ..., len`, so a chunk copied from the wrong place changes the file.
  - Block 0 starts as the bytes of the super block, its `u32` words little-endian (`SuperBlockBytes`).
- **`FileMmap`** models `mmap.rs` for one task. The state maps to the code as follows:
  - `cur_va` is the allocator cursor;
  - `mappings` is `tcb.file_mappings`: the inode's `Arc` identity, the ranges, the offset→frame `map` and the dirty set;
  - `frames` are the frames `frame_alloc` handed out;
  - `pt` is the page table;
  - `content` holds the files' bytes;
  - `expect` is a history of the bytes as the task's own stores left them.

  The actions are:
  - `SysMmap`: `sys_mmap` on its success path. Its `-1` returns change nothing.
  - `PageFault`: `handle_page_fault` with `FileMapping::map`. A fault outside every range is not fixed, and the task dies. A fresh frame is loaded with `read_at` after the assert.
  - `Store`: a user store. A store to a read-only page faults on a valid entry, which is not fixed.
  - `Sync`: `FileMapping::sync`, which writes dirty pages back with `write_at`.

  `MmapFails` is every `-1` return of `sys_mmap` (zero length, unaligned offset, bad fd, not a regular file, offset past the file). `MapRangeNew`, `NewEmpty` and `Push` are the constructors `sys_mmap` uses. `ReadLen` is the handler's `read_len`. `InstallPte` is the `memory_set.map` of the handler. `VirtAddrOf` is `VirtAddr::from(usize)` (in `mm`, outside `src/`), which keeps the low `VA_WIDTH_SV39` bits. `alloc` applies it to `cur_va + len`.
- **`UserProgram`** extends `FileMmap` with a user program that runs as one task. The program is a straight-line list of instructions, as both tests are:
  - `DoMmap` calls `sys_mmap` and then makes the test's check of the result. A failed check sets `status` to the panic message.
  - `DoClose` only advances: the mappings keep their `Arc<Inode>`.
  - `DoStore` and `DoLoad` access `reg + k`. On a page with no valid entry they take `Trap` (`handle_page_fault`) without advancing, so the instruction runs again. A store to a read-only page stays on its instruction with the task killed.
  - `DoExit` returns from `main`. The exit path syncs every mapping in order (`FoldLeft` of `SyncedContent`).
  - `DoPanic` is `panic!`.
- **`MmapTests`** composes two `UserProgram` instances, `T1` for `mmap_test1` and `T2` for `mmap_test2`. It renames each one's variables, as per-node instances are composed. The tasks share only `content` (filea's bytes) and `panicked` (a kernel panic stops both). `Next` is either task's step.
- **`DirEntry`** models the directory-entry codec of `layout.rs`.
  - `New`, `AsBytes` (the `#[repr(C)]` layout, with the `u32` little-endian at byte 28), `FromBytes` (`as_bytes_mut` of an empty entry), `NameLen` and `Name` are operators.
  - The directory layer (outside `src/`) stores one slot with `Write` and reads it back with `Read`.
  - `new`'s slice copy past 28 bytes and `name()`'s search without a NUL are panics.
- **`MCDiskInode`** sets `DiskInode` at a scale TLC covers, using the constants listed under Bounds below.

The caller's allocation (`AllocIds`, lowest free first) and deallocation (`Dealloc`, which zeroes the block) are not under `src/`. They are written from the spec and rCore's easy-fs, and `PROJECT.json` marks them `spec_modelled`.

## Runs

| run | cfg | expect | checks |
|---|---|---|---|
| inode_tree | MCDiskInode.cfg | pass | `TypeOK`, `GrowthNoPanic`, `RootsMatchSize`, `AbsSpec` |
| inode_two_files | MCDiskInodeTwo.cfg | pass | `NoPanic`, `AbsSpec` |
| inode_clear_assert | MCDiskInodeClearAssert.cfg | violation | `NoPanic` |
| inode_past_capacity | MCDiskInodePastCapacity.cfg | violation | `IdsConserved` |
| io_bytes | MCInodeIO.cfg | pass | `IOTypeOK`, `NoPanic`, `ReadAtCorrect`, `FileSpec`, `WriteAtExact` |
| io_write_at_end | MCInodeIOAtEnd.cfg | violation | `NoPanic` |
| mmap_pages | MCFileMmap.cfg | pass | `TypeOK`, `NoPanic`, `RangesDisjoint`, `FramesAccounted`, `FramesCoherent`, `SyncWritesBack`, `SyncStaysInRanges` |
| mmap_past_end | MCFileMmapPastEnd.cfg | violation | `NoPanic` |
| mmap_len_wrap | MCFileMmapLenWrap.cfg | violation | `RangesDisjoint` |
| mmap_tests | MCMmapTests.cfg | pass | `TypeOK`, `NoPanic`, `TestChecksHold`, `Test1Written`, `TestsEnd` |
| dirent_roundtrip | MCDirEntry.cfg | pass | `TypeOK`, `RoundTrip` |
| dirent_long_name | MCDirEntryLong.cfg | violation | `StoredNameTerminated` |

- **`GrowthNoPanic`** (inode_tree): growth never panics, for every size up to the full tree and from every partly built tree. `blocks_num_needed` asks for exactly the ids `increase_size` unwraps. The run goes up to 16 blocks, so `clear_size`'s assert at line 441 fails inside it. That panic is a separate property, checked by run `inode_clear_assert`. It ends the behaviour, which is why the run sets `CHECK_DEADLOCK FALSE`.
- **`NoPanic`** (inode_two_files, io_bytes): no panic at all, within bounds below the 441 bug. In `io_bytes`, this includes `write_at`'s assert and block-device faults.
- **`RootsMatchSize`**: a root (or a direct slot) is non-null exactly when the size reaches its tier. This covers stale roots after a clear and a tier allocated early or never.
- **`AbsSpec`** is refinement. `DiskInode` implements `AbstractInode` for every file under the following mapping:
  - `blocks` is the sequence `get_block_id` resolves for the file's logical blocks;
  - `owned` is the history variable.

  It catches a growth that overwrites or moves an old block, a resumed tree that re-allocates a slot, a miscount of index blocks, a clear that misses or duplicates an id, and one file's step that changes another's blocks.

- **`ReadAtCorrect`**: in every state, `read_at` at every offset and length returns exactly `AbstractFile`'s `Read`. This covers offsets at and past the size, and ranges across block and tier boundaries.
- **`FileSpec`** is refinement of `AbstractFile` for every file. The mapping takes `content` to be the bytes `get_block_id` locates for the file's size. It catches:
  - a chunk copied from or to the wrong place;
  - bytes written past the size that a later growth exposes;
  - a freed block that comes back dirty;
  - a step on one file that changes another.

  `FileSpec` allows any offset and buffer for a write, and it allows a step that changes nothing. So it cannot see a write that is lost or lands at the wrong offset.
- **`WriteAtExact`** closes that gap. Each `write_at` that returns must leave the file as `AbstractFile`'s `Written` with the call's own offset and buffer, and must leave every other file unchanged.
  - The history variable `lastWrite` records each call. A write that changes no byte is then still a step, and it is checked.
  - Its mutant drops `buf.len()` from `end`. The loop then copies nothing, which `FileSpec` accepts.
- **`RangesDisjoint`**: no two mapped ranges share a virtual page. `FileMapping::map` relies on this, and it depends on `alloc` rounding up.
- **`FramesAccounted`**: every frame `frame_alloc` handed to a fault is held by exactly one `FileMapping`, under one file offset of a page of its ranges.
  - A fault on a file page that already has a frame, through any range, takes no new frame.
  - No frame drops out of the map while its mapping holds it.
  - So a task pins at most one frame per distinct file page of each mapping, however often it faults. This does not bound the total: `len` is unbounded, so the `frame_alloc().unwrap()` panic (`mmap.rs:116`) is still reachable by touching many distinct pages.
  - Its mutant ignores the map lookup, which is the bug a second fault through a longer range would expose.
- **`FramesCoherent`**: every mapped page shows the bytes the task's stores made. Pages sharing a file offset share one frame, and a page faulted in later loads the current bytes. Its mutant limits the load to the rest of the faulting range: that is the alternative commented out in `handle_page_fault`, which leaves a longer range sharing the frame with zeros.
- **`SyncWritesBack`** is an action property. After `sync`, every stored byte that lies inside a writable range and inside the file is in the file.
- **`SyncStaysInRanges`** is the converse action property: `sync` changes no file byte outside every writable range of the mapping.
  - A page is mapped whole, so the task can store into its tail past every range, and those bytes sit in the frame. Write-back is clipped to the longest range through the page and to the file, and it drops them.
  - `sync`'s WARNING comment says a shared page can still carry garbage. All ranges of one `FileMapping` come from one open and have one permission, so such a byte always lies in some writable range of the file. The property therefore allows it: a store into the tail of a short range reaches the file when a longer range covers that byte.

- **`TestChecksHold`** (mmap_tests): under every interleaving of the two tests, each check they make of `sys_mmap`'s result holds.
- **`Test1Written`** (mmap_tests): once `mmap_test1` has exited, filea reads `hELLO##WOrld!`. Its stores through its two mappings land on one shared frame and are written back at exit, while `mmap_test2` faults the same file.
- **`TestsEnd`** (mmap_tests) is liveness. `mmap_test1` eventually exits, and `mmap_test2` is eventually killed at its read-only store (`mmap_test2.rs:29`). It fails if a fixed fault does not make its instruction succeed on the retry.
- **`RoundTrip`** (dirent_roundtrip): reading a slot back gives the name and number last written into it. This is spec §8's example, extended to a 27-byte name and to numbers of one to four bytes.

### Result: clear_size's assert is too tight

Run `inode_clear_assert` fails `NoPanic` at `layout.rs:441`.

- By that point `clear_size` has subtracted the direct and indirect1 tiers from `data_blocks`, so the value still includes the indirect2 tier.
- The assert compares that value with `INODE_INDIRECT3_COUNT` alone.
- So a file that `increase_size` built legally, with more than 27 + N + N³ data blocks, panics the kernel when it is cleared. With 512-byte blocks that is any file over about 1 GiB.
- In the model (N = 2, 2 direct pointers), the failing trace is a growth to 98 bytes followed by a clear.

### Result: growth past the largest file leaks block ids

Run `inode_past_capacity` fails `IdsConserved`, which says every block id is either free or owned by a file.
- Spec §4.3 says `total_blocks` must match exactly what growth allocates.
- Nothing bounds `new_size` by the largest addressable file (27 + N + N² + N³ blocks).
- Past that size, `total_blocks` keeps counting, but `build_tree` stops after N³ leaves (`layout.rs:278`).
- The caller allocates the ids `blocks_num_needed` asks for. Those that `increase_size` never installs leak silently, and the size claims blocks that `get_block_id` cannot address.
- TLC's trace (N = 2, 2 direct pointers): grow to 1 block, then to 17 blocks, and ids 28–30 are lost.

### Result: write_at at or past the end of the file

- **`io_write_at_end`**: spec §8 says `write_at` at `offset == size` writes nothing. The copy loop runs once even when `start == end`, so it resolves logical block `size / BLOCK_SZ`, which is not allocated.
  - Inside the direct tier, that block resolves to block 0, and the write goes to the super block.
  - At a tier boundary, the null root is followed into block 0. Its first entry is `EFS_MAGIC`, which is read as a block id past the device.
  - TLC's trace, with one direct pointer: grow to 8 bytes, then `write_at(8, ..)`.
- A write past the size: spec §7 says it is clipped. `write_at` asserts `start <= end` instead (`layout.rs:539`), so it panics the kernel on the first such call. This is plain from the code, so no run checks it.

### Result: mmap

- **`mmap_past_end`**: `sys_mmap` checks only that `offset` is below the file size, so a 5-byte mapping of a 3-byte file is accepted. A fault on its third page fails `assert!(file_offset < file_size)` (`mmap.rs:232`), and the kernel panics where the task alone should die.
- **`mmap_len_wrap`**: `sys_mmap` bounds neither `len` nor the area, and `alloc` computes `cur_va + len` (`mmap.rs:37`). The sum wraps, both as a `usize` and in `VirtAddr`'s 39 bits. A mapping of 2^39 bytes, which costs nothing until a fault, leaves `cur_va` where it was, so the next `mmap` returns the same start. Two ranges then share pages, against the comment in `FileMapping::map`. A shorter wrap hands out addresses below `MMAP_AREA_BASE`, which belong to the program itself. The model uses a 5-bit address space and a 32-byte mapping.

### Observation: two opens of one file

`find_file_mapping` matches an existing mapping by `Arc` pointer (`mmap.rs:263`). If two opens of a file hold different `Arc<Inode>`s, they get separate mappings with separate frames, and a store through one is not seen through the other. rCore's `open_file` (outside `src/`) builds a new `Arc` per open. The model's fd table fixes each open's arc. The `mmap_pages` configuration gives each file one arc, so no run checks this case.

### Result: DirEntry accepts a 28-byte name

Run `dirent_long_name` fails `StoredNameTerminated`. Spec §3 limits names to 27 bytes, and §4.8 has `new` assert the limit. `new` has no assert (`layout.rs:589`). The copy `bytes[..name.len()]` accepts up to 28 bytes, so a 28-byte name is stored with no NUL. Every later `name()` of that entry runs its search off the array and panics the kernel.

### Observation: mmap_test2's alignment check is masked

`mmap_test2` checks the alignment return with `mmap(fd, 4096, 42)`. When filea is shorter than 43 bytes, as in the model, offset 42 is also past the file. `sys_mmap` then returns `-1` at its size check (`mmap.rs:190`) even without the alignment check at line 166. In the model, a mutant `MmapFails` without the alignment disjunct leaves `TestChecksHold` true. For such a file, the test does not test what its comment says.

## Bounds

The model uses `BLOCK_SZ = 8`, so N = 2 pointers fit in an index block, and `INODE_DIRECT_COUNT = 2`. Every tier then lies within 16 data blocks:

| tier | logical blocks |
|---|---|
| direct | 0–1 |
| indirect1 | 2–3 |
| indirect2 | 4–7, with 2 sub-blocks |
| indirect3 | 8–15, with 2 level-2 and 4 level-3 blocks |

The code is generic in `BLOCK_SZ` and `INODE_DIRECT_COUNT`, so the same boundaries and early returns are exercised as at 512/27.

- **inode_tree**: one file, sizes 1..128 bytes (every byte offset, so partly filled last blocks occur), up to the full tree of 16 data blocks, and 27 ids (exactly what a 16-block file needs). It covers every tier, resuming inside the indirect2 and indirect3 tiers, and the clear of every shape. Lowest-first allocation makes the layout depend only on the sequence of sizes, which keeps the state space small.
- **inode_two_files**: two files, one direct pointer, sizes in whole blocks up to 4 blocks (into the indirect2 tier), 14 ids. This is enough for both files to hold index blocks at once, and for one file to reuse blocks the other freed. Symmetry over the two files is sound, because every property quantifies over all files alike.
- **inode_clear_assert**: sizes up to the full indirect3 tier (16 blocks, 27 ids).
- **inode_past_capacity**: whole-block sizes up to 17 blocks, one past the tree, with the 30 ids `total_blocks` asks for.

- **io_bytes** uses `BLOCK_SZ = 8`, one direct pointer and 8 blocks (0 is the super block):
  - growth by 0 or 5 bytes, up to 32 bytes, which reaches the indirect2 tier;
  - writes of 3 or 12 bytes at offsets 0, 6, 11 and 21 below the size, so chunks start mid-block and cross blocks and tiers;
  - `ReadAtCorrect` is checked at offsets 0–35 (8 of them) and lengths 1–40 (4 of them), which includes the size and past it.
- **mmap_pages** uses 2-byte pages and two files of 3 and 1 bytes. `f1` holds `0, 2, 0`, so a page loaded short differs from the file.
  - Three opens: stdin (not regular), `f1` read-write and `f2` read-only.
  - A 5-bit address space (`VA_WIDTH_SV39 = 5`): three mappings from base 8 end below 32, so only `mmap_len_wrap`, with its 32-byte mapping, wraps.
  - Calls `(fd, len, offset)`: `(3,1,0)`, `(3,3,0)`, `(3,1,2)` and `(4,1,0)`, with up to three successful maps.
  - Stores write the value 1 at any address the allocator handed out, including page tails past a range.
  - These calls give two ranges over the same offset with different lengths, a range at a non-zero offset, a last page that straddles the end of the file, read-only and read-write ranges, and faults outside every range.

- **mmap_tests** uses 128-byte pages and an mmap base of 1024 in a 12-bit address space. The real base, 2^32, is outside TLC's 32-bit integers, but only page alignment and distinct addresses matter. The repository does not say what filea holds. The model gives it the 13 bytes `Hello, world!`: `mmap_test1` needs at least 9 bytes, since it touches bytes 0–8.
  - `mmap_test1` opens it read-write as fd 3, and `mmap_test2` opens it read-only as its own fd 3. Fds 0–2 are stdio and are not regular files.
  - Both programs are their real instruction lists, with their real lengths and offsets. 128 bytes is above every offset they access (up to 123), so every access falls within the first page, as it does at 4096.
  - The run has 204 distinct states: every interleaving of the 17 and 9 instructions, with each fault and retry.
- **dirent_roundtrip** uses names of 0 to 3 bytes over two letters plus one 27-byte name, and the inode numbers 0, 7, 258, 70000 and 2^31 − 1. These cover a one-byte to four-byte number and a name at the limit. **dirent_long_name** adds a 28-byte name.

### Fairness

Only `MmapTests` has a liveness property. Its `Spec` has `WF_allVars(Step1) /\ WF_allVars(Step2)`. The scheduler (outside `src/`) preempts a running task only to run another, so a task that can keep running is eventually run. No fairness is assumed for the other models: every call there is a synchronous, terminating function, and they check safety only.

Deadlock checking is on for the other inode runs and the DirEntry runs. `inode_tree` turns it off, because its bounds reach the `clear_size` assert and a panic stops everything. The mmap runs set `CHECK_DEADLOCK FALSE`, because a task killed by an unfixed fault does nothing more, and a test that has exited or been killed stops. A file can always be cleared, so the model never stops except after a panic, and a panic is a `NoPanic` violation anyway.

## Not modelled, and the plan

- **DirEntry** is modelled for one slot. The directory layer that chooses slots is outside `src/`.
- The inode type tag (`initialize`'s `type_`, `is_dir`, `is_file`): nothing under `src/` reads it, and no operation of the engine depends on it. The SuperBlock's `Debug` impl is formatting. `SuperBlock::is_valid` is left out: nothing under `src/` calls it, and no modelled operation writes or frees block 0, so a check of it would hold by construction.
- **mmap**:
  - `frame_alloc` exhaustion (the frame allocator is not under `src/`). `len` is unbounded, so a task can touch any number of distinct pages. `FramesAccounted` shows only that repeated faults on one page take no extra frame;
  - a file shrinking between mapping and `sync` (nothing under `src/` shrinks a mapped file);
  - the callers of `sync` (not under `src/`), so `Sync` may happen at any time.
- **`InodeIO` with `FileMmap`**: `FileMmap` takes a file to be `AbstractFile`'s byte sequence. `io_bytes` shows that the inode engine implements that sequence for writes below the size, which are the only writes `sync` makes.
- The `File` trait (`src/os/src/fs/mod.rs`): `readable`, `writable` and the `as_any` downcast to `OSInode` are the operators `Readable`, `Writable` and `IsOSInode` of an fd entry in `FileMmap`. `read` and `write` are left out: their callers, `sys_read` and `sys_write`, are outside `src/`. The user programs are modelled in `UserProgram`/`MmapTests`, except for `open`, which is the fd table they start with, and `println`'s formatting, which is the sequence of bytes printed.
