------------------------------ MODULE MmapTests ------------------------------
(***************************************************************************)
(* The user tests mmap_test1 and mmap_test2 (src/user/src/bin) run as two  *)
(* tasks of the kernel at once.  Each task has its own address space,      *)
(* allocator, fd table and FileMappings (an instance of UserProgram over   *)
(* FileMmap); they share the files' bytes, which a task's exit writes back *)
(* and a task's page fault reads, and a kernel panic stops both.  The      *)
(* scheduler runs either task at any instruction.                          *)
(***************************************************************************)
EXTENDS Naturals, Sequences

CONSTANTS
  PAGE_SIZE, MMAP_AREA_BASE, VA_WIDTH_SV39, Files, FileData, StoreValues, MaxMmaps,
  Prog1, FdTable1,   \* mmap_test1 and the fd table it opened
  Prog2, FdTable2,   \* mmap_test2 and its fd table
  TestFile,          \* filea, the file both tests open
  Test1Result,       \* the bytes of filea after mmap_test1's stores
  Test2KilledAt      \* the index in Prog2 of mmap_test2's read-only store

VARIABLES content, panicked,
  cur_va1, mappings1, frames1, pt1, expect1, killed1, pc1, regs1, out1, status1,
  cur_va2, mappings2, frames2, pt2, expect2, killed2, pc2, regs2, out2, status2

task1 == <<cur_va1, mappings1, frames1, pt1, expect1, killed1, pc1, regs1, out1, status1>>
task2 == <<cur_va2, mappings2, frames2, pt2, expect2, killed2, pc2, regs2, out2, status2>>
allVars == <<content, panicked, task1, task2>>

T1 == INSTANCE UserProgram
        WITH Prog <- Prog1, FdTable <- FdTable1, MmapCalls <- {},
             cur_va <- cur_va1, mappings <- mappings1, frames <- frames1, pt <- pt1,
             expect <- expect1, killed <- killed1,
             pc <- pc1, regs <- regs1, out <- out1, status <- status1
T2 == INSTANCE UserProgram
        WITH Prog <- Prog2, FdTable <- FdTable2, MmapCalls <- {},
             cur_va <- cur_va2, mappings <- mappings2, frames <- frames2, pt <- pt2,
             expect <- expect2, killed <- killed2,
             pc <- pc2, regs <- regs2, out <- out2, status <- status2

Init == T1!ProgInit /\ T2!ProgInit

Step1 == T1!ProgNext /\ UNCHANGED task2
Step2 == T2!ProgNext /\ UNCHANGED task1

Next == Step1 \/ Step2

(* The scheduler (outside src/) preempts a running task only to run       *)
(* another, so a task that can run keeps getting the CPU: each task is     *)
(* weakly fair.                                                            *)
Spec == Init /\ [][Next]_allVars /\ WF_allVars(Step1) /\ WF_allVars(Step2)

-----------------------------------------------------------------------------
(* Properties.                                                             *)

TypeOK ==
  /\ T1!TypeOK /\ T2!TypeOK
  /\ pc1 \in 1 .. Len(Prog1) /\ pc2 \in 1 .. Len(Prog2)
  /\ status1 \in STRING /\ status2 \in STRING

(* No instruction of either test panics the kernel: every page fault the   *)
(* tests take is a page of a mapping inside its file, so                   *)
(* handle_page_fault's assert holds.                                       *)
NoPanic == panicked = "no"

(* Every check the tests make of sys_mmap holds: mmap_test1's two mmaps    *)
(* succeed, and mmap_test2's invalid fd, stdin, unaligned offset and       *)
(* offset past the file all return -1.                                     *)
TestChecksHold == T1!ChecksHold /\ T2!ChecksHold

(* What mmap_test1 stored through its two mappings of filea is in filea    *)
(* once it has exited: "hELLO" through the first and "##WO" through the    *)
(* second, both on the one frame FileMapping::map shares between them and  *)
(* written back by sync, the rest of the file as it was.                   *)
(* It rests on the exit path syncing every mapping (DoExit), which is     *)
(* kernel code outside src/: nothing under src/ calls FileMapping::sync.   *)
Test1Written == T1!Exited => content[TestFile] = Test1Result

(* Both tests end as their authors expect, whatever the interleaving: each *)
(* fault the tests take is fixed and the faulting access completes on its *)
(* next try, mmap_test1 returns from main, and mmap_test2 is killed by its *)
(* store to the read-only page, before "should not reach here!".           *)
TestsEnd == <>(T1!Exited) /\ <>(killed2 /\ pc2 = Test2KilledAt)
=============================================================================
