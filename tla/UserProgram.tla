----------------------------- MODULE UserProgram -----------------------------
(***************************************************************************)
(* A user program of src/user/src/bin run as one task over the kernel's    *)
(* mmap (module FileMmap).  The program is a straight-line sequence Prog   *)
(* of instructions, as mmap_test1 and mmap_test2 are:                      *)
(*   mmap     mmap(fd, len, off) into register reg, then the test's check  *)
(*            of the result: want "ok" panics with msg on -1, want "fail"  *)
(*            is assert!(.. < 0), want "any" checks nothing;               *)
(*   close    close(fd): the fd goes, the mappings keep their Arc<Inode>;  *)
(*   store    *(reg + k) = v;  load  *(reg + k), printed;                  *)
(*   exit     return from main;  panic  panic!(msg).                       *)
(* An access to a page with no valid entry traps into handle_page_fault;   *)
(* when the handler fixes the fault the same instruction runs again, and   *)
(* when it does not, the task is killed.                                   *)
(***************************************************************************)
EXTENDS FileMmap

CONSTANT Prog   \* the program: a sequence of instruction records

VARIABLES
  pc,      \* index in Prog of the next instruction
  regs,    \* regs[r]: the value mmap returned into register r
  out,     \* the bytes the program printed, in order
  status   \* "running", "exited", or the message the program panicked with

progVars == <<pc, regs, out, status>>
allVars == <<vars, progVars>>

Running == status = "running" /\ Live /\ pc \in DOMAIN Prog

Instr == Prog[pc]

(* The address instruction i touches, and its virtual page.                *)
Addr(i) == regs[i.reg] + i.k

(* The test's check of mmap's result ret fails.                            *)
CheckFails(i, ret) == (i.want = "ok" /\ ret = -1) \/ (i.want = "fail" /\ ~(ret < 0))

ProgInit ==
  /\ Init
  /\ pc = 1
  /\ regs = [r \in {Prog[j].reg : j \in {j \in DOMAIN Prog : Prog[j].op = "mmap"}} |-> 0]
  /\ out = <<>>
  /\ status = "running"

(* mmap(fd, len, off): sys_mmap returns -1 and changes nothing, or maps    *)
(* the range and returns its start; then the test checks the result.       *)
DoMmap ==
  LET i == Instr
      fails == MmapFails(i.fd, i.len, i.off)
      ret == IF fails THEN -1 ELSE cur_va
  IN  /\ i.op = "mmap"
      /\ \/ ret = -1 /\ UNCHANGED vars
         \/ ret # -1 /\ SysMmap(i.fd, i.len, i.off)
      /\ regs' = [regs EXCEPT ![i.reg] = ret]
      /\ status' = IF CheckFails(i, ret) THEN i.msg ELSE status
      /\ pc' = pc + 1
      /\ UNCHANGED out

(* close(fd): only the fd table changes, and no later instruction of the   *)
(* programs uses the fd again.                                             *)
DoClose ==
  /\ Instr.op = "close"
  /\ pc' = pc + 1
  /\ UNCHANGED <<vars, regs, out, status>>

(* An access to a page without a valid entry: the trap runs the handler,   *)
(* and the instruction is not completed.                                   *)
Trap(i) ==
  /\ Floor(Addr(i)) \notin DOMAIN pt
  /\ PageFault(Addr(i))
  /\ UNCHANGED progVars

DoStore ==
  LET i == Instr
  IN  /\ i.op = "store"
      /\ \/ Trap(i)
         \/ /\ Floor(Addr(i)) \in DOMAIN pt
            /\ Store(Addr(i), i.v)
            /\ pc' = IF pt[Floor(Addr(i))].w THEN pc + 1 ELSE pc
            /\ UNCHANGED <<regs, out, status>>

DoLoad ==
  LET i == Instr
      vpn == Floor(Addr(i))
  IN  /\ i.op = "load"
      /\ \/ Trap(i)
         \/ /\ vpn \in DOMAIN pt
            /\ out' = Append(out, frames[pt[vpn].ppn][Addr(i) % PAGE_SIZE])
            /\ pc' = pc + 1
            /\ UNCHANGED <<vars, regs, status>>

(* main returns; the exit path syncs every mapping of the task, in order.  *)
DoExit ==
  /\ Instr.op = "exit"
  /\ content' = FoldLeft(SyncedContent, content, mappings)
  /\ status' = "exited"
  /\ UNCHANGED <<cur_va, mappings, frames, pt, expect, killed, panicked, pc, regs, out>>

DoPanic ==
  /\ Instr.op = "panic"
  /\ status' = Instr.msg
  /\ UNCHANGED <<vars, pc, regs, out>>

ProgNext ==
  /\ Running
  /\ \/ DoMmap \/ DoClose \/ DoStore \/ DoLoad \/ DoExit \/ DoPanic

(* The program ran to the end of main.                                     *)
Exited == status = "exited"

(* The program did not panic on one of its own checks.                     *)
ChecksHold == status \in {"running", "exited"}
=============================================================================
