----------------------------- MODULE AtomicDisk -----------------------------
(***************************************************************************)
(* What kernel/log.c promises to the file system. System calls read and    *)
(* write blocks in memory; at a moment when none is under way everything   *)
(* they wrote becomes durable at once; a crash takes the memory back to    *)
(* what was durable.                                                       *)
(***************************************************************************)
CONSTANTS Proc, Block, Val

VARIABLES
  disk,   \* the durable contents of each block
  mem,    \* the contents as the running system sees them
  busy    \* the processes between begin_op() and end_op()

vars == <<disk, mem, busy>>

Init ==
  /\ disk \in [Block -> Val] /\ mem = disk
  /\ busy = {}

Begin(p) ==
  /\ p \notin busy
  /\ busy' = busy \cup {p}
  /\ UNCHANGED <<disk, mem>>

Write(p) ==
  /\ p \in busy
  /\ \E b \in Block, v \in Val : mem' = [mem EXCEPT ![b] = v]
  /\ UNCHANGED <<disk, busy>>

End(p) ==
  /\ p \in busy
  /\ busy' = busy \ {p}
  /\ UNCHANGED <<disk, mem>>

Commit ==
  /\ busy = {}
  /\ disk' = mem
  /\ UNCHANGED <<mem, busy>>

Crash ==
  /\ mem' = disk /\ busy' = {}
  /\ UNCHANGED disk

Next ==
  \/ Commit \/ Crash
  \/ \E p \in Proc : Begin(p) \/ Write(p) \/ End(p)

Spec == Init /\ [][Next]_vars
=============================================================================
