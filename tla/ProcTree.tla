------------------------------ MODULE ProcTree ------------------------------
(***************************************************************************)
(* What fork(), exit() and wait() of kernel/proc.c promise to programs: a  *)
(* tree of processes named by pids that are never used twice. A process    *)
(* that exits hands its children to init (pid 1) and stays a zombie until  *)
(* its parent has waited for it, once.                                     *)
(***************************************************************************)
EXTENDS Integers

CONSTANT Pid

VARIABLES
  live, zombie,   \* the pids of the two kinds of processes
  parentOf,       \* the parent of each
  born            \* every pid that was given to a process

vars == <<live, zombie, parentOf, born>>

Init ==
  /\ live = {1} /\ zombie = {} /\ born = {1}
  /\ parentOf = [c \in {1} |-> 0]

Fork(p) ==
  \E c \in Pid \ born :
    /\ born' = born \cup {c} /\ live' = live \cup {c}
    /\ parentOf' = [q \in live' \cup zombie |-> IF q = c THEN p ELSE parentOf[q]]
    /\ UNCHANGED zombie

Exit(p) ==
  /\ p # 1
  /\ live' = live \ {p} /\ zombie' = zombie \cup {p}
  /\ parentOf' = [q \in live \cup zombie |-> IF parentOf[q] = p THEN 1 ELSE parentOf[q]]
  /\ UNCHANGED born

Wait(p) ==
  \E c \in zombie :
    /\ parentOf[c] = p
    /\ zombie' = zombie \ {c}
    /\ parentOf' = [q \in live \cup zombie' |-> parentOf[q]]
    /\ UNCHANGED <<live, born>>

Next == \E p \in live : Fork(p) \/ Exit(p) \/ Wait(p)

Spec == Init /\ [][Next]_vars
=============================================================================
