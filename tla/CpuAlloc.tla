------------------------------ MODULE CpuAlloc ------------------------------
(***************************************************************************)
(* What kernel/proc.c's scheduler promises to the rest of the kernel, with *)
(* no locks, no temperature and no scanning: a CPU is given to a RUNNABLE  *)
(* process in one atomic step, and a process keeps its CPU until it gives  *)
(* it up in one atomic step. "RUNNING" means that some CPU is using the    *)
(* process's kernel stack.                                                 *)
(***************************************************************************)
CONSTANTS CPU, Slots

VARIABLES
  state,     \* the state of each process slot
  running    \* the slot each CPU runs, 0 for none

vars == <<state, running>>

Init ==
  /\ state \in [Slots -> {"UNUSED", "RUNNABLE", "SLEEPING"}]
  /\ running = [c \in CPU |-> 0]

Run(c, p) ==
  /\ running[c] = 0 /\ state[p] = "RUNNABLE"
  /\ running' = [running EXCEPT ![c] = p]
  /\ state' = [state EXCEPT ![p] = "RUNNING"]

Stop(c, p) ==
  /\ running[c] = p
  /\ running' = [running EXCEPT ![c] = 0]
  /\ \E s \in {"RUNNABLE", "SLEEPING", "ZOMBIE"} :
       state' = [state EXCEPT ![p] = s]

(* kfork() makes an unused slot RUNNABLE, wakeup() and kkill() a sleeper.  *)
Ready(p) ==
  /\ state[p] \in {"UNUSED", "SLEEPING"}
  /\ state' = [state EXCEPT ![p] = "RUNNABLE"]
  /\ UNCHANGED running

Reap(p) ==
  /\ state[p] = "ZOMBIE"
  /\ state' = [state EXCEPT ![p] = "UNUSED"]
  /\ UNCHANGED running

Next ==
  \E p \in Slots :
    \/ Ready(p) \/ Reap(p)
    \/ \E c \in CPU : Run(c, p) \/ Stop(c, p)

Spec == Init /\ [][Next]_vars
=============================================================================
