-------------------------------- MODULE Proc --------------------------------
(***************************************************************************)
(* The life of a process in kernel/proc.c: kfork(), kexit(), kwait(),      *)
(* kkill(), and the sleep() and wakeup() they use. wait_lock protects the  *)
(* parent fields and the sleep in kwait(); its holder is a variable. A     *)
(* section that holds only p->locks, one at a time, is one step. Who is on *)
(* a CPU is the matter of CpuAlloc: here a process that is RUNNABLE or     *)
(* RUNNING ("RUNNABLE") takes steps.                                       *)
(***************************************************************************)
EXTENDS Integers, FiniteSets

CONSTANTS
  NPROC,
  MAXPID,        \* bound: the last pid given out
  KillPids       \* the arguments of kill()

ASSUME ProcAssumption ==
  NPROC \in Nat \ {0} /\ MAXPID \in Nat \ {0} /\ KillPids \subseteq Nat

Slots == 1..NPROC
initproc == 1

VARIABLES
  state, pid, parent, killed,   \* struct proc; a parent is a slot, 0 for none
  nextpid,
  wait_lock,                    \* the slot that holds it, 0 for none
  pc, np,                       \* of each process: place, and kfork()'s np
  born                          \* history: the pids of all processes so far

vars == <<state, pid, parent, killed, nextpid, wait_lock, pc, np, born>>

Goto(p, label) == pc' = [pc EXCEPT ![p] = label]

(* The processes that wakeup() finds asleep among ps become RUNNABLE.      *)
Woken(ps) ==
  [q \in Slots |-> IF q \in ps /\ state[q] = "SLEEPING" THEN "RUNNABLE" ELSE state[q]]

(* In user space, or at the start of a system call that usertrap() let by. *)
InUser(p) == state[p] = "RUNNABLE" /\ pc[p] = "user"
Calls(p) == InUser(p) /\ ~killed[p]

-----------------------------------------------------------------------------
(* userinit()                                                              *)
Init ==
  /\ state = [p \in Slots |-> IF p = initproc THEN "RUNNABLE" ELSE "UNUSED"]
  /\ pid = [p \in Slots |-> IF p = initproc THEN 1 ELSE 0]
  /\ parent = [p \in Slots |-> 0]
  /\ killed = [p \in Slots |-> FALSE]
  /\ nextpid = 2 /\ born = {1}
  /\ wait_lock = 0
  /\ pc = [p \in Slots |-> "user"]
  /\ np = [p \in Slots |-> 0]

(* Fault: the counter is advanced before it is read.                       *)
allocpid_next == nextpid + 1

allocpid == nextpid

(* kfork() up to release(&np->lock). The scan of allocproc() takes one     *)
(* p->lock after the other, and slots behind it may become free: any       *)
(* UNUSED slot may be the one it finds. killed is as it was.               *)
Fork(p) ==
  /\ Calls(p) /\ nextpid <= MAXPID
  /\ \E q \in Slots :
       /\ state[q] = "UNUSED"
       /\ state' = [state EXCEPT ![q] = "USED"]
       /\ pid' = [pid EXCEPT ![q] = allocpid]
       /\ np' = [np EXCEPT ![p] = q]
  /\ nextpid' = nextpid + 1
  /\ Goto(p, "forked")
  /\ UNCHANGED <<parent, killed, wait_lock, born>>

(* kalloc(), proc_pagetable() or uvmcopy() fails: freeproc(np).            *)
ForkFails(p) ==
  /\ Calls(p) /\ nextpid <= MAXPID
  /\ \E q \in Slots :
       /\ state[q] = "UNUSED"
       /\ killed' = [killed EXCEPT ![q] = FALSE]
  /\ nextpid' = nextpid + 1
  /\ UNCHANGED <<state, pid, parent, wait_lock, pc, np, born>>

SetParent(p) ==
  /\ pc[p] = "forked" /\ wait_lock = 0
  /\ parent' = [parent EXCEPT ![np[p]] = p]
  /\ Goto(p, "parented")
  /\ UNCHANGED <<state, pid, killed, nextpid, wait_lock, np, born>>

MakeRunnable(p) ==
  /\ pc[p] = "parented"
  /\ state' = [state EXCEPT ![np[p]] = "RUNNABLE"]
  /\ born' = born \cup {pid[np[p]]}
  /\ pc' = [pc EXCEPT ![p] = "user", ![np[p]] = "user"]
  /\ np' = [np EXCEPT ![p] = 0]
  /\ UNCHANGED <<pid, parent, killed, nextpid, wait_lock>>

-----------------------------------------------------------------------------
Children(p) == { q \in Slots : parent[q] = p }

(* Fault: reparent() does not wake init.                                   *)
ExitQuiet(p) ==
  /\ InUser(p) /\ p # initproc
  /\ wait_lock = 0 /\ wait_lock' = p
  /\ parent' = [q \in Slots |-> IF q \in Children(p) THEN initproc ELSE parent[q]]
  /\ state' = Woken({parent[p]})
  /\ Goto(p, "exiting")
  /\ UNCHANGED <<pid, killed, nextpid, np, born>>

(* Fault: the children keep their parent.                                  *)
ExitAlone(p) ==
  /\ InUser(p) /\ p # initproc
  /\ wait_lock = 0 /\ wait_lock' = p
  /\ state' = Woken({parent[p]})
  /\ Goto(p, "exiting")
  /\ UNCHANGED <<parent, pid, killed, nextpid, np, born>>

(* Fault: the children go to their grandparent.                            *)
ExitUp(p) ==
  /\ InUser(p) /\ p # initproc
  /\ wait_lock = 0 /\ wait_lock' = p
  /\ parent' = [q \in Slots |-> IF q \in Children(p) THEN parent[p] ELSE parent[q]]
  /\ state' = Woken({parent[p]})
  /\ Goto(p, "exiting")
  /\ UNCHANGED <<pid, killed, nextpid, np, born>>

(* kexit(), by exit() or because usertrap() finds p killed: acquire        *)
(* wait_lock, reparent(p), wakeup(p->parent). No sleeper holds wait_lock,  *)
(* so no process is between its test and its sleep.                        *)
Exit(p) ==
  /\ InUser(p) /\ p # initproc
  /\ wait_lock = 0 /\ wait_lock' = p
  /\ parent' = [q \in Slots |-> IF q \in Children(p) THEN initproc ELSE parent[q]]
  /\ state' = Woken({parent[p]} \cup (IF Children(p) = {} THEN {} ELSE {initproc}))
  /\ Goto(p, "exiting")
  /\ UNCHANGED <<pid, killed, nextpid, np, born>>

(* kexit() by init, which user/init.c calls when fork() or wait() fails    *)
(* and usertrap() when init is killed: panic("init exiting") never         *)
(* returns, and the other processes go on without it.                      *)
InitExits(p) ==
  /\ InUser(p) /\ p = initproc
  /\ Goto(p, "panic")
  /\ UNCHANGED <<state, pid, parent, killed, nextpid, wait_lock, np, born>>

Panics(p) == pc[p] = "panic" /\ UNCHANGED vars

(* The rest: ZOMBIE, release wait_lock, and sched().                       *)
Zombie(p) ==
  /\ pc[p] = "exiting"
  /\ state' = [state EXCEPT ![p] = "ZOMBIE"]
  /\ wait_lock' = 0
  /\ Goto(p, "zombie")
  /\ UNCHANGED <<pid, parent, killed, nextpid, np, born>>

-----------------------------------------------------------------------------
(* kwait()                                                                 *)

Wait(p) ==
  /\ Calls(p) /\ wait_lock = 0
  /\ wait_lock' = p
  /\ Goto(p, "scan")
  /\ UNCHANGED <<state, pid, parent, killed, nextpid, np, born>>

ZombieChildren(p) == { q \in Children(p) : state[q] = "ZOMBIE" }

(* Fault: the pid is returned and freeproc() forgotten.                    *)
ReapKeeps(p) ==
  /\ pc[p] = "scan" /\ ZombieChildren(p) # {}
  /\ wait_lock' = 0
  /\ Goto(p, "user")
  /\ UNCHANGED <<state, pid, parent, killed, nextpid, np, born>>

(* The scan finds a zombie: freeproc(), and return its pid.                *)
Reap(p) ==
  /\ pc[p] = "scan"
  /\ \E q \in ZombieChildren(p) :
       /\ \A r \in ZombieChildren(p) : q <= r
       /\ state' = [state EXCEPT ![q] = "UNUSED"]
       /\ pid' = [pid EXCEPT ![q] = 0]
       /\ parent' = [parent EXCEPT ![q] = 0]
       /\ killed' = [killed EXCEPT ![q] = FALSE]
       /\ pc' = [pc EXCEPT ![p] = "user", ![q] = "user"]
  /\ wait_lock' = 0
  /\ UNCHANGED <<nextpid, np, born>>

(* The status cannot be copied out, or there are no children.              *)
WaitFails(p) ==
  /\ pc[p] = "scan"
  /\ \/ Children(p) = {}
     \/ ZombieChildren(p) # {} /\ p # initproc   \* init calls wait(0)
  /\ wait_lock' = 0
  /\ Goto(p, "user")
  /\ UNCHANGED <<state, pid, parent, killed, nextpid, np, born>>

(* havekids is set and nobody is a zombie: killed(p).                      *)
CheckKilled(p) ==
  /\ pc[p] = "scan" /\ Children(p) # {} /\ ZombieChildren(p) = {}
  /\ IF killed[p] THEN wait_lock' = 0 /\ Goto(p, "user")
                  ELSE UNCHANGED wait_lock /\ Goto(p, "toSleep")
  /\ UNCHANGED <<state, pid, parent, killed, nextpid, np, born>>

(* sleep(p, &wait_lock): p->lock is taken before wait_lock is released.    *)
Sleep(p) ==
  /\ pc[p] = "toSleep"
  /\ state' = [state EXCEPT ![p] = "SLEEPING"]
  /\ wait_lock' = 0
  /\ Goto(p, "asleep")
  /\ UNCHANGED <<pid, parent, killed, nextpid, np, born>>

(* Made RUNNABLE again: the end of sleep() takes wait_lock, and the loop   *)
(* starts over.                                                            *)
Resume(p) ==
  /\ pc[p] = "asleep" /\ state[p] = "RUNNABLE" /\ wait_lock = 0
  /\ wait_lock' = p
  /\ Goto(p, "scan")
  /\ UNCHANGED <<state, pid, parent, killed, nextpid, np, born>>

-----------------------------------------------------------------------------
(* kkill(k) by p: the first slot with that pid; UNUSED slots have pid 0.   *)
Kill(p) ==
  /\ Calls(p)
  /\ \E q \in Slots :
       /\ pid[q] \in KillPids
       /\ \A r \in Slots : pid[r] = pid[q] => q <= r
       /\ killed' = [killed EXCEPT ![q] = TRUE]
       /\ state' = Woken({q})
  /\ UNCHANGED <<pid, parent, nextpid, wait_lock, pc, np, born>>

Next ==
  \E p \in Slots :
    \/ Fork(p) \/ ForkFails(p) \/ SetParent(p) \/ MakeRunnable(p)
    \/ Exit(p) \/ InitExits(p) \/ Panics(p) \/ Zombie(p)
    \/ Wait(p) \/ Reap(p) \/ WaitFails(p) \/ CheckKilled(p) \/ Sleep(p) \/ Resume(p)
    \/ Kill(p)

Spec == Init /\ [][Next]_vars

(* Kernel code runs on; a lock that is free again and again is got; init   *)
(* calls wait() again and again, as user/init.c does; the next interrupt   *)
(* ends a process that is killed in user space.                            *)
Goes(p) ==
  \/ SetParent(p) \/ MakeRunnable(p) \/ Zombie(p)
  \/ Reap(p) \/ WaitFails(p) \/ CheckKilled(p) \/ Sleep(p) \/ Resume(p)
  \/ killed[p] /\ (Exit(p) \/ InitExits(p))
  \/ p = initproc /\ Wait(p)

FairSpec == Spec /\ \A p \in Slots : SF_vars(Goes(p))

-----------------------------------------------------------------------------
(* Types; in particular every pid given out stays within the counter.      *)
TypeOK ==
  /\ state \in [Slots -> {"UNUSED", "USED", "RUNNABLE", "SLEEPING", "ZOMBIE"}]
  /\ pid \in [Slots -> 0..MAXPID]
  /\ parent \in [Slots -> Slots \cup {0}]
  /\ killed \in [Slots -> BOOLEAN]
  /\ nextpid \in 2..(MAXPID + 1)
  /\ wait_lock \in Slots \cup {0}
  /\ pc \in [Slots -> {"user", "forked", "parented", "exiting", "zombie", "scan",
                       "toSleep", "asleep", "panic"}]
  /\ np \in [Slots -> Slots \cup {0}]
  /\ born \subseteq 1..MAXPID

(* Nobody sleeps in wait() who has something to wait for: no exit and no   *)
(* adoption of a zombie is missed.                                         *)
NoMissedExit ==
  \A p \in Slots : state[p] = "SLEEPING" => ZombieChildren(p) = {}

(* Every process but init has a parent that has not exited and so can      *)
(* still wait for it.                                                      *)
NoOrphan ==
  \A p \in Slots \ {initproc} :
    state[p] \in {"RUNNABLE", "SLEEPING", "ZOMBIE"} =>
      /\ parent[p] \in Slots
      /\ state[parent[p]] \in {"RUNNABLE", "SLEEPING"}
      /\ pc[parent[p]] # "exiting"

(* A process is in the tree from the moment it is RUNNABLE, and a zombie   *)
(* from the moment its children are given away.                            *)
LiveSlots == { p \in Slots : state[p] \in {"RUNNABLE", "SLEEPING"} /\ pc[p] # "exiting" }
ZombieSlots == { p \in Slots : state[p] = "ZOMBIE" \/ pc[p] = "exiting" }
Pids(ps) == { pid[p] : p \in ps }

Tree == INSTANCE ProcTree WITH
  Pid <- 1..MAXPID,
  live <- Pids(LiveSlots), zombie <- Pids(ZombieSlots),
  parentOf <- [c \in Pids(LiveSlots \cup ZombieSlots) |->
                 LET p == CHOOSE p \in LiveSlots \cup ZombieSlots : pid[p] = c
                 IN  IF parent[p] = 0 THEN 0 ELSE pid[parent[p]]]

(* fork(), exit() and wait() act on one tree of processes as if each were  *)
(* atomic: no pid names two processes, a zombie is reported once and to    *)
(* its parent, and an orphan becomes init's.                               *)
ImplementsProcTree == Tree!Spec

(* A zombie whose parent is init is reaped, unless init itself exits.      *)
OrphansReaped ==
  \A p \in Slots :
    state[p] = "ZOMBIE" /\ parent[p] = initproc ~>
      state[p] = "UNUSED" \/ pc[initproc] = "panic"
=============================================================================
