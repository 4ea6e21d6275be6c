----------------------------- MODULE ProcProofs -----------------------------
(***************************************************************************)
(* The process tree has no orphans and wait() misses no exit, for every    *)
(* number of slots and every pattern of calls and kills.                   *)
(***************************************************************************)
EXTENDS Proc, TLAPS

States == {"UNUSED", "USED", "RUNNABLE", "SLEEPING", "ZOMBIE"}
Places == {"user", "forked", "parented", "exiting", "zombie", "scan", "toSleep", "asleep",
           "panic"}
Alive == {"RUNNABLE", "SLEEPING"}

(* What the steps need of the types; pid, killed, nextpid and born have no *)
(* part in the argument.                                                   *)
Shape ==
  /\ state \in [Slots -> States]
  /\ parent \in [Slots -> Slots \cup {0}]
  /\ pc \in [Slots -> Places]
  /\ np \in [Slots -> Slots \cup {0}]

(* A place of the code tells the state.                                    *)
PlaceInv ==
  \A p \in Slots :
    /\ pc[p] \in {"forked", "parented", "exiting", "scan", "toSleep", "panic"} =>
         state[p] = "RUNNABLE"
    /\ pc[p] = "asleep" => state[p] \in Alive
    /\ pc[p] = "zombie" <=> state[p] = "ZOMBIE"
    /\ state[p] = "SLEEPING" => pc[p] = "asleep"

(* wait_lock is held from Exit to Zombie and from Wait to Sleep.           *)
LockInv ==
  \A p \in Slots : pc[p] \in {"exiting", "scan", "toSleep"} => wait_lock = p

(* A slot that kfork() is filling belongs to one caller.                   *)
ForkInv ==
  /\ \A p \in Slots : pc[p] \in {"forked", "parented"} =>
       np[p] \in Slots /\ state[np[p]] = "USED"
  /\ \A p \in Slots : pc[p] = "parented" => parent[np[p]] = p
  /\ \A p, q \in Slots :
       pc[p] \in {"forked", "parented"} /\ pc[q] \in {"forked", "parented"}
         /\ np[p] = np[q] => p = q

InitprocInv ==
  state[initproc] \in Alive /\ pc[initproc] # "exiting"

(* From the scan that found no zombie to the sleep none appears, and the   *)
(* parent of one that exits is awake.                                      *)
WaitInv ==
  \A p \in Slots :
    /\ pc[p] = "toSleep" => ZombieChildren(p) = {}
    /\ pc[p] = "exiting" /\ p # initproc => state[parent[p]] # "SLEEPING"

PInv ==
  /\ Shape /\ PlaceInv /\ LockInv /\ ForkInv /\ InitprocInv
  /\ WaitInv /\ NoMissedExit /\ NoOrphan

LEMMA SlotFacts ==
  /\ initproc \in Slots /\ 0 \notin Slots
BY ProcAssumption DEF Slots, initproc

LEMMA InitPInv == Init => PInv
BY SlotFacts
DEF Init, PInv, Shape, States, Places, Alive, PlaceInv, LockInv, ForkInv, InitprocInv,
    WaitInv, NoMissedExit, NoOrphan, ZombieChildren, Children, initproc

(* kfork() fills a slot: nobody's child yet, and nobody else's np.         *)
LEMMA ForkPInv ==
  ASSUME PInv, NEW p \in Slots, Fork(p)
  PROVE  PInv'
<1> USE SlotFacts
<1>1. PICK q \in Slots :
        /\ state[q] = "UNUSED" /\ state' = [state EXCEPT ![q] = "USED"]
        /\ np' = [np EXCEPT ![p] = q]
  BY Zenon DEF Fork
<1>2. /\ pc' = [pc EXCEPT ![p] = "forked"] /\ UNCHANGED <<parent, wait_lock>>
      /\ state[p] = "RUNNABLE" /\ pc[p] = "user"
  BY DEF Fork, Calls, InUser, Goto
<1>3. Shape' /\ PlaceInv' /\ LockInv'
  BY <1>1, <1>2 DEF PInv, Shape, States, Places, Alive, PlaceInv, LockInv
<1>4. ForkInv'
  BY <1>1, <1>2 DEF PInv, Shape, ForkInv
<1>5. InitprocInv' /\ NoOrphan'
  BY <1>1, <1>2 DEF PInv, Shape, InitprocInv, NoOrphan, Alive
<1>6. WaitInv' /\ NoMissedExit'
  BY <1>1, <1>2 DEF PInv, Shape, WaitInv, NoMissedExit, NoOrphan, ZombieChildren, Children, PlaceInv
<1> QED
  BY <1>3, <1>4, <1>5, <1>6 DEF PInv

LEMMA SetParentPInv ==
  ASSUME PInv, NEW p \in Slots, SetParent(p)
  PROVE  PInv'
<1> USE SlotFacts
<1>1. /\ pc[p] = "forked" /\ pc' = [pc EXCEPT ![p] = "parented"]
      /\ parent' = [parent EXCEPT ![np[p]] = p]
      /\ UNCHANGED <<state, wait_lock, np>>
  BY DEF SetParent, Goto
<1>2. np[p] \in Slots /\ state[np[p]] = "USED"
  BY <1>1 DEF PInv, ForkInv
<1>3. Shape' /\ PlaceInv' /\ LockInv'
  BY <1>1, <1>2 DEF PInv, Shape, States, Places, Alive, PlaceInv, LockInv
<1>4. ForkInv'
  BY <1>1, <1>2 DEF PInv, Shape, ForkInv
<1>5. InitprocInv' /\ NoOrphan'
  BY <1>1, <1>2 DEF PInv, Shape, InitprocInv, NoOrphan, Alive
<1>6. WaitInv' /\ NoMissedExit'
  BY <1>1, <1>2 DEF PInv, Shape, WaitInv, NoMissedExit, ZombieChildren, Children, PlaceInv
<1> QED
  BY <1>3, <1>4, <1>5, <1>6 DEF PInv

LEMMA MakeRunnablePInv ==
  ASSUME PInv, NEW p \in Slots, MakeRunnable(p)
  PROVE  PInv'
<1> USE SlotFacts
<1>1. /\ pc[p] = "parented" /\ pc' = [pc EXCEPT ![p] = "user", ![np[p]] = "user"]
      /\ state' = [state EXCEPT ![np[p]] = "RUNNABLE"]
      /\ np' = [np EXCEPT ![p] = 0]
      /\ UNCHANGED <<parent, wait_lock>>
  BY DEF MakeRunnable
<1>2. /\ np[p] \in Slots /\ state[np[p]] = "USED" /\ parent[np[p]] = p
      /\ state[p] = "RUNNABLE"
  BY <1>1 DEF PInv, ForkInv, PlaceInv
<1>3. Shape' /\ PlaceInv' /\ LockInv'
  BY <1>1, <1>2 DEF PInv, Shape, States, Places, Alive, PlaceInv, LockInv
<1>4. ForkInv'
  BY <1>1, <1>2 DEF PInv, Shape, ForkInv
<1>5. InitprocInv' /\ NoOrphan'
  BY <1>1, <1>2 DEF PInv, Shape, InitprocInv, NoOrphan, Alive
<1>6. WaitInv' /\ NoMissedExit'
  BY <1>1, <1>2 DEF PInv, Shape, WaitInv, NoMissedExit, ZombieChildren, Children, PlaceInv, NoOrphan
<1> QED
  BY <1>3, <1>4, <1>5, <1>6 DEF PInv

(* reparent() and the wakeups: the children get a parent that lives, and   *)
(* nobody sleeps over the zombies among them.                              *)
LEMMA ExitPInv ==
  ASSUME PInv, NEW p \in Slots, Exit(p)
  PROVE  PInv'
<1> USE SlotFacts
<1>1. /\ pc[p] = "user" /\ state[p] = "RUNNABLE" /\ p # initproc /\ wait_lock = 0
      /\ wait_lock' = p /\ pc' = [pc EXCEPT ![p] = "exiting"] /\ UNCHANGED np
      /\ parent' = [q \in Slots |-> IF q \in Children(p) THEN initproc ELSE parent[q]]
      /\ state' = Woken({parent[p]} \cup (IF Children(p) = {} THEN {} ELSE {initproc}))
  BY DEF Exit, InUser, Goto
<1>a. PICK ps : state' = Woken(ps)
  BY <1>1
<1>2. /\ state' \in [Slots -> States]
      /\ \A q \in Slots : \/ state'[q] = state[q]
                          \/ state[q] = "SLEEPING" /\ state'[q] = "RUNNABLE"
  BY <1>a DEF Woken, PInv, Shape, States
<1>3. \A q \in Slots : parent'[q] = IF parent[q] = p THEN initproc ELSE parent[q]
  BY <1>1 DEF Children
<1>4. parent[p] \in Slots /\ state'[parent[p]] # "SLEEPING"
  BY <1>1 DEF PInv, NoOrphan, Woken
<1>5. ASSUME NEW q \in Slots, parent[q] = p PROVE state'[initproc] # "SLEEPING"
  <2>1. Children(p) # {}
    BY <1>5 DEF Children
  <2> QED
    BY <1>1, <2>1 DEF Woken
<1>6. Shape' /\ PlaceInv' /\ LockInv'
  BY <1>1, <1>2, <1>3 DEF PInv, Shape, States, Places, Alive, PlaceInv, LockInv
<1>7. ForkInv'
  BY <1>1, <1>2, <1>3 DEF PInv, Shape, ForkInv, PlaceInv
<1>8. InitprocInv' /\ NoOrphan'
  BY <1>1, <1>2, <1>3, <1>4 DEF PInv, Shape, InitprocInv, NoOrphan, Alive
<1>9. WaitInv'
  BY <1>1, <1>2, <1>3, <1>4, <1>5 DEF PInv, Shape, WaitInv, LockInv, ZombieChildren, Children
<1>10. NoMissedExit'
  BY <1>1, <1>2, <1>3, <1>4, <1>5 DEF PInv, Shape, NoMissedExit, ZombieChildren, Children
<1> QED
  BY <1>6, <1>7, <1>8, <1>9, <1>10 DEF PInv

(* init stops where it is, and goes on being the parent of its children.   *)
LEMMA InitExitsPInv ==
  ASSUME PInv, NEW p \in Slots, InitExits(p)
  PROVE  PInv'
<1> USE SlotFacts
<1>1. /\ pc[p] = "user" /\ state[p] = "RUNNABLE" /\ pc' = [pc EXCEPT ![p] = "panic"]
      /\ UNCHANGED <<state, parent, np, wait_lock>>
  BY DEF InitExits, InUser, Goto
<1>2. Shape' /\ PlaceInv' /\ LockInv'
  BY <1>1 DEF PInv, Shape, States, Places, Alive, PlaceInv, LockInv
<1>3. ForkInv' /\ InitprocInv' /\ NoOrphan'
  BY <1>1 DEF PInv, Shape, ForkInv, InitprocInv, NoOrphan, Alive
<1>4. WaitInv' /\ NoMissedExit'
  BY <1>1 DEF PInv, Shape, WaitInv, NoMissedExit, ZombieChildren, Children
<1> QED
  BY <1>2, <1>3, <1>4 DEF PInv

(* p holds wait_lock and has no children left; its parent is awake.        *)
LEMMA ZombiePInv ==
  ASSUME PInv, NEW p \in Slots, Zombie(p)
  PROVE  PInv'
<1> USE SlotFacts
<1>1. /\ pc[p] = "exiting" /\ pc' = [pc EXCEPT ![p] = "zombie"]
      /\ state' = [state EXCEPT ![p] = "ZOMBIE"] /\ wait_lock' = 0
      /\ UNCHANGED <<parent, np>>
  BY DEF Zombie, Goto
<1>2. /\ wait_lock = p /\ p # initproc /\ state[p] = "RUNNABLE"
      /\ \A q \in Slots : pc[q] \in {"exiting", "scan", "toSleep"} => q = p
  BY <1>1 DEF PInv, LockInv, InitprocInv, PlaceInv
<1>3. Shape' /\ PlaceInv' /\ LockInv'
  BY <1>1, <1>2 DEF PInv, Shape, States, Places, Alive, PlaceInv, LockInv
<1>4. ForkInv'
  BY <1>1, <1>2 DEF PInv, Shape, ForkInv
<1>5. InitprocInv' /\ NoOrphan'
  BY <1>1, <1>2 DEF PInv, Shape, InitprocInv, NoOrphan, Alive
<1>6. WaitInv' /\ NoMissedExit'
  BY <1>1, <1>2 DEF PInv, Shape, WaitInv, NoMissedExit, ZombieChildren, Children, NoOrphan
<1> QED
  BY <1>3, <1>4, <1>5, <1>6 DEF PInv

(* The steps of kwait() that only move the caller and wait_lock.           *)
LEMMA MovePInv ==
  ASSUME PInv, NEW p \in Slots, NEW l \in {"user", "scan", "toSleep"},
         state[p] = "RUNNABLE", pc[p] \in {"user", "asleep", "scan"},
         wait_lock \in {0, p},
         wait_lock' = (IF l = "user" THEN 0 ELSE p),
         l = "toSleep" => ZombieChildren(p) = {},
         pc' = [pc EXCEPT ![p] = l], UNCHANGED <<state, parent, np>>
  PROVE  PInv'
<1> USE SlotFacts
<1>1. Shape' /\ PlaceInv' /\ LockInv'
  BY DEF PInv, Shape, States, Places, Alive, PlaceInv, LockInv
<1>2. ForkInv' /\ InitprocInv' /\ NoOrphan'
  BY DEF PInv, Shape, ForkInv, InitprocInv, NoOrphan, Alive
<1>3. WaitInv' /\ NoMissedExit'
  BY DEF PInv, Shape, WaitInv, NoMissedExit, ZombieChildren, Children
<1> QED
  BY <1>1, <1>2, <1>3 DEF PInv

(* The slot that kwait() frees was nobody's parent.                        *)
LEMMA ReapPInv ==
  ASSUME PInv, NEW p \in Slots, Reap(p)
  PROVE  PInv'
<1> USE SlotFacts
<1>1. PICK q \in ZombieChildren(p) :
        /\ state' = [state EXCEPT ![q] = "UNUSED"]
        /\ parent' = [parent EXCEPT ![q] = 0]
        /\ pc' = [pc EXCEPT ![p] = "user", ![q] = "user"]
  BY Zenon DEF Reap
<1>2. pc[p] = "scan" /\ wait_lock' = 0 /\ UNCHANGED np
  BY DEF Reap
<1>3. q \in Slots /\ parent[q] = p /\ state[q] = "ZOMBIE"
  BY DEF ZombieChildren, Children
<1>4. /\ wait_lock = p /\ state[p] = "RUNNABLE"
      /\ \A r \in Slots : pc[r] \in {"exiting", "scan", "toSleep"} => r = p
  BY <1>2 DEF PInv, LockInv, PlaceInv
<1>5. Shape' /\ PlaceInv' /\ LockInv'
  BY <1>1, <1>2, <1>3, <1>4 DEF PInv, Shape, States, Places, Alive, PlaceInv, LockInv
<1>6. ForkInv'
  BY <1>1, <1>2, <1>3 DEF PInv, Shape, ForkInv
<1>7. InitprocInv' /\ NoOrphan'
  BY <1>1, <1>2, <1>3, <1>4 DEF PInv, Shape, InitprocInv, NoOrphan, Alive
<1>8. WaitInv' /\ NoMissedExit'
  BY <1>1, <1>2, <1>3, <1>4
  DEF PInv, Shape, WaitInv, NoMissedExit, ZombieChildren, Children
<1> QED
  BY <1>5, <1>6, <1>7, <1>8 DEF PInv

(* The scan before it found no zombie, and wait_lock was held since.       *)
LEMMA SleepPInv ==
  ASSUME PInv, NEW p \in Slots, Sleep(p)
  PROVE  PInv'
<1> USE SlotFacts
<1>1. /\ pc[p] = "toSleep" /\ pc' = [pc EXCEPT ![p] = "asleep"]
      /\ state' = [state EXCEPT ![p] = "SLEEPING"] /\ wait_lock' = 0
      /\ UNCHANGED <<parent, np>>
  BY DEF Sleep, Goto
<1>2. /\ wait_lock = p /\ state[p] = "RUNNABLE"
      /\ \A q \in Slots : pc[q] \in {"exiting", "scan", "toSleep"} => q = p
  BY <1>1 DEF PInv, LockInv, PlaceInv
<1>3. Shape' /\ PlaceInv' /\ LockInv'
  BY <1>1, <1>2 DEF PInv, Shape, States, Places, Alive, PlaceInv, LockInv
<1>4. ForkInv'
  BY <1>1, <1>2 DEF PInv, Shape, ForkInv
<1>5. InitprocInv' /\ NoOrphan'
  BY <1>1, <1>2 DEF PInv, Shape, InitprocInv, NoOrphan, Alive
<1>6. WaitInv' /\ NoMissedExit'
  BY <1>1, <1>2 DEF PInv, Shape, WaitInv, NoMissedExit, ZombieChildren, Children
<1> QED
  BY <1>3, <1>4, <1>5, <1>6 DEF PInv

(* kkill() can only wake.                                                  *)
LEMMA KillPInv ==
  ASSUME PInv, NEW p \in Slots, Kill(p)
  PROVE  PInv'
<1> USE SlotFacts
<1>1. UNCHANGED <<pc, parent, np, wait_lock>>
  BY DEF Kill
<1>2. PICK ps : state' = Woken(ps)
  BY DEF Kill
<1>3. /\ state' \in [Slots -> States]
      /\ \A q \in Slots : \/ state'[q] = state[q]
                          \/ state[q] = "SLEEPING" /\ state'[q] = "RUNNABLE"
  BY <1>2 DEF Woken, PInv, Shape, States
<1>4. Shape' /\ PlaceInv' /\ LockInv' /\ ForkInv'
  BY <1>1, <1>3 DEF PInv, Shape, States, Alive, PlaceInv, LockInv, ForkInv
<1>5. InitprocInv' /\ NoOrphan'
  BY <1>1, <1>3 DEF PInv, Shape, InitprocInv, NoOrphan, Alive
<1>6. WaitInv' /\ NoMissedExit'
  BY <1>1, <1>3 DEF PInv, Shape, WaitInv, NoMissedExit, ZombieChildren, Children, NoOrphan, PlaceInv
<1> QED
  BY <1>4, <1>5, <1>6 DEF PInv

LEMMA NextPInv == PInv /\ [Next]_vars => PInv'
<1> SUFFICES ASSUME PInv, [Next]_vars PROVE PInv'
  OBVIOUS
<1> USE SlotFacts
<1>1. CASE UNCHANGED <<state, parent, pc, np, wait_lock>>
  BY <1>1 DEF PInv, Shape, PlaceInv, LockInv, ForkInv, InitprocInv, WaitInv, NoMissedExit,
              NoOrphan, ZombieChildren, Children
<1>2. ASSUME NEW p \in Slots, Wait(p) \/ Resume(p) \/ WaitFails(p) \/ CheckKilled(p)
      PROVE  PInv'
  <2>1. pc[p] = "scan" => wait_lock = p /\ state[p] = "RUNNABLE"
    BY DEF PInv, LockInv, PlaceInv
  <2>2. CASE Wait(p)
    BY Zenon, <2>2, MovePInv DEF Wait, Calls, InUser, Goto
  <2>3. CASE Resume(p)
    BY Zenon, <2>3, MovePInv DEF Resume, Goto
  <2>4. CASE WaitFails(p)
    BY Zenon, <2>1, <2>4, MovePInv DEF WaitFails, Goto
  <2>5. CASE CheckKilled(p)
    BY <2>1, <2>5, MovePInv DEF CheckKilled, Goto
  <2> QED
    BY <1>2, <2>2, <2>3, <2>4, <2>5
<1>3. CASE UNCHANGED vars
  BY <1>1, <1>3 DEF vars
<1>4. CASE Next
  <2>1. PICK p \in Slots :
    \/ Fork(p) \/ ForkFails(p) \/ SetParent(p) \/ MakeRunnable(p)
    \/ Exit(p) \/ InitExits(p) \/ Panics(p) \/ Zombie(p)
    \/ Wait(p) \/ Reap(p) \/ WaitFails(p) \/ CheckKilled(p) \/ Sleep(p) \/ Resume(p)
    \/ Kill(p)
    BY <1>4 DEF Next
  <2>2. CASE ForkFails(p)
    BY <1>1, <2>2 DEF ForkFails
  <2>3. CASE Panics(p)
    BY <1>3, <2>3 DEF Panics
  <2> QED
    BY <1>2, <2>1, <2>2, <2>3, ForkPInv, SetParentPInv, MakeRunnablePInv, ExitPInv,
       InitExitsPInv, ZombiePInv, ReapPInv, SleepPInv, KillPInv
<1> QED
  BY <1>3, <1>4

(* Every zombie and every running process but init has a parent that can   *)
(* still wait for it, whatever forks, exits, waits and kills overlap.      *)
THEOREM NoOrphans == Spec => []NoOrphan
<1>1. PInv => NoOrphan
  BY DEF PInv
<1> QED
  BY InitPInv, NextPInv, <1>1, PTL DEF Spec

(* Nobody sleeps in wait() over a zombie: the wakeups of kexit() and       *)
(* reparent() are under the lock that the sleeper held when it looked.     *)
THEOREM ExitsAreSeen == Spec => []NoMissedExit
<1>1. PInv => NoMissedExit
  BY DEF PInv
<1> QED
  BY InitPInv, NextPInv, <1>1, PTL DEF Spec
=============================================================================
