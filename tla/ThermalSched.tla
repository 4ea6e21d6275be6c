---------------------------- MODULE ThermalSched ----------------------------
(***************************************************************************)
(* The thermal-aware process scheduler of kernel/proc.c: scheduler(), run  *)
(* by every CPU, the globals it shares without a lock (cpu_temp,           *)
(* tm_had_children, summary_printed), the per-process heat and             *)
(* waiting_tick it maintains under p->lock, and the clock interrupt of     *)
(* kernel/trap.c that heats and cools the CPU.                             *)
(*                                                                         *)
(* One step is one critical section of a p->lock (one iteration of one of  *)
(* the scheduler's loops over proc[]) or one access to an unlocked global. *)
(* update_cpu_temp() is compiled to one load and one store of cpu_temp, so *)
(* it takes two steps here and updates of two CPUs can be lost.            *)
(*                                                                         *)
(* What a running process does is reduced to what the scheduler can see of *)
(* it: its state, its parent, whether its program is a thermal test.       *)
(***************************************************************************)
EXTENDS Integers

CONSTANTS
  CPU,                \* the harts that run scheduler()
  NPROC,              \* slots of proc[]; slot 1 is initproc
  MAXPID,             \* bound: pids handed out by allocpid
  Workload,           \* what processes do: a subset of Operations
  WARM_TEMP, HOT_TEMP, THROTTLE_TEMP,
  TEMP_START, TEMP_LOW, TEMP_HIGH,  \* 25 and the clamp [20, 100]
  FAST_COOLING,       \* above this (50) an idle update cools by 2, not 1
  HEAT_INCREMENT, HEAT_DECAY, MAX_HEAT, HEAT_COOL_THRESH, HEAT_WARM_THRESH,
  HEAT_STEP,          \* 30: heat that adds one degree to an update
  STARVE_TICKS

Operations == {"fork", "exec", "sleep", "wakeup", "exit", "wait"}

ASSUME SchedAssumption ==
  /\ NPROC \in Nat \ {0}
  /\ MAXPID \in Nat \ {0}
  /\ Workload \subseteq Operations
  /\ {WARM_TEMP, HOT_TEMP, THROTTLE_TEMP, FAST_COOLING} \subseteq Int
  /\ {TEMP_START, TEMP_LOW, TEMP_HIGH} \subseteq Int
  /\ TEMP_LOW <= TEMP_START /\ TEMP_START <= TEMP_HIGH
  /\ {HEAT_INCREMENT, HEAT_DECAY, MAX_HEAT} \subseteq Nat
  /\ {HEAT_COOL_THRESH, HEAT_WARM_THRESH} \subseteq Nat
  /\ HEAT_STEP \in Nat \ {0}
  /\ STARVE_TICKS \in Nat
  /\ 0 \notin CPU

Slots == 1..NPROC
initproc == 1

VARIABLES
  state, pid, parent, is_test,    \* struct proc; is_test: is_thermal_test(name)
  heat, waiting_tick,
  plock,                          \* the CPU that holds p->lock, 0 if free
  nextpid,
  cpu_temp, tm_had_children, summary_printed,   \* globals with no lock
  pc, idx, chosen, lowest_heat, skipped,        \* locals of scheduler()
  reg,                            \* cpu_temp in a register, to be stored
  cproc,                          \* c->proc, 0 for none
  summaries                       \* history: summaries printed in this run

procVars   == <<pid, parent, is_test, nextpid>>
sumVars    == <<tm_had_children, summary_printed, summaries>>
pickVars   == <<chosen, lowest_heat, skipped>>
vars == <<state, pid, parent, is_test, heat, waiting_tick, plock, nextpid,
          cpu_temp, tm_had_children, summary_printed, pc, idx, chosen,
          lowest_heat, skipped, reg, cproc, summaries>>

ProcState == {"UNUSED", "SLEEPING", "RUNNABLE", "RUNNING", "ZOMBIE"}
SchedPc == {"top", "idletick", "active", "print", "reset", "decay", "throttle",
            "passA", "mark", "marked", "passB", "passC", "waiting", "dispatch",
            "cool", "cooled"}
ProcPc  == {"heating", "heated", "run", "tick", "ticked", "swtch"}

Smaller(a, b) == IF a < b THEN a ELSE b
Larger(a, b)  == IF a > b THEN a ELSE b

-----------------------------------------------------------------------------
(* update_cpu_temp(process_heat): what the store writes for a loaded t.    *)

Clamp(t) == Larger(TEMP_LOW, Smaller(TEMP_HIGH, t))

(* Fault: an update with no clamp.                                         *)
UnclampedTemp(t, process_heat) ==
  IF process_heat > 0 THEN t + 1 + (process_heat \div HEAT_STEP)
  ELSE IF t > FAST_COOLING THEN t - 2 ELSE t - 1

UpdatedTemp(t, process_heat) ==
  Clamp(IF process_heat > 0 THEN t + 1 + (process_heat \div HEAT_STEP)
        ELSE IF t > FAST_COOLING THEN t - 2 ELSE t - 1)

(* The thermal gate of passes A and B, with its starvation bypass.         *)
Dominated(p) ==
  /\ waiting_tick[p] < STARVE_TICKS
  /\ \/ cpu_temp >= HOT_TEMP  /\ heat[p] >= HEAT_COOL_THRESH
     \/ cpu_temp >= WARM_TEMP /\ heat[p] >= HEAT_WARM_THRESH

(* p->parent != 0 && is_thermal_test(p->parent->name)                      *)
TestChild(p) == parent[p] # 0 /\ is_test[parent[p]]

(* A child of a test program that has not exited.                          *)
ActiveTest(p) == state[p] \notin {"UNUSED", "ZOMBIE"} /\ TestChild(p)

Free(p) == plock[p] = 0

Goto(c, label) == pc' = [pc EXCEPT ![c] = label]

(* The end of one iteration of a loop over proc[]: the next slot, or, past *)
(* the last one, the code at label.                                        *)
NextSlot(c, label) ==
  IF idx[c] < NPROC
    THEN idx' = [idx EXCEPT ![c] = @ + 1] /\ UNCHANGED pc
    ELSE idx' = [idx EXCEPT ![c] = 1] /\ Goto(c, label)

LeaveLoop(c, label) == idx' = [idx EXCEPT ![c] = 1] /\ Goto(c, label)

(* cpu_temp = the value computed in the register, which is dead then.      *)
StoreTemp(c) ==
  /\ cpu_temp' = reg[c]
  /\ reg' = [reg EXCEPT ![c] = TEMP_LOW]

(* chosen = 0; skipped = 0 at the head of the loop: nothing reads them     *)
(* between the end of a round and there.                                   *)
NewPick(c) ==
  /\ chosen' = [chosen EXCEPT ![c] = 0]
  /\ skipped' = [skipped EXCEPT ![c] = 0]
  /\ UNCHANGED lowest_heat

-----------------------------------------------------------------------------
(* Every CPU at the head of scheduler()'s loop, no lock held, nothing      *)
(* measured yet.                                                           *)
InitSched ==
  /\ heat = [p \in Slots |-> 0]
  /\ waiting_tick = [p \in Slots |-> 0]
  /\ plock = [p \in Slots |-> 0]
  /\ cpu_temp = TEMP_START
  /\ tm_had_children = FALSE
  /\ summary_printed = FALSE
  /\ pc = [c \in CPU |-> "top"]
  /\ idx = [c \in CPU |-> 1]
  /\ chosen = [c \in CPU |-> 0]
  /\ lowest_heat = [c \in CPU |-> MAX_HEAT + 1]
  /\ skipped = [c \in CPU |-> 0]
  /\ reg = [c \in CPU |-> TEMP_LOW]
  /\ cproc = [c \in CPU |-> 0]
  /\ summaries = 0

(* After userinit(): init alone, RUNNABLE.                                 *)
Init ==
  /\ InitSched
  /\ state = [p \in Slots |-> IF p = initproc THEN "RUNNABLE" ELSE "UNUSED"]
  /\ pid = [p \in Slots |-> IF p = initproc THEN 1 ELSE 0]
  /\ parent = [p \in Slots |-> 0]
  /\ is_test = [p \in Slots |-> FALSE]
  /\ nextpid = 2

(* The window intr_on(); intr_off() of a CPU with no process: clockintr()  *)
(* runs update_cpu_temp(0).                                                *)
IdleTick(c) ==
  /\ pc[c] = "top"
  /\ reg' = [reg EXCEPT ![c] = UpdatedTemp(cpu_temp, 0)]
  /\ Goto(c, "idletick")
  /\ UNCHANGED <<state, heat, waiting_tick, plock, cpu_temp, idx, cproc,
                 procVars, sumVars, pickVars>>

(* The head of the loop, to the test of STEP 0.                            *)
StartRound(c) ==
  /\ pc[c] \in {"top", "idletick"}
  /\ IF pc[c] = "idletick" THEN StoreTemp(c) ELSE UNCHANGED <<cpu_temp, reg>>
  /\ Goto(c, IF tm_had_children /\ ~summary_printed THEN "active" ELSE "decay")
  /\ UNCHANGED <<state, heat, waiting_tick, plock, idx, cproc, procVars,
                 sumVars, pickVars>>

(* Fault: a child that sleeps is taken for one that has finished.          *)
ScanAwake(c) ==
  LET p == idx[c] IN
  /\ pc[c] = "active" /\ Free(p)
  /\ IF state[p] \in {"RUNNABLE", "RUNNING"} /\ TestChild(p)
       THEN LeaveLoop(c, "decay")
       ELSE NextSlot(c, "print")
  /\ UNCHANGED <<state, heat, waiting_tick, plock, cpu_temp, reg, cproc,
                 procVars, sumVars, pickVars>>

(* STEP 0: is a child of a test program still active?                      *)
ScanActive(c) ==
  LET p == idx[c] IN
  /\ pc[c] = "active" /\ Free(p)
  /\ IF ActiveTest(p)
       THEN LeaveLoop(c, "decay")
       ELSE NextSlot(c, "print")
  /\ UNCHANGED <<state, heat, waiting_tick, plock, cpu_temp, reg, cproc,
                 procVars, sumVars, pickVars>>

PrintSummary(c) ==
  /\ pc[c] = "print"
  /\ summary_printed' = TRUE
  /\ summaries' = Smaller(summaries + 1, 2)
  /\ Goto(c, "reset")
  /\ UNCHANGED <<state, heat, waiting_tick, plock, cpu_temp, idx, reg, cproc,
                 tm_had_children, procVars, pickVars>>

ResetMetrics(c) ==
  /\ pc[c] = "reset"
  /\ tm_had_children' = FALSE
  /\ Goto(c, "decay")
  /\ UNCHANGED <<state, heat, waiting_tick, plock, cpu_temp, idx, reg, cproc,
                 summary_printed, summaries, procVars, pickVars>>

(* STEP 1: a process that is not using a CPU cools down.                   *)
Decay(c) ==
  LET p == idx[c] IN
  /\ pc[c] = "decay" /\ Free(p)
  /\ heat' = IF state[p] \in {"RUNNABLE", "SLEEPING"}
               THEN [heat EXCEPT ![p] = Larger(0, @ - HEAT_DECAY)]
               ELSE heat
  /\ NextSlot(c, "throttle")
  /\ UNCHANGED <<state, waiting_tick, plock, cpu_temp, reg, cproc, procVars,
                 sumVars, pickVars>>

(* Fault: off by one at the threshold.                                     *)
ThrottleAbove(c) ==
  /\ pc[c] = "throttle"
  /\ Goto(c, IF cpu_temp > THROTTLE_TEMP THEN "cool" ELSE "passA")
  /\ UNCHANGED <<state, heat, waiting_tick, plock, cpu_temp, idx, reg, cproc,
                 procVars, sumVars, pickVars>>

(* STEP 2: the hard throttle.                                              *)
Throttle(c) ==
  /\ pc[c] = "throttle"
  /\ Goto(c, IF cpu_temp >= THROTTLE_TEMP THEN "cool" ELSE "passA")
  /\ UNCHANGED <<state, heat, waiting_tick, plock, cpu_temp, idx, reg, cproc,
                 procVars, sumVars, pickVars>>

(* update_cpu_temp(0); wfi; and back to the head of the loop: the end of a *)
(* throttled round and of a round that chose no process.                   *)
CoolLoad(c) ==
  /\ pc[c] = "cool"
  /\ reg' = [reg EXCEPT ![c] = UpdatedTemp(cpu_temp, 0)]
  /\ Goto(c, "cooled")
  /\ UNCHANGED <<state, heat, waiting_tick, plock, cpu_temp, idx, cproc,
                 procVars, sumVars, pickVars>>

CoolStore(c) ==
  /\ pc[c] = "cooled"
  /\ StoreTemp(c)
  /\ NewPick(c)
  /\ Goto(c, "top")
  /\ UNCHANGED <<state, heat, waiting_tick, plock, idx, cproc, procVars,
                 sumVars>>

(* Fault: the first test child instead of the one with the lowest pid.     *)
FirstTest(c, p) == IF chosen[c] = 0 THEN p ELSE chosen[c]

(* Pass A's "if(chosen == 0 || p->pid < chosen->pid) chosen = p".          *)
LowestPid(c, p) ==
  IF chosen[c] = 0 \/ pid[p] < pid[chosen[c]] THEN p ELSE chosen[c]

(* Pass A ends in pass B only when it chose nothing.                       *)
AfterA(ch) == IF ch = 0 THEN "passB" ELSE "waiting"

(* Fault: a test child is taken without asking the thermal gate.           *)
PassANoGate(c) ==
  LET p    == idx[c]
      test == state[p] = "RUNNABLE" /\ TestChild(p)
  IN
  /\ pc[c] = "passA" /\ Free(p)
  /\ IF test
       THEN /\ plock' = [plock EXCEPT ![p] = c]
            /\ Goto(c, IF tm_had_children THEN "marked" ELSE "mark")
            /\ UNCHANGED idx
       ELSE /\ NextSlot(c, AfterA(chosen[c]))
            /\ UNCHANGED plock
  /\ UNCHANGED <<state, heat, waiting_tick, cpu_temp, reg, cproc, lowest_heat,
                 skipped, chosen, procVars, sumVars>>

(* STEP 3, pass A: the thermal gate, then the test child with the lowest   *)
(* pid. A test child is noted in tm_had_children, by an unlocked load and  *)
(* one or two unlocked stores, with p->lock held.                          *)
PassA(c) ==
  LET p     == idx[c]
      gated == state[p] = "RUNNABLE" /\ Dominated(p)
      test  == state[p] = "RUNNABLE" /\ ~Dominated(p) /\ TestChild(p)
  IN
  /\ pc[c] = "passA" /\ Free(p)
  /\ skipped' = IF gated THEN [skipped EXCEPT ![c] = @ + 1] ELSE skipped
  /\ IF test
       THEN /\ plock' = [plock EXCEPT ![p] = c]
            /\ Goto(c, IF tm_had_children THEN "marked" ELSE "mark")
            /\ UNCHANGED idx
       ELSE /\ NextSlot(c, AfterA(chosen[c]))
            /\ UNCHANGED plock
  /\ UNCHANGED <<state, heat, waiting_tick, cpu_temp, reg, cproc, lowest_heat,
                 chosen, procVars, sumVars>>

(* summary_printed = 0: "reset guard only on 0->1 transition (new run)".   *)
MarkRun(c) ==
  /\ pc[c] = "mark"
  /\ summary_printed' = FALSE
  /\ summaries' = 0
  /\ Goto(c, "marked")
  /\ UNCHANGED <<state, heat, waiting_tick, plock, cpu_temp, idx, reg, cproc,
                 tm_had_children, procVars, pickVars>>

(* tm_had_children = 1, and the rest of the iteration.                     *)
PickTest(c) ==
  LET p  == idx[c]
      ch == LowestPid(c, p)
  IN
  /\ pc[c] = "marked"
  /\ tm_had_children' = TRUE
  /\ chosen' = [chosen EXCEPT ![c] = ch]
  /\ plock' = [plock EXCEPT ![p] = 0]
  /\ idx' = [idx EXCEPT ![c] = IF p < NPROC THEN p + 1 ELSE 1]
  /\ Goto(c, IF p < NPROC THEN "passA" ELSE AfterA(ch))
  /\ UNCHANGED <<state, heat, waiting_tick, cpu_temp, reg, cproc, lowest_heat,
                 skipped, summary_printed, summaries, procVars>>

(* Pass B: the process with the lowest heat, the first one on a tie, among *)
(* those that pass the gate. lowest_heat is a local of the pass.           *)
PassB(c) ==
  LET p      == idx[c]
      gated  == state[p] = "RUNNABLE" /\ Dominated(p)
      better == state[p] = "RUNNABLE" /\ ~Dominated(p)
                  /\ heat[p] < lowest_heat[c]
      ch     == IF better THEN p ELSE chosen[c]
  IN
  /\ pc[c] = "passB" /\ Free(p)
  /\ skipped' = IF gated THEN [skipped EXCEPT ![c] = @ + 1] ELSE skipped
  /\ chosen' = [chosen EXCEPT ![c] = ch]
  /\ lowest_heat' = [lowest_heat EXCEPT ![c] =
                       IF p = NPROC THEN MAX_HEAT + 1
                       ELSE IF better THEN heat[p] ELSE @]
  /\ NextSlot(c, IF ch = 0 THEN "passC" ELSE "waiting")
  /\ UNCHANGED <<state, heat, waiting_tick, plock, cpu_temp, reg, cproc,
                 procVars, sumVars>>

(* Pass C: any RUNNABLE process.                                           *)
PassC(c) ==
  LET p == idx[c] IN
  /\ pc[c] = "passC" /\ Free(p)
  /\ IF state[p] = "RUNNABLE"
       THEN chosen' = [chosen EXCEPT ![c] = p] /\ LeaveLoop(c, "waiting")
       ELSE NextSlot(c, "waiting") /\ UNCHANGED chosen
  /\ UNCHANGED <<state, heat, waiting_tick, plock, cpu_temp, reg, cproc,
                 lowest_heat, skipped, procVars, sumVars>>

(* STEP 4: the processes that were not chosen wait. waiting_tick is only   *)
(* compared with STARVE_TICKS, so it stops counting there.                 *)
CountWaiting(c) ==
  LET p == idx[c] IN
  /\ pc[c] = "waiting" /\ Free(p)
  /\ waiting_tick' =
       IF state[p] = "RUNNABLE" /\ p # chosen[c]
         THEN [waiting_tick EXCEPT ![p] = Smaller(@ + 1, STARVE_TICKS)]
         ELSE waiting_tick
  /\ NextSlot(c, IF chosen[c] = 0 THEN "cool" ELSE "dispatch")
  /\ UNCHANGED <<state, heat, plock, cpu_temp, reg, cproc, procVars, sumVars,
                 pickVars>>

(* Fault: the state is not tested again under the lock.                    *)
DispatchStale(c) ==
  LET p == chosen[c] IN
  /\ pc[c] = "dispatch" /\ Free(p)
  /\ state' = [state EXCEPT ![p] = "RUNNING"]
  /\ cproc' = [cproc EXCEPT ![c] = p]
  /\ plock' = [plock EXCEPT ![p] = c]
  /\ waiting_tick' = [waiting_tick EXCEPT ![p] = 0]
  /\ heat' = [heat EXCEPT ![p] = Smaller(@ + HEAT_INCREMENT, MAX_HEAT)]
  /\ Goto(c, "heating")
  /\ NewPick(c)
  /\ UNCHANGED <<cpu_temp, idx, reg, procVars, sumVars>>

(* STEP 5: lock the chosen process, and run it if it is still RUNNABLE.    *)
Dispatch(c) ==
  LET p == chosen[c] IN
  /\ pc[c] = "dispatch" /\ Free(p)
  /\ IF state[p] = "RUNNABLE"
       THEN /\ state' = [state EXCEPT ![p] = "RUNNING"]
            /\ cproc' = [cproc EXCEPT ![c] = p]
            /\ plock' = [plock EXCEPT ![p] = c]
            /\ waiting_tick' = [waiting_tick EXCEPT ![p] = 0]
            /\ heat' = [heat EXCEPT ![p] = Smaller(@ + HEAT_INCREMENT, MAX_HEAT)]
            /\ Goto(c, "heating")
       ELSE /\ Goto(c, "top")
            /\ UNCHANGED <<state, cproc, plock, waiting_tick, heat>>
  /\ NewPick(c)
  /\ UNCHANGED <<cpu_temp, idx, reg, procVars, sumVars>>

HeatLoad(c) ==
  /\ pc[c] = "heating"
  /\ reg' = [reg EXCEPT ![c] = UpdatedTemp(cpu_temp, heat[cproc[c]])]
  /\ Goto(c, "heated")
  /\ UNCHANGED <<state, heat, waiting_tick, plock, cpu_temp, idx, cproc,
                 procVars, sumVars, pickVars>>

(* The store, then swtch() into the process, which releases its own lock.  *)
HeatStore(c) ==
  /\ pc[c] = "heated"
  /\ StoreTemp(c)
  /\ plock' = [plock EXCEPT ![cproc[c]] = 0]
  /\ Goto(c, "run")
  /\ UNCHANGED <<state, heat, waiting_tick, idx, cproc, procVars, sumVars,
                 pickVars>>

-----------------------------------------------------------------------------
(* The running process of CPU c, as the scheduler sees it.                 *)

(* A timer interrupt: clockintr() runs update_cpu_temp(1), then usertrap() *)
(* or kerneltrap() calls yield().                                          *)
TickLoad(c) ==
  /\ pc[c] = "run"
  /\ reg' = [reg EXCEPT ![c] = UpdatedTemp(cpu_temp, 1)]
  /\ Goto(c, "tick")
  /\ UNCHANGED <<state, heat, waiting_tick, plock, cpu_temp, idx, cproc,
                 procVars, sumVars, pickVars>>

TickStore(c) ==
  /\ pc[c] = "tick"
  /\ StoreTemp(c)
  /\ Goto(c, "ticked")
  /\ UNCHANGED <<state, heat, waiting_tick, plock, idx, cproc, procVars,
                 sumVars, pickVars>>

(* Fault: p->lock is released before swtch().                              *)
GiveUpUnlocked(c, newState) ==
  LET p == cproc[c] IN
  /\ Free(p)
  /\ state' = [state EXCEPT ![p] = newState]
  /\ Goto(c, "swtch")
  /\ UNCHANGED <<heat, waiting_tick, plock, cpu_temp, idx, reg, cproc, sumVars,
                 pickVars>>

(* acquire(&p->lock); p->state = newState; sched(). The lock stays held    *)
(* until the scheduler has left the process's stack.                       *)
GiveUp(c, newState) ==
  LET p == cproc[c] IN
  /\ Free(p)
  /\ plock' = [plock EXCEPT ![p] = c]
  /\ state' = [state EXCEPT ![p] = newState]
  /\ Goto(c, "swtch")
  /\ UNCHANGED <<heat, waiting_tick, cpu_temp, idx, reg, cproc, sumVars,
                 pickVars>>

Yield(c) == pc[c] = "ticked" /\ GiveUp(c, "RUNNABLE") /\ UNCHANGED procVars

Sleep(c) ==
  /\ "sleep" \in Workload
  /\ pc[c] = "run" /\ GiveUp(c, "SLEEPING") /\ UNCHANGED procVars

(* kexit(): init never exits; the children go to init.                     *)
Exit(c) ==
  /\ "exit" \in Workload
  /\ pc[c] = "run" /\ cproc[c] # initproc
  /\ GiveUp(c, "ZOMBIE")
  /\ parent' = [q \in Slots |-> IF parent[q] = cproc[c] THEN initproc
                                ELSE parent[q]]
  /\ UNCHANGED <<pid, is_test, nextpid>>

(* The scheduler's side of swtch(): c->proc = 0; release(&chosen->lock).   *)
SwitchBack(c) ==
  /\ pc[c] = "swtch"
  /\ plock' = [plock EXCEPT ![cproc[c]] = 0]
  /\ cproc' = [cproc EXCEPT ![c] = 0]
  /\ Goto(c, "top")
  /\ UNCHANGED <<state, heat, waiting_tick, cpu_temp, idx, reg, procVars,
                 sumVars, pickVars>>

(* kfork(): allocproc() takes the first UNUSED slot; the child has its     *)
(* parent's name.                                                          *)
Fork(c) ==
  /\ "fork" \in Workload
  /\ pc[c] = "run" /\ nextpid <= MAXPID
  /\ \E q \in Slots :
       /\ state[q] = "UNUSED" /\ Free(q)
       /\ \A r \in Slots : r < q => state[r] # "UNUSED"
       /\ state' = [state EXCEPT ![q] = "RUNNABLE"]
       /\ pid' = [pid EXCEPT ![q] = nextpid]
       /\ parent' = [parent EXCEPT ![q] = cproc[c]]
       /\ is_test' = [is_test EXCEPT ![q] = is_test[cproc[c]]]
       /\ heat' = [heat EXCEPT ![q] = 0]
       /\ waiting_tick' = [waiting_tick EXCEPT ![q] = 0]
  /\ nextpid' = nextpid + 1
  /\ UNCHANGED <<plock, cpu_temp, pc, idx, reg, cproc, sumVars, pickVars>>

(* kexec() gives the process the name of the new program.                  *)
Exec(c) ==
  /\ "exec" \in Workload
  /\ pc[c] = "run" /\ cproc[c] # initproc
  /\ \E b \in BOOLEAN : is_test' = [is_test EXCEPT ![cproc[c]] = b]
  /\ UNCHANGED <<state, pid, parent, nextpid, heat, waiting_tick, plock,
                 cpu_temp, pc, idx, reg, cproc, sumVars, pickVars>>

(* kwait() frees a ZOMBIE child: freeproc().                               *)
Reap(c) ==
  /\ "wait" \in Workload
  /\ pc[c] = "run"
  /\ \E q \in Slots :
       /\ state[q] = "ZOMBIE" /\ parent[q] = cproc[c] /\ Free(q)
       /\ state' = [state EXCEPT ![q] = "UNUSED"]
       /\ pid' = [pid EXCEPT ![q] = 0]
       /\ parent' = [parent EXCEPT ![q] = 0]
       /\ is_test' = [is_test EXCEPT ![q] = FALSE]
       /\ heat' = [heat EXCEPT ![q] = 0]
  /\ UNCHANGED <<waiting_tick, nextpid, plock, cpu_temp, pc, idx, reg, cproc,
                 sumVars, pickVars>>

(* Fault: a process that has exited is made RUNNABLE again.                *)
WakeZombie(c) ==
  /\ "wakeup" \in Workload
  /\ pc[c] \in {"top", "run"}
  /\ \E p \in Slots :
       /\ state[p] \in {"SLEEPING", "ZOMBIE"} /\ Free(p)
       /\ state' = [state EXCEPT ![p] = "RUNNABLE"]
  /\ UNCHANGED <<heat, waiting_tick, plock, cpu_temp, pc, idx, reg, cproc,
                 procVars, sumVars, pickVars>>

(* wakeup() or kkill(), called by the process that runs on c or by an      *)
(* interrupt that c takes. The channel is not modelled: any sleeper may be *)
(* the one woken.                                                          *)
Wakeup(c) ==
  /\ "wakeup" \in Workload
  /\ pc[c] \in {"top", "run"}
  /\ \E p \in Slots :
       /\ state[p] = "SLEEPING" /\ Free(p)
       /\ state' = [state EXCEPT ![p] = "RUNNABLE"]
  /\ UNCHANGED <<heat, waiting_tick, plock, cpu_temp, pc, idx, reg, cproc,
                 procVars, sumVars, pickVars>>

SchedStep(c) ==
  \/ StartRound(c) \/ ScanActive(c) \/ PrintSummary(c) \/ ResetMetrics(c)
  \/ Decay(c) \/ Throttle(c) \/ CoolLoad(c) \/ CoolStore(c)
  \/ PassA(c) \/ MarkRun(c) \/ PickTest(c) \/ PassB(c) \/ PassC(c)
  \/ CountWaiting(c) \/ Dispatch(c) \/ HeatLoad(c) \/ HeatStore(c)
  \/ SwitchBack(c)

TickStep(c) == TickLoad(c) \/ TickStore(c) \/ Yield(c)

ProcStep(c) == Sleep(c) \/ Exit(c) \/ Fork(c) \/ Exec(c) \/ Reap(c)

Next ==
  \E c \in CPU : \/ SchedStep(c) \/ IdleTick(c) \/ TickStep(c)
                 \/ ProcStep(c) \/ Wakeup(c)

Spec == Init /\ [][Next]_vars

(* Every hart keeps executing, and the timer interrupts whatever runs. The *)
(* operations of processes are not promised to happen.                     *)
FairSpec == Spec /\ \A c \in CPU : WF_vars(SchedStep(c)) /\ WF_vars(TickStep(c))

-----------------------------------------------------------------------------
(* Types and ranges: heat stays in 0..MAX_HEAT and, although cpu_temp is   *)
(* updated by all CPUs with no lock, every value stored is in the clamp    *)
(* range of update_cpu_temp().                                             *)
TypeOK ==
  /\ state \in [Slots -> ProcState]
  /\ pid \in [Slots -> Nat]
  /\ parent \in [Slots -> Slots \cup {0}]
  /\ is_test \in [Slots -> BOOLEAN]
  /\ heat \in [Slots -> 0..MAX_HEAT]
  /\ waiting_tick \in [Slots -> 0..STARVE_TICKS]
  /\ plock \in [Slots -> CPU \cup {0}]
  /\ nextpid \in Nat
  /\ cpu_temp \in TEMP_LOW..TEMP_HIGH
  /\ tm_had_children \in BOOLEAN
  /\ summary_printed \in BOOLEAN
  /\ pc \in [CPU -> SchedPc \cup ProcPc]
  /\ idx \in [CPU -> Slots]
  /\ chosen \in [CPU -> Slots \cup {0}]
  /\ lowest_heat \in [CPU -> 0..(MAX_HEAT + 1)]
  /\ skipped \in [CPU -> Nat]
  /\ reg \in [CPU -> TEMP_LOW..TEMP_HIGH]
  /\ cproc \in [CPU -> Slots \cup {0}]
  /\ summaries \in 0..2

(* No process is ever on two CPUs: although `chosen' is picked under locks *)
(* that were released rounds of the loop ago, and a yielding process is    *)
(* RUNNABLE before its CPU has left its kernel stack, no two CPUs ever use *)
(* one process's context.                                                  *)
OneCpuPerProcess ==
  \A c, d \in CPU : cproc[c] # 0 /\ cproc[c] = cproc[d] => c = d

(* A process is RUNNING exactly when a CPU is committed to it: none is     *)
(* lost in RUNNING with no CPU, and none runs while others see it as       *)
(* RUNNABLE, SLEEPING, ZOMBIE or freed, except between sched() and the     *)
(* return of swtch() in the scheduler, with p->lock held.                  *)
RunningIsOnCpu ==
  \A p \in Slots :
    /\ state[p] = "RUNNING" => \E c \in CPU : cproc[c] = p
    /\ \A c \in CPU : cproc[c] = p => state[p] = "RUNNING" \/ plock[p] = c

(* The scheduler implements CpuAlloc: dispatching is atomic although it    *)
(* rests on a scan made under other locks, and a process that gives up its *)
(* CPU stays RUNNING, to everybody else, until swtch() has left its stack. *)
InSwtch(p) == \E c \in CPU : pc[c] = "swtch" /\ cproc[c] = p

AllocState == [p \in Slots |-> IF InSwtch(p) THEN "RUNNING" ELSE state[p]]

Alloc == INSTANCE CpuAlloc WITH state <- AllocState, running <- cproc

(* The refinement of CpuAlloc, as a property.                              *)
ImplementsCpuAlloc == Alloc!Spec

(* The moment CPU c has finished its passes.                               *)
Decided(c) == pc[c] = "waiting" /\ idx[c] = 1

Eligible(q) == state[q] = "RUNNABLE" /\ ~Dominated(q)

(* The policy matrix and pass C: a process that the thermal gate skips is  *)
(* chosen only when the gate skips every RUNNABLE process, and a round     *)
(* chooses nobody only when nobody is RUNNABLE.                            *)
GateHolds ==
  \A c \in CPU : Decided(c) =>
    IF chosen[c] = 0
      THEN \A q \in Slots : state[q] # "RUNNABLE"
      ELSE Dominated(chosen[c]) => \A q \in Slots : ~Eligible(q)

(* Pass A before pass B: while a RUNNABLE child of a test program passes   *)
(* the gate, the process chosen is the one of these with the lowest pid;   *)
(* otherwise it is one of the coolest of those that pass the gate.         *)
SelectionOrder ==
  \A c \in CPU : Decided(c) =>
    \A q \in Slots : Eligible(q) =>
      IF \E r \in Slots : Eligible(r) /\ TestChild(r)
        THEN TestChild(chosen[c]) /\ (TestChild(q) => pid[chosen[c]] <= pid[q])
        ELSE heat[chosen[c]] <= heat[q]

(* "guard: only print summary once per run", "set BEFORE printing to block *)
(* other CPUs": between two marks of a new run the summary is printed at   *)
(* most once.                                                              *)
SummaryOncePerRun == summaries <= 1

(* The anti-starvation rule: a RUNNABLE process is eventually given a CPU. *)
NoStarvation ==
  \A p \in Slots : state[p] = "RUNNABLE" ~> state[p] # "RUNNABLE"

=============================================================================
