----------------------- MODULE ThermalSchedInvariant ------------------------
(***************************************************************************)
(* The inductive invariant of ThermalSched, for every number of CPUs and   *)
(* process slots and for all thresholds: ranges, and exclusive use of a    *)
(* process by one CPU.                                                     *)
(***************************************************************************)
EXTENDS ThermalSched, TLAPS

(* The inductive invariant: what a CPU's place in the code says about its  *)
(* process. Between Dispatch and SwitchBack CPU c owns the process         *)
(* cproc[c]; others must leave it alone because it is RUNNING or, around   *)
(* the two halves of swtch(), because c holds its lock.                    *)
Owns(c) ==
  /\ pc[c] \in ProcPc <=> cproc[c] # 0
  /\ pc[c] \in ProcPc \ {"swtch"} => state[cproc[c]] = "RUNNING"
  /\ pc[c] \in {"heating", "heated", "swtch"} => plock[cproc[c]] = c
  /\ pc[c] = "swtch" => state[cproc[c]] \in {"RUNNABLE", "SLEEPING", "ZOMBIE"}
  /\ pc[c] \in {"mark", "marked"} => plock[idx[c]] = c
  /\ pc[c] = "dispatch" => chosen[c] # 0

CpuInv ==
  /\ \A c \in CPU : Owns(c)
  /\ OneCpuPerProcess
  /\ \A p \in Slots : state[p] = "RUNNING" => \E c \in CPU : cproc[c] = p

SchedInv == TypeOK /\ CpuInv

(* Every value that update_cpu_temp() stores is in its clamp range.        *)
LEMMA UpdatedTempInRange ==
  ASSUME NEW t \in TEMP_LOW..TEMP_HIGH, NEW h \in Nat
  PROVE  UpdatedTemp(t, h) \in TEMP_LOW..TEMP_HIGH
<1>1. h \div HEAT_STEP \in Int
  BY SchedAssumption
<1>2. \A u \in Int : Clamp(u) \in TEMP_LOW..TEMP_HIGH
  BY SchedAssumption DEF Clamp, Larger, Smaller
<1> QED
  BY <1>1, <1>2, SchedAssumption DEF UpdatedTemp

(* A loop over proc[] stays inside the table and inside the code.          *)
LEMMA NextSlotType ==
  ASSUME TypeOK, NEW c \in CPU, NEW l \in SchedPc \cup ProcPc, NextSlot(c, l)
  PROVE  idx' \in [CPU -> Slots] /\ pc' \in [CPU -> SchedPc \cup ProcPc]
<1> HIDE DEF SchedPc, ProcPc
<1>1. CASE idx[c] < NPROC
  <2>1. idx[c] \in Slots /\ NPROC \in Nat
    BY SchedAssumption DEF TypeOK
  <2>2. idx[c] + 1 \in Slots
    BY <1>1, <2>1 DEF Slots
  <2> QED
    BY <1>1, <2>2 DEF TypeOK, NextSlot
<1>2. CASE ~(idx[c] < NPROC)
  <2>1. 1 \in Slots
    BY SchedAssumption DEF Slots
  <2> QED
    BY <1>2, <2>1 DEF TypeOK, NextSlot, Goto
<1> QED
  BY <1>1, <1>2

LEMMA LeaveLoopType ==
  ASSUME TypeOK, NEW c \in CPU, NEW l \in SchedPc \cup ProcPc, LeaveLoop(c, l)
  PROVE  idx' \in [CPU -> Slots] /\ pc' \in [CPU -> SchedPc \cup ProcPc]
<1>1. 1 \in Slots
  BY SchedAssumption DEF Slots
<1> QED
  BY <1>1 DEF TypeOK, LeaveLoop, Goto

LEMMA GotoType ==
  ASSUME TypeOK, NEW c \in CPU, NEW l \in SchedPc \cup ProcPc, Goto(c, l)
  PROVE  pc' \in [CPU -> SchedPc \cup ProcPc]
BY DEF TypeOK, Goto

LEMMA NewPickType ==
  ASSUME TypeOK, NEW c \in CPU, NewPick(c)
  PROVE  /\ chosen' \in [CPU -> Slots \cup {0}]
         /\ lowest_heat' \in [CPU -> 0..(MAX_HEAT + 1)]
         /\ skipped' \in [CPU -> Nat]
BY DEF TypeOK, NewPick

LEMMA StoreTempType ==
  ASSUME TypeOK, NEW c \in CPU, StoreTemp(c)
  PROVE  /\ cpu_temp' \in TEMP_LOW..TEMP_HIGH
         /\ reg' \in [CPU -> TEMP_LOW..TEMP_HIGH]
BY SchedAssumption DEF TypeOK, StoreTemp

(* Initial states satisfy the type invariant.                              *)
LEMMA InitType == Init => TypeOK
<1> SUFFICES ASSUME Init PROVE TypeOK
  OBVIOUS
<1>1. 1 \in Slots /\ TEMP_LOW \in TEMP_LOW..TEMP_HIGH
  BY SchedAssumption DEF Slots
<1>2. TEMP_START \in TEMP_LOW..TEMP_HIGH
  BY SchedAssumption
<1>3. 0 \in 0..MAX_HEAT /\ 0 \in 0..STARVE_TICKS /\ MAX_HEAT + 1 \in 0..(MAX_HEAT + 1)
  BY SchedAssumption
<1>4. /\ state \in [Slots -> ProcState] /\ pid \in [Slots -> Nat]
      /\ parent \in [Slots -> Slots \cup {0}] /\ is_test \in [Slots -> BOOLEAN]
      /\ nextpid \in Nat
  BY DEF Init, ProcState
<1>5. pc \in [CPU -> SchedPc \cup ProcPc]
  BY DEF Init, InitSched, SchedPc
<1>6. tm_had_children \in BOOLEAN /\ summary_printed \in BOOLEAN
  BY Zenon DEF Init, InitSched
<1>9. /\ summaries \in 0..2 /\ cpu_temp \in TEMP_LOW..TEMP_HIGH
      /\ plock \in [Slots -> CPU \cup {0}]
  BY <1>2 DEF Init, InitSched
<1>7. /\ heat \in [Slots -> 0..MAX_HEAT]
      /\ waiting_tick \in [Slots -> 0..STARVE_TICKS]
      /\ lowest_heat \in [CPU -> 0..(MAX_HEAT + 1)]
  BY <1>3 DEF Init, InitSched
<1>8. /\ idx \in [CPU -> Slots] /\ reg \in [CPU -> TEMP_LOW..TEMP_HIGH]
      /\ chosen \in [CPU -> Slots \cup {0}] /\ cproc \in [CPU -> Slots \cup {0}]
      /\ skipped \in [CPU -> Nat]
  BY <1>1 DEF Init, InitSched
<1> QED
  BY <1>4, <1>5, <1>6, <1>7, <1>8, <1>9 DEF TypeOK

(* Every step of the scheduler keeps the types.                            *)
LEMMA SchedStepType ==
  ASSUME TypeOK, CpuInv, NEW c \in CPU, SchedStep(c)
  PROVE  TypeOK'
<1> USE DEF procVars, sumVars, pickVars
<1> HIDE DEF SchedPc, ProcPc
<1>0. /\ {"top", "active", "print", "reset", "decay", "throttle", "passA",
          "mark", "marked", "passB", "passC", "waiting", "dispatch", "cool", "cooled",
          "heating", "heated", "run"} \subseteq SchedPc \cup ProcPc
      /\ {"RUNNABLE", "RUNNING"} \subseteq ProcState
  BY DEF SchedPc, ProcPc, ProcState
<1>1. CASE StartRound(c)
  <2>1. cpu_temp' \in TEMP_LOW..TEMP_HIGH /\ reg' \in [CPU -> TEMP_LOW..TEMP_HIGH]
    BY <1>1, StoreTempType DEF StartRound, TypeOK
  <2>2. pc' \in [CPU -> SchedPc \cup ProcPc]
    BY <1>0, <1>1, GotoType DEF StartRound
  <2> QED
    BY <1>1, <2>1, <2>2 DEF StartRound, TypeOK
<1>2. CASE ScanActive(c)
  BY <1>0, <1>2, NextSlotType, LeaveLoopType DEF ScanActive, TypeOK
<1>3. CASE PrintSummary(c)
  BY <1>0, <1>3, GotoType DEF PrintSummary, TypeOK, Smaller
<1>4. CASE ResetMetrics(c)
  BY Zenon, <1>0, <1>4, GotoType DEF ResetMetrics, TypeOK
<1>5. CASE Decay(c)
  <2>1. idx' \in [CPU -> Slots] /\ pc' \in [CPU -> SchedPc \cup ProcPc]
    BY <1>0, <1>5, NextSlotType DEF Decay
  <2>2. heat' \in [Slots -> 0..MAX_HEAT]
    BY <1>5, SchedAssumption DEF Decay, TypeOK, Larger
  <2> QED
    BY <1>5, <2>1, <2>2 DEF Decay, TypeOK
<1>6. CASE Throttle(c)
  BY <1>0, <1>6, GotoType DEF Throttle, TypeOK
<1>7. CASE CoolLoad(c)
  BY Zenon, <1>0, <1>7, GotoType, UpdatedTempInRange DEF CoolLoad, TypeOK
<1>8. CASE CoolStore(c)
  BY <1>0, <1>8, GotoType, NewPickType, StoreTempType DEF CoolStore, TypeOK
<1>9. CASE PassA(c)
  <2>1. AfterA(chosen[c]) \in SchedPc \cup ProcPc
    BY <1>0 DEF AfterA
  <2>2. idx' \in [CPU -> Slots] /\ pc' \in [CPU -> SchedPc \cup ProcPc]
    BY <1>0, <1>9, <2>1, GotoType, NextSlotType DEF PassA, TypeOK
  <2>3. plock' \in [Slots -> CPU \cup {0}] /\ skipped' \in [CPU -> Nat]
    BY <1>9 DEF PassA, TypeOK
  <2> QED
    BY <1>9, <2>2, <2>3 DEF PassA, TypeOK
<1>10. CASE MarkRun(c)
  <2>1. pc' \in [CPU -> SchedPc \cup ProcPc]
    BY <1>0, <1>10, GotoType DEF MarkRun
  <2>2. summary_printed' \in BOOLEAN
    BY <1>10, Zenon DEF MarkRun
  <2>3. summaries' \in 0..2
    BY <1>10 DEF MarkRun
  <2> QED
    BY <1>10, <2>1, <2>2, <2>3 DEF MarkRun, TypeOK
<1>18. CASE PickTest(c)
  <2> DEFINE ch == LowestPid(c, idx[c])
  <2>0. 1 \in Slots /\ (idx[c] < NPROC => idx[c] + 1 \in Slots)
    <3>1. idx[c] \in Slots /\ NPROC \in Nat \ {0}
      BY SchedAssumption DEF TypeOK
    <3> QED
      BY <3>1 DEF Slots
  <2>1. ch \in Slots \cup {0} /\ AfterA(ch) \in SchedPc \cup ProcPc
    BY <1>0 DEF TypeOK, LowestPid, AfterA
  <2>2. idx' \in [CPU -> Slots] /\ pc' \in [CPU -> SchedPc \cup ProcPc]
    BY <1>0, <1>18, <2>0, <2>1, GotoType DEF PickTest, TypeOK
  <2>3. chosen' \in [CPU -> Slots \cup {0}] /\ plock' \in [Slots -> CPU \cup {0}]
    BY <1>18, <2>1 DEF PickTest, TypeOK
  <2>4. tm_had_children' \in BOOLEAN
    BY <1>18, Zenon DEF PickTest
  <2> QED
    BY <1>18, <2>2, <2>3, <2>4 DEF PickTest, TypeOK
<1>11. CASE PassB(c)
  <2> DEFINE p == idx[c]
             better == state[p] = "RUNNABLE" /\ ~Dominated(p)
                         /\ heat[p] < lowest_heat[c]
             ch == IF better THEN p ELSE chosen[c]
  <2>1. ch \in Slots \cup {0}
    BY DEF TypeOK
  <2>2. idx' \in [CPU -> Slots] /\ pc' \in [CPU -> SchedPc \cup ProcPc]
    BY <1>0, <1>11, NextSlotType DEF PassB
  <2>3. lowest_heat' \in [CPU -> 0..(MAX_HEAT + 1)]
    BY <1>11, SchedAssumption DEF PassB, TypeOK
  <2>4. skipped' \in [CPU -> Nat] /\ chosen' \in [CPU -> Slots \cup {0}]
    BY <1>11, <2>1 DEF PassB, TypeOK
  <2> QED
    BY <1>11, <2>2, <2>3, <2>4 DEF PassB, TypeOK
<1>12. CASE PassC(c)
  <2>1. idx' \in [CPU -> Slots] /\ pc' \in [CPU -> SchedPc \cup ProcPc]
    BY <1>0, <1>12, NextSlotType, LeaveLoopType DEF PassC
  <2>2. chosen' \in [CPU -> Slots \cup {0}]
    BY <1>12 DEF PassC, TypeOK
  <2> QED
    BY <1>12, <2>1, <2>2 DEF PassC, TypeOK
<1>13. CASE CountWaiting(c)
  <2>1. idx' \in [CPU -> Slots] /\ pc' \in [CPU -> SchedPc \cup ProcPc]
    BY Zenon, <1>0, <1>13, NextSlotType DEF CountWaiting
  <2>2. waiting_tick' \in [Slots -> 0..STARVE_TICKS]
    BY <1>13, SchedAssumption DEF CountWaiting, TypeOK, Smaller
  <2> QED
    BY <1>13, <2>1, <2>2 DEF CountWaiting, TypeOK
<1>14. CASE Dispatch(c)
  <2>1. heat' \in [Slots -> 0..MAX_HEAT] /\ waiting_tick' \in [Slots -> 0..STARVE_TICKS]
    BY <1>14, SchedAssumption DEF Dispatch, TypeOK, Smaller
  <2>2. state' \in [Slots -> ProcState] /\ plock' \in [Slots -> CPU \cup {0}]
    BY <1>0, <1>14 DEF Dispatch, TypeOK
  <2>3. cproc' \in [CPU -> Slots \cup {0}]
    BY <1>14 DEF Dispatch, TypeOK
  <2>4. pc' \in [CPU -> SchedPc \cup ProcPc]
    BY <1>0, <1>14, GotoType DEF Dispatch
  <2> QED
    BY <1>14, <2>1, <2>2, <2>3, <2>4, NewPickType DEF Dispatch, TypeOK
<1>15. CASE HeatLoad(c)
  <2>1. pc' \in [CPU -> SchedPc \cup ProcPc]
    BY <1>0, <1>15, GotoType DEF HeatLoad
  <2>2. cproc[c] \in Slots
    BY <1>15 DEF HeatLoad, CpuInv, Owns, ProcPc, TypeOK
  <2>3. heat[cproc[c]] \in Nat
    BY <2>2, SchedAssumption DEF TypeOK
  <2>4. reg' \in [CPU -> TEMP_LOW..TEMP_HIGH]
    BY <1>15, <2>3, UpdatedTempInRange DEF HeatLoad, TypeOK
  <2> QED
    BY <1>15, <2>1, <2>4 DEF HeatLoad, TypeOK
<1>16. CASE HeatStore(c)
  BY Zenon, <1>0, <1>16, GotoType, StoreTempType DEF HeatStore, TypeOK
<1>17. CASE SwitchBack(c)
  BY Zenon, <1>0, <1>17, GotoType DEF SwitchBack, TypeOK
<1> QED
  BY <1>1, <1>2, <1>3, <1>4, <1>5, <1>6, <1>7, <1>8, <1>9, <1>10, <1>11,
     <1>12, <1>13, <1>14, <1>15, <1>16, <1>17, <1>18 DEF SchedStep

(* So does every tick and every operation of a process.                    *)
LEMMA ProcStepType ==
  ASSUME TypeOK, CpuInv, NEW c \in CPU,
         IdleTick(c) \/ TickStep(c) \/ ProcStep(c) \/ Wakeup(c)
  PROVE  TypeOK'
<1> USE DEF procVars, sumVars, pickVars
<1> HIDE DEF SchedPc, ProcPc
<1>0. /\ {"idletick", "tick", "ticked", "swtch"} \subseteq SchedPc \cup ProcPc
      /\ {"RUNNABLE", "SLEEPING", "ZOMBIE", "UNUSED"} \subseteq ProcState
  BY DEF SchedPc, ProcPc, ProcState
<1>a. pc[c] \in {"run", "ticked"} => cproc[c] \in Slots
  BY DEF CpuInv, Owns, ProcPc, TypeOK
<1>b. initproc \in Slots
  BY SchedAssumption DEF initproc, Slots
<1>1. CASE IdleTick(c)
  BY Zenon, <1>0, <1>1, GotoType, UpdatedTempInRange DEF IdleTick, TypeOK
<1>2. CASE TickLoad(c)
  BY Zenon, <1>0, <1>2, GotoType, UpdatedTempInRange DEF TickLoad, TypeOK
<1>3. CASE TickStore(c)
  BY <1>0, <1>3, GotoType, StoreTempType DEF TickStore, TypeOK
<1>4. CASE Yield(c)
  <2>1. pc' \in [CPU -> SchedPc \cup ProcPc]
    BY Zenon, <1>0, <1>4, GotoType DEF Yield, GiveUp
  <2>2. state' \in [Slots -> ProcState] /\ plock' \in [Slots -> CPU \cup {0}]
    BY Zenon, <1>0, <1>4 DEF Yield, GiveUp, TypeOK
  <2> QED
    BY <1>4, <2>1, <2>2 DEF Yield, GiveUp, TypeOK
<1>5. CASE Sleep(c)
  <2>1. pc' \in [CPU -> SchedPc \cup ProcPc]
    BY <1>0, <1>5, GotoType DEF Sleep, GiveUp
  <2>2. state' \in [Slots -> ProcState] /\ plock' \in [Slots -> CPU \cup {0}]
    BY Zenon, <1>0, <1>5 DEF Sleep, GiveUp, TypeOK
  <2> QED
    BY <1>5, <2>1, <2>2 DEF Sleep, GiveUp, TypeOK
<1>6. CASE Exit(c)
  <2>1. pc' \in [CPU -> SchedPc \cup ProcPc]
    BY Zenon, <1>0, <1>6, GotoType DEF Exit, GiveUp
  <2>2. state' \in [Slots -> ProcState] /\ plock' \in [Slots -> CPU \cup {0}]
    BY Zenon, <1>0, <1>6 DEF Exit, GiveUp, TypeOK
  <2>3. parent' \in [Slots -> Slots \cup {0}]
    BY <1>b, <1>6 DEF Exit, TypeOK
  <2> QED
    BY <1>6, <2>1, <2>2, <2>3 DEF Exit, GiveUp, TypeOK
<1>7. CASE Fork(c)
  <2> PICK q \in Slots :
        /\ state' = [state EXCEPT ![q] = "RUNNABLE"]
        /\ pid' = [pid EXCEPT ![q] = nextpid]
        /\ parent' = [parent EXCEPT ![q] = cproc[c]]
        /\ is_test' = [is_test EXCEPT ![q] = is_test[cproc[c]]]
        /\ heat' = [heat EXCEPT ![q] = 0]
        /\ waiting_tick' = [waiting_tick EXCEPT ![q] = 0]
    BY Zenon, <1>7 DEF Fork
  <2>1. state' \in [Slots -> ProcState] /\ pid' \in [Slots -> Nat]
    BY <1>0 DEF TypeOK
  <2>2. parent' \in [Slots -> Slots \cup {0}] /\ is_test' \in [Slots -> BOOLEAN]
    BY <1>7, <1>a DEF Fork, TypeOK
  <2>3. heat' \in [Slots -> 0..MAX_HEAT] /\ waiting_tick' \in [Slots -> 0..STARVE_TICKS]
    BY SchedAssumption DEF TypeOK
  <2>4. nextpid' \in Nat
    BY <1>7 DEF Fork, TypeOK
  <2> QED
    BY <1>7, <2>1, <2>2, <2>3, <2>4 DEF Fork, TypeOK
<1>8. CASE Exec(c)
  <2>1. is_test' \in [Slots -> BOOLEAN]
    BY Zenon, <1>8 DEF Exec, TypeOK
  <2> QED
    BY <1>8, <2>1 DEF Exec, TypeOK
<1>9. CASE Reap(c)
  <2> PICK q \in Slots :
        /\ state' = [state EXCEPT ![q] = "UNUSED"]
        /\ pid' = [pid EXCEPT ![q] = 0]
        /\ parent' = [parent EXCEPT ![q] = 0]
        /\ is_test' = [is_test EXCEPT ![q] = FALSE]
        /\ heat' = [heat EXCEPT ![q] = 0]
    BY Zenon, <1>9 DEF Reap
  <2>1. state' \in [Slots -> ProcState] /\ pid' \in [Slots -> Nat]
    BY <1>0 DEF TypeOK
  <2>2. parent' \in [Slots -> Slots \cup {0}]
    BY DEF TypeOK
  <2>3. is_test' \in [Slots -> BOOLEAN]
    BY Zenon DEF TypeOK
  <2>4. heat' \in [Slots -> 0..MAX_HEAT]
    BY SchedAssumption DEF TypeOK
  <2> QED
    BY <1>9, <2>1, <2>2, <2>3, <2>4 DEF Reap, TypeOK
<1>10. CASE Wakeup(c)
  BY <1>0, <1>10 DEF Wakeup, TypeOK
<1> QED
  BY <1>1, <1>2, <1>3, <1>4, <1>5, <1>6, <1>7, <1>8, <1>9, <1>10
     DEF TickStep, ProcStep

(* What every step by CPU c leaves to the other CPUs: their registers, the *)
(* locks they hold, and the state of every process they are using.         *)
Frame(c) ==
  /\ \A d \in CPU \ {c} : /\ pc'[d] = pc[d] /\ cproc'[d] = cproc[d]
                          /\ idx'[d] = idx[d] /\ chosen'[d] = chosen[d]
  /\ \A p \in Slots : plock'[p] = plock[p] \/ plock[p] \in {0, c}
  /\ \A p \in Slots : \/ state'[p] = state[p]
                      \/ p = cproc[c]
                      \/ state[p] # "RUNNING" /\ plock[p] = 0

LEMMA OthersOwn ==
  ASSUME TypeOK, CpuInv, NEW c \in CPU, Frame(c), NEW d \in CPU, d # c
  PROVE  Owns(d)'
<1>1. /\ pc'[d] = pc[d] /\ cproc'[d] = cproc[d] /\ idx'[d] = idx[d]
      /\ chosen'[d] = chosen[d]
  BY DEF Frame
<1>2. \A p \in Slots : plock[p] = d => plock'[p] = d
  BY SchedAssumption DEF Frame
<1>3. pc[d] \in ProcPc => cproc[d] \in Slots /\ state'[cproc[d]] = state[cproc[d]]
  <2> SUFFICES ASSUME pc[d] \in ProcPc
               PROVE  cproc[d] \in Slots /\ state'[cproc[d]] = state[cproc[d]]
    OBVIOUS
  <2>1. cproc[d] \in Slots /\ cproc[d] # cproc[c]
    BY DEF CpuInv, Owns, TypeOK, OneCpuPerProcess
  <2>2. state[cproc[d]] = "RUNNING" \/ plock[cproc[d]] = d
    BY DEF CpuInv, Owns, ProcPc
  <2> QED
    BY <2>1, <2>2, SchedAssumption DEF Frame
<1>4. idx[d] \in Slots
  BY DEF TypeOK
<1> QED
  BY <1>1, <1>2, <1>3, <1>4 DEF Owns, CpuInv, ProcPc

(* A step that changes no process, no lock and nobody's c->proc.           *)
LEMMA QuietStep ==
  ASSUME TypeOK, CpuInv, NEW c \in CPU,
         UNCHANGED <<state, plock, cproc>>,
         \A d \in CPU \ {c} : /\ pc'[d] = pc[d] /\ idx'[d] = idx[d]
                              /\ chosen'[d] = chosen[d],
         \/ /\ pc[c] \notin ProcPc /\ pc'[c] \notin ProcPc
            /\ pc'[c] \notin {"mark", "marked"}
            /\ pc'[c] = "dispatch" => chosen'[c] # 0
         \/ pc[c] = "mark" /\ pc'[c] = "marked" /\ idx'[c] = idx[c]
         \/ pc[c] = "heating" /\ pc'[c] = "heated"
         \/ pc[c] \in ProcPc \ {"swtch"} /\ pc'[c] \in {"run", "tick", "ticked"}
  PROVE  CpuInv'
<1>1. Frame(c)
  BY DEF Frame
<1>2. Owns(c)'
  BY DEF CpuInv, Owns, ProcPc
<1>3. \A d \in CPU : Owns(d)'
  BY <1>1, <1>2, OthersOwn
<1> QED
  BY <1>3 DEF CpuInv, OneCpuPerProcess

(* The steps of the scheduler.                                             *)
LEMMA SchedStepInv ==
  ASSUME TypeOK, CpuInv, NEW c \in CPU, SchedStep(c) \/ IdleTick(c)
  PROVE  CpuInv'
<1> USE DEF procVars, sumVars, pickVars
<1>0. /\ pc \in [CPU -> SchedPc \cup ProcPc] /\ idx \in [CPU -> Slots]
      /\ chosen \in [CPU -> Slots \cup {0}] /\ cproc \in [CPU -> Slots \cup {0}]
      /\ plock \in [Slots -> CPU \cup {0}] /\ state \in [Slots -> ProcState]
  BY DEF TypeOK
<1>1. CASE IdleTick(c) \/ StartRound(c)
  BY <1>0, <1>1, QuietStep DEF IdleTick, StartRound, Goto, ProcPc
<1>2. CASE ScanActive(c)
  BY <1>0, <1>2, QuietStep DEF ScanActive, NextSlot, LeaveLoop, Goto, ProcPc
<1>3. CASE PrintSummary(c) \/ ResetMetrics(c)
  BY <1>0, <1>3, QuietStep DEF PrintSummary, ResetMetrics, Goto, ProcPc
<1>5. CASE Decay(c)
  BY <1>0, <1>5, QuietStep DEF Decay, NextSlot, Goto, ProcPc
<1>6. CASE Throttle(c)
  BY <1>0, <1>6, QuietStep DEF Throttle, Goto, ProcPc
<1>7. CASE CoolLoad(c) \/ CoolStore(c)
  BY <1>0, <1>7, QuietStep DEF CoolLoad, CoolStore, NewPick, Goto, ProcPc
<1>11. CASE PassB(c)
  BY <1>0, <1>11, QuietStep DEF PassB, NextSlot, Goto, ProcPc
<1>12. CASE PassC(c)
  BY <1>0, <1>12, QuietStep DEF PassC, NextSlot, LeaveLoop, Goto, ProcPc
<1>13. CASE CountWaiting(c)
  BY <1>0, <1>13, QuietStep DEF CountWaiting, NextSlot, Goto, ProcPc
<1>15. CASE HeatLoad(c)
  BY <1>0, <1>15, QuietStep DEF HeatLoad, Goto, ProcPc
<1>9. CASE PassA(c)
  <2> DEFINE p == idx[c]
             test == state[p] = "RUNNABLE" /\ ~Dominated(p) /\ TestChild(p)
  <2>1. CASE test
    <3>1. /\ pc' \in { [pc EXCEPT ![c] = l] : l \in {"mark", "marked"} }
          /\ plock' = [plock EXCEPT ![p] = c]
          /\ plock[p] = 0 /\ pc[c] = "passA"
          /\ UNCHANGED <<chosen, idx, state, cproc>>
      BY <1>9, <2>1 DEF PassA, Goto, Free
    <3>2. Frame(c)
      BY <1>0, <3>1 DEF Frame
    <3>3. Owns(c)'
      BY <1>0, <3>1 DEF CpuInv, Owns, ProcPc
    <3>4. \A d \in CPU : Owns(d)'
      BY <3>2, <3>3, OthersOwn
    <3> QED
      BY <3>1, <3>4 DEF CpuInv, OneCpuPerProcess
  <2>2. CASE ~test
    BY <1>0, <1>9, <2>2, QuietStep DEF PassA, AfterA, NextSlot, Goto, ProcPc
  <2> QED
    BY <2>1, <2>2
<1>10. CASE MarkRun(c)
  BY <1>0, <1>10, QuietStep DEF MarkRun, Goto, ProcPc
<1>18. CASE PickTest(c)
  <2> DEFINE p == idx[c]
  <2>1. /\ pc[c] = "marked" /\ plock' = [plock EXCEPT ![p] = 0]
        /\ plock[p] = c /\ UNCHANGED <<state, cproc>>
    BY <1>18 DEF PickTest, CpuInv, Owns
  <2>2. /\ pc'[c] \in {"passA", "passB", "waiting"}
        /\ \A d \in CPU \ {c} : /\ pc'[d] = pc[d] /\ idx'[d] = idx[d]
                                /\ chosen'[d] = chosen[d]
    BY <1>0, <1>18 DEF PickTest, AfterA, Goto
  <2>3. Frame(c)
    BY <1>0, <2>1, <2>2 DEF Frame
  <2>4. Owns(c)'
    BY <1>0, <2>1, <2>2 DEF CpuInv, Owns, ProcPc
  <2>5. \A d \in CPU : Owns(d)'
    BY <2>3, <2>4, OthersOwn
  <2> QED
    BY <2>1, <2>5 DEF CpuInv, OneCpuPerProcess
<1>14. CASE Dispatch(c)
  <2> DEFINE p == chosen[c]
  <2>0. /\ pc[c] = "dispatch" /\ plock[p] = 0 /\ p \in Slots /\ p # 0
        /\ UNCHANGED idx /\ \A d \in CPU \ {c} : chosen'[d] = chosen[d]
    BY <1>0, <1>14 DEF Dispatch, Free, NewPick, CpuInv, Owns
  <2>1. CASE state[p] = "RUNNABLE"
    <3>1. /\ state' = [state EXCEPT ![p] = "RUNNING"]
          /\ cproc' = [cproc EXCEPT ![c] = p]
          /\ plock' = [plock EXCEPT ![p] = c]
          /\ pc' = [pc EXCEPT ![c] = "heating"]
      BY <1>14, <2>1 DEF Dispatch, Goto
    <3>2. Frame(c)
      BY <1>0, <2>0, <2>1, <3>1 DEF Frame
    <3>3. Owns(c)'
      BY <1>0, <2>0, <3>1 DEF Owns, ProcPc
    <3>4. \A d \in CPU : Owns(d)'
      BY <3>2, <3>3, OthersOwn
    <3>5. \A d \in CPU : cproc[d] # p
      BY <1>0, <2>0, <2>1, SchedAssumption DEF CpuInv, Owns, ProcPc
    <3>6. OneCpuPerProcess'
      BY <1>0, <3>1, <3>5 DEF CpuInv, OneCpuPerProcess
    <3>7. cproc[c] = 0
      BY <2>0 DEF CpuInv, Owns, ProcPc
    <3>8. \A q \in Slots : state'[q] = "RUNNING" => \E d \in CPU : cproc'[d] = q
      <4> SUFFICES ASSUME NEW q \in Slots, state'[q] = "RUNNING"
                   PROVE  \E d \in CPU : cproc'[d] = q
        OBVIOUS
      <4>1. CASE q = p
        BY <1>0, <3>1, <4>1
      <4>2. CASE q # p
        <5>1. PICK d \in CPU : cproc[d] = q
          BY <1>0, <3>1, <4>2 DEF CpuInv
        <5>2. d # c
          BY <3>7, <5>1 DEF Slots
        <5> QED
          BY <1>0, <3>1, <5>1, <5>2
      <4> QED
        BY <4>1, <4>2
    <3> QED
      BY Zenon, <3>4, <3>6, <3>8 DEF CpuInv
  <2>2. CASE state[p] # "RUNNABLE"
    <3>1. UNCHANGED <<state, cproc, plock>> /\ pc' = [pc EXCEPT ![c] = "top"]
      BY <1>14, <2>2 DEF Dispatch, Goto
    <3> QED
      BY <1>0, <2>0, <3>1, QuietStep DEF ProcPc
  <2> QED
    BY <2>1, <2>2
<1>16. CASE HeatStore(c)
  <2>1. /\ pc[c] = "heated" /\ plock[cproc[c]] = c /\ cproc[c] \in Slots
        /\ plock' = [plock EXCEPT ![cproc[c]] = 0]
        /\ pc' = [pc EXCEPT ![c] = "run"]
        /\ UNCHANGED <<state, cproc, idx, chosen>>
    BY <1>0, <1>16 DEF HeatStore, Goto, CpuInv, Owns, ProcPc
  <2>2. Frame(c)
    BY <1>0, <2>1 DEF Frame
  <2>3. Owns(c)'
    BY <1>0, <2>1 DEF CpuInv, Owns, ProcPc
  <2>4. \A d \in CPU : Owns(d)'
    BY <2>2, <2>3, OthersOwn
  <2> QED
    BY <2>1, <2>4 DEF CpuInv, OneCpuPerProcess
<1>17. CASE SwitchBack(c)
  <2> DEFINE p == cproc[c]
  <2>1. /\ pc[c] = "swtch" /\ plock[p] = c /\ p \in Slots
        /\ state[p] # "RUNNING"
        /\ plock' = [plock EXCEPT ![p] = 0]
        /\ cproc' = [cproc EXCEPT ![c] = 0]
        /\ pc' = [pc EXCEPT ![c] = "top"]
        /\ UNCHANGED <<state, idx, chosen>>
    BY <1>0, <1>17 DEF SwitchBack, Goto, CpuInv, Owns, ProcPc
  <2>2. Frame(c)
    BY <1>0, <2>1 DEF Frame
  <2>3. Owns(c)'
    BY <1>0, <2>1 DEF CpuInv, Owns, ProcPc
  <2>4. \A d \in CPU : Owns(d)'
    BY <2>2, <2>3, OthersOwn
  <2>5. OneCpuPerProcess'
    BY <1>0, <2>1 DEF CpuInv, OneCpuPerProcess
  <2>6. \A q \in Slots : state'[q] = "RUNNING" => \E d \in CPU : cproc'[d] = q
    <3> SUFFICES ASSUME NEW q \in Slots, state'[q] = "RUNNING"
                 PROVE  \E d \in CPU : cproc'[d] = q
      OBVIOUS
    <3>1. PICK d \in CPU : cproc[d] = q
      BY <2>1 DEF CpuInv
    <3>2. d # c
      BY <2>1, <3>1
    <3> QED
      BY <1>0, <2>1, <3>1, <3>2
  <2> QED
    BY Zenon, <2>4, <2>5, <2>6 DEF CpuInv
<1> QED
  BY <1>1, <1>2, <1>3, <1>5, <1>6, <1>7, <1>9, <1>10, <1>11, <1>12, <1>13,
     <1>14, <1>15, <1>16, <1>17, <1>18 DEF SchedStep

(* The steps of a process and of the clock.                                *)
LEMMA ProcStepInv ==
  ASSUME TypeOK, CpuInv, NEW c \in CPU,
         TickStep(c) \/ ProcStep(c) \/ Wakeup(c)
  PROVE  CpuInv'
<1> USE DEF procVars, sumVars, pickVars
<1>0. /\ pc \in [CPU -> SchedPc \cup ProcPc] /\ idx \in [CPU -> Slots]
      /\ chosen \in [CPU -> Slots \cup {0}] /\ cproc \in [CPU -> Slots \cup {0}]
      /\ plock \in [Slots -> CPU \cup {0}] /\ state \in [Slots -> ProcState]
  BY DEF TypeOK
<1>1. CASE TickLoad(c) \/ TickStore(c)
  BY <1>0, <1>1, QuietStep DEF TickLoad, TickStore, Goto, ProcPc
<1>2. CASE Yield(c) \/ Sleep(c) \/ Exit(c)
  <2> DEFINE p == cproc[c]
  <2>1. PICK s \in {"RUNNABLE", "SLEEPING", "ZOMBIE"} : GiveUp(c, s)
    BY <1>2 DEF Yield, Sleep, Exit
  <2>2. /\ pc[c] \in {"run", "ticked"} /\ p \in Slots /\ p # 0 /\ plock[p] = 0
        /\ plock' = [plock EXCEPT ![p] = c]
        /\ state' = [state EXCEPT ![p] = s]
        /\ pc' = [pc EXCEPT ![c] = "swtch"]
        /\ UNCHANGED <<cproc, idx, chosen>>
    <3>1. pc[c] \in {"run", "ticked"} /\ Owns(c)
      BY Zenon, <1>2 DEF Yield, Sleep, Exit, CpuInv
    <3>2. p # 0
      BY Zenon, <3>1 DEF Owns, ProcPc
    <3> QED
      BY <1>0, <2>1, <3>1, <3>2 DEF GiveUp, Goto, Free
  <2>3. Frame(c)
    BY <1>0, <2>2 DEF Frame
  <2>4. Owns(c)'
    BY <1>0, <2>2 DEF Owns, ProcPc
  <2>5. \A d \in CPU : Owns(d)'
    BY <2>3, <2>4, OthersOwn
  <2>6. \A q \in Slots : state'[q] = "RUNNING" => state[q] = "RUNNING"
    BY <1>0, <2>2
  <2> QED
    BY <2>2, <2>5, <2>6 DEF CpuInv, OneCpuPerProcess
<1>3. CASE Exec(c)
  BY <1>0, <1>3, QuietStep DEF Exec, ProcPc
<1>4. CASE Fork(c) \/ Reap(c) \/ Wakeup(c)
  <2>1. PICK q \in Slots, s \in {"UNUSED", "RUNNABLE"} :
          /\ state[q] \in {"UNUSED", "ZOMBIE", "SLEEPING"} /\ plock[q] = 0
          /\ state' = [state EXCEPT ![q] = s]
    BY <1>4 DEF Fork, Reap, Wakeup, Free
  <2>2. UNCHANGED <<plock, pc, cproc, idx, chosen>>
    BY <1>4 DEF Fork, Reap, Wakeup
  <2>3. Frame(c)
    BY <1>0, <2>1, <2>2 DEF Frame
  <2>4. Owns(c)'
    <3>1. ASSUME cproc[c] # 0, cproc[c] = q
          PROVE  FALSE
      <4>1. Owns(c) /\ c # 0
        BY Zenon, SchedAssumption DEF CpuInv
      <4>2. pc[c] = "swtch"
        BY <2>1, <3>1, <4>1 DEF Owns
      <4> QED
        BY <2>1, <3>1, <4>1, <4>2 DEF Owns
    <3>2. pc[c] \in ProcPc => state'[cproc[c]] = state[cproc[c]]
      BY <1>0, <2>1, <3>1 DEF CpuInv, Owns
    <3> QED
      BY Zenon, <2>2, <3>2 DEF CpuInv, Owns, ProcPc
  <2>5. \A d \in CPU : Owns(d)'
    BY <2>3, <2>4, OthersOwn
  <2>6. \A r \in Slots : state'[r] = "RUNNING" => state[r] = "RUNNING"
    BY <1>0, <2>1
  <2> QED
    BY <2>2, <2>5, <2>6 DEF CpuInv, OneCpuPerProcess
<1> QED
  BY <1>1, <1>2, <1>3, <1>4 DEF TickStep, ProcStep

(* SchedInv holds in every reachable state.                                *)
THEOREM SchedInvariant == Spec => []SchedInv
<1>1. Init => SchedInv
  <2> SUFFICES ASSUME Init PROVE CpuInv
    BY InitType DEF SchedInv
  <2>1. /\ pc = [c \in CPU |-> "top"] /\ cproc = [c \in CPU |-> 0]
        /\ \A p \in Slots : state[p] # "RUNNING"
    BY DEF Init, InitSched
  <2> QED
    BY Zenon, <2>1 DEF CpuInv, Owns, ProcPc, OneCpuPerProcess
<1>2. SchedInv /\ [Next]_vars => SchedInv'
  <2> SUFFICES ASSUME SchedInv, [Next]_vars PROVE SchedInv'
    OBVIOUS
  <2> USE DEF SchedInv
  <2>1. CASE Next
    <3>1. PICK c \in CPU : \/ SchedStep(c) \/ IdleTick(c) \/ TickStep(c)
                           \/ ProcStep(c) \/ Wakeup(c)
      BY <2>1 DEF Next
    <3> QED
      BY <3>1, SchedStepType, ProcStepType, SchedStepInv, ProcStepInv
  <2>2. CASE UNCHANGED vars
    BY <2>2 DEF vars, TypeOK, CpuInv, Owns, OneCpuPerProcess
  <2> QED
    BY <2>1, <2>2
<1> QED
  BY <1>1, <1>2, PTL DEF Spec

(* heat and cpu_temp never leave their ranges, however the unlocked loads  *)
(* and stores of cpu_temp interleave.                                      *)
THEOREM TypeCorrect == Spec => []TypeOK
BY SchedInvariant, PTL DEF SchedInv

(* No process is ever on two CPUs, for any number of CPUs and processes.   *)
THEOREM MutualExclusion == Spec => []OneCpuPerProcess
BY SchedInvariant, PTL DEF SchedInv, CpuInv

(* RUNNING and c->proc agree, for any number of CPUs and processes.        *)
THEOREM RunningAgrees == Spec => []RunningIsOnCpu
<1>1. ASSUME SchedInv, NEW p \in Slots, NEW c \in CPU, cproc[c] = p
      PROVE  state[p] = "RUNNING" \/ plock[p] = c
  <2>1. Owns(c) /\ p # 0
    BY <1>1 DEF SchedInv, CpuInv, Slots
  <2> QED
    BY Zenon, <1>1, <2>1 DEF Owns
<1>2. SchedInv => RunningIsOnCpu
  BY Zenon, <1>1 DEF SchedInv, CpuInv, RunningIsOnCpu
<1> QED
  BY <1>2, SchedInvariant, PTL
=============================================================================
