------------------------- MODULE SchedHistoryProofs -------------------------
(***************************************************************************)
(* The throttle and the summary of scheduler(), for every number of CPUs   *)
(* and process slots and for all thresholds.                               *)
(***************************************************************************)
EXTENDS SchedHistory, ThermalSchedInvariant

Steps(c) == SchedStep(c) \/ IdleTick(c) \/ TickStep(c) \/ ProcStep(c) \/ Wakeup(c)

(* From the test of STEP 2 that found the CPU cool enough to the dispatch. *)
Committed == {"passA", "mark", "marked", "passB", "passC", "waiting", "dispatch"}

(* The loops over proc[].                                                  *)
Loops == {"active", "decay", "passA", "mark", "marked", "passB", "passC", "waiting"}

(* Outside of its loops a CPU's index is at the first slot.                *)
IdxInv == \A c \in CPU : pc[c] \notin Loops => idx[c] = 1

(* A history of spared dispatches belongs to a machine that is too hot,    *)
(* and to a CPU that is not about to dispatch again.                       *)
LateInv ==
  \A c \in CPU : late[c] => TooHot /\ pc[c] \notin Committed

(* Whoever was active from the start of the scan on is still ahead of it.  *)
WatchInv ==
  \A c \in CPU :
    /\ watch[c] \subseteq Slots
    /\ pc[c] = "active" => \A p \in watch[c] : p >= idx[c]
    /\ pc[c] = "print" => watch[c] = {}

HInv == SchedInv /\ IdxInv /\ LateInv /\ WatchInv

-----------------------------------------------------------------------------
(* A CPU moves only its own place, index and process.                      *)
LEMMA OthersStay ==
  ASSUME TypeOK, NEW d \in CPU, Steps(d), NEW c \in CPU, c # d
  PROVE  pc'[c] = pc[c] /\ idx'[c] = idx[c] /\ cproc'[c] = cproc[c]
<1> USE DEF procVars, sumVars, pickVars
<1>0. /\ pc \in [CPU -> SchedPc \cup ProcPc] /\ cproc \in [CPU -> Slots \cup {0}]
      /\ idx \in [CPU -> Slots]
  BY DEF TypeOK
<1>1. CASE \/ IdleTick(d) \/ StartRound(d) \/ PrintSummary(d) \/ ResetMetrics(d)
           \/ Throttle(d) \/ CoolLoad(d) \/ CoolStore(d) \/ HeatLoad(d)
           \/ HeatStore(d) \/ TickLoad(d) \/ TickStore(d) \/ SwitchBack(d)
  BY <1>0, <1>1
     DEF IdleTick, StartRound, PrintSummary, ResetMetrics, Throttle, CoolLoad, CoolStore,
         HeatLoad, HeatStore, TickLoad, TickStore, SwitchBack, Goto
<1>2. CASE \/ ScanActive(d) \/ Decay(d) \/ PassA(d) \/ MarkRun(d) \/ PickTest(d)
           \/ PassB(d) \/ PassC(d) \/ CountWaiting(d)
  BY <1>0, <1>2
     DEF ScanActive, Decay, PassA, MarkRun, PickTest, PassB, PassC, CountWaiting,
         NextSlot, LeaveLoop, Goto
<1>3. CASE Dispatch(d)
  BY <1>0, <1>3 DEF Dispatch, Goto
<1>4. CASE Yield(d) \/ Sleep(d) \/ Exit(d)
  BY <1>0, <1>4 DEF Yield, Sleep, Exit, GiveUp, Goto
<1>5. CASE Fork(d) \/ Exec(d) \/ Reap(d) \/ Wakeup(d)
  BY <1>5 DEF Fork, Exec, Reap, Wakeup
<1> QED
  BY <1>1, <1>2, <1>3, <1>4, <1>5 DEF Steps, SchedStep, TickStep, ProcStep

(* What one step of c itself does to its place, index and process.         *)
LEMMA OwnStep ==
  ASSUME TypeOK, CpuInv, NEW c \in CPU, Steps(c), pc[c] \notin Loops => idx[c] = 1
  PROVE  /\ pc'[c] \notin Loops => idx'[c] = 1
         /\ pc'[c] \in Committed /\ pc[c] \notin Committed => ~TooHot /\ ~TooHot'
         /\ Dispatches(c) => pc[c] = "dispatch" /\ pc'[c] \notin Committed
         /\ pc'[c] = "active" =>
              \/ pc[c] # "print" /\ idx'[c] = 1
              \/ /\ pc[c] = "active" /\ idx'[c] = idx[c] + 1
                 /\ \A q \in Slots : q = idx[c] => ~ActiveTest(q)'
         /\ pc'[c] = "print" =>
              /\ pc[c] = "active" /\ idx[c] = NPROC
              /\ \A q \in Slots : q = idx[c] => ~ActiveTest(q)'
<1> USE DEF procVars, sumVars, pickVars
<1>0. /\ pc \in [CPU -> SchedPc \cup ProcPc] /\ cproc \in [CPU -> Slots \cup {0}]
      /\ idx \in [CPU -> Slots] /\ cpu_temp \in TEMP_LOW..TEMP_HIGH
  BY DEF TypeOK
<1>a. /\ THROTTLE_TEMP \in Int /\ TEMP_LOW \in Int /\ TEMP_HIGH \in Int
      /\ NPROC \in Nat /\ idx[c] \in 1..NPROC
  BY <1>0, SchedAssumption DEF Slots
<1>1. CASE \/ IdleTick(c) \/ PrintSummary(c) \/ ResetMetrics(c) \/ CoolLoad(c)
           \/ CoolStore(c) \/ HeatLoad(c) \/ HeatStore(c) \/ TickLoad(c)
           \/ TickStore(c) \/ SwitchBack(c)
  BY <1>0, <1>1
     DEF IdleTick, PrintSummary, ResetMetrics, CoolLoad, CoolStore, HeatLoad, HeatStore,
         TickLoad, TickStore, SwitchBack, Goto, Loops, Committed, Dispatches
<1>2. CASE StartRound(c) \/ Throttle(c)
  BY <1>0, <1>a, <1>2 DEF StartRound, Throttle, Goto, Loops, Committed, Dispatches, TooHot
<1>3. CASE ScanActive(c)
  <2>1. UNCHANGED cproc /\ \A q \in Slots : ActiveTest(q)' = ActiveTest(q)
    BY <1>3 DEF ScanActive, ActiveTest, TestChild
  <2>2. /\ pc[c] = "active"
        /\ \/ pc'[c] = "decay" /\ idx'[c] = 1
           \/ /\ ~ActiveTest(idx[c])
              /\ IF idx[c] < NPROC THEN pc'[c] = "active" /\ idx'[c] = idx[c] + 1
                                   ELSE pc'[c] = "print" /\ idx'[c] = 1
    BY <1>0, <1>a, <1>3 DEF ScanActive, NextSlot, LeaveLoop, Goto
  <2> QED
    BY <1>a, <2>1, <2>2 DEF Loops, Committed, Dispatches
<1>4. CASE Decay(c)
  BY <1>0, <1>4 DEF Decay, NextSlot, Goto, Loops, Committed, Dispatches
<1>5. CASE \/ PassA(c) \/ MarkRun(c) \/ PickTest(c) \/ PassB(c) \/ PassC(c)
           \/ CountWaiting(c)
  <2>1. pc[c] \in Committed /\ pc[c] \in Loops /\ UNCHANGED <<cproc, cpu_temp>>
    BY <1>5 DEF PassA, MarkRun, PickTest, PassB, PassC, CountWaiting, Committed, Loops
  <2>2. /\ pc'[c] \notin {"active", "print"}
        /\ pc'[c] \notin Loops => idx'[c] = 1
    BY <1>0, <1>5
       DEF PassA, MarkRun, PickTest, PassB, PassC, CountWaiting, NextSlot, LeaveLoop,
           AfterA, Goto, Loops
  <2> QED
    BY <2>1, <2>2 DEF Dispatches
<1>6. CASE Dispatch(c)
  BY <1>0, <1>6 DEF Dispatch, Goto, Loops, Committed, Dispatches
<1>7. CASE Yield(c) \/ Sleep(c) \/ Exit(c)
  BY <1>0, <1>7 DEF Yield, Sleep, Exit, GiveUp, Goto, Loops, Committed, Dispatches
<1>8. CASE Fork(c) \/ Exec(c) \/ Reap(c) \/ Wakeup(c)
  BY <1>0, <1>8 DEF Fork, Exec, Reap, Wakeup, Loops, Committed, Dispatches
<1> QED
  BY <1>1, <1>2, <1>3, <1>4, <1>5, <1>6, <1>7, <1>8
     DEF Steps, SchedStep, TickStep, ProcStep

-----------------------------------------------------------------------------
(* The three parts of the invariant are kept.                              *)
LEMMA NextHInv ==
  ASSUME HInv, SchedInv', Next, Remember
  PROVE  HInv'
<1>1. PICK d \in CPU : Steps(d)
  BY DEF Next, Steps
<1>2. TypeOK /\ CpuInv /\ IdxInv /\ LateInv /\ WatchInv
  BY DEF HInv, SchedInv
<1> HIDE DEF HInv
<1>3. ASSUME NEW c \in CPU PROVE pc'[c] \notin Loops => idx'[c] = 1
  <2>1. CASE c = d
    BY Zenon, <1>1, <1>2, <2>1, OwnStep DEF IdxInv
  <2>2. CASE c # d
    BY Zenon, <1>1, <1>2, <2>2, OthersStay DEF IdxInv
  <2> QED
    BY <2>1, <2>2
<1>4. ASSUME NEW c \in CPU, late'[c] PROVE TooHot' /\ pc'[c] \notin Committed
  <2>1. TooHot' /\ (late[c] \/ (TooHot /\ Dispatches(c)))
    BY <1>4 DEF Remember
  <2>2. CASE Dispatches(c)
    <3>1. c = d
      BY <1>1, <1>2, <2>2, OthersStay DEF Dispatches
    <3> QED
      BY Zenon, <1>1, <1>2, <2>1, <2>2, <3>1, OwnStep DEF IdxInv
  <2>3. CASE late[c]
    BY Zenon, <1>1, <1>2, <2>1, <2>3, OwnStep, OthersStay DEF IdxInv, LateInv
  <2> QED
    BY <2>1, <2>2, <2>3
<1>5. ASSUME NEW c \in CPU
      PROVE  /\ watch'[c] \subseteq Slots
             /\ pc'[c] = "active" => \A p \in watch'[c] : p >= idx'[c]
             /\ pc'[c] = "print" => watch'[c] = {}
  <2>1. watch'[c] = IF pc'[c] \notin {"active", "print"} THEN {}
                    ELSE { p \in IF pc[c] \in {"active", "print"} THEN watch[c] ELSE Slots :
                             ActiveTest(p)' }
    BY DEF Remember
  <2>2. watch[c] \subseteq Slots
    BY <1>2 DEF WatchInv
  <2>3. watch'[c] \subseteq Slots
    BY Zenon, <2>1, <2>2
  <2>4. pc[c] \in {"active", "print"} => \A p \in watch'[c] : p \in watch[c] /\ ActiveTest(p)'
    BY Zenon, <2>1
  <2>5. CASE c # d
    <3>1. pc'[c] = pc[c] /\ idx'[c] = idx[c]
      BY <1>1, <1>2, <2>5, OthersStay
    <3> QED
      BY <1>2, <2>3, <2>4, <3>1 DEF WatchInv
  <2>6. CASE c = d
    <3>1. /\ pc'[c] = "active" =>
               \/ pc[c] # "print" /\ idx'[c] = 1
               \/ /\ pc[c] = "active" /\ idx'[c] = idx[c] + 1
                  /\ \A q \in Slots : q = idx[c] => ~ActiveTest(q)'
          /\ pc'[c] = "print" =>
               /\ pc[c] = "active" /\ idx[c] = NPROC
               /\ \A q \in Slots : q = idx[c] => ~ActiveTest(q)'
      BY Zenon, <1>1, <1>2, <2>6, OwnStep DEF IdxInv
    <3>2. NPROC \in Nat /\ idx[c] \in 1..NPROC /\ Slots = 1..NPROC
      BY <1>2, SchedAssumption DEF TypeOK, Slots
    <3>3. pc[c] = "active" => \A p \in watch[c] : p \in 1..NPROC /\ p >= idx[c]
      BY <1>2, <2>2, <3>2 DEF WatchInv
    <3>4. ASSUME pc'[c] = "active", NEW p \in watch'[c] PROVE p >= idx'[c]
      BY <2>3, <2>4, <3>1, <3>2, <3>3, <3>4
    <3>5. ASSUME pc'[c] = "print", NEW p \in watch'[c] PROVE FALSE
      BY <2>3, <2>4, <3>1, <3>2, <3>3, <3>5
    <3> QED
      BY <2>3, <3>4, <3>5
  <2> QED
    BY <2>5, <2>6
<1> QED
  BY <1>3, <1>4, <1>5 DEF HInv, IdxInv, LateInv, WatchInv

(* The history variables do not restrain the scheduler.                    *)
LEMMA HistoryImplementsSpec == HSpec => Spec
<1>1. HInit => Init
  BY DEF HInit
<1>2. [Next /\ Remember]_hvars => [Next]_vars
  BY DEF hvars
<1> QED
  BY <1>1, <1>2, PTL DEF HSpec, Spec

(* The invariant of all behaviours.                                        *)
LEMMA HistoryInvariant == HSpec => []HInv
<1>1. HInit /\ SchedInv => HInv
  <2> SUFFICES ASSUME HInit, SchedInv PROVE HInv
    OBVIOUS
  <2>1. \A c \in CPU : idx[c] = 1 /\ pc[c] = "top" /\ ~late[c] /\ watch[c] = {}
    BY DEF HInit, Init, InitSched
  <2> QED
    BY <2>1 DEF HInv, IdxInv, LateInv, WatchInv
<1>2. HInv /\ SchedInv' /\ [Next /\ Remember]_hvars => HInv'
  <2>1. CASE UNCHANGED hvars
    <3>1. HInv /\ UNCHANGED hvars /\ SchedInv' => HInv'
      BY DEF hvars, vars, HInv, IdxInv, LateInv, WatchInv, TooHot
    <3> QED
      BY <2>1, <3>1
  <2>2. CASE Next /\ Remember
    BY <2>2, NextHInv
  <2> QED
    BY <2>1, <2>2
<1> QED
  BY <1>1, <1>2, HistoryImplementsSpec, SchedInvariant, PTL DEF HSpec

(* With any number of CPUs, and whatever updates of cpu_temp are lost, a   *)
(* CPU dispatches at most one process while cpu_temp stays at or above     *)
(* THROTTLE_TEMP: the one it had passed the test of STEP 2 for.            *)
THEOREM ThrottleStopsEveryCpu == HSpec => OneRunPerThrottle
<1>1. HInv /\ [Next /\ Remember]_hvars =>
        [\A c \in CPU : TooHot /\ Dispatches(c) => ~late[c]]_hvars
  <2> SUFFICES ASSUME HInv, Next, NEW c \in CPU, Dispatches(c)
               PROVE  ~late[c]
    OBVIOUS
  <2>1. PICK d \in CPU : Steps(d)
    BY DEF Next, Steps
  <2>2. TypeOK /\ CpuInv /\ IdxInv /\ LateInv
    BY DEF HInv, SchedInv
  <2>3. c = d
    BY <2>1, <2>2, OthersStay DEF Dispatches
  <2>4. pc[c] = "dispatch"
    BY Zenon, <2>1, <2>2, <2>3, OwnStep DEF IdxInv
  <2> QED
    BY <2>2, <2>4 DEF LateInv, Committed
<1> QED
  BY <1>1, HistoryInvariant, PTL DEF HSpec, OneRunPerThrottle

(* With any number of CPUs no summary is printed over a child of a test    *)
(* program that was active through all of the scan of STEP 0.              *)
THEOREM NoEarlySummary == HSpec => []SummaryAtEnd
<1>1. HInv => SummaryAtEnd
  BY DEF HInv, WatchInv, SummaryAtEnd
<1> QED
  BY <1>1, HistoryInvariant, PTL
=============================================================================
