------------------------- MODULE ThermalSchedProofs -------------------------
(***************************************************************************)
(* The scheduler refines CpuAlloc, for every number of CPUs and process    *)
(* slots and for all thresholds.                                           *)
(***************************************************************************)
EXTENDS ThermalSchedInvariant

(* A step that neither enters nor leaves swtch(), changes no state and no  *)
(* c->proc is invisible to CpuAlloc.                                       *)
LEMMA StutterStep ==
  ASSUME UNCHANGED <<state, cproc>>,
         \A d \in CPU : pc'[d] = "swtch" <=> pc[d] = "swtch"
  PROVE  UNCHANGED Alloc!vars
<1>1. \A p \in Slots : InSwtch(p)' <=> InSwtch(p)
  BY DEF InSwtch
<1> QED
  BY <1>1 DEF Alloc!vars, AllocState

(* A free or unowned process is not in the middle of swtch().              *)
LEMMA FreeNotInSwtch ==
  ASSUME CpuInv, NEW p \in Slots, plock[p] = 0
  PROVE  ~InSwtch(p)
BY SchedAssumption DEF CpuInv, Owns, InSwtch

(* fork, wait, wakeup and kill change the state of one process that has no *)
(* CPU.                                                                    *)
LEMMA OffCpuStep ==
  ASSUME TypeOK, CpuInv, NEW q \in Slots, NEW s, plock[q] = 0,
         state' = [state EXCEPT ![q] = s], UNCHANGED <<pc, cproc>>
  PROVE  /\ AllocState[q] = state[q]
         /\ AllocState' = [AllocState EXCEPT ![q] = s]
<1>1. ~InSwtch(q)
  BY FreeNotInSwtch
<1>2. \A p \in Slots : InSwtch(p)' <=> InSwtch(p)
  BY DEF InSwtch
<1>3. \A p \in Slots : state'[p] = IF p = q THEN s ELSE state[p]
  BY DEF TypeOK
<1> QED
  BY Zenon, <1>1, <1>2, <1>3 DEF AllocState

(* Every step is a step of CpuAlloc or invisible to it.                    *)
LEMMA StepRefines ==
  ASSUME TypeOK, CpuInv, NEW c \in CPU,
         \/ SchedStep(c) \/ IdleTick(c) \/ TickStep(c)
         \/ ProcStep(c) \/ Wakeup(c)
  PROVE  [Alloc!Next]_(Alloc!vars)
<1> USE DEF procVars, sumVars, pickVars
<1>0. /\ pc \in [CPU -> SchedPc \cup ProcPc] /\ cproc \in [CPU -> Slots \cup {0}]
      /\ chosen \in [CPU -> Slots \cup {0}]
      /\ plock \in [Slots -> CPU \cup {0}] /\ state \in [Slots -> ProcState]
  BY DEF TypeOK
<1>1. CASE \/ IdleTick(c) \/ StartRound(c) \/ PrintSummary(c) \/ ResetMetrics(c)
           \/ Throttle(c) \/ CoolLoad(c) \/ CoolStore(c) \/ HeatLoad(c)
           \/ HeatStore(c) \/ TickLoad(c) \/ TickStore(c) \/ Exec(c)
  BY Zenon, <1>0, <1>1, StutterStep
     DEF IdleTick, StartRound, PrintSummary, ResetMetrics, Throttle, CoolLoad,
         CoolStore, HeatLoad, HeatStore, TickLoad, TickStore, Exec, Goto
<1>2. CASE \/ ScanActive(c) \/ Decay(c) \/ PassA(c) \/ MarkRun(c) \/ PickTest(c)
           \/ PassB(c) \/ PassC(c) \/ CountWaiting(c)
  BY Zenon, <1>0, <1>2, StutterStep
     DEF ScanActive, Decay, PassA, MarkRun, PickTest, PassB, PassC,
         CountWaiting, NextSlot, LeaveLoop, AfterA, Goto
<1>3. CASE Dispatch(c)
  <2> DEFINE p == chosen[c]
  <2>0. /\ pc[c] = "dispatch" /\ plock[p] = 0 /\ p \in Slots /\ cproc[c] = 0
    BY <1>0, <1>3 DEF Dispatch, Free, CpuInv, Owns, ProcPc
  <2>1. CASE state[p] = "RUNNABLE"
    <3>1. /\ state' = [state EXCEPT ![p] = "RUNNING"]
          /\ cproc' = [cproc EXCEPT ![c] = p]
          /\ pc' = [pc EXCEPT ![c] = "heating"]
      BY <1>3, <2>1 DEF Dispatch, Goto
    <3>2. ~InSwtch(p)
      BY Zenon, <2>0, FreeNotInSwtch
    <3>3. \A q \in Slots : InSwtch(q)' <=> InSwtch(q)
      BY <1>0, <2>0, <3>1 DEF InSwtch
    <3>4. \A q \in Slots : state'[q] = IF q = p THEN "RUNNING" ELSE state[q]
      BY <1>0, <3>1
    <3>5. /\ AllocState[p] = "RUNNABLE"
          /\ AllocState' = [AllocState EXCEPT ![p] = "RUNNING"]
      BY Zenon, <2>0, <2>1, <3>2, <3>3, <3>4 DEF AllocState
    <3>6. Alloc!Run(c, p)
      BY <2>0, <3>1, <3>5 DEF Alloc!Run
    <3> QED
      BY Zenon, <2>0, <3>6 DEF Alloc!Next
  <2>2. CASE state[p] # "RUNNABLE"
    <3>1. UNCHANGED <<state, cproc>> /\ pc' = [pc EXCEPT ![c] = "top"]
      BY <1>3, <2>2 DEF Dispatch, Goto
    <3> QED
      BY <1>0, <2>0, <3>1, StutterStep
  <2> QED
    BY <2>1, <2>2
<1>4. CASE Yield(c) \/ Sleep(c) \/ Exit(c)
  <2> DEFINE p == cproc[c]
  <2>1. PICK s \in {"RUNNABLE", "SLEEPING", "ZOMBIE"} : GiveUp(c, s)
    BY <1>4 DEF Yield, Sleep, Exit
  <2>2. /\ pc[c] \in {"run", "ticked"} /\ p \in Slots
        /\ state[p] = "RUNNING"
        /\ state' = [state EXCEPT ![p] = s]
        /\ pc' = [pc EXCEPT ![c] = "swtch"]
        /\ UNCHANGED cproc
    <3>1. pc[c] \in {"run", "ticked"} /\ Owns(c)
      BY Zenon, <1>4 DEF Yield, Sleep, Exit, CpuInv
    <3>2. p # 0 /\ state[p] = "RUNNING"
      BY Zenon, <3>1 DEF Owns, ProcPc
    <3> QED
      BY <1>0, <2>1, <3>1, <3>2 DEF GiveUp, Goto
  <2>3. InSwtch(p)'
    BY <1>0, <2>2 DEF InSwtch
  <2>4. \A q \in Slots \ {p} : /\ InSwtch(q)' <=> InSwtch(q)
                               /\ state'[q] = state[q]
    BY <1>0, <2>2 DEF InSwtch
  <2>5. AllocState' = AllocState
    BY <2>2, <2>3, <2>4 DEF AllocState
  <2> QED
    BY <2>2, <2>5 DEF Alloc!vars
<1>5. CASE SwitchBack(c)
  <2>0. PICK p \in Slots : p = cproc[c]
    BY <1>0, <1>5 DEF SwitchBack, CpuInv, Owns, ProcPc
  <2>1. /\ pc[c] = "swtch"
        /\ state[p] \in {"RUNNABLE", "SLEEPING", "ZOMBIE"}
        /\ cproc' = [cproc EXCEPT ![c] = 0]
        /\ pc' = [pc EXCEPT ![c] = "top"]
        /\ UNCHANGED state
    BY <1>5, <2>0 DEF SwitchBack, Goto, CpuInv, Owns
  <2>2. ~InSwtch(p)'
    BY <1>0, <2>0, <2>1 DEF InSwtch, CpuInv, OneCpuPerProcess, Slots
  <2>3. \A q \in Slots \ {p} : InSwtch(q)' <=> InSwtch(q)
    BY <1>0, <2>0, <2>1 DEF InSwtch
  <2>4. AllocState' = [AllocState EXCEPT ![p] = state[p]]
    BY Zenon, <2>1, <2>2, <2>3 DEF AllocState
  <2>5. Alloc!Stop(c, p)
    BY Zenon, <2>0, <2>1, <2>4 DEF Alloc!Stop
  <2> QED
    BY <2>5 DEF Alloc!Next
<1>6. CASE Fork(c) \/ Wakeup(c)
  <2>1. PICK q \in Slots :
          /\ state[q] \in {"UNUSED", "SLEEPING"} /\ plock[q] = 0
          /\ state' = [state EXCEPT ![q] = "RUNNABLE"]
    BY <1>6 DEF Fork, Wakeup, Free
  <2>2. UNCHANGED <<pc, cproc>>
    BY <1>6 DEF Fork, Wakeup
  <2>3. Alloc!Ready(q)
    BY Zenon, <2>1, <2>2, OffCpuStep DEF Alloc!Ready
  <2> QED
    BY <2>3 DEF Alloc!Next
<1>7. CASE Reap(c)
  <2>1. PICK q \in Slots :
          /\ state[q] = "ZOMBIE" /\ plock[q] = 0
          /\ state' = [state EXCEPT ![q] = "UNUSED"]
    BY Zenon, <1>7 DEF Reap, Free
  <2>2. UNCHANGED <<pc, cproc>>
    BY Zenon, <1>7 DEF Reap
  <2>3. Alloc!Reap(q)
    BY Zenon, <2>1, <2>2, OffCpuStep DEF Alloc!Reap
  <2> QED
    BY <2>3 DEF Alloc!Next
<1> QED
  BY <1>1, <1>2, <1>3, <1>4, <1>5, <1>6, <1>7
     DEF SchedStep, TickStep, ProcStep

(* The scheduler implements CpuAlloc, for any number of CPUs and processes *)
(* and any thermal constants.                                              *)
THEOREM SchedRefinesAlloc == Spec => ImplementsCpuAlloc
<1>1. Init => Alloc!Init
  <2> SUFFICES ASSUME Init PROVE Alloc!Init
    OBVIOUS
  <2>1. \A p \in Slots : ~InSwtch(p) /\ state[p] \in {"UNUSED", "RUNNABLE"}
    BY DEF Init, InitSched, InSwtch
  <2>2. AllocState \in [Slots -> {"UNUSED", "RUNNABLE", "SLEEPING"}]
    BY <2>1 DEF AllocState
  <2> QED
    BY <2>2 DEF Alloc!Init, Init, InitSched
<1>2. SchedInv /\ [Next]_vars => [Alloc!Next]_(Alloc!vars)
  <2> SUFFICES ASSUME SchedInv, [Next]_vars PROVE [Alloc!Next]_(Alloc!vars)
    OBVIOUS
  <2>1. CASE Next
    BY <2>1, StepRefines DEF Next, SchedInv
  <2>2. CASE UNCHANGED vars
    BY <2>2, StutterStep DEF vars
  <2> QED
    BY <2>1, <2>2
<1> QED
  BY <1>1, <1>2, SchedInvariant, PTL DEF Spec, ImplementsCpuAlloc, Alloc!Spec
=============================================================================
