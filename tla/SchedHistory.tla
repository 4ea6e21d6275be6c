---------------------------- MODULE SchedHistory ----------------------------
(***************************************************************************)
(* ThermalSched with two history variables, for what scheduler() keeps of  *)
(* its unlocked tests on any number of CPUs: the throttle of STEP 2, which *)
(* other CPUs may make stale before the dispatch of STEP 5, and the scan   *)
(* of STEP 0, during which children of test programs come and go.          *)
(***************************************************************************)
EXTENDS ThermalSched

VARIABLES
  late,    \* has the CPU dispatched a process since cpu_temp reached THROTTLE_TEMP?
  watch    \* the test children active ever since the CPU began its scan of STEP 0

hvars == <<vars, late, watch>>

Dispatches(c) == cproc[c] = 0 /\ cproc'[c] # 0
TooHot == cpu_temp >= THROTTLE_TEMP

HInit ==
  /\ Init
  /\ late = [c \in CPU |-> FALSE]
  /\ watch = [c \in CPU |-> {}]

Remember ==
  /\ late' = [c \in CPU |-> TooHot' /\ (late[c] \/ (TooHot /\ Dispatches(c)))]
  /\ watch' = [c \in CPU |->
       IF pc'[c] \notin {"active", "print"} THEN {}
       ELSE { p \in IF pc[c] \in {"active", "print"} THEN watch[c] ELSE Slots :
                ActiveTest(p)' }]

HSpec == HInit /\ [][Next /\ Remember]_hvars

-----------------------------------------------------------------------------
(* "Hard throttle: force idle when CPU is critical": however many CPUs     *)
(* heat the machine between a CPU's test of STEP 2 and its dispatch of     *)
(* STEP 5, and whatever updates of cpu_temp are lost, a CPU dispatches at  *)
(* most the one process it was about to choose; the next round it idles,   *)
(* as long as cpu_temp stays at or above THROTTLE_TEMP. ("No process       *)
(* runs", the rest of that comment, holds on one CPU only.)                *)
OneRunPerThrottle ==
  [][\A c \in CPU : TooHot /\ Dispatches(c) => ~late[c]]_hvars

(* "Detect end of schedtest": no summary is printed over a child of a test *)
(* program that was active through all of the scan, although the scan      *)
(* takes one p->lock after the other and the other CPUs run, stop, create  *)
(* and reap processes meanwhile. (A child that is forked behind the scan   *)
(* is missed.)                                                             *)
SummaryAtEnd ==
  \A c \in CPU : pc[c] = "print" => watch[c] = {}
=============================================================================
