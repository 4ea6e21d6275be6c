--------------------------- MODULE MCThermalSched ---------------------------
(* Instances of ThermalSched for TLC.                                      *)
EXTENDS ThermalSched, TLC

(* A busy machine: the children of init have slept long enough to be cold, *)
(* one tick has woken them all, and from now on they compute.              *)
BusyInit ==
  /\ InitSched
  /\ state = [p \in Slots |-> IF p = initproc THEN "SLEEPING" ELSE "RUNNABLE"]
  /\ pid = [p \in Slots |-> p]
  /\ parent = [p \in Slots |-> IF p = initproc THEN 0 ELSE initproc]
  /\ is_test = [p \in Slots |-> FALSE]
  /\ nextpid = NPROC + 1

BusyFairSpec ==
  /\ BusyInit /\ [][Next]_vars
  /\ \A c \in CPU : WF_vars(SchedStep(c)) /\ WF_vars(TickStep(c))

(* A test program in slot 2 and its children in the slots after it. A slot *)
(* has been used twice, so the pids are not in the order of the slots.     *)
TestInit ==
  /\ InitSched
  /\ state = [p \in Slots |-> IF p <= 2 THEN "SLEEPING" ELSE "RUNNABLE"]
  /\ pid = [p \in Slots |-> IF p = 3 THEN NPROC + 1 ELSE p]
  /\ parent = [p \in Slots |-> IF p = 1 THEN 0 ELSE IF p = 2 THEN 1 ELSE 2]
  /\ is_test = [p \in Slots |-> p >= 2]
  /\ nextpid = NPROC + 2

TestSpec == TestInit /\ [][Next]_vars
=============================================================================
