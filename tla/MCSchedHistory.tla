--------------------------- MODULE MCSchedHistory ---------------------------
(* SchedHistory for TLC: the CPUs are interchangeable.                     *)
EXTENDS SchedHistory, TLC
Symmetry == Permutations(CPU)
=============================================================================
