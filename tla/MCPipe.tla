------------------------------- MODULE MCPipe -------------------------------
(***************************************************************************)
(* Instances of the pipe. The threads are model values: w1, w2 write and   *)
(* r1 reads.                                                               *)
(***************************************************************************)
EXTENDS Pipe, TLC

CONSTANT SHAREDBYTES   \* bound: bytes accepted by a pipe with several writers

Symmetry == Permutations(Writers) \cup Permutations(Readers)

(* What a shared pipe must do is about calls and not about bytes: it gets  *)
(* fewer and shorter calls.                                                *)
Workload ==
  shared => /\ sent + Cardinality(Writing)' <= SHAREDBYTES
            /\ \A t \in Thread : n'[t] <= 1
=============================================================================
