------------------------------ MODULE MCBcache ------------------------------
(* Bcache for TLC: processes and blocks are interchangeable.               *)
EXTENDS Bcache, TLC
MCBuf == 1..NBUF
Symmetry == Permutations(Proc) \cup Permutations(Block)
=============================================================================
