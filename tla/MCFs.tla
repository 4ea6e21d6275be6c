-------------------------------- MODULE MCFs --------------------------------
(***************************************************************************)
(* Fs for TLC: two names; one process makes and removes a directory,       *)
(* creates and opens a file in it, and looks through "..", the other makes *)
(* a directory in it, links and removes what is in it and removes it too.  *)
(***************************************************************************)
EXTENDS Fs, TLC

CONSTANTS p1, p2

On(op, path) == [op |-> op, path |-> path]
Link(path, new) == [op |-> "link", path |-> path, new |-> new]
Close == [op |-> "close"]
A == <<"a">>
B == <<"b">>
AB == <<"a", "b">>
Up == <<"a", "b", "..">>

TreeCalls ==
  p1 :> { On("mkdir", A), On("unlink", A), On("create", AB), On("open", AB), On("open", Up), Close } @@
  p2 :> { On("mkdir", AB), On("unlink", AB), Link(AB, B), On("unlink", A) }

(* A directory is removed while the other process fails to make one.       *)
OrphanCalls == p1 :> { On("mkdir", A), On("unlink", A) } @@ p2 :> { On("mkdir", A) }

(* The order in which free inodes are taken is open, so that they are      *)
(* alike, the root apart.                                                  *)
Symmetry == Permutations(Inum \ {ROOT})

(* Three calls go into one commit only with a lookup through "..", so that *)
(* both directories can be removed under it; otherwise two.                *)
Grouped ==
  begun' > begun /\ begun' > 2 => \E p \in Proc : call'[p] = On("open", Up)
=============================================================================
