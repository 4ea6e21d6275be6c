-------------------------------- MODULE MCLog -------------------------------
(***************************************************************************)
(* The log with two callers whose blocks together are as many as the log   *)
(* holds, so that only what begin_op() reserves keeps it from filling.     *)
(* Both write b1 and one of them b2, with any contents; the other also     *)
(* writes the blocks of Steady, whose contents stay the same: they only    *)
(* take up space in the log, and stay in the cache once they are in it.    *)
(***************************************************************************)
EXTENDS Log, TLC

CONSTANTS p1, p2, b1, b2, b3, b4

MCProc == {p1, p2}
MCBlock == {b1, b2, b3, b4}
Steady == {b3, b4}
Uses == p1 :> {b1, b3, b4} @@ p2 :> {b1, b2}

(* What the callers write: a restriction of Modify() and of the cache.     *)
Workload ==
  /\ \A p \in Proc :
       pc[p] = "op" /\ pc'[p] = "held" =>
         /\ held'[p] \in Uses[p]
         /\ held'[p] \in Steady => cache'[held'[p]] = 0
  /\ \A b \in Steady : ~Load(b) /\ ~Recycle(b)

MCInit == Init /\ home = [b \in Block |-> 0]
MCSpec == MCInit /\ [][Next]_vars /\ Fairness
=============================================================================
