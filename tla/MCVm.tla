-------------------------------- MODULE MCVm --------------------------------
(***************************************************************************)
(* Vm for TLC: tables of two entries a page, and memory of several sizes,  *)
(* from one that just holds the first process to one that holds two and a  *)
(* table that kexec() builds.                                              *)
(***************************************************************************)
EXTENDS Vm, TLC

TwoSegments == <<[vaddr |-> 0, memsz |-> 1], [vaddr |-> 1, memsz |-> 1]>>
Only(call) == [call |-> call, n |-> 0]
Sbrk(n) == [call |-> "sbrk", n |-> n]
Lazy(n) == [call |-> "sbrk_lazy", n |-> n]
MCCalls ==
  1 :> {Only("fork"), Only("wait"), Sbrk(3), Lazy(3)} @@
  2 :> {Only("exec"), Only("vmfault"), Only("exit"), Lazy(3), Sbrk(-6)}

(* Pages differ only in their names, so that two states that agree on where *)
(* there is a page, and on how many are free, have the same futures.       *)
Filled(f) == {x \in DOMAIN f : f[x] # 0}
UpToPages ==
  <<ram, Cardinality(free), sz, Filled(tf), state, panicked,
    [t \in Tables |-> <<Filled(tbl[t].node), Filled(tbl[t].leaf)>>],
    [p \in Slots |-> [op[p] EXCEPT !.mem = Filled(<<op[p].mem>>), !.argv = Cardinality(@)]]>>
=============================================================================
