----------------------------- MODULE PipeProofs -----------------------------
(***************************************************************************)
(* The pipe is not freed under a read() or a write(), for any number of    *)
(* processes on each side, every PIPESIZE and every order in which the     *)
(* machine performs the accesses of peterson_enter(): what it rests on is  *)
(* fileclose()'s count of the descriptors, and not mutual exclusion.       *)
(***************************************************************************)
EXTENDS Pipe, TLAPS

(* The inductive invariant. A call holds its descriptor; a thread is in    *)
(* pipeclose() only when its side has no descriptor left; a side that is   *)
(* marked closed has none; and a pipe that is freed has both sides marked. *)
SideGone(t) == \A u \in Thread : Id(u) = Id(t) => ~fd[u]

FreeInv ==
  /\ pc \in [Thread -> Critical \cup Outside]
  /\ op \in [Thread -> {"rw", "close"}]
  /\ fd \in [Thread -> BOOLEAN]
  /\ freed \in Nat
  /\ \A t \in Thread : op[t] = "rw" /\ pc[t] # "idle" => fd[t]
  /\ \A t \in Thread : op[t] = "close" => pc[t] # "idle" /\ SideGone(t)
  /\ \A t \in Thread : pc[t] \in {"close", "closed"} => op[t] = "close"
  /\ writeopen = 0 => \A t \in Writers : ~fd[t]
  /\ readopen = 0 => \A t \in Readers : ~fd[t]
  /\ freed > 0 => readopen = 0 /\ writeopen = 0

(* A step of t inside one call: it goes on to l, and nothing that FreeInv  *)
(* speaks of changes but its place.                                        *)
LEMMA GoesOn ==
  ASSUME FreeInv, NEW t \in Thread, NEW l \in (Critical \cup Outside) \ {"idle"},
         pc[t] # "idle", l \in {"close", "closed"} => op[t] = "close",
         pc' = [pc EXCEPT ![t] = l],
         UNCHANGED <<op, fd, freed, readopen, writeopen>>
  PROVE  FreeInv'
<1>1. \A u \in Thread : u # t => pc'[u] = pc[u]
  BY DEF FreeInv
<1>2. pc'[t] = l /\ pc' \in [Thread -> Critical \cup Outside]
  BY DEF FreeInv
<1>3. \A u \in Thread : SideGone(u)' <=> SideGone(u)
  BY DEF SideGone
<1>4. \A u \in Thread : pc'[u] \in {"close", "closed"} => op[u] = "close"
  BY <1>1, <1>2 DEF FreeInv
<1>5. \A u \in Thread : (pc'[u] # "idle") <=> (pc[u] # "idle")
  BY <1>1, <1>2
<1> QED
  BY <1>2, <1>3, <1>4, <1>5 DEF FreeInv

(* A step that ends t's call: peterson_exit() and the return.              *)
LEMMA Returns ==
  ASSUME FreeInv, NEW t \in Thread, Leave(t),
         UNCHANGED <<fd, readopen, writeopen>>,
         freed' \in Nat, freed' > 0 => readopen = 0 /\ writeopen = 0
  PROVE  FreeInv'
<1>1. \A u \in Thread : u # t => pc'[u] = pc[u] /\ op'[u] = op[u]
  BY DEF FreeInv, Leave, Goto
<1>2. /\ pc'[t] = "idle" /\ op'[t] = "rw"
      /\ pc' \in [Thread -> Critical \cup Outside] /\ op' \in [Thread -> {"rw", "close"}]
  BY DEF FreeInv, Leave, Goto, Outside
<1>3. \A u \in Thread : SideGone(u)' <=> SideGone(u)
  BY DEF SideGone
<1> QED
  BY <1>1, <1>2, <1>3 DEF FreeInv

(* The step of fileclose(): the last descriptor of a side goes on to       *)
(* pipeclose(). No other thread of the side is in a call then.             *)
LEMMA CloseFreeInv ==
  ASSUME FreeInv, NEW t \in Thread, Close(t)
  PROVE  FreeInv'
<1> DEFINE last == \A u \in Thread \ {t} : Id(u) = Id(t) => ~fd[u]
<1>1. /\ pc[t] = "idle" /\ fd' = [fd EXCEPT ![t] = FALSE]
      /\ op' = IF last THEN [op EXCEPT ![t] = "close"] ELSE op
      /\ pc' = [pc EXCEPT ![t] = IF last THEN "enter" ELSE "idle"]
      /\ UNCHANGED <<freed, readopen, writeopen>>
  BY DEF Close, CloseFd, Goto, openVars
<1> HIDE DEF last
<1>2. /\ pc' \in [Thread -> Critical \cup Outside] /\ op' \in [Thread -> {"rw", "close"}]
      /\ fd' \in [Thread -> BOOLEAN] /\ ~fd'[t]
  BY <1>1 DEF FreeInv, Outside
<1>3. \A u \in Thread : u # t => pc'[u] = pc[u] /\ op'[u] = op[u] /\ fd'[u] = fd[u]
  BY <1>1 DEF FreeInv
<1>4. \A u \in Thread : SideGone(u) => SideGone(u)'
  BY <1>2, <1>3 DEF SideGone
<1>5. op[t] = "rw"
  BY <1>1 DEF FreeInv
<1>6. last => SideGone(t)' /\ pc'[t] = "enter" /\ op'[t] = "close"
  BY <1>1, <1>2, <1>3 DEF last, SideGone, FreeInv
<1>7. ~last => pc'[t] = "idle" /\ op'[t] = "rw"
  BY <1>1, <1>5 DEF FreeInv
<1>8. \A u \in Thread : ~fd[u] => ~fd'[u]
  BY <1>2, <1>3
<1>9. \A u \in Thread : op'[u] = "rw" /\ pc'[u] # "idle" => fd'[u]
  BY <1>3, <1>6, <1>7 DEF FreeInv
<1>10. \A u \in Thread : op'[u] = "close" => pc'[u] # "idle" /\ SideGone(u)'
  BY <1>3, <1>4, <1>6, <1>7 DEF FreeInv
<1>11. \A u \in Thread : pc'[u] \in {"close", "closed"} => op'[u] = "close"
  BY <1>3, <1>6, <1>7 DEF FreeInv
<1> QED
  BY <1>1, <1>2, <1>8, <1>9, <1>10, <1>11 DEF FreeInv, Thread

(* pipeclose() marks a side closed that has no descriptor left.            *)
LEMMA CloseSideFreeInv ==
  ASSUME FreeInv, NEW t \in Thread, CloseSide(t)
  PROVE  FreeInv'
<1>1. /\ pc[t] = "close" /\ pc' = [pc EXCEPT ![t] = "closed"]
      /\ UNCHANGED <<op, fd, freed>>
      /\ readopen' \in {readopen, 0} /\ writeopen' \in {writeopen, 0}
      /\ t \in Writers => UNCHANGED readopen
      /\ t \notin Writers => UNCHANGED writeopen
  BY DEF CloseSide, Goto, callVars, procVars
<1>2. op[t] = "close" /\ SideGone(t)
  BY <1>1 DEF FreeInv
<1>3. writeopen' = 0 => \A u \in Writers : ~fd'[u]
  BY <1>1, <1>2 DEF FreeInv, SideGone, Id, Thread
<1>4. readopen' = 0 => \A u \in Readers : ~fd'[u]
  BY <1>1, <1>2, PipeAssumption DEF FreeInv, SideGone, Id, Thread
<1>5. freed' > 0 => readopen' = 0 /\ writeopen' = 0
  BY <1>1 DEF FreeInv
<1>6. \A u \in Thread : u # t => pc'[u] = pc[u]
  BY <1>1 DEF FreeInv
<1>7. pc'[t] = "closed" /\ pc' \in [Thread -> Critical \cup Outside]
  BY <1>1 DEF FreeInv, Critical
<1>8. \A u \in Thread : SideGone(u)' <=> SideGone(u)
  BY <1>1 DEF SideGone
<1> QED
  BY <1>1, <1>2, <1>3, <1>4, <1>5, <1>6, <1>7, <1>8 DEF FreeInv

(* Every step of a thread inside a call.                                   *)
LEMMA StepFreeInv ==
  ASSUME FreeInv, NEW t \in Thread, Step(t)
  PROVE  FreeInv'
<1> DEFINE Moves ==
      /\ pc[t] # "idle" /\ UNCHANGED <<op, fd, freed, readopen, writeopen>>
      /\ \E l \in (Critical \cup Outside) \ {"idle"} :
           /\ l \in {"close", "closed"} => op[t] = "close"
           /\ pc' = [pc EXCEPT ![t] = l]
<1>1. CASE Moves
  BY <1>1, GoesOn
<1> USE DEF Goto, ringVars, openVars, callVars, procVars
<1>2. Body(t) \in {"close", "write", "read"} /\ (Body(t) = "close" => op[t] = "close")
  BY DEF Body
<1>3. CASE StoreFlag(t) \/ TestFlag(t)
  BY <1>1, <1>2, <1>3 DEF StoreFlag, TestFlag, Critical, Outside
<1>4. CASE EarlyTest(t) \/ LateStore(t)
  BY <1>1, <1>2, <1>4 DEF EarlyTest, LateStore, Critical, Outside
<1>5. CASE Write(t)
  <2>1. CASE Leave(t)
    BY <1>5, <2>1, Returns DEF Write, FreeInv
  <2> QED
    BY <1>1, <1>5, <2>1 DEF Write, Critical, Outside
<1>6. CASE WriteFull(t) \/ LoadNwrite(t) \/ StoreNwrite(t) \/ Store(t)
  BY <1>1, <1>6 DEF WriteFull, LoadNwrite, StoreNwrite, Store, Critical, Outside
<1>7. CASE Finish(t)
  BY <1>7, Returns DEF Finish, FreeInv
<1>8. CASE Read(t)
  <2>1. CASE Leave(t)
    BY <1>8, <2>1, Returns DEF Read, FreeInv
  <2> QED
    BY <1>1, <1>8, <2>1 DEF Read, Critical, Outside
<1>9. CASE ReadEmpty(t) \/ Copy(t) \/ LoadNread(t) \/ StoreNread(t)
  BY <1>1, <1>9 DEF ReadEmpty, Copy, CopyTo, LoadNread, StoreNread, Critical, Outside
<1>10. CASE CloseSide(t)
  BY <1>10, CloseSideFreeInv
<1>11. CASE CloseBoth(t)
  BY <1>11, Returns DEF CloseBoth, FreeInv
<1> QED
  BY <1>3, <1>4, <1>5, <1>6, <1>7, <1>8, <1>9, <1>10, <1>11 DEF Step

(* Nobody reads from a pipe that is freed or writes to it, whoever holds   *)
(* it and whatever the machine reorders.                                   *)
THEOREM FreedWhenUnused == Spec => []CallsEndBeforeFree
<1>1. Init => FreeInv
  BY DEF Init, FreeInv, Outside
<1>2. FreeInv /\ [Next]_vars => FreeInv'
  <2> SUFFICES ASSUME FreeInv, [Next]_vars PROVE FreeInv'
    OBVIOUS
  <2>1. CASE UNCHANGED vars
    BY <2>1 DEF vars, FreeInv, SideGone
  <2>2. CASE Next
    <3>1. PICK t \in Thread : Step(t) \/ Call(t) \/ Close(t) \/ Kill(t)
      BY <2>2 DEF Next
    <3>2. CASE Kill(t)
      BY <3>2 DEF Kill, FreeInv, SideGone, openVars, callVars
    <3>3. CASE Call(t)
      <4>1. /\ pc[t] = "idle" /\ fd[t] /\ pc' = [pc EXCEPT ![t] = "enter"]
            /\ UNCHANGED <<op, fd, freed, readopen, writeopen>>
        BY <3>3 DEF Call, Goto, openVars, procVars
      <4>2. \A u \in Thread : u # t => pc'[u] = pc[u]
        BY <4>1 DEF FreeInv
      <4>3. pc'[t] = "enter" /\ pc' \in [Thread -> Critical \cup Outside]
        BY <4>1 DEF FreeInv, Outside
      <4>4. \A u \in Thread : SideGone(u)' <=> SideGone(u)
        BY <4>1 DEF SideGone
      <4> QED
        BY <4>1, <4>2, <4>3, <4>4 DEF FreeInv
    <3> QED
      BY <3>1, <3>2, <3>3, CloseFreeInv, StepFreeInv
  <2> QED
    BY <2>1, <2>2
<1>3. FreeInv => CallsEndBeforeFree
  BY DEF FreeInv, CallsEndBeforeFree, Thread
<1> QED
  BY <1>1, <1>2, <1>3, PTL DEF Spec
=============================================================================
