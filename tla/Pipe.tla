-------------------------------- MODULE Pipe --------------------------------
(***************************************************************************)
(* The pipe of kernel/pipe.c: a ring buffer of PIPESIZE bytes between the  *)
(* processes that hold its writing side and those that hold its reading    *)
(* side. It has no spinlock: pipewrite(), piperead() and pipeclose() are   *)
(* bracketed by peterson_enter() and peterson_exit(), with thread id 0 for *)
(* everything on the writing side and 1 for the reading side. Any number   *)
(* of processes may hold a side; if several do, the pipe is `shared'.      *)
(*                                                                         *)
(* The flags are plain ints. What the build makes of peterson_enter() is   *)
(* what is modelled: flag[id] is stored, flag[other] is loaded once, and a *)
(* thread that loaded 1 spins without loading it again. turn is stored and *)
(* never loaded, so it is left out. There is no fence between the store    *)
(* and the load: unless `ordered', the hart may perform the load before    *)
(* the store is visible.                                                   *)
(*                                                                         *)
(* sleep(chan, 0) takes p->lock and then releases the lock at address 0,   *)
(* which is not mapped: the kernel panics on that hart with p->lock held,  *)
(* and wakeup(), which takes every p->lock in turn, never returns again.   *)
(***************************************************************************)
EXTENDS Integers, Sequences, FiniteSets

CONSTANTS
  Writers, Readers,   \* the processes that may hold a descriptor of each side
  PIPESIZE,
  UINT,               \* 2^32: what nread and nwrite wrap at
  MAXN,               \* bound: bytes asked for by one read() or write()
  MAXBYTES            \* bound: bytes accepted over the life of the pipe

ASSUME PipeAssumption ==
  /\ Writers \cap Readers = {}
  /\ PIPESIZE \in Nat \ {0} /\ MAXN \in Nat /\ MAXBYTES \in Nat
  /\ UINT \in Nat /\ UINT > PIPESIZE /\ UINT % PIPESIZE = 0

Thread == Writers \cup Readers

Id(t) == IF t \in Writers THEN 0 ELSE 1

VARIABLES
  nread, nwrite, data, readopen, writeopen, flag,   \* struct pipe
  freed,              \* how often kfree(pi) was called
  pc, op, n, i, slot, \* of each thread: place, system call, its locals
  fd,                 \* its descriptor of the pipe is open
  killed,             \* p->killed
  ordered,            \* this machine performs loads after earlier stores
  shared,             \* some side was given to more than one process
  sent, got,          \* history: bytes accepted, bytes delivered if not shared
  eof                 \* history: a read() of n > 0 bytes returned 0, if not shared

ringVars == <<nread, nwrite, data, sent, got>>
openVars == <<readopen, writeopen, freed>>
callVars == <<op, n, i, slot>>
procVars == <<fd, killed, ordered, shared>>
vars == <<nread, nwrite, data, readopen, writeopen, flag, freed, pc, op, n, i,
          slot, fd, killed, ordered, shared, sent, got, eof>>

(* The places between a successful peterson_enter() and peterson_exit().   *)
Critical == {"write", "load", "bump", "store", "read", "copy", "take", "count", "close",
             "closed", "finish", "panic"}
Outside == {"idle", "enter", "test", "lateIn", "lateSpin", "spin"}

Byte == 1..MAXBYTES

Goto(t, label) == pc' = [pc EXCEPT ![t] = label]

(* wakeup() takes and releases every p->lock. Nobody sleeps on a pipe, so  *)
(* it has no other effect.                                                 *)
WakeupReturns == \A t \in Thread : pc[t] # "panic"

Body(t) == IF op[t] = "close" THEN "close"
           ELSE IF t \in Writers THEN "write" ELSE "read"

-----------------------------------------------------------------------------
(* pipealloc(), and the fork()s that give some processes of each side      *)
(* their descriptor.                                                       *)
Holders(side) == { t \in side : fd[t] }

Init ==
  /\ nread = 0 /\ nwrite = 0
  /\ data = [k \in 0..(PIPESIZE - 1) |-> 0]
  /\ readopen = 1 /\ writeopen = 1
  /\ flag = [d \in {0, 1} |-> 0]
  /\ freed = 0
  /\ pc = [t \in Thread |-> "idle"]
  /\ op = [t \in Thread |-> "rw"]
  /\ n = [t \in Thread |-> 0]
  /\ i = [t \in Thread |-> 0]
  /\ slot = [t \in Thread |-> 0]
  /\ fd \in [Thread -> BOOLEAN] /\ Holders(Writers) # {} /\ Holders(Readers) # {}
  /\ shared = \E t, u \in Thread : t # u /\ fd[t] /\ fd[u] /\ Id(t) = Id(u)
  /\ killed = [t \in Thread |-> FALSE]
  /\ ordered \in BOOLEAN /\ shared \in BOOLEAN
  /\ sent = 0 /\ got = <<>> /\ eof = FALSE

(* sys_read() or sys_write(): fileread() and filewrite() pass n on.        *)
Call(t) ==
  /\ pc[t] = "idle" /\ fd[t] /\ ~killed[t]
  /\ \E k \in 0..MAXN : n' = [n EXCEPT ![t] = k]
  /\ Goto(t, "enter")
  /\ UNCHANGED <<op, i, slot, flag, eof, ringVars, openVars, procVars>>

(* fileclose(), by close() or by exit: the last descriptor of a side calls *)
(* pipeclose().                                                            *)
CloseFd(t, last) ==
  /\ pc[t] = "idle" /\ fd[t]
  /\ fd' = [fd EXCEPT ![t] = FALSE]
  /\ op' = IF last THEN [op EXCEPT ![t] = "close"] ELSE op
  /\ Goto(t, IF last THEN "enter" ELSE "idle")
  /\ UNCHANGED <<n, i, slot, killed, ordered, shared, flag, eof, ringVars, openVars>>

(* Fault: --f->ref > 0 is not tested.                                      *)
CloseAny(t) == CloseFd(t, TRUE)

Close(t) == CloseFd(t, \A u \in Thread \ {t} : Id(u) = Id(t) => ~fd[u])

Kill(t) ==
  /\ ~killed[t]
  /\ killed' = [killed EXCEPT ![t] = TRUE]
  /\ UNCHANGED <<fd, ordered, shared, flag, pc, eof, ringVars, openVars, callVars>>

-----------------------------------------------------------------------------
(* peterson_enter()                                                        *)

StoreFlag(t) ==
  /\ pc[t] = "enter"
  /\ flag' = [flag EXCEPT ![Id(t)] = 1]
  /\ Goto(t, "test")
  /\ UNCHANGED <<eof, ringVars, openVars, callVars, procVars>>

(* Fault: the other side's flag is not tested.                             *)
TestNothing(t) ==
  /\ pc[t] = "test"
  /\ Goto(t, Body(t))
  /\ UNCHANGED <<flag, eof, ringVars, openVars, callVars, procVars>>

TestFlag(t) ==
  /\ pc[t] = "test"
  /\ Goto(t, IF flag[1 - Id(t)] = 1 THEN "spin" ELSE Body(t))
  /\ UNCHANGED <<flag, eof, ringVars, openVars, callVars, procVars>>

(* The same with the load performed first.                                 *)
EarlyTest(t) ==
  /\ ~ordered /\ pc[t] = "enter"
  /\ Goto(t, IF flag[1 - Id(t)] = 1 THEN "lateSpin" ELSE "lateIn")
  /\ UNCHANGED <<flag, eof, ringVars, openVars, callVars, procVars>>

LateStore(t) ==
  /\ pc[t] \in {"lateIn", "lateSpin"}
  /\ flag' = [flag EXCEPT ![Id(t)] = 1]
  /\ Goto(t, IF pc[t] = "lateIn" THEN Body(t) ELSE "spin")
  /\ UNCHANGED <<eof, ringVars, openVars, callVars, procVars>>

(* peterson_exit() and the return of the system call.                      *)
Leave(t) ==
  /\ flag' = [flag EXCEPT ![Id(t)] = 0]
  /\ op' = [op EXCEPT ![t] = "rw"]
  /\ n' = [n EXCEPT ![t] = 0] /\ i' = [i EXCEPT ![t] = 0] /\ slot' = [slot EXCEPT ![t] = 0]
  /\ Goto(t, "idle")

-----------------------------------------------------------------------------
(* pipewrite()                                                             *)

(* Fault: one byte too many fits.                                          *)
FullLate == nwrite = (nread + PIPESIZE + 1) % UINT

Full == nwrite = (nread + PIPESIZE) % UINT

(* Fault: off by one at the end of the loop.                               *)
DoneLate(t) == i[t] > n[t]

Done(t) == i[t] >= n[t]

(* The bytes that are on their way into the ring.                          *)
Writing == { t \in Thread : pc[t] \in {"load", "bump", "store"} }

(* One turn of the loop, up to copyin(), which may fail.                   *)
Write(t) ==
  /\ pc[t] = "write"
  /\ \/ /\ Done(t)
        /\ Goto(t, "finish")
        /\ UNCHANGED <<flag, callVars>>
     \/ /\ ~Done(t) /\ (readopen = 0 \/ killed[t])
        /\ Leave(t)
     \/ /\ ~Done(t) /\ readopen # 0 /\ ~killed[t] /\ ~Full
        /\ Goto(t, "finish")
        /\ UNCHANGED <<flag, callVars>>
     \/ /\ ~Done(t) /\ readopen # 0 /\ ~killed[t] /\ ~Full
        /\ sent + Cardinality(Writing) < MAXBYTES
        /\ Goto(t, "load")
        /\ UNCHANGED <<flag, callVars>>
  /\ UNCHANGED <<eof, ringVars, openVars, procVars>>

(* data[nwrite++ % PIPESIZE] = ch: the build loads nwrite, stores nwrite   *)
(* and then stores the byte; another writer may come in between.           *)
LoadNwrite(t) ==
  /\ pc[t] = "load"
  /\ slot' = [slot EXCEPT ![t] = nwrite]
  /\ Goto(t, "bump")
  /\ UNCHANGED <<flag, eof, op, n, i, ringVars, openVars, procVars>>

StoreNwrite(t) ==
  /\ pc[t] = "bump"
  /\ nwrite' = (slot[t] + 1) % UINT
  /\ Goto(t, "store")
  /\ UNCHANGED <<nread, data, sent, got, flag, eof, openVars, callVars, procVars>>

(* wakeup(&pi->nread); sleep(&pi->nwrite, 0)                               *)
WriteFull(t) ==
  /\ pc[t] = "write" /\ ~Done(t) /\ readopen # 0 /\ ~killed[t] /\ Full
  /\ WakeupReturns
  /\ Goto(t, "panic")
  /\ UNCHANGED <<flag, eof, ringVars, openVars, callVars, procVars>>

Store(t) ==
  /\ pc[t] = "store"
  /\ data' = [data EXCEPT ![slot[t] % PIPESIZE] = sent + 1]
  /\ sent' = sent + 1
  /\ slot' = [slot EXCEPT ![t] = 0]
  /\ i' = [i EXCEPT ![t] = @ + 1]
  /\ Goto(t, "write")
  /\ UNCHANGED <<nread, nwrite, got, flag, eof, op, n, openVars, procVars>>

(* wakeup() of the other side, peterson_exit(), return i.                  *)
Finish(t) ==
  /\ pc[t] = "finish" /\ WakeupReturns
  /\ Leave(t)
  /\ UNCHANGED <<eof, ringVars, openVars, procVars>>

-----------------------------------------------------------------------------
(* piperead()                                                              *)

Empty == nread = nwrite

Read(t) ==
  /\ pc[t] = "read"
  /\ \/ /\ ~Empty \/ writeopen = 0
        /\ Goto(t, "copy")
        /\ UNCHANGED <<flag, callVars>>
     \/ /\ Empty /\ writeopen # 0 /\ killed[t]
        /\ Leave(t)
  /\ UNCHANGED <<eof, ringVars, openVars, procVars>>

(* sleep(&pi->nread, 0)                                                    *)
ReadEmpty(t) ==
  /\ pc[t] = "read" /\ Empty /\ writeopen # 0 /\ ~killed[t]
  /\ Goto(t, "panic")
  /\ UNCHANGED <<flag, eof, ringVars, openVars, callVars, procVars>>

CopyTo(t, failed) ==
  /\ pc[t] = "copy"
  /\ \/ /\ Done(t) \/ Empty
        /\ eof' = (eof \/ (~shared /\ i[t] = 0 /\ n[t] > 0))
        /\ Goto(t, "finish")
        /\ UNCHANGED got
     \/ /\ ~Done(t) /\ ~Empty
        /\ Goto(t, failed)
        /\ UNCHANGED <<got, eof>>
     \/ /\ ~Done(t) /\ ~Empty
        /\ got' = IF shared THEN got ELSE Append(got, data[nread % PIPESIZE])
        /\ Goto(t, "take")
        /\ UNCHANGED eof
  /\ UNCHANGED <<nread, nwrite, data, sent, flag, openVars, callVars, procVars>>

(* Fault: nread advances although copyout() fails.                         *)
CopyEarly(t) == CopyTo(t, "take")

(* One turn of the copying loop. copyout() may fail.                       *)
Copy(t) == CopyTo(t, "finish")

(* pi->nread++ is a load and a store too.                                  *)
LoadNread(t) ==
  /\ pc[t] = "take"
  /\ slot' = [slot EXCEPT ![t] = nread]
  /\ Goto(t, "count")
  /\ UNCHANGED <<flag, eof, op, n, i, ringVars, openVars, procVars>>

StoreNread(t) ==
  /\ pc[t] = "count"
  /\ nread' = (slot[t] + 1) % UINT
  /\ i' = [i EXCEPT ![t] = @ + 1]
  /\ slot' = [slot EXCEPT ![t] = 0]
  /\ Goto(t, "copy")
  /\ UNCHANGED <<nwrite, data, sent, got, flag, eof, op, n, openVars, procVars>>

-----------------------------------------------------------------------------
(* pipeclose(): mark the side closed, wake the other, then test both.      *)

CloseSide(t) ==
  /\ pc[t] = "close"
  /\ IF t \in Writers THEN writeopen' = 0 /\ UNCHANGED readopen
                      ELSE readopen' = 0 /\ UNCHANGED writeopen
  /\ Goto(t, "closed")
  /\ UNCHANGED <<freed, flag, eof, ringVars, callVars, procVars>>

(* Fault: the pipe is freed when either side is closed.                    *)
CloseEither(t) ==
  /\ pc[t] = "closed" /\ WakeupReturns
  /\ freed' = IF readopen = 0 \/ writeopen = 0 THEN freed + 1 ELSE freed
  /\ Leave(t)
  /\ UNCHANGED <<readopen, writeopen, eof, ringVars, procVars>>

CloseBoth(t) ==
  /\ pc[t] = "closed" /\ WakeupReturns
  /\ freed' = IF readopen = 0 /\ writeopen = 0 THEN freed + 1 ELSE freed
  /\ Leave(t)
  /\ UNCHANGED <<readopen, writeopen, eof, ringVars, procVars>>

-----------------------------------------------------------------------------
Step(t) ==
  \/ StoreFlag(t) \/ TestFlag(t) \/ EarlyTest(t) \/ LateStore(t)
  \/ Write(t) \/ WriteFull(t) \/ LoadNwrite(t) \/ StoreNwrite(t) \/ Store(t) \/ Finish(t)
  \/ Read(t) \/ ReadEmpty(t) \/ Copy(t) \/ LoadNread(t) \/ StoreNread(t)
  \/ CloseSide(t) \/ CloseBoth(t)

Next == \E t \in Thread : Step(t) \/ Call(t) \/ Close(t) \/ Kill(t)

Spec == Init /\ [][Next]_vars

-----------------------------------------------------------------------------
(* Types and ranges; nread and nwrite wrap, and i never passes n.          *)
TypeOK ==
  /\ nread \in 0..(UINT - 1) /\ nwrite \in 0..(UINT - 1)
  /\ data \in [0..(PIPESIZE - 1) -> 0..MAXBYTES]
  /\ readopen \in {0, 1} /\ writeopen \in {0, 1}
  /\ flag \in [{0, 1} -> {0, 1}]
  /\ freed \in Nat
  /\ pc \in [Thread -> Critical \cup Outside]
  /\ op \in [Thread -> {"rw", "close"}]
  /\ n \in [Thread -> 0..MAXN] /\ \A t \in Thread : i[t] \in 0..n[t]
  /\ slot \in [Thread -> 0..(UINT - 1)]
  /\ fd \in [Thread -> BOOLEAN] /\ killed \in [Thread -> BOOLEAN]
  /\ ordered \in BOOLEAN
  /\ sent \in 0..MAXBYTES /\ got \in Seq(0..MAXBYTES) /\ eof \in BOOLEAN

(* One process on each side of the pipe and a machine that keeps loads     *)
(* after stores: what peterson_enter() is made for.                        *)
Peterson == ordered /\ ~shared

(* There, at most one thread is between peterson_enter() and               *)
(* peterson_exit().                                                        *)
PipeMutex ==
  Peterson => \A t, u \in Thread : pc[t] \in Critical /\ pc[u] \in Critical => t = u

(* However many processes hold the pipe, and in whatever order the machine *)
(* performs the accesses of peterson_enter(): when kfree(pi) is called, no *)
(* descriptor is left and no read() or write() is under way.               *)
CallsEndBeforeFree ==
  freed > 0 => \A t \in Thread : ~fd[t] /\ (op[t] = "rw" => pc[t] = "idle")

(* However many processes hold the pipe, on a machine that keeps loads     *)
(* after stores: kfree(pi) is called once, and by then the close of the    *)
(* other side has returned too.                                            *)
FreedSafely ==
  ordered /\ freed > 0 => freed = 1 /\ \A t \in Thread : pc[t] = "idle" /\ ~fd[t]

(* The bytes in the ring. Between nwrite++ and the store of the byte the   *)
(* new byte is not there yet; a byte is gone once it is copied out, before *)
(* nread++.                                                                *)
Ring ==
  LET at(places) == \E t \in Thread : pc[t] \in places
      first == IF at({"take", "count"}) THEN (nread + 1) % UINT ELSE nread
      last  == IF at({"store"}) THEN (nwrite + UINT - 1) % UINT ELSE nwrite
      len   == (last + UINT - first) % UINT
  IN  [k \in 1..len |-> data[((first + k - 1) % UINT) % PIPESIZE]]

Queue == INSTANCE ByteQueue WITH
  Capacity <- PIPESIZE,
  queue     <- IF Peterson THEN Ring ELSE <<>>,
  delivered <- IF Peterson THEN got ELSE <<>>,
  writing   <- Peterson => writeopen = 1,
  reading   <- Peterson => readopen = 1,
  eof       <- Peterson /\ eof

(* Where peterson_enter() excludes, the pipe is a bounded queue: no byte   *)
(* is lost, duplicated, reordered or overwritten, also when nread and      *)
(* nwrite wrap; a reader is told of the end of file only when the writers  *)
(* are gone and nothing is left; nothing is accepted for a reader that is  *)
(* gone.                                                                   *)
ImplementsByteQueue == Queue!Spec

(* With one process on each side, on every machine, the ring never holds   *)
(* more than PIPESIZE bytes: each counter has one thread that advances it, *)
(* so that this does not rest on mutual exclusion.                         *)
NoOverrun == ~shared => (nwrite + UINT - nread) % UINT <= PIPESIZE

(* A process that has to wait for the pipe sleeps and is woken: "Sleep on  *)
(* channel chan, releasing condition lock lk". It does not stop the        *)
(* kernel.                                                                 *)
SleepDoesNotPanic == \A t \in Thread : pc[t] # "panic"
=============================================================================
