------------------------------- MODULE Bcache -------------------------------
(***************************************************************************)
(* The buffer cache of kernel/bio.c over the disk driver, with the sleep   *)
(* locks of kernel/sleeplock.c on its buffers. bcache.lock makes bget()'s  *)
(* search one step; the sleep lock is taken after it is released, and      *)
(* given up before it is taken again in brelse().                          *)
(*                                                                         *)
(* The callers keep the discipline of the log: a buffer that was changed   *)
(* is written or pinned before it is released, and is unpinned when it has *)
(* been written.                                                           *)
(***************************************************************************)
EXTENDS VirtioDisk

CONSTANTS
  NBUF,
  MAXPINS    \* bound: the most blocks the callers pin at a time

ASSUME BcacheAssumption == NBUF \in Nat /\ Buf = 1..NBUF /\ MAXPINS \in Nat

VARIABLES
  valid, refcnt, lock,   \* of each buffer; lock: the owner of the sleep lock
  lru,                   \* the list from head.next to head.prev
  pinned                 \* buffers that log_write() has pinned

cacheVars == <<valid, refcnt, lock, lru, pinned>>
driverVars == <<descVars, ringVars, bdisk, head>>
vars == <<vars0, cacheVars>>

(* binit()                                                                 *)
Init ==
  /\ DiskInit
  /\ valid = [f \in Buf |-> FALSE]
  /\ refcnt = [f \in Buf |-> 0]
  /\ lock = [f \in Buf |-> None]
  /\ lru = [k \in Buf |-> NBUF + 1 - k]
  /\ pinned = {}

Goto(p, label) == pc' = [pc EXCEPT ![p] = label]

(* The last buffer of the list that nobody uses.                           *)
UnusedAny == DOMAIN lru   \* fault: does not look at refcnt
UnusedTail == { k \in {Len(lru)} : refcnt[lru[k]] = 0 }   \* fault: tries head.prev only
Unused == { k \in 1..Len(lru) : refcnt[lru[k]] = 0 }
Victim == lru[CHOOSE k \in Unused : \A j \in Unused : j <= k]

(* bget(b), up to the release of bcache.lock.                              *)
bgetThen(p, b, validAfter) ==
  /\ panicked = None /\ pc[p] = "idle"
  /\ \/ \E f \in Buf :
          /\ blockno[f] = b
          /\ refcnt' = [refcnt EXCEPT ![f] = @ + 1]
          /\ buf' = [buf EXCEPT ![p] = f]
          /\ Goto(p, "lock")
          /\ UNCHANGED <<data, blockno, valid, panicked>>
     \/ /\ \A f \in Buf : blockno[f] # b
        /\ Unused # {}
        /\ blockno' = [blockno EXCEPT ![Victim] = b]
        /\ data' = [data EXCEPT ![Victim] = FALSE]   \* it holds another block's
        /\ valid' = [valid EXCEPT ![Victim] = @ /\ validAfter]
        /\ refcnt' = [refcnt EXCEPT ![Victim] = 1]
        /\ buf' = [buf EXCEPT ![p] = Victim]
        /\ Goto(p, "lock")
        /\ UNCHANGED panicked
     \/ /\ \A f \in Buf : blockno[f] # b
        /\ Unused = {}
        /\ panicked' = "bget: no buffers"
        /\ UNCHANGED <<data, blockno, valid, refcnt, buf, pc>>
  /\ UNCHANGED <<disk, driverVars, write, lock, lru, pinned>>

bget_valid(p, b) == bgetThen(p, b, TRUE)   \* fault: b->valid stays set
bget(p, b) == bgetThen(p, b, FALSE)

(* acquiresleep(), then bread()'s test of b->valid.                        *)
acquiresleep(p) ==
  /\ panicked = None /\ pc[p] = "lock"
  /\ IF lock[buf[p]] # None
       THEN Goto(p, "asleep") /\ UNCHANGED lock
       ELSE /\ lock' = [lock EXCEPT ![buf[p]] = p]
            /\ Goto(p, IF valid[buf[p]] THEN "own" ELSE "rw")
  /\ UNCHANGED <<disk, data, blockno, buf, write, panicked, driverVars, valid, refcnt,
                 lru, pinned>>

(* virtio_disk_rw() returns to bread(), which sets b->valid, or to         *)
(* bwrite().                                                               *)
rw_returns(p) ==
  /\ rw_end(p, "own")
  /\ valid' = [valid EXCEPT ![buf[p]] = @ \/ ~write[p]]
  /\ UNCHANGED <<refcnt, lock, lru, pinned>>

(* The owner changes the contents: the copy on the disk is now old.        *)
Modify(p) ==
  /\ panicked = None /\ pc[p] = "own"
  /\ data' = [data EXCEPT ![buf[p]] = TRUE]
  /\ disk' = [disk EXCEPT ![blockno[buf[p]]] = FALSE]
  /\ UNCHANGED <<blockno, pc, buf, write, panicked, driverVars, valid, refcnt, lock,
                 lru, pinned>>

bwrite(p) ==
  /\ panicked = None /\ pc[p] = "own"
  /\ panicked' = IF lock[buf[p]] # p THEN "bwrite" ELSE None
  /\ write' = [write EXCEPT ![p] = TRUE]
  /\ Goto(p, "rw")
  /\ UNCHANGED <<disk, data, blockno, buf, driverVars, cacheVars>>

(* bpin(), by log_write().                                                 *)
bpin(p) ==
  /\ panicked = None /\ pc[p] = "own" /\ ~disk[blockno[buf[p]]]
  /\ IF buf[p] \in pinned
       THEN UNCHANGED <<refcnt, pinned>>
       ELSE /\ Cardinality(pinned) < MAXPINS
            /\ refcnt' = [refcnt EXCEPT ![buf[p]] = @ + 1]
            /\ pinned' = pinned \cup {buf[p]}
  /\ UNCHANGED <<disk, data, blockno, pc, buf, write, panicked, driverVars, valid,
                 lock, lru>>

(* bunpin(), by install_trans() after its bwrite().                        *)
bunpin(p) ==
  /\ panicked = None /\ pc[p] = "own" /\ buf[p] \in pinned /\ disk[blockno[buf[p]]]
  /\ refcnt' = [refcnt EXCEPT ![buf[p]] = @ - 1]
  /\ pinned' = pinned \ {buf[p]}
  /\ UNCHANGED <<disk, data, blockno, pc, buf, write, panicked, driverVars, valid,
                 lock, lru>>

(* A caller may release the buffer: what it holds is on the disk, or the   *)
(* buffer is pinned until it is.                                           *)
Settled(p) == disk[blockno[buf[p]]] \/ buf[p] \in pinned

(* brelse(): releasesleep(), and then the section of bcache.lock.          *)
releasesleep(p) ==
  /\ panicked = None /\ pc[p] = "own" /\ Settled(p)
  /\ panicked' = IF lock[buf[p]] # p THEN "brelse" ELSE None
  /\ lock' = [lock EXCEPT ![buf[p]] = None]
  /\ pc' = [Wake(pc, { q \in Proc : buf[q] = buf[p] }, "asleep", "lock")
               EXCEPT ![p] = "release"]
  /\ UNCHANGED <<disk, data, blockno, buf, write, driverVars, valid, refcnt,
                 lru, pinned>>

brelse(p) ==
  LET f == buf[p] IN
  /\ panicked = None /\ pc[p] = "release"
  /\ refcnt' = [refcnt EXCEPT ![f] = @ - 1]
  /\ lru' = IF refcnt[f] = 1 THEN <<f>> \o SelectSeq(lru, LAMBDA g : g # f) ELSE lru
  /\ buf' = [buf EXCEPT ![p] = None]
  /\ Goto(p, "idle")
  /\ UNCHANGED <<disk, data, blockno, write, panicked, driverVars, valid, lock, pinned>>

-----------------------------------------------------------------------------
Runs(p) ==
  \/ acquiresleep(p) \/ rw_returns(p) \/ brelse(p)
  \/ rw(p) /\ UNCHANGED cacheVars

Calls(p) ==
  \/ Modify(p) \/ bwrite(p) \/ bpin(p) \/ bunpin(p) \/ releasesleep(p)
  \/ \E b \in Block : bget(p, b)

(* panic() never returns.                                                  *)
Halted == panicked # None /\ UNCHANGED vars

Next ==
  \/ \E p \in Proc : Runs(p) \/ Calls(p)
  \/ (Device \/ Interrupt) /\ UNCHANGED cacheVars
  \/ Halted

Spec == Init /\ [][Next]_vars

-----------------------------------------------------------------------------
Range(s) == { s[k] : k \in DOMAIN s }

TypeOK ==
  /\ disk \in [Block -> BOOLEAN] /\ data \in [Buf -> BOOLEAN]
  /\ blockno \in [Buf -> Block \cup {None}] /\ bdisk \in [Buf -> BOOLEAN]
  /\ free \subseteq Desc /\ next \in [Desc -> Desc \cup {None}]
  /\ infob \in [Desc -> Buf \cup {None}]
  /\ avail \in Seq(Desc) /\ used \in Seq(Desc) /\ busy \subseteq Desc
  /\ irq \in BOOLEAN /\ handler \in BOOLEAN
  /\ panicked \in {None, "bget: no buffers", "bwrite", "brelse", "free_desc 2"}
  /\ pc \in [Proc -> {"idle", "lock", "asleep", "rw", "nodesc", "io", "done", "own", "release"}]
  /\ buf \in [Proc -> Buf \cup {None}] /\ write \in [Proc -> BOOLEAN]
  /\ head \in [Proc -> Desc \cup {None}]
  /\ valid \in [Buf -> BOOLEAN] /\ refcnt \in [Buf -> 0..(Cardinality(Proc) + 1)]
  /\ lock \in [Buf -> Proc \cup {None}] /\ lru \in [Buf -> Buf] /\ pinned \subseteq Buf

(* What bread() returns is what was last stored in the block, in the cache *)
(* or on the disk, however buffers were recycled, written and pinned       *)
(* between.                                                                *)
ReadsLastWrite == \A p \in Proc : pc[p] = "own" => data[buf[p]]

(* bget() never caches a block twice ("synchronization point"), although   *)
(* the sleep lock of the buffer is taken after bcache.lock is released; a  *)
(* process that waits for a buffer, or uses it, still finds its block.     *)
OneBufferPerBlock ==
  /\ \A f, g \in Buf : blockno[f] = blockno[g] /\ blockno[f] # None => f = g
  /\ \A f \in Buf : refcnt[f] = Cardinality({ p \in Proc : buf[p] = f })
                                + (IF f \in pinned THEN 1 ELSE 0)

(* The only panic is bget()'s, and only when every buffer is pinned by the *)
(* log or in the hands of a process: bwrite() and brelse() hold the lock,  *)
(* free_desc() frees what is in use, and bget() overlooks no buffer. (The  *)
(* sizes do not exclude that panic: NBUF = LOGBLOCKS, so a full log pins   *)
(* as many buffers as there are.)                                          *)
PanicsOnlyWhenFull ==
  panicked # None =>
    /\ panicked = "bget: no buffers"
    /\ Buf = pinned \cup ({ buf[p] : p \in Proc } \ {None})

(* No wakeup and no completion is lost: a process sleeps for descriptors   *)
(* only while there are fewer than three, for a buffer only while another  *)
(* holds it, for a transfer only while the device has it or has put it on  *)
(* the used ring; and then the handler runs or the interrupt is pending,   *)
(* also if the entry came while the handler acknowledged an earlier one.   *)
SleepersWait ==
  \A p \in Proc :
    /\ pc[p] = "nodesc" => Cardinality(free) < 3
    /\ pc[p] = "io" =>
         /\ bdisk[buf[p]]
         /\ \/ head[p] \in busy \cup Range(avail)
            \/ head[p] \in Range(used) /\ (irq \/ handler)
    /\ pc[p] = "asleep" => lock[buf[p]] \notin {None, p}
=============================================================================
