-------------------------------- MODULE Log ---------------------------------
(***************************************************************************)
(* The write-ahead log of kernel/log.c, with the buffer cache as the log   *)
(* sees it, the disk, and crashes.                                         *)
(*                                                                         *)
(* log.lock makes begin_op(), log_write() and the two critical sections of *)
(* end_op() atomic. commit() runs without it, one disk write at a time,    *)
(* and so does recovery. The machine may stop between any two steps and in *)
(* the middle of a disk write. A block is two sectors of the disk: a data  *)
(* block that was being written is then torn. The log header fits in one   *)
(* sector, so its write happens or does not.                               *)
(***************************************************************************)
EXTENDS Integers, Sequences, FiniteSets

CONSTANTS
  Proc, Block, Val,
  None,            \* not in the buffer cache
  Torn,            \* a block with one old and one new sector
  MAXOPBLOCKS, LOGBLOCKS,
  OPBLOCKS         \* the most blocks that one system call really writes

ASSUME LogAssumption ==
  /\ MAXOPBLOCKS \in Nat \ {0} /\ LOGBLOCKS \in Nat /\ OPBLOCKS \in 0..MAXOPBLOCKS
  /\ None \notin Val /\ Torn \notin Val /\ None # Torn
  /\ None \notin Block /\ Val # {} /\ IsFiniteSet(Proc)

VARIABLES
  home, logged, head,    \* on the disk: home locations, log blocks, log header
  cache, pin,            \* the buffer cache: contents, and refcnt from bpin()
  lh,                    \* log.lh: block[0..n-1], as a sequence
  outstanding, committing,
  tail,                  \* the loop variable of write_log() and install_trans()
  pc, held, wrote,       \* of each process: place, locked buffer, blocks logged
  boot,                  \* the place in initlog(), "up" after it
  panicked

diskVars == <<home, logged, head>>
cacheVars == <<cache, pin>>
logVars == <<lh, outstanding, committing>>
vars == <<home, logged, head, cache, pin, lh, outstanding, committing, tail,
          pc, held, wrote, boot, panicked>>

Up == boot = "up" /\ ~panicked

Goto(p, label) == pc' = [pc EXCEPT ![p] = label]

(* wakeup(&log): whoever sleeps in begin_op() tests its conditions again.  *)
Awake(f) == [p \in Proc |-> IF f[p] = "sleep" THEN "begin" ELSE f[p]]

(* bread(): the cached contents, or those of the disk.                     *)
Contents(b) == IF cache[b] # None THEN cache[b] ELSE home[b]

Logged(s) == { s[k] : k \in 1..Len(s) }

-----------------------------------------------------------------------------
(* mkfs leaves an empty log, and the kernel boots.                         *)
Init ==
  /\ home \in [Block -> Val]
  /\ logged = [k \in 1..LOGBLOCKS |-> Torn]
  /\ head = <<>>
  /\ cache = [b \in Block |-> None] /\ pin = [b \in Block |-> 0]
  /\ lh = <<>> /\ outstanding = 0 /\ committing = FALSE
  /\ tail = 1
  /\ pc = [p \in Proc |-> "idle"]
  /\ held = [p \in Proc |-> None]
  /\ wrote = [p \in Proc |-> {}]
  /\ boot = "read" /\ panicked = FALSE

(* A file system call begins.                                              *)
Call(p) ==
  /\ Up /\ pc[p] = "idle"
  /\ Goto(p, "begin")
  /\ UNCHANGED <<tail, held, wrote, boot, panicked, diskVars, cacheVars, logVars>>

NoRoomForMe == Len(lh) + outstanding * MAXOPBLOCKS > LOGBLOCKS   \* fault: off by one
NoRoom == Len(lh) + (outstanding + 1) * MAXOPBLOCKS > LOGBLOCKS

begin_op(p) ==
  /\ Up /\ pc[p] = "begin"
  /\ IF committing \/ NoRoom
       THEN Goto(p, "sleep") /\ UNCHANGED outstanding
       ELSE Goto(p, "op") /\ outstanding' = outstanding + 1
  /\ UNCHANGED <<lh, committing, tail, held, wrote, boot, panicked, diskVars, cacheVars>>

(* The caller: bread(b), which waits until nobody has b locked, and a      *)
(* change of b->data.                                                      *)
Modify(p) ==
  /\ Up /\ pc[p] = "op"
  /\ \E b \in Block, v \in Val :
       /\ \A q \in Proc : held[q] # b
       /\ b \in wrote[p] \/ Cardinality(wrote[p]) < OPBLOCKS
       /\ cache' = [cache EXCEPT ![b] = v]
       /\ held' = [held EXCEPT ![p] = b]
  /\ Goto(p, "held")
  /\ UNCHANGED <<pin, tail, wrote, boot, panicked, diskVars, logVars>>

(* log_write(b); brelse(b).                                                *)
log_write(p) ==
  /\ Up /\ pc[p] = "held"
  /\ IF Len(lh) >= LOGBLOCKS \/ outstanding < 1
       THEN panicked' = TRUE /\ UNCHANGED <<lh, pin, wrote, held, pc>>
       ELSE /\ IF held[p] \in Logged(lh)   \* log absorption
                 THEN UNCHANGED <<lh, pin>>
                 ELSE /\ lh' = Append(lh, held[p])
                      /\ pin' = [pin EXCEPT ![held[p]] = @ + 1]
            /\ wrote' = [wrote EXCEPT ![p] = @ \cup {held[p]}]
            /\ held' = [held EXCEPT ![p] = None]
            /\ Goto(p, "op")
            /\ UNCHANGED panicked
  /\ UNCHANGED <<cache, outstanding, committing, tail, boot, diskVars>>

(* end_op(), up to the release of log.lock.                                *)
end_op(p) ==
  /\ Up /\ pc[p] = "op"
  /\ outstanding' = outstanding - 1
  /\ wrote' = [wrote EXCEPT ![p] = {}]
  /\ IF committing
       THEN panicked' = TRUE /\ UNCHANGED <<committing, pc>>
       ELSE /\ UNCHANGED panicked
            /\ IF outstanding' = 0
                 THEN committing' = TRUE /\ Goto(p, "commit")
                 ELSE UNCHANGED committing /\ pc' = [Awake(pc) EXCEPT ![p] = "idle"]
  /\ UNCHANGED <<lh, tail, held, boot, diskVars, cacheVars>>

-----------------------------------------------------------------------------
(* commit(), by the process whose end_op() was the last.                   *)

(* Fault: a transaction of one block is not committed.                     *)
commit_late(p) ==
  /\ Up /\ pc[p] = "commit"
  /\ Goto(p, IF Len(lh) > 1 THEN "log" ELSE "done")
  /\ tail' = 1
  /\ UNCHANGED <<held, wrote, boot, panicked, diskVars, cacheVars, logVars>>

commit(p) ==
  /\ Up /\ pc[p] = "commit"
  /\ Goto(p, IF Len(lh) > 0 THEN "log" ELSE "done")
  /\ tail' = 1
  /\ UNCHANGED <<held, wrote, boot, panicked, diskVars, cacheVars, logVars>>

(* One turn of the loop, up to and including bwrite(to).                   *)
write_log(p) ==
  /\ Up /\ pc[p] = "log"
  /\ IF tail <= Len(lh)
       THEN /\ logged' = [logged EXCEPT ![tail] = Contents(lh[tail])]
            /\ cache' = [cache EXCEPT ![lh[tail]] = Contents(lh[tail])]
            /\ tail' = tail + 1
            /\ UNCHANGED pc
       ELSE /\ Goto(p, "head")
            /\ UNCHANGED <<logged, cache, tail>>
  /\ UNCHANGED <<home, head, pin, held, wrote, boot, panicked, logVars>>

(* The real commit.                                                        *)
write_head(p) ==
  /\ Up /\ pc[p] = "head"
  /\ head' = lh
  /\ tail' = 1
  /\ Goto(p, "install")
  /\ UNCHANGED <<home, logged, held, wrote, boot, panicked, cacheVars, logVars>>

(* One turn of install_trans(0); after the last, log.lh.n = 0.             *)
install_trans(p) ==
  /\ Up /\ pc[p] = "install"
  /\ IF tail <= Len(lh)
       THEN /\ home' = [home EXCEPT ![lh[tail]] = logged[tail]]
            /\ cache' = [cache EXCEPT ![lh[tail]] = logged[tail]]
            /\ pin' = [pin EXCEPT ![lh[tail]] = @ - 1]
            /\ tail' = tail + 1
            /\ UNCHANGED <<pc, lh>>
       ELSE /\ lh' = <<>>
            /\ Goto(p, "clear")
            /\ UNCHANGED <<home, cacheVars, tail>>
  /\ UNCHANGED <<logged, head, outstanding, committing, held, wrote, boot, panicked>>

(* The second write_head().                                                *)
clear_head(p) ==
  /\ Up /\ pc[p] = "clear"
  /\ head' = lh
  /\ Goto(p, "done")
  /\ UNCHANGED <<home, logged, tail, held, wrote, boot, panicked, cacheVars, logVars>>

(* Fault: no wakeup after the commit.                                      *)
committed_quiet(p) ==
  /\ Up /\ pc[p] = "done"
  /\ committing' = FALSE
  /\ Goto(p, "idle")
  /\ UNCHANGED <<lh, outstanding, tail, held, wrote, boot, panicked, diskVars, cacheVars>>

(* The rest of end_op().                                                   *)
committed(p) ==
  /\ Up /\ pc[p] = "done"
  /\ committing' = FALSE
  /\ pc' = [Awake(pc) EXCEPT ![p] = "idle"]
  /\ UNCHANGED <<lh, outstanding, tail, held, wrote, boot, panicked, diskVars, cacheVars>>

-----------------------------------------------------------------------------
(* recover_from_log(), by the first process before any other exists.       *)

(* Fault: the log is cleared before it is installed: recovery is then no   *)
(* longer idempotent.                                                      *)
read_head_clear ==
  /\ boot = "read"
  /\ lh' = head
  /\ head' = <<>>
  /\ tail' = 1
  /\ boot' = "install"
  /\ UNCHANGED <<home, logged, outstanding, committing, pc, held, wrote, panicked, cacheVars>>

read_head ==
  /\ boot = "read"
  /\ lh' = head
  /\ tail' = 1
  /\ boot' = "install"
  /\ UNCHANGED <<outstanding, committing, pc, held, wrote, panicked, diskVars, cacheVars>>

(* Fault: recovery unpins buffers that nobody pinned.                      *)
recover_unpin ==
  /\ boot = "install"
  /\ IF tail <= Len(lh)
       THEN /\ home' = [home EXCEPT ![lh[tail]] = logged[tail]]
            /\ cache' = [cache EXCEPT ![lh[tail]] = logged[tail]]
            /\ pin' = [pin EXCEPT ![lh[tail]] = @ - 1]
            /\ tail' = tail + 1
            /\ UNCHANGED <<lh, boot>>
       ELSE /\ lh' = <<>>
            /\ boot' = "clear"
            /\ UNCHANGED <<home, cache, pin, tail>>
  /\ UNCHANGED <<logged, head, outstanding, committing, pc, held, wrote, panicked>>

(* install_trans(1); log.lh.n = 0                                          *)
recover ==
  /\ boot = "install"
  /\ IF tail <= Len(lh)
       THEN /\ home' = [home EXCEPT ![lh[tail]] = logged[tail]]
            /\ cache' = [cache EXCEPT ![lh[tail]] = logged[tail]]
            /\ tail' = tail + 1
            /\ UNCHANGED <<lh, boot>>
       ELSE /\ lh' = <<>>
            /\ boot' = "clear"
            /\ UNCHANGED <<home, cache, tail>>
  /\ UNCHANGED <<logged, head, pin, outstanding, committing, pc, held, wrote, panicked>>

recovered ==
  /\ boot = "clear"
  /\ head' = lh
  /\ boot' = "up"
  /\ UNCHANGED <<home, logged, tail, pc, held, wrote, panicked, cacheVars, logVars>>

-----------------------------------------------------------------------------
(* bread() by anybody fills the cache, bget() recycles a buffer that is    *)
(* neither pinned nor in use.                                              *)

Load(b) ==
  /\ Up /\ cache[b] = None
  /\ cache' = [cache EXCEPT ![b] = home[b]]
  /\ UNCHANGED <<pin, tail, pc, held, wrote, boot, panicked, diskVars, logVars>>

Recycle(b) ==
  /\ Up /\ cache[b] # None /\ pin[b] = 0
  /\ \A p \in Proc : held[p] # b
  /\ cache' = [cache EXCEPT ![b] = None]
  /\ UNCHANGED <<pin, tail, pc, held, wrote, boot, panicked, diskVars, logVars>>

(* The machine stops, perhaps in the middle of a write, and boots again.   *)
(* The memory is lost. A kernel that has panicked is rebooted as well.     *)
Crash ==
  /\ \/ UNCHANGED <<home, logged>>
     \/ /\ \E p \in Proc : pc[p] = "log"
        /\ tail <= Len(lh)
        /\ logged' = [logged EXCEPT ![tail] = Torn]
        /\ UNCHANGED home
     \/ /\ boot = "install" \/ \E p \in Proc : pc[p] = "install"
        /\ tail <= Len(lh)
        /\ home' = [home EXCEPT ![lh[tail]] = Torn]
        /\ UNCHANGED logged
  /\ cache' = [b \in Block |-> None] /\ pin' = [b \in Block |-> 0]
  /\ lh' = <<>> /\ outstanding' = 0 /\ committing' = FALSE
  /\ tail' = 1
  /\ pc' = [p \in Proc |-> "idle"]
  /\ held' = [p \in Proc |-> None]
  /\ wrote' = [p \in Proc |-> {}]
  /\ boot' = "read" /\ panicked' = FALSE
  /\ UNCHANGED head

-----------------------------------------------------------------------------
Commits(p) ==
  \/ commit(p) \/ write_log(p) \/ write_head(p) \/ install_trans(p)
  \/ clear_head(p) \/ committed(p)

Boots == read_head \/ recover \/ recovered

Next ==
  \/ \E p \in Proc :
       Call(p) \/ begin_op(p) \/ Modify(p) \/ log_write(p) \/ end_op(p) \/ Commits(p)
  \/ Boots \/ Crash
  \/ \E b \in Block : Load(b) \/ Recycle(b)

Spec == Init /\ [][Next]_vars

(* A process that can run does; a file system call logs finitely many      *)
(* blocks, so it comes to its end_op().                                    *)
Fairness ==
  /\ WF_vars(Boots)
  /\ \A p \in Proc : /\ WF_vars(begin_op(p)) /\ WF_vars(log_write(p))
                     /\ WF_vars(Commits(p)) /\ SF_vars(end_op(p))

-----------------------------------------------------------------------------
(* Types, and the sizes of the two copies of the header.                   *)
TypeOK ==
  /\ home \in [Block -> Val \cup {Torn}]
  /\ logged \in [1..LOGBLOCKS -> Val \cup {Torn}]
  /\ head \in Seq(Block) /\ Len(head) <= LOGBLOCKS
  /\ cache \in [Block -> Val \cup {None}] /\ pin \in [Block -> Nat]
  /\ lh \in Seq(Block) /\ Len(lh) <= LOGBLOCKS
  /\ outstanding \in Nat /\ committing \in BOOLEAN
  /\ tail \in 1..(LOGBLOCKS + 1)
  /\ pc \in [Proc -> {"idle", "begin", "sleep", "op", "held", "commit", "log",
                      "head", "install", "clear", "done"}]
  /\ held \in [Proc -> Block \cup {None}]
  /\ wrote \in [Proc -> SUBSET Block]
  /\ boot \in {"read", "install", "clear", "up"} /\ panicked \in BOOLEAN

(* None of log.c's panics is reached: the space that begin_op() reserves   *)
(* is enough for every call under way together, no block is logged outside *)
(* of a transaction, and no call ends while a commit runs.                 *)
NoPanic == ~panicked

(* What a boot would leave on the disk.                                    *)
Durable ==
  [b \in Block |->
     IF b \in Logged(head)
       THEN logged[CHOOSE k \in 1..Len(head) : head[k] = b] ELSE home[b]]

Seen == IF boot = "up" THEN [b \in Block |-> Contents(b)] ELSE Durable

Atomic == INSTANCE AtomicDisk WITH
  disk <- Durable, mem <- Seen,
  busy <- { p \in Proc : pc[p] \in {"op", "held"} }

(* A crash at any point, also in recovery and in the middle of a write,    *)
(* leaves all the writes of a group of system calls or none, and a running *)
(* system always sees the last write, whatever the buffer cache recycles.  *)
ImplementsAtomicDisk == Atomic!Spec

(* When no call is under way and no commit runs, a crash loses nothing.    *)
QuietIsDurable ==
  Up /\ outstanding = 0 /\ ~committing => Durable = Seen

(* begin_op() wakes: it is told when space is given back and when a commit *)
(* has ended.                                                              *)
BeginWakes ==
  \A p \in Proc : pc[p] = "sleep" ~> pc[p] # "sleep"
=============================================================================
