---------------------------- MODULE LogInvariant ----------------------------
(***************************************************************************)
(* The inductive invariant of the log, its initial states, and the steps   *)
(* of system calls and of commit().                                        *)
(***************************************************************************)
EXTENDS Log, FiniteSetTheorems, TLAPS

CommitPc == {"commit", "log", "head", "install", "clear", "done"}
BusyPc == {"op", "held"}
Busy == { p \in Proc : pc[p] \in BusyPc }

Distinct(s) == \A j, k \in 1..Len(s) : s[j] = s[k] => j = k

Header(s) == s \in Seq(Block) /\ Len(s) <= LOGBLOCKS /\ Distinct(s)

Shape ==
  /\ home \in [Block -> Val \cup {Torn}]
  /\ logged \in [1..LOGBLOCKS -> Val \cup {Torn}]
  /\ Header(head) /\ Header(lh)
  /\ cache \in [Block -> Val \cup {None}] /\ pin \in [Block -> Nat]
  /\ tail \in Nat \ {0}
  /\ pc \in [Proc -> CommitPc \cup BusyPc \cup {"idle", "begin", "sleep"}]
  /\ held \in [Proc -> Block \cup {None}]
  /\ boot \in {"read", "install", "clear", "up"}

(* One commit at a time, and no system call under way during it.           *)
CommitInv ==
  /\ outstanding = Cardinality(Busy)
  /\ committing \in BOOLEAN
  /\ committing => Busy = {}
  /\ \A p \in Proc : pc[p] \in CommitPc => committing
  /\ \A p, q \in Proc : pc[p] \in CommitPc /\ pc[q] \in CommitPc => p = q
  /\ \A p \in Proc : held[p] # None <=> pc[p] = "held"

(* Before initlog() has returned nothing else runs.                        *)
BootInv ==
  boot # "up" => /\ \A p \in Proc : pc[p] = "idle"
                 /\ ~committing /\ ~panicked
                 /\ \A b \in Block : pin[b] = 0

(* The disk's header: when it names blocks, and that these are whole.      *)
Installing == boot = "install" \/ \E p \in Proc : pc[p] = "install"
Clearing == boot = "clear" \/ \E p \in Proc : pc[p] = "clear"

HeadInv ==
  /\ Installing => head = lh
  /\ Clearing \/ boot = "read" => lh = <<>>
  /\ ~Installing /\ ~Clearing /\ boot # "read" => head = <<>>
  /\ \A k \in 1..Len(head) : logged[k] \in Val
  /\ \A b \in Block : home[b] \in Val \/ (boot # "up" /\ b \in Logged(head))
  /\ Installing => \A k \in 1..Len(head) : k < tail => home[head[k]] = logged[k]
  /\ Clearing => \A k \in 1..Len(head) : home[head[k]] = logged[k]

(* The log blocks hold what the cache holds.                               *)
CopyInv ==
  /\ \A p \in Proc : pc[p] = "log" =>
       \A k \in 1..Len(lh) : k < tail => logged[k] = cache[lh[k]]
  /\ \A p \in Proc : pc[p] = "head" =>
       \A k \in 1..Len(lh) : logged[k] = cache[lh[k]]
  /\ \A p \in Proc : pc[p] = "install" =>
       \A k \in 1..Len(lh) : k >= tail => logged[k] = cache[lh[k]]

(* A buffer is pinned as long as its home block is behind it, and only a   *)
(* pinned or locked buffer differs from its home block.                    *)
Pinned(b) ==
  boot = "up" /\ \E k \in 1..Len(lh) : lh[k] = b /\ (Installing => k >= tail)

CacheInv ==
  /\ \A b \in Block : pin[b] = IF Pinned(b) THEN 1 ELSE 0
  /\ \A b \in Block :
       \/ cache[b] = None \/ cache[b] = home[b]
       \/ Pinned(b) \/ \E p \in Proc : held[p] = b
  /\ \A b \in Block : Pinned(b) => cache[b] # None
  /\ \A p \in Proc : pc[p] = "held" => cache[held[p]] # None

LogInv == Shape /\ CommitInv /\ BootInv /\ HeadInv /\ CopyInv /\ CacheInv

USE DEF diskVars, cacheVars, logVars

-----------------------------------------------------------------------------
(* Facts about headers and about the counter of system calls under way.    *)

LEMMA EmptyHeader == Header(<<>>) /\ Len(<<>>) = 0 /\ Logged(<<>>) = {}
<1>1. <<>> \in Seq(Block) /\ Len(<<>>) = 0
  OBVIOUS
<1> QED
  BY <1>1, LogAssumption DEF Header, Distinct, Logged

LEMMA HeaderFacts ==
  ASSUME NEW s, Header(s)
  PROVE  /\ Len(s) \in Nat /\ Len(s) <= LOGBLOCKS
         /\ \A k \in 1..Len(s) : s[k] \in Block /\ s[k] \in Logged(s) /\ k \in 1..LOGBLOCKS
         /\ \A j, k \in 1..Len(s) : s[j] = s[k] => j = k
         /\ \A b \in Logged(s) : b \in Block /\ \E k \in 1..Len(s) : s[k] = b
<1>1. Len(s) \in Nat /\ \A k \in 1..Len(s) : s[k] \in Block
  BY DEF Header
<1> QED
  BY <1>1, LogAssumption DEF Header, Distinct, Logged

LEMMA AppendHeader ==
  ASSUME NEW s, Header(s), NEW b \in Block, b \notin Logged(s), Len(s) < LOGBLOCKS
  PROVE  /\ Header(Append(s, b))
         /\ Len(Append(s, b)) = Len(s) + 1
         /\ \A k \in 1..Len(s) : Append(s, b)[k] = s[k]
         /\ Append(s, b)[Len(s) + 1] = b
<1>1. s \in Seq(Block) /\ Len(s) \in Nat
  BY DEF Header
<1>2. /\ Append(s, b) \in Seq(Block) /\ Len(Append(s, b)) = Len(s) + 1
      /\ \A k \in 1..Len(s) : Append(s, b)[k] = s[k]
      /\ Append(s, b)[Len(s) + 1] = b
  BY <1>1
<1>3. \A k \in 1..Len(s) : s[k] # b
  BY DEF Logged
<1>4. Distinct(Append(s, b))
  BY <1>1, <1>2, <1>3 DEF Header, Distinct
<1> QED
  BY <1>1, <1>2, <1>4, LogAssumption DEF Header

LEMMA BusyFinite == IsFiniteSet(Busy) /\ Cardinality(Busy) \in Nat
<1>1. Busy \subseteq Proc
  BY DEF Busy
<1> QED
  BY <1>1, LogAssumption, FS_Subset, FS_CardinalityType

-----------------------------------------------------------------------------
(* The invariant                                                           *)

LEMMA InitLogInv == Init => LogInv
<1> SUFFICES ASSUME Init PROVE LogInv
  OBVIOUS
<1> USE EmptyHeader, LogAssumption DEF Init
<1>1. Busy = {} /\ Cardinality(Busy) = 0
  BY Zenon, FS_EmptySet DEF Busy, BusyPc
<1>2. ~Installing /\ ~Clearing
  BY DEF Installing, Clearing
<1>3. Shape
  BY DEF Shape, CommitPc, BusyPc
<1>4. CommitInv
  BY Zenon, <1>1 DEF CommitInv, CommitPc
<1>5. BootInv /\ HeadInv /\ CopyInv
  BY <1>2 DEF BootInv, HeadInv, CopyInv
<1>6. CacheInv
  BY DEF CacheInv, Pinned
<1> QED
  BY <1>3, <1>4, <1>5, <1>6 DEF LogInv

(* A step that leaves disk, cache and headers alone and moves no process   *)
(* into or out of the loops of commit().                                   *)
LEMMA QuietStep ==
  ASSUME LogInv, UNCHANGED <<home, logged, head, cache, pin, lh, boot, held, tail>>,
         \A p \in Proc, l \in {"held", "log", "head", "install", "clear"} :
            pc'[p] = l <=> pc[p] = l
  PROVE  HeadInv' /\ CopyInv' /\ CacheInv'
<1>1. (Installing' <=> Installing) /\ (Clearing' <=> Clearing)
  BY DEF Installing, Clearing
<1>2. \A b \in Block : Pinned(b)' <=> Pinned(b)
  BY <1>1 DEF Pinned
<1>3. HeadInv'
  BY <1>1 DEF LogInv, HeadInv, Logged
<1>4. CopyInv'
  BY DEF LogInv, CopyInv
<1>5. CacheInv'
  BY <1>2 DEF LogInv, CacheInv
<1> QED
  BY <1>3, <1>4, <1>5

LEMMA CallInv ==
  ASSUME LogInv, NEW p \in Proc, Call(p)
  PROVE  LogInv'
<1>1. /\ boot = "up" /\ pc[p] = "idle" /\ pc' = [pc EXCEPT ![p] = "begin"]
      /\ UNCHANGED <<home, logged, head, cache, pin, lh, boot, held, tail, outstanding,
                     committing, panicked>>
  BY DEF Call, Up, Goto
<1>2. Busy' = Busy
  BY <1>1 DEF Busy, BusyPc, LogInv, Shape
<1>3. Shape' /\ CommitInv' /\ BootInv'
  BY <1>1, <1>2 DEF LogInv, Shape, CommitInv, BootInv, CommitPc, BusyPc
<1> QED
  BY <1>1, <1>3, QuietStep DEF LogInv, Shape

(* A system call is admitted only when no commit runs.                     *)
LEMMA BeginInv ==
  ASSUME LogInv, NEW p \in Proc, begin_op(p)
  PROVE  LogInv'
<1>1. /\ boot = "up" /\ pc[p] = "begin"
      /\ UNCHANGED <<home, logged, head, cache, pin, lh, boot, held, tail, committing, panicked>>
  BY DEF begin_op, Up
<1>2. CASE pc' = [pc EXCEPT ![p] = "sleep"] /\ UNCHANGED outstanding
  <2>1. Busy' = Busy
    BY <1>1, <1>2 DEF Busy, BusyPc, LogInv, Shape
  <2>2. Shape' /\ CommitInv' /\ BootInv'
    BY <1>1, <1>2, <2>1 DEF LogInv, Shape, CommitInv, BootInv, CommitPc, BusyPc
  <2> QED
    BY <1>1, <1>2, <2>2, QuietStep DEF LogInv, Shape
<1>3. CASE /\ pc' = [pc EXCEPT ![p] = "op"] /\ outstanding' = outstanding + 1
           /\ ~committing
  <2>1. Busy' = Busy \cup {p} /\ p \notin Busy
    BY <1>1, <1>3 DEF Busy, BusyPc, LogInv, Shape
  <2>2. outstanding' = Cardinality(Busy')
    BY Zenon, <1>3, <2>1, BusyFinite, FS_AddElement DEF LogInv, CommitInv
  <2>3. Shape' /\ CommitInv' /\ BootInv'
    BY <1>1, <1>3, <2>2 DEF LogInv, Shape, CommitInv, BootInv, CommitPc, BusyPc
  <2> QED
    BY <1>1, <1>3, <2>3, QuietStep DEF LogInv, Shape
<1> QED
  BY <1>2, <1>3 DEF begin_op, Goto

(* The last call to end becomes the committer. It never finds a commit     *)
(* under way.                                                              *)
LEMMA EndInv ==
  ASSUME LogInv, NEW p \in Proc, end_op(p)
  PROVE  LogInv'
<1>1. /\ boot = "up" /\ pc[p] = "op" /\ outstanding' = outstanding - 1
      /\ UNCHANGED <<home, logged, head, cache, pin, lh, boot, held, tail>>
  BY DEF end_op, Up
<1>2. p \in Busy /\ ~committing
  BY <1>1 DEF LogInv, CommitInv, Busy, BusyPc
<1>3. outstanding' = Cardinality(Busy \ {p}) /\ IsFiniteSet(Busy \ {p})
  BY <1>1, <1>2, BusyFinite, FS_RemoveElement DEF LogInv, CommitInv
<1>4. CASE /\ outstanding' = 0 /\ committing' = TRUE
           /\ pc' = [pc EXCEPT ![p] = "commit"] /\ UNCHANGED panicked
  <2>1. Busy' = Busy \ {p}
    BY <1>1, <1>4 DEF Busy, BusyPc, LogInv, Shape
  <2>2. Busy' = {}
    BY Zenon, <1>3, <1>4, <2>1, FS_EmptySet
  <2>3. Shape' /\ BootInv'
    BY <1>1, <1>4 DEF LogInv, Shape, BootInv, CommitPc, BusyPc
  <2>4. CommitInv'
    BY <1>1, <1>2, <1>3, <1>4, <2>1, <2>2 DEF LogInv, Shape, CommitInv, CommitPc
  <2> QED
    BY <1>1, <1>4, <2>3, <2>4, QuietStep DEF LogInv, Shape
<1>5. CASE /\ committing' = committing /\ UNCHANGED panicked
           /\ pc' = [Awake(pc) EXCEPT ![p] = "idle"]
  <2>1. /\ pc' \in [Proc -> CommitPc \cup BusyPc \cup {"idle", "begin", "sleep"}]
        /\ pc'[p] = "idle"
        /\ \A q \in Proc : q # p => pc'[q] = IF pc[q] = "sleep" THEN "begin" ELSE pc[q]
    BY <1>5 DEF Awake, LogInv, Shape
  <2>2. Busy' = Busy \ {p}
    BY <2>1 DEF Busy, BusyPc
  <2>3. Shape' /\ BootInv'
    BY <1>1, <2>1 DEF LogInv, Shape, BootInv
  <2>4. CommitInv'
    BY <1>1, <1>2, <1>3, <1>5, <2>1, <2>2 DEF LogInv, CommitInv, CommitPc
  <2> QED
    BY <1>1, <1>5, <2>1, <2>3, <2>4, QuietStep DEF LogInv, Shape
<1> QED
  BY Zenon, <1>2, <1>4, <1>5 DEF end_op, Goto

LEMMA CommittedInv ==
  ASSUME LogInv, NEW p \in Proc, committed(p)
  PROVE  LogInv'
<1>1. /\ boot = "up" /\ pc[p] = "done" /\ committing' = FALSE
      /\ pc' = [Awake(pc) EXCEPT ![p] = "idle"]
      /\ UNCHANGED <<home, logged, head, cache, pin, lh, boot, held, tail, outstanding, panicked>>
  BY DEF committed, Up
<1>2. /\ pc' \in [Proc -> CommitPc \cup BusyPc \cup {"idle", "begin", "sleep"}]
      /\ pc'[p] = "idle"
      /\ \A q \in Proc : q # p => pc'[q] = IF pc[q] = "sleep" THEN "begin" ELSE pc[q]
  BY <1>1 DEF Awake, LogInv, Shape
<1>3. Busy' = Busy
  BY <1>1, <1>2 DEF Busy, BusyPc
<1>4. Shape' /\ BootInv'
  BY <1>1, <1>2 DEF LogInv, Shape, BootInv
<1>5. CommitInv'
  BY ZenonT(30), <1>1, <1>2, <1>3 DEF LogInv, CommitInv, CommitPc
<1> QED
  BY <1>1, <1>2, <1>4, <1>5, QuietStep DEF LogInv, Shape

(* The processes of commit() move one at a time: the committer's place     *)
(* decides the phase of the whole log.                                     *)
LEMMA CommitterStep ==
  ASSUME LogInv, NEW p \in Proc, pc[p] \in CommitPc, NEW l \in CommitPc,
         pc' = [pc EXCEPT ![p] = l],
         UNCHANGED <<held, boot, outstanding, committing, panicked>>, boot = "up"
  PROVE  /\ CommitInv' /\ BootInv'
         /\ pc' \in [Proc -> CommitPc \cup BusyPc \cup {"idle", "begin", "sleep"}]
         /\ \A q \in Proc : q # p => pc[q] \notin CommitPc /\ pc'[q] \notin CommitPc
         /\ \A q \in Proc : held[q] = None
         /\ Installing' <=> l = "install"
         /\ Clearing' <=> l = "clear"
         /\ Installing <=> pc[p] = "install"
         /\ Clearing <=> pc[p] = "clear"
<1>1. \A q \in Proc : q # p => pc[q] \notin CommitPc /\ pc'[q] \notin CommitPc
  BY DEF LogInv, CommitInv
<1>2. Busy' = Busy /\ Busy = {}
  BY DEF LogInv, Shape, CommitInv, Busy, BusyPc, CommitPc
<1>3. CommitInv' /\ BootInv'
  BY <1>1, <1>2 DEF LogInv, Shape, CommitInv, BootInv, CommitPc
<1>4. \A q \in Proc : held[q] = None
  BY <1>2 DEF LogInv, CommitInv, Busy, BusyPc
<1> QED
  BY <1>1, <1>3, <1>4 DEF LogInv, Shape, Installing, Clearing, CommitPc

LEMMA CommitStartInv ==
  ASSUME LogInv, NEW p \in Proc, commit(p)
  PROVE  LogInv'
<1>1. PICK l \in {"log", "done"} : pc' = [pc EXCEPT ![p] = l]
  BY Zenon DEF commit, Goto
<1>2. /\ boot = "up" /\ pc[p] = "commit" /\ tail' = 1
      /\ UNCHANGED <<home, logged, head, cache, pin, lh, boot, held, outstanding, committing, panicked>>
  BY DEF commit, Up
<1>3. /\ CommitInv' /\ BootInv'
      /\ pc' \in [Proc -> CommitPc \cup BusyPc \cup {"idle", "begin", "sleep"}]
      /\ \A q \in Proc : q # p => pc[q] \notin CommitPc /\ pc'[q] \notin CommitPc
      /\ ~Installing /\ ~Clearing /\ ~Installing' /\ ~Clearing'
  BY Zenon, <1>1, <1>2, CommitterStep DEF CommitPc
<1>4. Shape'
  BY <1>2, <1>3 DEF LogInv, Shape
<1>5. HeadInv'
  BY <1>2, <1>3 DEF LogInv, HeadInv, Logged
<1>6. CopyInv'
  BY <1>1, <1>2, <1>3, HeaderFacts DEF LogInv, Shape, CopyInv, CommitPc
<1>7. \A b \in Block : Pinned(b)' <=> Pinned(b)
  BY <1>2, <1>3 DEF Pinned
<1>8. CacheInv'
  BY <1>1, <1>2, <1>7 DEF LogInv, Shape, CacheInv
<1> QED
  BY <1>3, <1>4, <1>5, <1>6, <1>8 DEF LogInv

(* write_log(): the block is pinned, so its contents are in the cache, and *)
(* the header on the disk is empty, so the log blocks are free.            *)
LEMMA WriteLogInv ==
  ASSUME LogInv, NEW p \in Proc, write_log(p)
  PROVE  LogInv'
<1>1. /\ boot = "up" /\ pc[p] = "log"
      /\ UNCHANGED <<home, head, pin, lh, boot, held, outstanding, committing, panicked>>
  BY DEF write_log, Up
<1>2. PICK l \in {"log", "head"} : pc' = [pc EXCEPT ![p] = l]
  <2>1. pc = [pc EXCEPT ![p] = pc[p]]
    BY DEF LogInv, Shape
  <2> QED
    BY <1>1, <2>1 DEF write_log, Goto
<1>3. /\ CommitInv' /\ BootInv'
      /\ pc' \in [Proc -> CommitPc \cup BusyPc \cup {"idle", "begin", "sleep"}]
      /\ \A q \in Proc : q # p => pc[q] \notin CommitPc /\ pc'[q] \notin CommitPc
      /\ ~Installing /\ ~Clearing /\ ~Installing' /\ ~Clearing'
  BY Zenon, <1>1, <1>2, CommitterStep DEF CommitPc
<1>4. head = <<>> /\ Len(head) = 0
  BY <1>1, <1>3, EmptyHeader DEF LogInv, HeadInv
<1>5. \A b \in Block : Pinned(b)' <=> Pinned(b)
  BY <1>1, <1>3 DEF Pinned
<1>6. CASE tail > Len(lh)
  <2>1. /\ pc' = [pc EXCEPT ![p] = "head"] /\ UNCHANGED <<logged, cache, tail>>
    BY <1>6, HeaderFacts DEF write_log, Goto, LogInv, Shape
  <2>2. Shape' /\ HeadInv'
    BY <1>1, <1>3, <2>1 DEF LogInv, Shape, HeadInv, Logged
  <2>3. CopyInv'
    BY <1>1, <1>3, <1>6, <2>1, HeaderFacts DEF LogInv, Shape, CopyInv, CommitPc
  <2>4. CacheInv'
    BY <1>1, <1>5, <2>1 DEF LogInv, Shape, CacheInv
  <2> QED
    BY <1>3, <2>2, <2>3, <2>4 DEF LogInv
<1>7. CASE tail <= Len(lh)
  <2> DEFINE b == lh[tail]
  <2>1. tail \in 1..Len(lh) /\ b \in Block /\ tail \in 1..LOGBLOCKS
    BY <1>7, HeaderFacts DEF LogInv, Shape
  <2>2. Pinned(b) /\ cache[b] # None /\ cache[b] \in Val
    BY <1>1, <1>3, <2>1 DEF LogInv, Shape, Pinned, CacheInv
  <2>3. Contents(b) = cache[b]
    BY <2>2 DEF Contents
  <2>4. /\ logged' = [logged EXCEPT ![tail] = cache[b]]
        /\ tail' = tail + 1 /\ pc' = pc
        /\ cache' = [cache EXCEPT ![b] = cache[b]]
    BY <1>7, <2>3 DEF write_log
  <2>5. cache' = cache
    BY <2>4 DEF LogInv, Shape
  <2>6. Shape'
    BY <1>1, <1>3, <2>1, <2>2, <2>4, <2>5 DEF LogInv, Shape
  <2>7. HeadInv'
    BY <1>1, <1>3, <1>4, EmptyHeader DEF LogInv, HeadInv, Logged
  <2>8. CopyInv'
    BY <1>1, <1>3, <2>1, <2>4, <2>5, HeaderFacts DEF LogInv, Shape, CopyInv, CommitPc
  <2>9. CacheInv'
    BY <1>1, <1>5, <2>4, <2>5 DEF LogInv, CacheInv
  <2> QED
    BY <1>3, <2>6, <2>7, <2>8, <2>9 DEF LogInv
<1>8. tail \in Nat /\ Len(lh) \in Nat
  BY HeaderFacts DEF LogInv, Shape
<1> QED
  BY <1>6, <1>7, <1>8

(* The commit point.                                                       *)
LEMMA WriteHeadInv ==
  ASSUME LogInv, NEW p \in Proc, write_head(p)
  PROVE  LogInv'
<1>1. /\ boot = "up" /\ pc[p] = "head" /\ head' = lh /\ tail' = 1
      /\ pc' = [pc EXCEPT ![p] = "install"]
      /\ UNCHANGED <<home, logged, cache, pin, lh, boot, held, outstanding, committing, panicked>>
  BY DEF write_head, Up, Goto
<1>2. /\ CommitInv' /\ BootInv'
      /\ pc' \in [Proc -> CommitPc \cup BusyPc \cup {"idle", "begin", "sleep"}]
      /\ \A q \in Proc : q # p => pc[q] \notin CommitPc /\ pc'[q] \notin CommitPc
      /\ ~Installing /\ ~Clearing /\ Installing' /\ ~Clearing'
  BY Zenon, <1>1, CommitterStep DEF CommitPc
<1>3. Shape'
  BY <1>1, <1>2 DEF LogInv, Shape
<1>4. \A k \in 1..Len(lh) : lh[k] \in Block /\ logged[k] = cache[lh[k]] /\ logged[k] \in Val
  <2>1. \A k \in 1..Len(lh) : Pinned(lh[k]) /\ lh[k] \in Block
    BY <1>1, <1>2, HeaderFacts DEF LogInv, Shape, Pinned
  <2> QED
    BY <1>1, <2>1 DEF LogInv, Shape, CopyInv, CacheInv
<1>5. \A b \in Block : home[b] \in Val
  BY <1>1, <1>2, EmptyHeader DEF LogInv, HeadInv
<1>6. HeadInv'
  BY <1>1, <1>2, <1>4, <1>5, HeaderFacts DEF LogInv, Shape, HeadInv
<1>7. CopyInv'
  BY <1>1, <1>2, <1>4 DEF CopyInv, CommitPc
<1>8. \A b \in Block : Pinned(b)' <=> Pinned(b)
  BY <1>1, <1>2, HeaderFacts DEF Pinned, LogInv, Shape
<1>9. CacheInv'
  BY <1>1, <1>8 DEF LogInv, Shape, CacheInv
<1> QED
  BY <1>2, <1>3, <1>6, <1>7, <1>9 DEF LogInv

LEMMA ClearInv ==
  ASSUME LogInv, NEW p \in Proc, clear_head(p)
  PROVE  LogInv'
<1>1. /\ boot = "up" /\ pc[p] = "clear" /\ head' = lh
      /\ pc' = [pc EXCEPT ![p] = "done"]
      /\ UNCHANGED <<home, logged, cache, pin, lh, boot, held, tail, outstanding, committing, panicked>>
  BY DEF clear_head, Up, Goto
<1>2. /\ CommitInv' /\ BootInv'
      /\ pc' \in [Proc -> CommitPc \cup BusyPc \cup {"idle", "begin", "sleep"}]
      /\ \A q \in Proc : q # p => pc[q] \notin CommitPc /\ pc'[q] \notin CommitPc
      /\ ~Installing /\ Clearing /\ ~Installing' /\ ~Clearing'
  BY Zenon, <1>1, CommitterStep DEF CommitPc
<1>3. Shape'
  BY <1>1, <1>2 DEF LogInv, Shape
<1>4. lh = <<>> /\ Len(lh) = 0 /\ Logged(lh) = {}
  BY <1>2, EmptyHeader DEF LogInv, HeadInv
<1>5. \A b \in Block : home[b] \in Val
  BY <1>2, HeaderFacts DEF LogInv, Shape, HeadInv
<1>6. HeadInv'
  BY <1>1, <1>2, <1>4, <1>5 DEF HeadInv
<1>7. CopyInv'
  BY <1>1, <1>4 DEF CopyInv
<1>8. \A b \in Block : Pinned(b)' <=> Pinned(b)
  BY <1>1, <1>4 DEF Pinned
<1>9. CacheInv'
  BY <1>1, <1>8 DEF LogInv, Shape, CacheInv
<1> QED
  BY <1>2, <1>3, <1>6, <1>7, <1>9 DEF LogInv

(* install_trans(0): one more block is home, and no longer pinned.         *)
LEMMA InstallInv ==
  ASSUME LogInv, NEW p \in Proc, install_trans(p)
  PROVE  LogInv'
<1>1. /\ boot = "up" /\ pc[p] = "install"
      /\ UNCHANGED <<logged, head, boot, held, outstanding, committing, panicked>>
  BY DEF install_trans, Up
<1>2. PICK l \in {"install", "clear"} : pc' = [pc EXCEPT ![p] = l]
  <2>1. pc = [pc EXCEPT ![p] = pc[p]]
    BY DEF LogInv, Shape
  <2> QED
    BY <1>1, <2>1 DEF install_trans, Goto
<1>3. /\ CommitInv' /\ BootInv'
      /\ pc' \in [Proc -> CommitPc \cup BusyPc \cup {"idle", "begin", "sleep"}]
      /\ \A q \in Proc : q # p => pc[q] \notin CommitPc /\ pc'[q] \notin CommitPc
      /\ \A q \in Proc : held[q] = None
      /\ Installing /\ ~Clearing
      /\ (Installing' <=> l = "install") /\ (Clearing' <=> l = "clear")
  BY Zenon, <1>1, <1>2, CommitterStep DEF CommitPc
<1>4. head = lh /\ tail \in Nat \ {0} /\ Len(lh) \in Nat
  BY <1>3, HeaderFacts DEF LogInv, HeadInv, Shape
<1>a. \A q \in Proc : pc'[q] # "held" /\ pc'[q] # "log" /\ pc'[q] # "head"
  BY <1>2, <1>3 DEF CommitInv, CommitPc, LogInv, Shape
<1>5. CASE tail > Len(lh)
  <2>1. /\ pc' = [pc EXCEPT ![p] = "clear"] /\ lh' = <<>> /\ UNCHANGED <<home, cache, pin, tail>>
    BY <1>4, <1>5 DEF install_trans, Goto
  <2>2. ~Installing' /\ Clearing' /\ \A q \in Proc : pc'[q] # "install"
    BY <1>1, <1>3, <2>1 DEF LogInv, Shape, CommitPc, Installing, Clearing
  <2>3. Shape'
    BY <1>1, <1>3, <2>1, EmptyHeader DEF LogInv, Shape
  <2>4. HeadInv'
    BY <1>1, <1>3, <1>4, <1>5, <2>1, <2>2 DEF LogInv, HeadInv
  <2>5. CopyInv'
    BY <1>a, <2>2 DEF CopyInv
  <2>6. \A b \in Block : ~Pinned(b) /\ ~Pinned(b)'
    BY <1>3, <1>4, <1>5, <2>1, EmptyHeader DEF Pinned
  <2>7. CacheInv'
    BY <1>1, <1>a, <2>1, <2>6 DEF LogInv, CacheInv
  <2> QED
    BY <1>3, <2>3, <2>4, <2>5, <2>7 DEF LogInv
<1>6. CASE tail <= Len(lh)
  <2>1. PICK b : b = lh[tail]
    OBVIOUS
  <2>2. tail \in 1..Len(lh) /\ b \in Block /\ tail \in 1..LOGBLOCKS /\ b \in Logged(head)
    BY <1>4, <1>6, <2>1, HeaderFacts DEF LogInv, Shape
  <2>3. logged[tail] \in Val /\ logged[tail] # None
    BY <1>4, <2>2, LogAssumption DEF LogInv, HeadInv
  <2>4. /\ home' = [home EXCEPT ![b] = logged[tail]]
        /\ cache' = [cache EXCEPT ![b] = logged[tail]]
        /\ pin' = [pin EXCEPT ![b] = pin[b] - 1]
        /\ tail' = tail + 1 /\ pc' = pc /\ lh' = lh
    BY <1>6, <2>1 DEF install_trans
  <2>5. Installing' /\ ~Clearing'
    BY <1>1, <1>3, <2>4 DEF Installing, Clearing
  <2>6. Pinned(b) /\ ~Pinned(b)'
    BY <1>1, <1>3, <1>4, <2>1, <2>2, <2>4, <2>5, HeaderFacts DEF Pinned, LogInv, Shape
  <2>7. \A c \in Block : c # b => (Pinned(c)' <=> Pinned(c))
    BY <1>1, <1>3, <1>4, <2>1, <2>2, <2>4, <2>5, HeaderFacts DEF Pinned, LogInv, Shape
  <2>8. Shape'
    BY <1>1, <1>3, <1>4, <2>2, <2>3, <2>4, <2>6 DEF LogInv, Shape, CacheInv
  <2>9. HeadInv'
    BY <1>1, <1>3, <1>4, <2>1, <2>2, <2>3, <2>4, <2>5, HeaderFacts DEF LogInv, Shape, HeadInv, Logged
  <2>10. CopyInv'
    BY <1>1, <1>4, <1>a, <2>1, <2>2, <2>4, HeaderFacts DEF LogInv, Shape, CopyInv
  <2>11. CacheInv'
    <3>1. \A c \in Block : pin'[c] = IF Pinned(c)' THEN 1 ELSE 0
      BY <2>2, <2>4, <2>6, <2>7 DEF LogInv, Shape, CacheInv
    <3>2. \A c \in Block : \/ cache'[c] = None \/ cache'[c] = home'[c]
                           \/ Pinned(c)'
      BY <1>3, <2>2, <2>4, <2>7, LogAssumption DEF LogInv, Shape, CacheInv
    <3>3. \A c \in Block : Pinned(c)' => cache'[c] # None
      BY <2>2, <2>3, <2>4, <2>7 DEF LogInv, Shape, CacheInv
    <3> QED
      BY <1>a, <3>1, <3>2, <3>3 DEF CacheInv
  <2> QED
    BY <1>3, <2>8, <2>9, <2>10, <2>11 DEF LogInv
<1> QED
  BY <1>4, <1>5, <1>6

(* The caller changes a block in the cache, with the buffer locked.        *)
LEMMA ModifyInv ==
  ASSUME LogInv, NEW p \in Proc, Modify(p)
  PROVE  LogInv'
<1>1. PICK b \in Block, v \in Val :
        /\ cache' = [cache EXCEPT ![b] = v] /\ held' = [held EXCEPT ![p] = b]
        /\ \A q \in Proc : held[q] # b
  BY ZenonT(30) DEF Modify
<1>2. /\ boot = "up" /\ pc[p] = "op" /\ pc' = [pc EXCEPT ![p] = "held"]
      /\ UNCHANGED <<home, logged, head, pin, lh, boot, tail, outstanding, committing, panicked>>
  BY DEF Modify, Up, Goto
<1>3. p \in Busy /\ Busy' = Busy /\ b # None /\ v # None
  BY <1>2, LogAssumption DEF Busy, BusyPc, LogInv, Shape
<1>4. \A q \in Proc : pc[q] \notin CommitPc /\ pc'[q] \notin CommitPc
  BY <1>2, <1>3 DEF LogInv, CommitInv, CommitPc, Shape
<1>5. ~Installing /\ ~Clearing /\ ~Installing' /\ ~Clearing'
  BY <1>2, <1>4 DEF Installing, Clearing, CommitPc
<1>6. Shape' /\ BootInv'
  BY <1>1, <1>2 DEF LogInv, Shape, BootInv, BusyPc
<1>7. CommitInv'
  BY <1>1, <1>2, <1>3, <1>4 DEF LogInv, Shape, CommitInv
<1>8. HeadInv'
  BY <1>2, <1>5 DEF LogInv, HeadInv, Logged
<1>9. CopyInv'
  BY <1>4 DEF CopyInv, CommitPc
<1>10. \A c \in Block : Pinned(c)' <=> Pinned(c)
  BY <1>2, <1>5 DEF Pinned
<1>11. CacheInv'
  <2>1. \A c \in Block : \/ cache'[c] = None \/ cache'[c] = home'[c]
                         \/ Pinned(c)' \/ \E q \in Proc : held'[q] = c
    <3> SUFFICES ASSUME NEW c \in Block
                 PROVE  \/ cache'[c] = None \/ cache'[c] = home'[c]
                        \/ Pinned(c)' \/ \E q \in Proc : held'[q] = c
      OBVIOUS
    <3>1. CASE c = b
      BY <1>1, <3>1 DEF LogInv, Shape
    <3>2. CASE c # b
      <4>1. held[p] = None
        BY <1>2 DEF LogInv, CommitInv
      <4> QED
        BY <1>1, <1>2, <1>10, <3>2, <4>1, LogAssumption DEF LogInv, Shape, CacheInv
    <3> QED
      BY <3>1, <3>2
  <2>2. \A q \in Proc : pc'[q] = "held" => cache'[held'[q]] # None
    BY <1>1, <1>2, <1>3 DEF LogInv, Shape, CacheInv, CommitInv
  <2>3. \A c \in Block : Pinned(c)' => cache'[c] # None
    BY <1>1, <1>3, <1>10 DEF LogInv, Shape, CacheInv
  <2> QED
    BY <1>2, <1>10, <2>1, <2>2, <2>3 DEF LogInv, CacheInv
<1> QED
  BY <1>6, <1>7, <1>8, <1>9, <1>11 DEF LogInv

(* log_write(): the block is now pinned by the log instead of locked.      *)
LEMMA LogWriteInv ==
  ASSUME LogInv, NEW p \in Proc, log_write(p)
  PROVE  LogInv'
<1>1. /\ boot = "up" /\ pc[p] = "held"
      /\ UNCHANGED <<home, logged, head, cache, boot, tail, outstanding, committing>>
  BY DEF log_write, Up
<1>2. CASE panicked' = TRUE /\ UNCHANGED <<lh, pin, wrote, held, pc>>
  <2>1. Busy' = Busy
    BY <1>2 DEF Busy
  <2>2. Shape' /\ CommitInv' /\ BootInv'
    BY <1>1, <1>2, <2>1 DEF LogInv, Shape, CommitInv, BootInv
  <2> QED
    BY <1>1, <1>2, <2>2, QuietStep DEF LogInv
<1>3. CASE /\ Len(lh) < LOGBLOCKS /\ UNCHANGED panicked
           /\ held' = [held EXCEPT ![p] = None] /\ pc' = [pc EXCEPT ![p] = "op"]
           /\ IF held[p] \in Logged(lh)
                THEN UNCHANGED <<lh, pin>>
                ELSE /\ lh' = Append(lh, held[p])
                     /\ pin' = [pin EXCEPT ![held[p]] = pin[held[p]] + 1]
  <2>1. PICK b \in Block : b = held[p]
    BY <1>1 DEF LogInv, Shape, CommitInv
  <2>2. p \in Busy /\ Busy' = Busy
    BY <1>1, <1>3 DEF Busy, BusyPc, LogInv, Shape
  <2>3. \A q \in Proc : pc[q] \notin CommitPc /\ pc'[q] \notin CommitPc
    BY <1>3, <2>2 DEF LogInv, CommitInv, CommitPc, Shape
  <2>4. ~Installing /\ ~Clearing /\ ~Installing' /\ ~Clearing'
    BY <1>1, <2>3 DEF Installing, Clearing, CommitPc
  <2>5. /\ Header(lh') /\ \A c \in Block : Pinned(c)' <=> Pinned(c) \/ c = b
        /\ pin' \in [Block -> Nat] /\ \A c \in Block : pin'[c] = IF Pinned(c)' THEN 1 ELSE 0
    <3>1. CASE b \in Logged(lh)
      <4>1. UNCHANGED <<lh, pin>> /\ Pinned(b)
        BY <1>1, <1>3, <2>1, <2>4, <3>1, HeaderFacts DEF LogInv, Shape, Pinned
      <4>2. \A c \in Block : Pinned(c)' <=> Pinned(c)
        BY <1>1, <2>4, <4>1 DEF Pinned
      <4> QED
        BY <4>1, <4>2 DEF LogInv, Shape, CacheInv
    <3>2. CASE b \notin Logged(lh)
      <4>1. lh' = Append(lh, b) /\ pin' = [pin EXCEPT ![b] = pin[b] + 1]
        BY <1>3, <2>1, <3>2
      <4>2. /\ Header(lh') /\ Len(lh') = Len(lh) + 1 /\ Len(lh) \in Nat
            /\ \A k \in 1..Len(lh) : lh'[k] = lh[k]
            /\ lh'[Len(lh) + 1] = b
        BY <1>3, <3>2, <4>1, AppendHeader, HeaderFacts DEF LogInv, Shape
      <4>3. ~Pinned(b)
        BY <2>4, <3>2 DEF Pinned, Logged
      <4>4. \A c \in Block : Pinned(c)' <=> Pinned(c) \/ c = b
        BY <1>1, <2>4, <4>2 DEF Pinned
      <4> QED
        BY <4>1, <4>2, <4>3, <4>4 DEF LogInv, Shape, CacheInv
    <3> QED
      BY <3>1, <3>2
  <2>6. Shape' /\ BootInv'
    BY <1>1, <1>3, <2>5 DEF LogInv, Shape, BootInv, BusyPc
  <2>7. CommitInv'
    BY <1>1, <1>3, <2>2, <2>3 DEF LogInv, Shape, CommitInv
  <2>8. HeadInv'
    BY <1>1, <2>4 DEF LogInv, HeadInv, Logged
  <2>9. CopyInv'
    BY <2>3 DEF CopyInv, CommitPc
  <2>10. CacheInv'
    <3>1. \A c \in Block : \/ cache'[c] = None \/ cache'[c] = home'[c]
                           \/ Pinned(c)' \/ \E q \in Proc : held'[q] = c
      BY <1>1, <1>3, <2>1, <2>5 DEF LogInv, Shape, CacheInv
    <3>2. cache[b] # None
      BY <1>1, <2>1 DEF LogInv, CacheInv
    <3>3. \A c \in Block : Pinned(c)' => cache'[c] # None
      BY ZenonT(30), <1>1, <2>5, <3>2 DEF LogInv, CacheInv
    <3>4. \A q \in Proc : pc'[q] = "held" => cache'[held'[q]] # None
      BY <1>1, <1>3 DEF LogInv, Shape, CacheInv
    <3> QED
      BY <2>5, <3>1, <3>3, <3>4 DEF CacheInv
  <2> QED
    BY <2>6, <2>7, <2>8, <2>9, <2>10 DEF LogInv
<1>4. Len(lh) \in Nat /\ LOGBLOCKS \in Nat
  BY HeaderFacts, LogAssumption DEF LogInv, Shape
<1>5. CASE Len(lh) >= LOGBLOCKS \/ outstanding < 1
  BY Zenon, <1>2, <1>5 DEF log_write
<1>6. CASE ~(Len(lh) >= LOGBLOCKS \/ outstanding < 1)
  <2>1. Len(lh) < LOGBLOCKS
    BY <1>4, <1>6
  <2> QED
    BY <1>3, <1>6, <2>1 DEF log_write, Goto
<1> QED
  BY <1>5, <1>6
=============================================================================
