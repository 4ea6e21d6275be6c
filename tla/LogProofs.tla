----------------------------- MODULE LogProofs ------------------------------
(***************************************************************************)
(* The log implements an atomic disk, for every number of processes,       *)
(* blocks and values and every size of the log.                            *)
(***************************************************************************)
EXTENDS LogInvariant

USE DEF diskVars, cacheVars, logVars

(* bread() and bget() by anybody.                                          *)
LEMMA BufferInv ==
  ASSUME LogInv, NEW b \in Block, Load(b) \/ Recycle(b)
  PROVE  LogInv'
<1>1. /\ boot = "up" /\ UNCHANGED <<pin, tail, pc, held, wrote, boot, panicked, home, logged,
                                    head, lh, outstanding, committing>>
  BY Zenon DEF Load, Recycle, Up
<1>2. Busy' = Busy /\ (Installing' <=> Installing) /\ (Clearing' <=> Clearing)
  BY <1>1 DEF Busy, Installing, Clearing
<1>3. \A c \in Block : Pinned(c)' <=> Pinned(c)
  BY <1>1, <1>2 DEF Pinned
<1>4. ~Pinned(b) /\ \A p \in Proc : held[p] # b
  <2>1. CASE Load(b)
    BY <2>1, LogAssumption DEF Load, LogInv, CacheInv, CommitInv
  <2>2. CASE Recycle(b)
    BY <2>2 DEF Recycle, LogInv, CacheInv
  <2> QED
    BY <2>1, <2>2
<1>5. \/ cache' = [cache EXCEPT ![b] = home[b]] /\ home[b] \in Val
      \/ cache' = [cache EXCEPT ![b] = None]
  BY <1>1 DEF Load, Recycle, LogInv, HeadInv
<1>6. Shape' /\ CommitInv' /\ BootInv'
  BY <1>1, <1>2, <1>5 DEF LogInv, Shape, CommitInv, BootInv
<1>7. HeadInv'
  BY Zenon, <1>1, <1>2 DEF LogInv, HeadInv, Logged
<1>8. CopyInv'
  <2>1. ASSUME NEW p \in Proc, pc[p] \in {"log", "head", "install"}, NEW k \in 1..Len(lh),
               pc[p] = "install" => k >= tail
        PROVE  cache'[lh[k]] = cache[lh[k]]
    <3>1. Installing <=> pc[p] = "install"
      BY <1>1, <2>1 DEF LogInv, CommitInv, CommitPc, Installing
    <3>2. Pinned(lh[k]) /\ lh[k] \in Block
      BY <1>1, <2>1, <3>1, HeaderFacts DEF LogInv, Shape, Pinned
    <3>3. lh[k] # b
      BY <1>4, <3>2
    <3> QED
      BY <1>5, <3>2, <3>3 DEF LogInv, Shape
  <2> QED
    BY Zenon, <1>1, <2>1 DEF LogInv, CopyInv
<1>9. CacheInv'
  <2>1. \A c \in Block : c # b => cache'[c] = cache[c]
    BY <1>5 DEF LogInv, Shape
  <2>2. cache'[b] = None \/ cache'[b] = home[b]
    BY <1>5 DEF LogInv, Shape
  <2>3. \A p \in Proc : pc[p] = "held" => held[p] \in Block /\ held[p] # b
    BY <1>4 DEF LogInv, Shape, CommitInv
  <2> QED
    BY <1>1, <1>3, <1>4, <2>1, <2>2, <2>3 DEF LogInv, CacheInv
<1> QED
  BY <1>6, <1>7, <1>8, <1>9 DEF LogInv

(* Recovery                                                                *)

LEMMA BootStepInv ==
  ASSUME LogInv, Boots
  PROVE  LogInv'
<1>1. /\ boot # "up" /\ UNCHANGED <<logged, pin, outstanding, committing, pc, held, panicked>>
  BY DEF Boots, read_head, recover, recovered
<1>2. /\ \A p \in Proc : pc[p] = "idle" /\ held[p] = None /\ pc'[p] = "idle" /\ held'[p] = None
      /\ ~committing /\ ~panicked /\ \A b \in Block : pin[b] = 0
      /\ Busy' = Busy
  BY <1>1 DEF LogInv, BootInv, CommitInv, Busy
<1>3. /\ Installing <=> boot = "install"
      /\ Clearing <=> boot = "clear"
      /\ Installing' <=> boot' = "install"
      /\ Clearing' <=> boot' = "clear"
      /\ \A b \in Block : ~Pinned(b)
  BY <1>1, <1>2 DEF Installing, Clearing, Pinned
<1>4. CommitInv' /\ BootInv' /\ CopyInv'
  BY <1>1, <1>2 DEF LogInv, CommitInv, BootInv, CopyInv, CommitPc
<1>5. \A b \in Block : cache[b] = None \/ cache[b] = home[b]
  <2>1. \A b \in Block : \/ cache[b] = None \/ cache[b] = home[b]
                          \/ Pinned(b) \/ \E p \in Proc : held[p] = b
    BY DEF LogInv, CacheInv
  <2> QED
    BY Zenon, <1>2, <1>3, <2>1, LogAssumption
<1>6. CASE read_head
  <2>1. /\ boot = "read" /\ lh' = head /\ tail' = 1 /\ boot' = "install"
        /\ UNCHANGED <<home, head, cache>>
    BY <1>6 DEF read_head
  <2>2. Shape'
    BY <1>1, <2>1 DEF LogInv, Shape
  <2>3. HeadInv'
    BY <1>1, <1>3, <2>1, HeaderFacts DEF LogInv, Shape, HeadInv
  <2>4. CacheInv'
    BY Zenon, <1>1, <1>2, <1>5, <2>1 DEF CacheInv, Pinned
  <2> QED
    BY <1>4, <2>2, <2>3, <2>4 DEF LogInv
<1>7. CASE recover /\ tail > Len(lh)
  <2>1. /\ boot = "install" /\ lh' = <<>> /\ boot' = "clear"
        /\ UNCHANGED <<home, head, cache, tail>>
    BY <1>7, HeaderFacts DEF recover, LogInv, Shape
  <2>2. Shape'
    BY <1>1, <2>1, EmptyHeader DEF LogInv, Shape
  <2>3. HeadInv'
    BY <1>1, <1>3, <1>7, <2>1, HeaderFacts DEF LogInv, Shape, HeadInv
  <2>4. CacheInv'
    BY <1>1, <1>2, <1>5, <2>1 DEF CacheInv, Pinned
  <2> QED
    BY <1>4, <2>2, <2>3, <2>4 DEF LogInv
<1>8. CASE recover /\ tail <= Len(lh)
  <2>1. PICK b : b = lh[tail]
    OBVIOUS
  <2>2. /\ boot = "install" /\ boot' = boot /\ lh' = lh /\ tail' = tail + 1 /\ head' = head
        /\ home' = [home EXCEPT ![b] = logged[tail]]
        /\ cache' = [cache EXCEPT ![b] = logged[tail]]
    BY <1>8, <2>1 DEF recover
  <2>3. head = lh /\ tail \in 1..Len(lh) /\ b \in Block /\ b \in Logged(head) /\ logged[tail] \in Val
    BY <1>3, <1>8, <2>1, <2>2, HeaderFacts DEF LogInv, Shape, HeadInv
  <2>4. Shape'
    BY <1>1, <2>2, <2>3 DEF LogInv, Shape
  <2>5. HeadInv'
    BY <1>1, <1>3, <2>1, <2>2, <2>3, HeaderFacts DEF LogInv, Shape, HeadInv, Logged
  <2>6. CacheInv'
    BY ZenonT(30), <1>1, <1>2, <1>5, <2>2, <2>3 DEF LogInv, Shape, CacheInv, Pinned
  <2> QED
    BY <1>4, <2>4, <2>5, <2>6 DEF LogInv
<1>9. CASE recovered
  <2>1. /\ boot = "clear" /\ head' = lh /\ boot' = "up" /\ UNCHANGED <<home, cache, lh, tail>>
    BY <1>9 DEF recovered
  <2>2. lh = <<>> /\ Len(lh) = 0 /\ Logged(lh) = {}
    BY Zenon, <1>3, <2>1, EmptyHeader DEF LogInv, HeadInv
  <2>3. \A b \in Block : home[b] \in Val
    BY <1>3, <2>1, HeaderFacts DEF LogInv, Shape, HeadInv
  <2>4. Shape' /\ HeadInv'
    BY <1>1, <1>3, <2>1, <2>2, <2>3 DEF LogInv, Shape, HeadInv
  <2>5. CacheInv'
    BY <1>1, <1>2, <1>5, <2>1, <2>2 DEF CacheInv, Pinned
  <2> QED
    BY <1>4, <2>4, <2>5 DEF LogInv
<1>10. tail \in Nat /\ Len(lh) \in Nat
  BY Zenon, HeaderFacts DEF LogInv, Shape
<1> QED
  BY <1>6, <1>7, <1>8, <1>9, <1>10 DEF Boots

(* A torn log block is under an empty header, a torn home block under a    *)
(* header that names it.                                                   *)
LEMMA CrashInv ==
  ASSUME LogInv, Crash
  PROVE  LogInv' /\ head' = head
         /\ \/ UNCHANGED <<home, logged>>
            \/ head = <<>> /\ UNCHANGED home
            \/ /\ UNCHANGED logged
               /\ \A b \in Block : home'[b] = home[b] \/ b \in Logged(head)
<1>1. /\ \A p \in Proc : pc'[p] = "idle" /\ held'[p] = None
      /\ \A b \in Block : cache'[b] = None /\ pin'[b] = 0
      /\ lh' = <<>> /\ outstanding' = 0 /\ tail' = 1 /\ boot' = "read" /\ head' = head
      /\ cache' \in [Block -> Val \cup {None}] /\ pin' \in [Block -> Nat]
      /\ pc' \in [Proc -> CommitPc \cup BusyPc \cup {"idle", "begin", "sleep"}]
      /\ held' \in [Proc -> Block \cup {None}]
  BY DEF Crash
<1>2. ~committing' /\ committing' \in BOOLEAN /\ ~panicked'
  BY Zenon DEF Crash
<1>3. Busy' = {} /\ Cardinality(Busy') = 0
  BY Zenon, <1>1, FS_EmptySet DEF Busy, BusyPc
<1>4. ~Installing' /\ ~Clearing'
  BY <1>1 DEF Installing, Clearing
<1>5. CommitInv' /\ BootInv' /\ CopyInv'
  BY <1>1, <1>2, <1>3 DEF CommitInv, BootInv, CopyInv, CommitPc
<1>6. CacheInv'
  BY <1>1 DEF CacheInv, Pinned
<1>7. /\ home' \in [Block -> Val \cup {Torn}]
      /\ logged' \in [1..LOGBLOCKS -> Val \cup {Torn}]
      /\ \/ UNCHANGED <<home, logged>>
         \/ head = <<>> /\ UNCHANGED home
         \/ /\ UNCHANGED logged
            /\ \A b \in Block : home'[b] = home[b] \/ b \in Logged(head)
  <2>1. CASE UNCHANGED <<home, logged>>
    BY <2>1 DEF LogInv, Shape
  <2>2. CASE /\ \E p \in Proc : pc[p] = "log"
             /\ logged' = [logged EXCEPT ![tail] = Torn] /\ UNCHANGED home
    <3>1. PICK p \in Proc : pc[p] = "log"
      BY <2>2
    <3>2. ~Installing /\ ~Clearing /\ boot = "up"
      BY <3>1 DEF LogInv, BootInv, CommitInv, CommitPc, Installing, Clearing
    <3> QED
      BY Zenon, <2>2, <3>2 DEF LogInv, Shape, HeadInv
  <2>3. CASE /\ Installing /\ tail <= Len(lh)
             /\ home' = [home EXCEPT ![lh[tail]] = Torn] /\ UNCHANGED logged
    <3>1. head = lh /\ tail \in 1..Len(lh) /\ lh[tail] \in Block /\ lh[tail] \in Logged(head)
      BY <2>3, HeaderFacts DEF LogInv, Shape, HeadInv
    <3> QED
      BY <2>3, <3>1 DEF LogInv, Shape
  <2> QED
    BY <2>1, <2>2, <2>3 DEF Crash, Installing
<1>8. Shape'
  BY <1>1, <1>7, EmptyHeader DEF LogInv, Shape
<1>9. \A k \in 1..Len(head) : logged'[k] \in Val
  <2>1. logged' = logged \/ head = <<>>
    BY <1>7
  <2>2. \A k \in 1..Len(head) : logged[k] \in Val
    BY DEF LogInv, HeadInv
  <2>3. CASE head = <<>>
    BY <2>3, EmptyHeader
  <2> QED
    BY <2>1, <2>2, <2>3
<1>10. \A b \in Block : home'[b] \in Val \/ b \in Logged(head)
  BY <1>7, EmptyHeader DEF LogInv, HeadInv
<1>11. HeadInv'
  BY <1>1, <1>4, <1>9, <1>10 DEF HeadInv, Logged
<1> QED
  BY <1>1, <1>5, <1>6, <1>7, <1>8, <1>11 DEF LogInv

LEMMA NextLogInv == LogInv /\ [Next]_vars => LogInv'
<1> SUFFICES ASSUME LogInv, [Next]_vars PROVE LogInv'
  OBVIOUS
<1>1. CASE UNCHANGED vars
  <2>1. Busy' = Busy
    BY <1>1 DEF vars, Busy
  <2>2. Shape' /\ CommitInv' /\ BootInv'
    BY <1>1, <2>1 DEF vars, LogInv, Shape, CommitInv, BootInv
  <2> QED
    BY <1>1, <2>2, QuietStep DEF vars, LogInv
<1>2. CASE Next
  BY <1>2, CallInv, BeginInv, ModifyInv, LogWriteInv, EndInv, CommitStartInv, WriteLogInv,
     WriteHeadInv, InstallInv, ClearInv, CommittedInv, BootStepInv, BufferInv, CrashInv
  DEF Next, Commits
<1> QED
  BY <1>1, <1>2

-----------------------------------------------------------------------------
(* The refinement                                                          *)

Dur(hd, lg, hm) ==
  [b \in Block |->
     IF b \in Logged(hd) THEN lg[CHOOSE k \in 1..Len(hd) : hd[k] = b] ELSE hm[b]]

LEMMA DurFacts ==
  ASSUME NEW hd, Header(hd), NEW lg, NEW hm
  PROVE  /\ \A k \in 1..Len(hd) : Dur(hd, lg, hm)[hd[k]] = lg[k]
         /\ \A b \in Block : b \notin Logged(hd) => Dur(hd, lg, hm)[b] = hm[b]
<1>1. ASSUME NEW k \in 1..Len(hd)
      PROVE  Dur(hd, lg, hm)[hd[k]] = lg[k]
  <2> DEFINE j == CHOOSE j \in 1..Len(hd) : hd[j] = hd[k]
  <2>1. j \in 1..Len(hd) /\ hd[j] = hd[k]
    OBVIOUS
  <2>2. j = k
    BY <2>1, HeaderFacts
  <2>3. hd[k] \in Block /\ hd[k] \in Logged(hd)
    BY HeaderFacts
  <2> QED
    BY Zenon, <2>2, <2>3 DEF Dur
<1> QED
  BY Zenon, <1>1 DEF Dur

(* Two ways for the durable contents to stay: the home blocks that changed *)
(* are under the header, or the header goes once all blocks are home.      *)
LEMMA SameUnderHeader ==
  ASSUME LogInv, head' = head,
         \A k \in 1..Len(head) : logged'[k] = logged[k],
         \A b \in Block : home'[b] = home[b] \/ b \in Logged(head)
  PROVE  Durable' = Durable
<1>1. Header(head)
  BY Zenon DEF LogInv, Shape
<1>2. Durable = Dur(head, logged, home) /\ Durable' = Dur(head, logged', home')
  BY DEF Durable, Dur
<1>3. \A b \in Block : Dur(head, logged', home')[b] = Dur(head, logged, home)[b]
  BY <1>1, DurFacts, HeaderFacts
<1>4. Dur(head, logged', home') = Dur(head, logged, home)
  BY <1>3 DEF Dur
<1> QED
  BY <1>2, <1>4

LEMMA SameWhenHome ==
  ASSUME LogInv, \A k \in 1..Len(head) : home[head[k]] = logged[k]
  PROVE  Durable = [b \in Block |-> home[b]]
<1>1. Header(head)
  BY DEF LogInv, Shape
<1>2. Durable = Dur(head, logged, home)
  BY DEF Durable, Dur
<1>3. \A b \in Block : Dur(head, logged, home)[b] = home[b]
  BY <1>1, DurFacts, HeaderFacts
<1> QED
  BY <1>2, <1>3 DEF Dur

LEMMA InitRefines == Init => Atomic!Init
<1> SUFFICES ASSUME Init PROVE Atomic!Init
  OBVIOUS
<1>1. Durable = home
  BY EmptyHeader DEF Init, Durable
<1>2. Seen = Durable
  BY DEF Init, Seen
<1>3. { p \in Proc : pc[p] \in {"op", "held"} } = {}
  BY DEF Init
<1> QED
  BY <1>1, <1>2, <1>3 DEF Init, Atomic!Init

LEMMA SameDisk ==
  ASSUME UNCHANGED <<home, logged, head>>
  PROVE  Durable' = Durable
<1>1. Durable = Dur(head, logged, home) /\ Durable' = Dur(head', logged', home')
  BY DEF Durable, Dur
<1>2. head' = head /\ logged' = logged /\ home' = home
  OBVIOUS
<1> QED
  BY <1>1, <1>2

(* A step that changes neither the disk nor the cache's view of it.        *)
LEMMA QuietRefines ==
  ASSUME UNCHANGED <<home, logged, head, cache, boot>>
  PROVE  Durable' = Durable /\ Seen' = Seen
<1>1. Durable' = Durable
  BY SameDisk
<1> QED
  BY <1>1 DEF Seen, Contents

LEMMA CallRefines ==
  ASSUME LogInv, NEW p \in Proc,
         Call(p) \/ begin_op(p) \/ log_write(p) \/ end_op(p) \/ commit(p) \/ committed(p)
  PROVE  Atomic!Begin(p) \/ Atomic!End(p) \/ UNCHANGED Atomic!vars
<1> DEFINE B == { q \in Proc : pc[q] \in {"op", "held"} }
<1>1. Durable' = Durable /\ Seen' = Seen
  BY QuietRefines DEF Call, begin_op, log_write, end_op, commit, committed
<1>2. pc \in [Proc -> CommitPc \cup BusyPc \cup {"idle", "begin", "sleep"}]
  BY DEF LogInv, Shape
<1>3. CASE Call(p) \/ log_write(p) \/ commit(p)
  <2>1. B' = B
    BY <1>2, <1>3 DEF Call, log_write, commit, Goto
  <2> QED
    BY <1>1, <2>1 DEF Atomic!vars
<1>4. CASE committed(p)
  <2>1. B' = B
    BY <1>2, <1>4 DEF committed, Awake
  <2> QED
    BY <1>1, <2>1 DEF Atomic!vars
<1>5. CASE begin_op(p)
  <2>1. B' = B \/ (p \notin B /\ B' = B \cup {p})
    BY <1>2, <1>5 DEF begin_op, Goto
  <2> QED
    BY Zenon, <1>1, <2>1 DEF Atomic!vars, Atomic!Begin
<1>6. CASE end_op(p)
  <2>1. B' = B \/ (p \in B /\ B' = B \ {p})
    BY Zenon, <1>2, <1>6 DEF end_op, Goto, Awake
  <2> QED
    BY Zenon, <1>1, <2>1 DEF Atomic!vars, Atomic!End
<1> QED
  BY <1>3, <1>4, <1>5, <1>6

LEMMA ModifyRefines ==
  ASSUME LogInv, NEW p \in Proc, Modify(p)
  PROVE  Atomic!Write(p)
<1> DEFINE B == { q \in Proc : pc[q] \in {"op", "held"} }
<1>1. Durable' = Durable /\ boot = "up" /\ boot' = "up"
  BY SameDisk DEF Modify, Up
<1>2. p \in B /\ B' = B
  BY DEF Modify, Goto, LogInv, Shape
<1>3. PICK b \in Block, v \in Val : cache' = [cache EXCEPT ![b] = v]
  BY Zenon DEF Modify
<1>4. Seen' = [Seen EXCEPT ![b] = v]
  BY Zenon, <1>1, <1>3, LogAssumption DEF Modify, Seen, Contents, LogInv, Shape
<1> QED
  BY ZenonT(30), <1>1, <1>2, <1>3, <1>4 DEF Atomic!Write

LEMMA WriteLogRefines ==
  ASSUME LogInv, NEW p \in Proc, write_log(p)
  PROVE  UNCHANGED Atomic!vars
<1>1. ~Installing /\ ~Clearing /\ boot = "up" /\ boot' = "up"
  BY DEF write_log, Up, LogInv, CommitInv, CommitPc, Installing, Clearing
<1>2. head = <<>> /\ head' = head /\ home' = home
  BY <1>1 DEF write_log, LogInv, HeadInv
<1>3. Durable' = Durable
  BY <1>2, EmptyHeader DEF Durable
<1>4. \A b \in Block : Contents(b)' = Contents(b)
  BY <1>2 DEF write_log, Contents, LogInv, Shape
<1>5. Seen' = Seen
  BY <1>1, <1>4 DEF Seen
<1>6. { q \in Proc : pc[q] \in {"op", "held"} }' = { q \in Proc : pc[q] \in {"op", "held"} }
  BY DEF write_log, Goto, LogInv, Shape
<1> QED
  BY <1>3, <1>5, <1>6 DEF Atomic!vars

(* The write of the header is the commit.                                  *)
LEMMA WriteHeadRefines ==
  ASSUME LogInv, NEW p \in Proc, write_head(p)
  PROVE  Atomic!Commit
<1> DEFINE B == { q \in Proc : pc[q] \in {"op", "held"} }
<1>1. ~Installing /\ boot = "up" /\ boot' = "up" /\ committing
  BY DEF write_head, Up, LogInv, CommitInv, CommitPc, Installing
<1>2. B = {} /\ \A q \in Proc : held[q] = None
  BY <1>1 DEF LogInv, CommitInv, Busy, BusyPc
<1>3. B' = B
  BY DEF write_head, Goto, LogInv, Shape
<1>4. Header(lh) /\ Durable' = Dur(lh, logged, home)
  BY DEF write_head, Durable, Dur, LogInv, Shape
<1>5. \A k \in 1..Len(lh) : Contents(lh[k]) = logged[k]
  <2> SUFFICES ASSUME NEW k \in 1..Len(lh) PROVE Contents(lh[k]) = logged[k]
    OBVIOUS
  <2>1. Pinned(lh[k]) /\ lh[k] \in Block
    BY <1>1, <1>4, HeaderFacts DEF Pinned
  <2> QED
    BY <2>1 DEF write_head, Contents, LogInv, CacheInv, CopyInv
<1>6. ASSUME NEW b \in Block, b \notin Logged(lh)
      PROVE  Contents(b) = home[b]
  <2>1. ~Pinned(b)
    BY <1>6, <1>4, HeaderFacts DEF Pinned
  <2> QED
    BY <2>1, <1>2, LogAssumption DEF Contents, LogInv, CacheInv
<1>7. \A b \in Block : Dur(lh, logged, home)[b] = Contents(b)
  BY <1>4, <1>5, <1>6, DurFacts, HeaderFacts
<1>8. Dur(lh, logged, home) = [b \in Block |-> Contents(b)]
  BY Zenon, <1>7 DEF Dur
<1>9. Seen = [b \in Block |-> Contents(b)] /\ Seen' = Seen
  BY <1>1 DEF Seen, write_head, Contents
<1> QED
  BY Zenon, <1>2, <1>3, <1>4, <1>8, <1>9 DEF Atomic!Commit

LEMMA InstallRefines ==
  ASSUME LogInv, NEW p \in Proc, install_trans(p)
  PROVE  UNCHANGED Atomic!vars
<1>1. Installing /\ boot = "up" /\ boot' = "up" /\ head = lh /\ head' = head /\ logged' = logged
  BY DEF install_trans, Up, LogInv, HeadInv, Installing
<1>2. Header(lh) /\ tail \in Nat \ {0}
  BY DEF LogInv, Shape
<1>3. { q \in Proc : pc[q] \in {"op", "held"} }' = { q \in Proc : pc[q] \in {"op", "held"} }
  BY DEF install_trans, Goto, LogInv, Shape
<1>4. \A b \in Block : home'[b] = home[b] \/ b \in Logged(head)
  BY <1>1, <1>2, HeaderFacts DEF install_trans, LogInv, Shape
<1>5. Durable' = Durable
  BY <1>1, <1>4, SameUnderHeader
<1>6. \A b \in Block : Contents(b)' = Contents(b)
  <2>1. CASE tail <= Len(lh)
    <3>1. tail \in 1..Len(lh) /\ lh[tail] \in Block /\ Pinned(lh[tail])
      BY <1>1, <1>2, <2>1, HeaderFacts DEF Pinned
    <3>2. logged[tail] = cache[lh[tail]] /\ cache[lh[tail]] # None
      BY <3>1 DEF install_trans, LogInv, CopyInv, CacheInv
    <3>3. \A b \in Block : cache'[b] = cache[b]
      BY <2>1, <3>1, <3>2 DEF install_trans, LogInv, Shape
    <3>4. \A b \in Block : b # lh[tail] => home'[b] = home[b]
      BY <2>1 DEF install_trans, LogInv, Shape
    <3> QED
      BY <3>2, <3>3, <3>4 DEF Contents
  <2>2. CASE ~(tail <= Len(lh))
    BY <2>2 DEF install_trans, Contents
  <2> QED
    BY <2>1, <2>2
<1>7. Seen' = Seen
  BY <1>1, <1>6 DEF Seen
<1> QED
  BY <1>3, <1>5, <1>7 DEF Atomic!vars

(* The blocks the header named are home when it goes.                      *)
LEMMA HeadGoes ==
  ASSUME LogInv, Clearing, head' = lh, home' = home
  PROVE  Durable = [b \in Block |-> home[b]] /\ Durable' = Durable
<1>1. Durable = [b \in Block |-> home[b]]
  BY Zenon, SameWhenHome DEF LogInv, HeadInv
<1>2. head' = <<>>
  BY DEF LogInv, HeadInv
<1>3. Durable' = [b \in Block |-> home[b]]
  BY <1>2, EmptyHeader DEF Durable
<1> QED
  BY <1>1, <1>3

LEMMA ClearRefines ==
  ASSUME LogInv, NEW p \in Proc, clear_head(p)
  PROVE  UNCHANGED Atomic!vars
<1>1. Clearing /\ boot = "up" /\ boot' = "up"
  BY DEF clear_head, Up, Clearing
<1>2. Durable' = Durable
  BY <1>1, HeadGoes DEF clear_head
<1>3. Seen' = Seen
  BY <1>1 DEF Seen, Contents, clear_head
<1>4. { q \in Proc : pc[q] \in {"op", "held"} }' = { q \in Proc : pc[q] \in {"op", "held"} }
  BY DEF clear_head, Goto, LogInv, Shape
<1> QED
  BY <1>2, <1>3, <1>4 DEF Atomic!vars

LEMMA BootRefines ==
  ASSUME LogInv, Boots
  PROVE  UNCHANGED Atomic!vars
<1>1. pc' = pc /\ boot # "up" /\ Seen = Durable
  BY DEF Boots, read_head, recover, recovered, Seen
<1>2. CASE read_head
  <2>1. Durable' = Durable /\ boot' # "up"
    BY <1>2, SameDisk DEF read_head
  <2> QED
    BY <1>1, <2>1 DEF Seen, Atomic!vars
<1>3. CASE recover
  <2>1. head = lh /\ head' = head /\ logged' = logged /\ boot' # "up"
    BY <1>3 DEF recover, LogInv, HeadInv, Installing
  <2>2. Header(lh) /\ tail \in Nat \ {0}
    BY DEF LogInv, Shape
  <2>3. \A b \in Block : home'[b] = home[b] \/ b \in Logged(head)
    BY <1>3, <2>1, <2>2, HeaderFacts DEF recover, LogInv, Shape
  <2>4. Durable' = Durable
    BY <2>1, <2>3, SameUnderHeader
  <2> QED
    BY <1>1, <2>1, <2>4 DEF Seen, Atomic!vars
<1>4. CASE recovered
  <2>1. Durable = [b \in Block |-> home[b]] /\ Durable' = Durable
    BY <1>4, HeadGoes DEF recovered, Clearing
  <2>2. \A b \in Block : Contents(b)' = home[b]
    <3>1. \A b \in Block : ~Pinned(b)
      BY <1>1 DEF Pinned
    <3>2. \A q \in Proc : held[q] = None
      BY <1>1 DEF LogInv, BootInv, CommitInv
    <3> QED
      <4>1. \A b \in Block : \/ cache[b] = None \/ cache[b] = home[b]
                              \/ Pinned(b) \/ \E p \in Proc : held[p] = b
        BY DEF LogInv, CacheInv
      <4>2. \A b \in Block : cache[b] = None \/ cache[b] = home[b]
        BY Zenon, <3>1, <3>2, <4>1, LogAssumption
      <4> QED
        BY <1>4, <4>2 DEF recovered, Contents
  <2>3. Seen' = Durable
    BY <1>4, <2>1, <2>2 DEF recovered, Seen
  <2> QED
    BY <1>1, <2>1, <2>3 DEF Atomic!vars
<1> QED
  BY <1>2, <1>3, <1>4 DEF Boots

LEMMA BufferRefines ==
  ASSUME LogInv, NEW b \in Block, Load(b) \/ Recycle(b)
  PROVE  UNCHANGED Atomic!vars
<1>1. UNCHANGED <<home, logged, head, pc>> /\ boot = "up" /\ boot' = "up"
  BY DEF Load, Recycle, Up
<1>0. Durable' = Durable
  BY <1>1, SameDisk
<1>2. CASE Load(b)
  <2>1. \A d \in Block : Contents(d)' = Contents(d)
    BY <1>2 DEF Load, Contents, LogInv, Shape
  <2> QED
    BY <1>0, <1>1, <2>1 DEF Seen, Atomic!vars
<1>3. CASE Recycle(b)
  <2>1. ~Pinned(b)
    BY <1>3 DEF Recycle, LogInv, CacheInv
  <2>2. cache[b] = home[b]
    BY <1>3, <2>1 DEF Recycle, LogInv, CacheInv
  <2>3. \A d \in Block : Contents(d)' = Contents(d)
    BY <1>3, <2>2 DEF Recycle, Contents, LogInv, Shape
  <2> QED
    BY <1>0, <1>1, <2>3 DEF Seen, Atomic!vars
<1> QED
  BY <1>2, <1>3

LEMMA CrashRefines ==
  ASSUME LogInv, Crash
  PROVE  Atomic!Crash
<1>1. Durable' = Durable
  <2>1. CASE UNCHANGED <<home, logged>>
    BY <2>1, CrashInv, SameDisk
  <2>2. CASE head = <<>> /\ UNCHANGED home
    BY <2>2, CrashInv, EmptyHeader DEF Durable
  <2>3. CASE /\ UNCHANGED logged
             /\ \A b \in Block : home'[b] = home[b] \/ b \in Logged(head)
    BY <2>3, CrashInv, SameUnderHeader
  <2> QED
    BY <2>1, <2>2, <2>3, CrashInv
<1>2. Seen' = Durable'
  BY DEF Crash, Seen
<1>3. { q \in Proc : pc[q] \in {"op", "held"} }' = {}
  BY DEF Crash
<1> QED
  BY <1>1, <1>2, <1>3 DEF Atomic!Crash

LEMMA StepRefines == LogInv /\ [Next]_vars => [Atomic!Next]_(Atomic!vars)
<1> SUFFICES ASSUME LogInv, [Next]_vars
             PROVE  Atomic!Next \/ UNCHANGED Atomic!vars
  OBVIOUS
<1>1. CASE UNCHANGED vars
  BY <1>1, QuietRefines DEF vars, Atomic!vars
<1>2. ASSUME NEW p \in Proc,
             Call(p) \/ begin_op(p) \/ Modify(p) \/ log_write(p) \/ end_op(p) \/ Commits(p)
      PROVE  Atomic!Next \/ UNCHANGED Atomic!vars
  BY <1>2, CallRefines, ModifyRefines, WriteLogRefines, WriteHeadRefines, InstallRefines,
     ClearRefines DEF Commits, Atomic!Next
<1>3. CASE Boots \/ Crash
  BY <1>3, BootRefines, CrashRefines DEF Atomic!Next
<1>4. CASE \E b \in Block : Load(b) \/ Recycle(b)
  BY <1>4, BufferRefines
<1> QED
  BY <1>1, <1>2, <1>3, <1>4 DEF Next

(* A block waits in log.lh only while a call is under way or its commit is *)
(* still ahead.                                                            *)
PendingInv ==
  boot = "up" /\ lh # <<>> =>
    Busy # {} \/ \E p \in Proc : pc[p] \in {"commit", "log", "head", "install"}

LEMMA NextPending == LogInv /\ PendingInv /\ [Next]_vars => PendingInv'
<1> SUFFICES ASSUME LogInv, PendingInv, [Next]_vars PROVE PendingInv'
  OBVIOUS
<1>0. pc \in [Proc -> CommitPc \cup BusyPc \cup {"idle", "begin", "sleep"}]
  BY DEF LogInv, Shape
<1>1. CASE UNCHANGED vars
  BY <1>1 DEF vars, PendingInv, Busy
<1>2. ASSUME NEW p \in Proc, Call(p) \/ begin_op(p) \/ Modify(p) \/ log_write(p)
      PROVE  PendingInv'
  BY <1>0, <1>2 DEF Call, begin_op, Modify, log_write, Goto, PendingInv, Busy, BusyPc
<1>3. ASSUME NEW p \in Proc, end_op(p)
      PROVE  PendingInv'
  <2>1. committing \in BOOLEAN /\ ~committing
    BY <1>3 DEF end_op, LogInv, CommitInv, Busy, BusyPc
  <2>2. CASE outstanding' = 0
    BY Zenon, <1>0, <1>3, <2>1, <2>2 DEF end_op, Goto, PendingInv
  <2>3. CASE outstanding' # 0
    <3>1. LogInv'
      BY <1>3, NextLogInv DEF Next
    <3>2. Busy' # {}
      BY <2>3, <3>1, FS_EmptySet DEF LogInv, CommitInv
    <3> QED
      BY <3>2 DEF PendingInv
  <2> QED
    BY <2>2, <2>3
<1>4. ASSUME NEW p \in Proc, Commits(p)
      PROVE  PendingInv'
  <2>1. lh' = lh \/ lh' = <<>>
    BY <1>4 DEF Commits, commit, write_log, write_head, install_trans, clear_head, committed
  <2>2. CASE commit(p)
    <3>1. Len(lh) > 0 \/ lh = <<>>
      BY DEF LogInv, Shape, Header
    <3> QED
      BY <1>0, <2>2, <3>1 DEF commit, Goto, PendingInv
  <2>3. CASE write_log(p) \/ write_head(p)
    BY <1>0, <2>3 DEF write_log, write_head, Goto, PendingInv
  <2>4. CASE install_trans(p)
    BY <1>0, <2>4 DEF install_trans, Goto, PendingInv
  <2>5. CASE clear_head(p)
    <3>1. lh' = <<>>
      BY <2>5 DEF clear_head, Clearing, LogInv, HeadInv
    <3> QED
      BY <3>1 DEF PendingInv
  <2>6. CASE committed(p)
    <3>1. Busy = {} /\ \A q \in Proc : pc[q] \in CommitPc => q = p
      BY <2>6 DEF committed, LogInv, CommitInv, CommitPc
    <3>2. lh = <<>>
      BY <2>6, <3>1 DEF committed, Up, PendingInv, CommitPc
    <3> QED
      BY <2>6, <3>2 DEF committed, PendingInv
  <2> QED
    BY <1>4, <2>2, <2>3, <2>4, <2>5, <2>6 DEF Commits
<1>5. CASE Boots
  BY <1>5 DEF Boots, read_head, recover, recovered, PendingInv, LogInv, HeadInv, Clearing
<1>6. CASE Crash
  BY <1>6 DEF Crash, PendingInv
<1>7. CASE \E b \in Block : Load(b) \/ Recycle(b)
  <2>1. UNCHANGED <<boot, lh, pc>>
    BY <1>7 DEF Load, Recycle
  <2> QED
    BY <2>1 DEF PendingInv, Busy
<1> QED
  BY <1>1, <1>2, <1>3, <1>4, <1>5, <1>6, <1>7 DEF Next

LEMMA QuietHolds == LogInv /\ PendingInv => QuietIsDurable
<1> SUFFICES ASSUME LogInv, PendingInv, Up, outstanding = 0, ~committing
             PROVE  Durable = Seen
  BY DEF QuietIsDurable
<1>1. Busy = {}
  BY Zenon, BusyFinite, FS_EmptySet DEF LogInv, CommitInv
<1>2. \A p \in Proc : pc[p] \notin CommitPc /\ held[p] = None
  BY <1>1 DEF LogInv, CommitInv, Busy, BusyPc
<1>3. lh = <<>> /\ boot = "up"
  BY <1>1, <1>2 DEF PendingInv, Up, CommitPc
<1>4. head = <<>>
  BY <1>2, <1>3 DEF LogInv, HeadInv, Installing, Clearing, CommitPc
<1>5. \A b \in Block : ~Pinned(b)
  BY <1>3, EmptyHeader DEF Pinned
<1>6. \A b \in Block : Contents(b) = home[b]
  BY <1>2, <1>5, LogAssumption DEF Contents, LogInv, CacheInv
<1>7. Durable = [b \in Block |-> home[b]]
  BY <1>4, EmptyHeader DEF Durable
<1> QED
  BY <1>3, <1>6, <1>7 DEF Seen

-----------------------------------------------------------------------------
(* Whatever the machine does, log.c gives the file system an atomic disk:  *)
(* a crash at any step of commit() or recovery, torn data blocks included, *)
(* keeps all of a group of system calls or nothing of it.                  *)
THEOREM LogIsAtomic == Spec => ImplementsAtomicDisk
<1>1. Spec => []LogInv
  BY InitLogInv, NextLogInv, PTL DEF Spec
<1> QED
  BY <1>1, InitRefines, StepRefines, PTL DEF Spec, ImplementsAtomicDisk, Atomic!Spec

(* When end_op() has returned to every caller nothing is left to lose.     *)
THEOREM QuietMeansDurable == Spec => []QuietIsDurable
<1>1. Init => PendingInv
  BY DEF Init, PendingInv
<1>2. Spec => []LogInv
  BY InitLogInv, NextLogInv, PTL DEF Spec
<1> QED
  BY <1>1, <1>2, NextPending, QuietHolds, PTL DEF Spec

-----------------------------------------------------------------------------
(* A process that begin_op() put to sleep has a reason to sleep.           *)
SleepersMustWait == \A p \in Proc : pc[p] = "sleep" => committing \/ NoRoom

(* The log's space does not come back while the header and the number of   *)
(* calls under way do not shrink.                                          *)
LEMMA NoRoomStays ==
  ASSUME NoRoom, LogInv, Len(lh') \in Nat, Len(lh') >= Len(lh),
         outstanding' \in {outstanding, outstanding + 1}
  PROVE  NoRoom'
<1>1. /\ outstanding \in Nat /\ Len(lh) \in Nat
      /\ MAXOPBLOCKS \in Nat /\ LOGBLOCKS \in Nat
  BY BusyFinite, HeaderFacts, LogAssumption DEF LogInv, CommitInv, Shape
<1>2. (outstanding + 1 + 1) * MAXOPBLOCKS = (outstanding + 1) * MAXOPBLOCKS + MAXOPBLOCKS
  BY <1>1
<1>3. (outstanding + 1) * MAXOPBLOCKS \in Nat
  BY <1>1
<1> QED
  BY <1>1, <1>2, <1>3 DEF NoRoom

(* A step that puts nobody to sleep and takes no reason away.              *)
LEMMA NobodyMoreSleeps ==
  ASSUME LogInv, SleepersMustWait, committing => committing',
         Len(lh') \in Nat, Len(lh') >= Len(lh),
         outstanding' \in {outstanding, outstanding + 1},
         \A p \in Proc : pc'[p] = "sleep" => pc[p] = "sleep"
  PROVE  SleepersMustWait'
BY NoRoomStays DEF SleepersMustWait

LEMMA NextSleepers == LogInv /\ SleepersMustWait /\ [Next]_vars => SleepersMustWait'
<1> SUFFICES ASSUME LogInv, SleepersMustWait, [Next]_vars
             PROVE  SleepersMustWait'
  OBVIOUS
<1>0. Len(lh) \in Nat /\ pc \in [Proc -> CommitPc \cup BusyPc \cup {"idle", "begin", "sleep"}]
  BY HeaderFacts DEF LogInv, Shape
<1>a. CASE UNCHANGED vars
  BY <1>a DEF vars, SleepersMustWait, NoRoom
<1>1. ASSUME NEW p \in Proc, Call(p) \/ Modify(p)
      PROVE  SleepersMustWait'
  <2>1. UNCHANGED <<lh, outstanding, committing>> /\ \E l \in {"begin", "held"} : pc' = [pc EXCEPT ![p] = l]
    BY <1>1 DEF Call, Modify, Goto
  <2> QED
    BY <1>0, <2>1, NobodyMoreSleeps
<1>2. ASSUME NEW p \in Proc, begin_op(p)
      PROVE  SleepersMustWait'
  <2>1. CASE committing \/ NoRoom
    <3>1. UNCHANGED <<lh, outstanding, committing>>
      BY <1>2, <2>1 DEF begin_op
    <3> QED
      BY <2>1, <3>1 DEF SleepersMustWait, NoRoom
  <2>2. CASE ~(committing \/ NoRoom)
    <3>1. /\ pc' = [pc EXCEPT ![p] = "op"] /\ outstanding' = outstanding + 1
          /\ UNCHANGED <<lh, committing>>
      BY <1>2, <2>2 DEF begin_op, Goto
    <3> QED
      BY <1>0, <3>1, NobodyMoreSleeps
  <2> QED
    BY <2>1, <2>2
<1>3. ASSUME NEW p \in Proc, log_write(p)
      PROVE  SleepersMustWait'
  <2>1. UNCHANGED <<outstanding, committing>> /\ (pc' = pc \/ pc' = [pc EXCEPT ![p] = "op"])
    BY <1>3 DEF log_write, Goto
  <2>2. lh' = lh \/ lh' = Append(lh, held[p])
    BY <1>3 DEF log_write
  <2>3. pc[p] = "held" /\ held[p] \in Block
    BY <1>3 DEF log_write, LogInv, CommitInv, Shape
  <2>4. Len(lh') \in Nat /\ Len(lh') >= Len(lh)
    BY <1>0, <2>2, <2>3 DEF LogInv, Shape, Header
  <2> QED
    BY <1>0, <2>1, <2>4, NobodyMoreSleeps
<1>4. ASSUME NEW p \in Proc, end_op(p)
      PROVE  SleepersMustWait'
  <2>1. CASE committing \/ outstanding' = 0
    <3>1. committing'
      BY <1>4, <2>1 DEF end_op
    <3> QED
      BY <3>1 DEF SleepersMustWait
  <2>2. CASE ~committing /\ outstanding' # 0
    <3>1. pc' = [Awake(pc) EXCEPT ![p] = "idle"]
      BY <1>4, <2>2 DEF end_op
    <3>2. \A q \in Proc : pc'[q] # "sleep"
      BY <3>1 DEF Awake
    <3> QED
      BY <3>2 DEF SleepersMustWait
  <2> QED
    BY <2>1, <2>2
<1>5. ASSUME NEW p \in Proc, Commits(p)
      PROVE  SleepersMustWait'
  <2>1. CASE committed(p)
    <3>1. \A q \in Proc : pc'[q] # "sleep"
      BY <2>1 DEF committed, Awake
    <3> QED
      BY <3>1 DEF SleepersMustWait
  <2>2. CASE ~committed(p)
    <3>1. pc[p] \in CommitPc /\ UNCHANGED committing
      BY <1>5, <2>2 DEF Commits, commit, write_log, write_head, install_trans, clear_head, CommitPc
    <3> QED
      BY <3>1 DEF SleepersMustWait, LogInv, CommitInv
  <2> QED
    BY <2>1, <2>2
<1>6. CASE Boots
  <2>1. UNCHANGED pc /\ boot # "up"
    BY <1>6 DEF Boots, read_head, recover, recovered
  <2> QED
    BY <2>1 DEF SleepersMustWait, LogInv, BootInv
<1>7. CASE Crash
  BY <1>7 DEF Crash, SleepersMustWait
<1>8. ASSUME NEW b \in Block, Load(b) \/ Recycle(b)
      PROVE  SleepersMustWait'
  <2>1. UNCHANGED <<pc, lh, outstanding, committing>>
    BY <1>8 DEF Load, Recycle
  <2> QED
    BY <2>1 DEF SleepersMustWait, NoRoom
<1> QED
  BY <1>a, <1>1, <1>2, <1>3, <1>4, <1>5, <1>6, <1>7, <1>8 DEF Next

(* Both wakeups of end_op() together leave nobody asleep in begin_op() who *)
(* could go on, for every number of processes: one sleeps only while a     *)
(* commit runs or the log has no room for its call.                        *)
THEOREM NoIdleSleep == Spec => []SleepersMustWait
<1>1. Init => SleepersMustWait
  BY DEF Init, SleepersMustWait
<1>2. Spec => []LogInv
  BY InitLogInv, NextLogInv, PTL DEF Spec
<1> QED
  BY <1>1, <1>2, NextSleepers, PTL DEF Spec
=============================================================================
