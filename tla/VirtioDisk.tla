----------------------------- MODULE VirtioDisk -----------------------------
(***************************************************************************)
(* The disk driver of kernel/virtio_disk.c: descriptors, the available and *)
(* used rings it shares with the device, the interrupt handler, and the    *)
(* processes that sleep in virtio_disk_rw(). vdisk_lock makes each stretch *)
(* of virtio_disk_rw() between two sleeps one step; the handler holds it   *)
(* too but takes a step per completion, because the device goes on at the  *)
(* same time. Bcache drives this module.                                   *)
(*                                                                         *)
(* Contents are abstracted to whether a copy is the block's last one, and  *)
(* a ring to its entries between the writer's index and the reader's: a    *)
(* request takes three descriptors of NUM, so a ring of NUM never fills.   *)
(***************************************************************************)
EXTENDS Integers, Sequences, FiniteSets

CONSTANTS
  Proc, Buf, Block,
  None,
  Sizes     \* the values of NUM that are checked

ASSUME VirtioAssumption ==
  /\ \A n \in Sizes : n \in Nat /\ n >= 3
  /\ None \notin Proc \cup Buf \cup Block

VARIABLES
  NUM,                   \* descriptors, and entries of each ring: never changes
  disk,                  \* the device: is what it holds the block's last contents?
  data,                  \* the same of b->data
  blockno,               \* b->blockno
  bdisk,                 \* b->disk: does the device own the buffer?
  free,                  \* the descriptors with disk.free[i]
  next,                  \* desc[i].next if its NEXT flag is set, else None
  op,                    \* what the chain headed by i asks for: ops[i] and the data
  infob,                 \* info[i].b
  avail,                 \* the entries of avail->ring the device has not seen
  busy,                  \* the chains the device works on
  used,                  \* the entries of used->ring from disk.used_idx to used->idx
  irq,                   \* the device raises its interrupt
  handler,               \* is virtio_disk_intr() running?
  pc, buf, write, head,  \* of each process: place, buffer, direction, idx[0]
  panicked               \* None, or what panic() was called with

Desc == 0..(NUM - 1)

ringVars == <<avail, busy, used, irq, handler>>
descVars == <<NUM, free, next, op, infob>>
vars0 == <<disk, data, blockno, bdisk, descVars, ringVars, pc, buf, write, head,
           panicked>>

(* vdisk_lock is free: the handler is the only holder across steps.        *)
Unlocked == ~handler /\ panicked = None

(* The processes at label `from' that wakeup() moves to label `to'.        *)
Wake(f, ps, from, to) ==
  [p \in Proc |-> IF p \in ps /\ f[p] = from THEN to ELSE f[p]]

(* The descriptors that virtio_disk_init() marks free.                     *)
AllFreeLate == 0..NUM   \* fault: i <= NUM
AllFree == Desc

(* virtio_disk_init().                                                     *)
DiskInit ==
  /\ disk = [b \in Block |-> TRUE]
  /\ data = [f \in Buf |-> FALSE]
  /\ blockno = [f \in Buf |-> None]
  /\ bdisk = [f \in Buf |-> FALSE]
  /\ NUM \in Sizes /\ free = AllFree
  /\ next = [d \in Desc |-> None]
  /\ op = [d \in Desc |-> None]
  /\ infob = [d \in Desc |-> None]
  /\ avail = <<>> /\ busy = {} /\ used = <<>>
  /\ irq = FALSE /\ handler = FALSE
  /\ pc = [p \in Proc |-> "idle"]
  /\ buf = [p \in Proc |-> None]
  /\ write = [p \in Proc |-> FALSE]
  /\ head = [p \in Proc |-> None]
  /\ panicked = None

(* alloc_desc() takes the first free descriptor.                           *)
Lowest(s) == CHOOSE d \in s : \A e \in s : d <= e

(* alloc3_desc() takes up to three,                                        *)
Taken == { d \in free : Cardinality({ e \in free : e < d }) < 3 }

(* and frees again those it got if it does not get three.                  *)
GivenBackFrom1(got) == got \ {Lowest(got)}   \* fault: the loop starts at j = 1
GivenBack(got) == got

(* virtio_disk_rw(), up to its sleep: alloc3_desc(), or, when it fails,    *)
(* free_desc() of what it got, which wakes the others that wait.           *)
rw(p) ==
  LET i0 == Lowest(Taken)
      i1 == Lowest(Taken \ {i0})
      i2 == Lowest(Taken \ {i0, i1})
  IN
  /\ Unlocked /\ pc[p] = "rw"
  /\ IF Cardinality(Taken) = 3
       THEN /\ free' = free \ Taken
            /\ next' = [next EXCEPT ![i0] = i1, ![i1] = i2, ![i2] = None]
            /\ op' = [op EXCEPT ![i0] =
                        [write |-> write[p], block |-> blockno[buf[p]], buf |-> buf[p]]]
            /\ bdisk' = [bdisk EXCEPT ![buf[p]] = TRUE]
            /\ infob' = [infob EXCEPT ![i0] = buf[p]]
            /\ avail' = Append(avail, i0)
            /\ head' = [head EXCEPT ![p] = i0]
            /\ pc' = [pc EXCEPT ![p] = "io"]
       ELSE /\ free' = (free \ Taken) \cup GivenBack(Taken)
            /\ pc' = [(IF GivenBack(Taken) = {} THEN pc
                         ELSE Wake(pc, Proc, "nodesc", "rw")) EXCEPT ![p] = "nodesc"]
            /\ UNCHANGED <<next, op, infob, bdisk, avail, head>>
  /\ UNCHANGED <<disk, data, blockno, busy, used, irq, handler, buf, write,
                 panicked, NUM>>

(* The descriptors that free_chain(d) follows: "disk transfers always use  *)
(* three descriptors".                                                     *)
Chain(d) ==
  LET n1 == next[d]
      n2 == IF n1 = None THEN None ELSE next[n1]
  IN  {d, n1, n2} \ {None}

(* The rest of virtio_disk_rw() once the request has finished. free_desc() *)
(* panics on a descriptor that is free, and wakes the processes that wait  *)
(* for one.                                                                *)
rw_free(p, then, woken) ==
  /\ infob' = [infob EXCEPT ![head[p]] = None]
  /\ op' = [op EXCEPT ![head[p]] = None]
  /\ free' = free \cup Chain(head[p])
  /\ next' = [d \in Desc |-> IF d \in Chain(head[p]) THEN None ELSE next[d]]
  /\ panicked' = IF Chain(head[p]) \cap free # {} THEN "free_desc 2" ELSE None
  /\ head' = [head EXCEPT ![p] = None]
  /\ write' = [write EXCEPT ![p] = FALSE]
  /\ pc' = [woken EXCEPT ![p] = then]
  /\ UNCHANGED <<disk, data, blockno, bdisk, ringVars, buf, NUM>>

rw_end_quiet(p, then) ==   \* fault: no wakeup(&disk.free[0])
  /\ Unlocked /\ pc[p] = "done" /\ ~bdisk[buf[p]]
  /\ rw_free(p, then, pc)

rw_end(p, then) ==
  /\ Unlocked /\ pc[p] = "done" /\ ~bdisk[buf[p]]
  /\ rw_free(p, then, Wake(pc, Proc, "nodesc", "rw"))

-----------------------------------------------------------------------------
(* The device (external): it takes entries of the available ring in order, *)
(* works on several chains at a time, finishes them in any order, writes   *)
(* the status and the used ring, and raises its interrupt.                 *)

device_take ==
  /\ avail # <<>>
  /\ busy' = busy \cup {Head(avail)}
  /\ avail' = Tail(avail)
  /\ UNCHANGED <<disk, data, blockno, bdisk, descVars, used, irq, handler, pc, buf,
                 write, head, panicked>>

device_done(d) ==
  /\ d \in busy
  /\ IF op[d].write
       THEN disk' = [disk EXCEPT ![op[d].block] = data[op[d].buf]] /\ UNCHANGED data
       ELSE data' = [data EXCEPT ![op[d].buf] = disk[op[d].block]] /\ UNCHANGED disk
  /\ busy' = busy \ {d}
  /\ used' = Append(used, d)
  /\ irq' = TRUE
  /\ UNCHANGED <<blockno, bdisk, descVars, avail, handler, pc, buf, write, head,
                 panicked>>

-----------------------------------------------------------------------------
(* virtio_disk_intr(): take vdisk_lock and acknowledge the interrupt.      *)
intr ==
  /\ irq /\ Unlocked
  /\ irq' = FALSE /\ handler' = TRUE
  /\ UNCHANGED <<disk, data, blockno, bdisk, descVars, avail, busy, used, pc, buf,
                 write, head, panicked>>

(* One turn of its loop, or its end.                                       *)
intr_step ==
  /\ handler /\ panicked = None
  /\ IF used # <<>>
       THEN LET b == infob[Head(used)] IN
            /\ bdisk' = [bdisk EXCEPT ![b] = FALSE]
            /\ pc' = Wake(pc, { p \in Proc : buf[p] = b }, "io", "done")
            /\ used' = Tail(used)
            /\ UNCHANGED handler
       ELSE handler' = FALSE /\ UNCHANGED <<bdisk, pc, used>>
  /\ UNCHANGED <<disk, data, blockno, descVars, avail, busy, irq, buf, write, head,
                 panicked>>

Device == device_take \/ \E d \in Desc : device_done(d)
Interrupt == intr \/ intr_step

-----------------------------------------------------------------------------
(* No descriptor is lost or shared: those that are not free are in the     *)
(* chains of the requests under way, three to each, and these chains are   *)
(* disjoint, although alloc3_desc() gives back what it got when it fails   *)
(* half way and chains are freed by other processes than the handler.      *)
DescriptorsConserved ==
  LET chains == { Chain(head[p]) : p \in { q \in Proc : head[q] # None } }
      heads  == { head[p] : p \in Proc } \ {None}
  IN  /\ Desc \ free = UNION chains
      /\ Cardinality(UNION chains) = 3 * Cardinality(heads)
      /\ \A p, q \in Proc : head[p] = head[q] /\ head[p] # None => p = q
=============================================================================
