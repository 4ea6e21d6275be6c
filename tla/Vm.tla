--------------------------------- MODULE Vm ---------------------------------
(***************************************************************************)
(* The pages of physical memory and who has them: kernel/kalloc.c, the     *)
(* user page tables of kernel/vm.c, and the calls that build, grow, copy   *)
(* and free them in kernel/proc.c, kernel/exec.c, kernel/sysproc.c.        *)
(*                                                                         *)
(* Every kalloc() and kfree() is a step of its own, so that processes take *)
(* pages from under each other and any call may find the list empty after  *)
(* any number of pages. A page table is used by one process at a time; the *)
(* steps on it between two calls of the allocator are taken together. What *)
(* is in the pages and the permissions of the mappings are left out.       *)
(* Addresses of pages are page numbers; sizes are in bytes.                *)
(***************************************************************************)
EXTENDS Integers, Sequences, FiniteSets, FiniteSetsExt

CONSTANTS
  Slots,      \* of the process table
  Boot,       \* the slot of the first process
  PGSIZE,
  FAN,        \* entries of one page-table page, 512 in the code
  Sizes,      \* sizes of physical memory, in pages
  Image,      \* the segments of a program: sequence of [vaddr, memsz]
  USERSTACK,
  MAXARG,
  Calls       \* the system calls of each slot, a set of [call, n]

ASSUME ConstantsOK ==
  /\ Boot \in Slots
  /\ PGSIZE \in Nat \ {0} /\ FAN \in Nat \ {0, 1}
  /\ USERSTACK \in Nat /\ MAXARG \in Nat

VARIABLES
  ram,      \* the number of pages, chosen at boot
  free,     \* kmem.freelist
  tbl,      \* the page tables; "new" is the one that kexec() builds
  sz,       \* p->sz
  tf,       \* p->trapframe, 0 for none
  state,    \* p->state, as far as memory is concerned
  op,       \* what each process is doing in the kernel
  panicked

vars == <<ram, free, tbl, sz, tf, state, op, panicked>>

VA == 0 .. FAN * FAN * FAN - 1
TRAMPOLINE == FAN * FAN * FAN - 1
TRAPFRAME == TRAMPOLINE - 1
UserVA == 0 .. TRAPFRAME - 1
PGROUNDUP(bytes) == (bytes + PGSIZE - 1) \div PGSIZE

(* The pages of a table by level and index; <<2, 0>> is the root, and the  *)
(* others that walk() passes on its way to v.                              *)
Root == <<2, 0>>
Node == {Root} \cup ({1} \X (0 .. FAN - 1)) \cup ({0} \X (0 .. FAN * FAN - 1))
PathTo(v) == <<<<1, v \div (FAN * FAN)>>, <<0, v \div FAN>>>>

Tables == Slots \X {"cur", "new"}
NoTable == [node |-> [n \in Node |-> 0], leaf |-> [v \in VA |-> 0]]

(* The trampoline is a page of the kernel's text, outside the allocator.   *)
Text == ram + 1

Idle == [call |-> "user", pc |-> "user", tab |-> <<Boot, "cur">>, from |-> 0, at |-> 0,
         to |-> 0, mem |-> 0, nsz |-> 0, seg |-> 0, child |-> Boot, argv |-> {}]

(* The first process after its kexec() of /init.                           *)
EndOf(segment) == segment.vaddr * PGSIZE + segment.memsz
ImageSize == Max({EndOf(Image[i]) : i \in DOMAIN Image})
BootPages == [v \in 0 .. PGROUNDUP(ImageSize) + USERSTACK |-> 2 + v]
BootNode ==
  LET first == 3 + Cardinality(DOMAIN BootPages)
      used == {Root} \cup UNION {{PathTo(v)[1], PathTo(v)[2]} :
                                   v \in DOMAIN BootPages \cup {TRAMPOLINE}}
      rank(n) == Cardinality({m \in used : m[1] > n[1] \/ (m[1] = n[1] /\ m[2] < n[2])})
  IN [n \in Node |-> IF n \in used THEN first + rank(n) ELSE 0]
BootUsed == {1} \cup {BootPages[v] : v \in DOMAIN BootPages}
                \cup ({BootNode[n] : n \in Node} \ {0})

Init ==
  /\ ram \in Sizes
  /\ free = (1 .. ram) \ BootUsed
  /\ tbl = [t \in Tables |->
       IF t = <<Boot, "cur">>
       THEN [node |-> BootNode,
             leaf |-> [v \in VA |-> CASE v \in DOMAIN BootPages -> BootPages[v]
                                      [] v = TRAPFRAME -> 1
                                      [] v = TRAMPOLINE -> Text
                                      [] OTHER -> 0]]
       ELSE NoTable]
  /\ sz = [p \in Slots |-> IF p = Boot THEN Cardinality(DOMAIN BootPages) * PGSIZE ELSE 0]
  /\ tf = [p \in Slots |-> IF p = Boot THEN 1 ELSE 0]
  /\ state = [p \in Slots |-> IF p = Boot THEN "LIVE" ELSE "UNUSED"]
  /\ op = [p \in Slots |-> Idle]
  /\ panicked = FALSE

(***************************************************************************)
(* kalloc.c. Which page of the list kalloc() takes makes no difference to  *)
(* anything below; here it is the first in memory. kfree() rejects a page  *)
(* that is not one of the allocator's.                                     *)
(***************************************************************************)
kalloc == Min(free)
Taken == free' = free \ {kalloc}
kfree(S) == free' = free \cup S

Running(p) == ~panicked /\ state[p] = "LIVE"
At(p, call, pc) == Running(p) /\ op[p].call \in call /\ op[p].pc = pc
InUser(p) == Running(p) /\ op[p].pc = "user"
Makes(p, call) == InUser(p) /\ \E c \in Calls[p] : c.call = call
Goto(p, record) == op' = [op EXCEPT ![p] = record]
Frame == UNCHANGED <<ram, tf, state, panicked>>

(***************************************************************************)
(* Taking pages. In "map" the process works through the pages of a range   *)
(* of op.tab, and for each takes a page, then the missing pages on walk()'s *)
(* path to it. Its caller is op.call: uvmalloc() for sbrk(), for a segment *)
(* or for the stack of kexec(), uvmcopy(), vmfault(), or proc_pagetable(), *)
(* which maps the trampoline and the trap frame and takes no page for them. *)
(***************************************************************************)
Growing == {"sbrk", "segment", "stack"}

va(p) == IF op[p].call = "pagetable" THEN TRAMPOLINE ELSE op[p].at

More(p) ==
  \/ op[p].call \in {"pagetable", "vmfault"}
  \/ op[p].call \in Growing /\ op[p].at * PGSIZE < op[p].to
  \/ op[p].call = "uvmcopy" /\ op[p].at * PGSIZE < sz[p]

(* uvmcopy() passes over the pages the parent has not touched yet.         *)
Skipped(p) == op[p].call = "uvmcopy" /\ tbl[<<p, "cur">>].leaf[op[p].at] = 0

Missing(p) == SelectSeq(PathTo(va(p)), LAMBDA n : tbl[op[p].tab].node[n] = 0)
NoPageYet(p) == op[p].mem = 0 /\ op[p].call # "pagetable"

Mapping(p) == Running(p) /\ op[p].pc = "map" /\ More(p)
Wants(p) == Mapping(p) /\ ~Skipped(p) /\ (NoPageYet(p) \/ Missing(p) # <<>>)

(* The kalloc() of uvmalloc(), uvmcopy() and vmfault().                    *)
takePage(p) ==
  /\ Wants(p) /\ NoPageYet(p) /\ free # {}
  /\ Goto(p, [op[p] EXCEPT !.mem = kalloc])
  /\ Taken /\ UNCHANGED <<tbl, sz>> /\ Frame

(* The kalloc() of walk().                                                 *)
walk(p) ==
  /\ Wants(p) /\ ~NoPageYet(p) /\ free # {}
  /\ tbl' = [tbl EXCEPT ![op[p].tab].node[Head(Missing(p))] = kalloc]
  /\ Taken /\ UNCHANGED <<sz, op>> /\ Frame

(* Where p goes on once proc_pagetable() has made its table: kexec() loads *)
(* the first segment, kfork() copies the parent.                           *)
AfterTable(p) ==
  IF op[p].tab[2] = "new"
  THEN [op[p] EXCEPT !.call = "segment", !.seg = 1, !.from = 0, !.at = 0,
                     !.to = EndOf(Image[1])]
  ELSE [op[p] EXCEPT !.call = "uvmcopy", !.at = 0]

(* The rest of mappages(), once walk() has its path. The trap frame's page *)
(* lies beside the trampoline's, and its mappages() finds all it needs.    *)
mappages(p) ==
  LET t == op[p].tab IN
  /\ Mapping(p) /\ ~Skipped(p) /\ ~Wants(p)
  /\ IF tbl[t].leaf[va(p)] # 0
     THEN panicked' = TRUE /\ UNCHANGED <<tbl, op>>
     ELSE /\ UNCHANGED panicked
          /\ IF op[p].call = "pagetable"
             THEN /\ tbl' = [tbl EXCEPT ![t].leaf[TRAMPOLINE] = Text,
                                        ![t].leaf[TRAPFRAME] = tf[t[1]]]
                  /\ Goto(p, AfterTable(p))
             ELSE /\ tbl' = [tbl EXCEPT ![t].leaf[va(p)] = op[p].mem]
                  /\ Goto(p, IF op[p].call = "vmfault" THEN Idle
                             ELSE [op[p] EXCEPT !.mem = 0, !.at = @ + 1])
  /\ UNCHANGED <<ram, free, sz, tf, state>>

skipPage(p) ==
  /\ Mapping(p) /\ Skipped(p)
  /\ Goto(p, [op[p] EXCEPT !.at = @ + 1])
  /\ UNCHANGED <<free, tbl, sz>> /\ Frame

(* A kalloc() of the above returned 0. The page in hand goes back, and the *)
(* range done so far is unmapped; nothing is mapped in a new table. The    *)
(* process that vmfault() cannot serve dies at a page fault, and gets -1   *)
(* from copyin() or copyout(). The first process is never at a page fault  *)
(* here: the kernel stops if it dies.                                      *)
UndoCopy(p, first) ==   \* fault: uvmalloc() does not call uvmdealloc()
  [op[p] EXCEPT !.pc = "undo", !.mem = 0, !.at = first,
                !.to = IF op[p].call = "uvmcopy" THEN op[p].at ELSE first]
Undo(p, first) == [op[p] EXCEPT !.pc = "undo", !.mem = 0, !.to = op[p].at, !.at = first]

KeepsIt(p) == {}   \* fault: no kfree(mem)
GivenBack(p) == {op[p].mem} \ {0}

outOfMemory(p) ==
  /\ Wants(p) /\ free = {}
  /\ kfree(GivenBack(p))
  /\ \/ op[p].call \in Growing /\ Goto(p, Undo(p, op[p].from)) /\ UNCHANGED state
     \/ op[p].call = "uvmcopy" /\ Goto(p, Undo(p, 0)) /\ UNCHANGED state
     \/ op[p].call = "pagetable" /\ Goto(p, [op[p] EXCEPT !.pc = "freewalk"]) /\ UNCHANGED state
     \/ /\ op[p].call = "vmfault" /\ Goto(p, Idle)
        /\ \/ UNCHANGED state
           \/ p # Boot /\ state' = [state EXCEPT ![p] = "ZOMBIE"]
  /\ UNCHANGED <<ram, tbl, sz, tf, panicked>>

(***************************************************************************)
(* Giving pages back. uvmunmap() with do_free walks from op.at to op.to:   *)
(* "undo" in an error path, "shrink" for growproc(), "unmap" in uvmfree(). *)
(* It leaves the pages of the table itself alone, which only freewalk()    *)
(* frees, and freewalk() panics at a leaf that is still mapped.            *)
(***************************************************************************)
Unmapping(p) == Running(p) /\ op[p].pc \in {"undo", "shrink", "unmap"}
Mapped(t) == {v \in UserVA : tbl[t].leaf[v] # 0}
ToUnmap(p) == Mapped(op[p].tab) \cap (op[p].at .. op[p].to - 1)

uvmunmap(p) ==
  LET v == Min(ToUnmap(p))
      x == tbl[op[p].tab].leaf[v]
  IN
  /\ Unmapping(p) /\ ToUnmap(p) # {}
  /\ panicked' = (x > ram)
  /\ tbl' = [tbl EXCEPT ![op[p].tab].leaf[v] = 0]
  /\ kfree({x}) /\ UNCHANGED <<ram, sz, tf, state, op>>

(* proc_freepagetable() takes off the two pages on top, which it does not  *)
(* free, and then everything below the size it is told.                    *)
proc_freepagetable(p, t, bytes) ==
  [op[p] EXCEPT !.pc = "unmap", !.tab = t, !.mem = 0, !.at = 0, !.to = PGROUNDUP(bytes)]
NoTop(table) == [table EXCEPT !.leaf[TRAMPOLINE] = 0, !.leaf[TRAPFRAME] = 0]

(* kexec()'s bad: with the size it has reached.                            *)
bad(p) ==
  /\ Goto(p, proc_freepagetable(p, <<p, "new">>, op[p].nsz))
  /\ tbl' = [tbl EXCEPT ![<<p, "new">>] = NoTop(@)]

uvmunmapReturns(p) ==
  /\ Unmapping(p) /\ ToUnmap(p) = {}
  /\ \/ /\ op[p].pc = "unmap" /\ Goto(p, [op[p] EXCEPT !.pc = "freewalk"])
        /\ UNCHANGED <<tbl, sz>>
     \/ /\ op[p].pc = "shrink" /\ Goto(p, Idle)
        /\ sz' = [sz EXCEPT ![p] = op[p].nsz] /\ UNCHANGED tbl
     \/ /\ op[p].pc = "undo" /\ op[p].call = "sbrk" /\ Goto(p, Idle)
        /\ UNCHANGED <<tbl, sz>>
     \/ /\ op[p].pc = "undo" /\ op[p].call \in {"segment", "stack"} /\ bad(p)
        /\ UNCHANGED sz
     \/ /\ op[p].pc = "undo" /\ op[p].call = "uvmcopy"
        /\ Goto(p, [op[p] EXCEPT !.pc = "freeproc"]) /\ UNCHANGED <<tbl, sz>>
  /\ UNCHANGED free /\ Frame

(* freewalk() frees the pages of a table from the leaves up, the root last. *)
Left(p) == {n \in Node : tbl[op[p].tab].node[n] # 0}
Lowest(p) == CHOOSE n \in Left(p) : \A m \in Left(p) :
               n[1] < m[1] \/ (n[1] = m[1] /\ n[2] <= m[2])

freewalk(p) ==
  LET t == op[p].tab IN
  /\ Running(p) /\ op[p].pc = "freewalk" /\ Left(p) # {}
  /\ panicked' = (\E v \in VA : tbl[t].leaf[v] # 0)
  /\ tbl' = [tbl EXCEPT ![t].node[Lowest(p)] = 0]
  /\ kfree({tbl[t].node[Lowest(p)]})
  /\ UNCHANGED <<ram, sz, tf, state, op>>

(* The table is gone. kexec() is over, and sys_exec() frees its arguments. *)
(* kfork() and kwait() end with the last assignments of freeproc(), except *)
(* that a proc_pagetable() that failed has the whole freeproc() to come.   *)
freewalkReturns(p) ==
  /\ Running(p) /\ op[p].pc = "freewalk" /\ Left(p) = {}
  /\ \/ /\ op[p].tab[2] = "new" /\ Goto(p, [op[p] EXCEPT !.pc = "argv"])
        /\ UNCHANGED <<sz, state>>
     \/ /\ op[p].tab[2] = "cur" /\ op[p].call = "pagetable"
        /\ Goto(p, [op[p] EXCEPT !.pc = "freeproc"])
        /\ UNCHANGED <<sz, state>>
     \/ /\ op[p].tab[2] = "cur" /\ op[p].call # "pagetable"
        /\ Goto(p, Idle)
        /\ sz' = [sz EXCEPT ![op[p].child] = 0]
        /\ state' = [state EXCEPT ![op[p].child] = "UNUSED"]
  /\ UNCHANGED <<ram, free, tbl, tf, panicked>>

(* freeproc() of op.child: the trap frame, then the table if there is one. *)
freeproc(p) ==
  LET q == op[p].child
      t == <<q, "cur">>
  IN
  /\ Running(p) /\ op[p].pc = "freeproc"
  /\ kfree({tf[q]} \ {0})
  /\ tf' = [tf EXCEPT ![q] = 0]
  /\ IF tbl[t].node[Root] # 0
     THEN /\ Goto(p, [proc_freepagetable(p, t, sz[q]) EXCEPT !.call = "freeproc"])
          /\ tbl' = [tbl EXCEPT ![t] = NoTop(@)]
          /\ UNCHANGED <<sz, state>>
     ELSE /\ Goto(p, Idle)
          /\ sz' = [sz EXCEPT ![q] = 0]
          /\ state' = [state EXCEPT ![q] = "UNUSED"]
          /\ UNCHANGED tbl
  /\ UNCHANGED <<ram, panicked>>

(***************************************************************************)
(* sbrk(), with growproc(). A call that is refused changes nothing; so     *)
(* does one that would make the size negative, because uvmdealloc() then   *)
(* finds the new size, which has wrapped around, larger than the old one.  *)
(***************************************************************************)
sbrk_lazy_far(p) ==   \* fault: does not look at TRAPFRAME
  \E c \in Calls[p] :
    /\ InUser(p) /\ c.call = "sbrk_lazy"
    /\ sz' = [sz EXCEPT ![p] = @ + c.n]
    /\ UNCHANGED <<free, tbl, op>> /\ Frame
sbrk_lazy(p) ==
  \E c \in Calls[p] :
    /\ InUser(p) /\ c.call = "sbrk_lazy" /\ sz[p] + c.n <= TRAPFRAME * PGSIZE
    /\ sz' = [sz EXCEPT ![p] = @ + c.n]
    /\ UNCHANGED <<free, tbl, op>> /\ Frame

sbrk(p) ==
  \E c \in Calls[p] :
    /\ InUser(p) /\ c.call = "sbrk" /\ sz[p] + c.n \in 0 .. TRAPFRAME * PGSIZE
    /\ \/ /\ c.n > 0
          /\ Goto(p, [Idle EXCEPT !.call = "sbrk", !.pc = "map", !.tab = <<p, "cur">>,
                        !.from = PGROUNDUP(sz[p]), !.at = PGROUNDUP(sz[p]), !.to = sz[p] + c.n])
       \/ /\ c.n < 0
          /\ Goto(p, [Idle EXCEPT !.call = "sbrk", !.pc = "shrink", !.tab = <<p, "cur">>,
                        !.at = PGROUNDUP(sz[p] + c.n), !.to = PGROUNDUP(sz[p]), !.nsz = sz[p] + c.n])
    /\ UNCHANGED <<free, tbl, sz>> /\ Frame

sbrkReturns(p) ==
  /\ At(p, {"sbrk"}, "map") /\ ~More(p)
  /\ sz' = [sz EXCEPT ![p] = op[p].to]
  /\ Goto(p, Idle) /\ UNCHANGED <<free, tbl>> /\ Frame

(* vmfault() for a page fault of the user or for copyin() and copyout(): a *)
(* page below the size that is not mapped.                                 *)
ismapped_never(p, v) == FALSE   \* fault: the test is missing
ismapped(p, v) == tbl[<<p, "cur">>].leaf[v] # 0

vmfault(p) ==
  \E v \in UserVA :
    /\ Makes(p, "vmfault") /\ v * PGSIZE < sz[p] /\ ~ismapped(p, v)
    /\ Goto(p, [Idle EXCEPT !.call = "vmfault", !.pc = "map", !.tab = <<p, "cur">>, !.at = v])
    /\ UNCHANGED <<free, tbl, sz>> /\ Frame

(***************************************************************************)
(* kfork(): allocproc() with a trap frame and a table, then uvmcopy().     *)
(***************************************************************************)
fork(p) ==
  \E q \in Slots :
    /\ Makes(p, "fork") /\ state[q] = "UNUSED"
    /\ state' = [state EXCEPT ![q] = "USED"]
    /\ Goto(p, [Idle EXCEPT !.call = "fork", !.pc = "trapframe", !.child = q,
                  !.tab = <<q, "cur">>])
    /\ UNCHANGED <<ram, free, tbl, sz, tf, panicked>>

allocproc(p) ==
  LET q == op[p].child IN
  /\ Running(p) /\ op[p].pc = "trapframe"
  /\ \/ /\ free # {} /\ Taken
        /\ tf' = [tf EXCEPT ![q] = kalloc]
        /\ Goto(p, [op[p] EXCEPT !.pc = "root"])
     \/ /\ free = {} /\ UNCHANGED <<free, tf>>
        /\ Goto(p, [op[p] EXCEPT !.pc = "freeproc"])
  /\ UNCHANGED <<ram, tbl, sz, state, panicked>>

(* uvmcreate(); without a root kexec() returns -1 with nothing to free.    *)
uvmcreate(p) ==
  /\ Running(p) /\ op[p].pc = "root"
  /\ \/ /\ free # {} /\ Taken
        /\ tbl' = [tbl EXCEPT ![op[p].tab].node[Root] = kalloc]
        /\ Goto(p, [op[p] EXCEPT !.call = "pagetable", !.pc = "map"])
     \/ /\ free = {} /\ UNCHANGED <<free, tbl>>
        /\ Goto(p, [op[p] EXCEPT !.pc = IF op[p].tab[2] = "new" THEN "argv" ELSE "freeproc"])
  /\ UNCHANGED sz /\ Frame

forkReturns(p) ==
  /\ At(p, {"uvmcopy"}, "map") /\ ~More(p)
  /\ sz' = [sz EXCEPT ![op[p].child] = sz[p]]
  /\ state' = [state EXCEPT ![op[p].child] = "LIVE"]
  /\ Goto(p, Idle) /\ UNCHANGED <<ram, free, tbl, tf, panicked>>

(* kexit() leaves the memory to the kwait() of the parent.                 *)
exit(p) ==
  /\ Makes(p, "exit") /\ p # Boot
  /\ state' = [state EXCEPT ![p] = "ZOMBIE"]
  /\ UNCHANGED <<ram, free, tbl, sz, tf, op, panicked>>

wait(p) ==
  \E q \in Slots :
    /\ Makes(p, "wait") /\ state[q] = "ZOMBIE"
    /\ Goto(p, [Idle EXCEPT !.call = "freeproc", !.pc = "freeproc", !.child = q])
    /\ UNCHANGED <<free, tbl, sz>> /\ Frame

(***************************************************************************)
(* sys_exec() takes a page for each argument string and frees them when    *)
(* kexec() is over, or at once if an argument cannot be read.              *)
(***************************************************************************)
exec(p) ==
  /\ Makes(p, "exec")
  /\ Goto(p, [Idle EXCEPT !.call = "exec", !.pc = "args", !.tab = <<p, "new">>])
  /\ UNCHANGED <<free, tbl, sz>> /\ Frame

sys_exec(p) ==
  /\ At(p, {"exec"}, "args")
  /\ \/ /\ Cardinality(op[p].argv) < MAXARG /\ free # {} /\ Taken
        /\ Goto(p, [op[p] EXCEPT !.argv = @ \cup {kalloc}])
     \/ /\ UNCHANGED free
        /\ \E next \in {"root", "argv"} : Goto(p, [op[p] EXCEPT !.pc = next])
  /\ UNCHANGED <<tbl, sz>> /\ Frame

sys_execReturns(p) ==
  /\ Running(p) /\ op[p].pc = "argv"
  /\ IF op[p].argv = {} THEN Goto(p, Idle) /\ UNCHANGED free
     ELSE /\ kfree({Min(op[p].argv)})
          /\ Goto(p, [op[p] EXCEPT !.argv = @ \ {Min(@)}])
  /\ UNCHANGED <<tbl, sz>> /\ Frame

(* The loop of kexec() over the segments: uvmalloc() of one has returned,  *)
(* the larger of the old size and the new one, and loadseg() reads it in,  *)
(* or fails to. Then comes the next one, or the stack with its guard page. *)
UpTo(p, call, bytes, next) ==
  [op[p] EXCEPT !.call = call, !.nsz = bytes, !.from = PGROUNDUP(bytes),
                !.at = PGROUNDUP(bytes), !.to = next]
NextPart(p, bytes) ==
  IF op[p].seg < Len(Image)
  THEN [UpTo(p, "segment", bytes, EndOf(Image[op[p].seg + 1])) EXCEPT !.seg = @ + 1]
  ELSE LET up == PGROUNDUP(bytes) * PGSIZE IN
       UpTo(p, "stack", up, up + (USERSTACK + 1) * PGSIZE)

loadseg(p) ==
  LET s == Image[op[p].seg]
      size == Max({op[p].nsz, op[p].to})
      pages == s.vaddr .. s.vaddr + PGROUNDUP(s.memsz) - 1
  IN
  /\ At(p, {"segment"}, "map") /\ ~More(p)
  /\ panicked' = ~ (pages \subseteq Mapped(<<p, "new">>))
  /\ \/ Goto(p, NextPart(p, size)) /\ UNCHANGED tbl
     \/ /\ Goto(p, proc_freepagetable(p, <<p, "new">>, size))
        /\ tbl' = [tbl EXCEPT ![<<p, "new">>] = NoTop(@)]
  /\ UNCHANGED <<ram, free, sz, tf, state>>

(* The stack is there, and the arguments are copied to it. They may not    *)
(* fit. If they do the new table becomes the process's, and the old one is *)
(* freed with its own size.                                                *)
kexec(p) ==
  LET cur == <<p, "cur">>
      new == <<p, "new">>
  IN
  /\ At(p, {"stack"}, "map") /\ ~More(p)
  /\ \/ /\ Goto(p, proc_freepagetable(p, new, op[p].to))
        /\ tbl' = [tbl EXCEPT ![new] = NoTop(@)]
        /\ UNCHANGED sz
     \/ /\ tbl' = [tbl EXCEPT ![cur] = tbl[new], ![new] = NoTop(tbl[cur])]
        /\ sz' = [sz EXCEPT ![p] = op[p].to]
        /\ Goto(p, proc_freepagetable(p, new, sz[p]))
  /\ UNCHANGED free /\ Frame

Step(p) ==
  \/ takePage(p) \/ walk(p) \/ mappages(p) \/ skipPage(p) \/ outOfMemory(p)
  \/ uvmunmap(p) \/ uvmunmapReturns(p) \/ freewalk(p) \/ freewalkReturns(p) \/ freeproc(p)
  \/ sbrkReturns(p) \/ allocproc(p) \/ uvmcreate(p) \/ forkReturns(p)
  \/ sys_exec(p) \/ sys_execReturns(p) \/ loadseg(p) \/ kexec(p)

Next ==
  \E p \in Slots :
    \/ Step(p)
    \/ sbrk_lazy(p) \/ sbrk(p) \/ vmfault(p) \/ fork(p) \/ exit(p) \/ wait(p) \/ exec(p)

Spec == Init /\ [][Next]_vars

(***************************************************************************)
(* Properties                                                              *)
(***************************************************************************)
Page == 0 .. ram

(* Pages, sizes and states stay in range; in particular no process grows   *)
(* into its trap frame, and no page number goes past the end of memory.    *)
TypeOK ==
  /\ ram \in Sizes /\ free \subseteq 1 .. ram
  /\ tbl \in [Tables -> [node : [Node -> Page], leaf : [VA -> Page \cup {Text}]]]
  /\ sz \in [Slots -> 0 .. TRAPFRAME * PGSIZE]
  /\ tf \in [Slots -> Page]
  /\ state \in [Slots -> {"UNUSED", "USED", "LIVE", "ZOMBIE"}]
  /\ \A p \in Slots : op[p].mem \in Page /\ op[p].argv \subseteq 1 .. ram
  /\ panicked \in BOOLEAN

(* Who has which page: the free list, a trap frame, the hands of a call    *)
(* that is about to map it, the arguments of exec(), a table, a user.      *)
Holdings ==
  {<<x, "free">> : x \in free}
  \cup {<<tf[p], "trapframe", p>> : p \in {q \in Slots : tf[q] # 0}}
  \cup {<<op[p].mem, "mem", p>> : p \in {q \in Slots : op[q].mem # 0}}
  \cup UNION {{<<x, "argv", p>> : x \in op[p].argv} : p \in Slots}
  \cup UNION {{<<tbl[t].node[n], "node", t, n>> : n \in {m \in Node : tbl[t].node[m] # 0}} :
                t \in Tables}
  \cup UNION {{<<tbl[t].leaf[v], "user", t, v>> : v \in Mapped(t)} : t \in Tables}

(* Every page of memory has exactly one owner at every step: no call that  *)
(* runs out of memory, whatever it had done by then, loses a page, frees   *)
(* one twice, or leaves one mapped that it has freed (kfree() and the error *)
(* paths of uvmalloc(), uvmcopy(), proc_pagetable(), kexec(), kfork()).    *)
PagesConserved == {h[1] : h \in Holdings} = 1 .. ram /\ Cardinality(Holdings) = ram

(* The panics of kalloc.c and vm.c are not reached: a page mapped twice, a *)
(* leaf that freewalk() finds, an address that loadseg() misses, a page    *)
(* that is not the allocator's.                                            *)
NoPanic == ~panicked

(* A process in user mode has no page mapped above its size, so that what  *)
(* a failed sbrk() had mapped is gone and what uvmfree() frees is all.     *)
MappedBelowSize ==
  \A p \in Slots :
    state[p] \in {"LIVE", "ZOMBIE"} /\ op[p].pc = "user"
      => \A v \in Mapped(<<p, "cur">>) : v < PGROUNDUP(sz[p])
=============================================================================
