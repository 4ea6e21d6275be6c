# A TLA+ model of this xv6 kernel

This directory specifies and checks the parts of the kernel in `kernel/` whose
correctness rests on interleavings, crashes and failures: what a unit test or a
run of `usertests` would hardly reach. The kernel is xv6 for RISC-V with two
changes of its own: a thermal-aware scheduler (`kernel/proc.c`) and a pipe whose
spinlock was replaced by Peterson's algorithm (`kernel/pipe.c`).

## The system and its parts

| Part | Source | Modules |
|------|--------|---------|
| Thermal scheduler, clock interrupt | `kernel/proc.c`, `kernel/trap.c` | `ThermalSched`, `SchedHistory`; abstract: `CpuAlloc` |
| Life of a process: fork, exit, wait, kill | `kernel/proc.c`, `user/init.c` | `Proc`; abstract: `ProcTree` |
| Pipe | `kernel/pipe.c`, `kernel/file.c` | `Pipe`; abstract: `ByteQueue` |
| Write-ahead log | `kernel/log.c` | `Log`; abstract: `AtomicDisk` |
| Disk driver | `kernel/virtio_disk.c` | `VirtioDisk` |
| Buffer cache, sleeplocks | `kernel/bio.c`, `kernel/sleeplock.c` | `Bcache`, which composes the cache with the driver |
| Inodes, directories, names | `kernel/fs.c`, `kernel/sysfile.c` | `Fs` |
| Memory | `kernel/kalloc.c`, `kernel/vm.c`, `kernel/exec.c` | `Vm` |

Every `MC...` module instantiates the module of the same name for TLC. Theorems are
in `ThermalSchedInvariant`, `ThermalSchedProofs`, `SchedHistoryProofs`, `ProcProofs`,
`PipeProofs`, `LogInvariant` and `LogProofs`.

How the parts interact, and how the modules follow it:

- A system call runs in a process, which the scheduler gives a CPU. `CpuAlloc` is
  what the scheduler promises: a process has at most one CPU and a CPU at most one
  process. The other modules start from it: in them a process that can run takes
  steps, one at a time, at any moment.
- A spinlock is taken as mutual exclusion. A section under one spinlock is one step;
  one that is held across steps (`p->lock` in `swtch()`, `wait_lock`, `vdisk_lock` in
  the interrupt handler) is a variable, or ends a step where it is given up.
- `sleep()` and `wakeup()` tie every part to the process table. The test of a condition
  and the going to sleep are one step if the lock that is passed to `sleep()` covers
  both, two if it does not.
- A file system call runs between `begin_op()` and `end_op()`. `AtomicDisk` is what
  the log promises: the changes of the calls under way reach the disk together or
  not at all. `Fs` starts from it: what the calls have logged is committed when the
  last call under way ends, and a crash goes back to what is committed.
- The log relies on the buffer cache: a pinned buffer keeps its contents. `Log` has
  the cache as the log sees it (`Load`, `Recycle`); `Bcache` checks the real one, under
  the discipline that `Log` follows.

The memory is sequentially consistent except where data is shared without a lock, in
`Pipe` and `ThermalSched`.

## The modules

**`ThermalSched`.** A step is one iteration of one of the loops of `scheduler()` over
`proc[]`, under its `p->lock`, or one access to a global that has no lock: `cpu_temp`,
`tm_had_children`, `summary_printed`. `update_cpu_temp()` is a load and a store, two
steps, so that updates of two CPUs are lost as in the code. `pc` follows the places of
the loop: scan, print, reset, decay, throttle, three passes, dispatch, switch back. What
a process does is reduced to what the scheduler sees (`Fork`, `Exec`, `Yield`, `Sleep`,
`Exit`, `Reap`, `Wakeup`). `Fork` takes the steps of `kfork()` together, which `Proc` has one
by one. `SchedHistory` adds two history variables: `late`, whether a CPU has dispatched
since the temperature reached the throttle, and `watch`, the children of test programs that
have been active since a CPU began the scan of STEP 0.

**`Proc`.** `kfork()`, `kexit()`, `kwait()` and `kkill()` at the grain of their locks: `Fork`,
`SetParent` and `MakeRunnable` are separate, as are `Exit` (which takes `wait_lock`, reparents
and wakes) and `Zombie`, and the scan, the test of `killed()` and the sleep of `kwait()`.
`kexit()` by init panics (`InitExits`), after which nobody moves. `ProcTree` has a tree of
pids in which each call is atomic.

**`Pipe`.** `pipewrite()`, `piperead()`, `pipeclose()` with every byte a step, and
`peterson_enter()` as the build compiles it: `flag` is a plain `int`, so the other's flag
is loaded once, and a thread that finds it set spins for ever; `turn` is never loaded.
Where the machine is not `ordered` the load may come before the store. Any number of
processes may hold each side (`shared` if a side has several); they enter with the same
thread id, so `nwrite++`, the store of the byte and `nread++` are loads and stores of their
own. The last holder of a side calls `pipeclose()`. `sleep(chan, 0)` panics at address 0 with
`p->lock` held, after which no `wakeup()` returns. The counters wrap at `UINT`. Copies may
fail, and a process may be killed at any time. `ByteQueue` is a bounded queue of bytes with
two ends that are closed.

**`Log`.** `begin_op()`, `log_write()`, `end_op()`, and `commit()` and recovery with one disk
write a step. A crash may come between any two steps and within a write: a data block
has two sectors and is then `Torn`; the header has one and is written or not. A write
that has completed is durable. After a crash the cache is empty and `initlog()` runs; it may
crash again.

**`VirtioDisk` and `Bcache`.** The driver with its descriptors, chains and rings, the
handler with a step per completion, and a device (external) that takes requests in
order, finishes them in any order, raises an interrupt, and never reports an error.
`alloc3_desc()` that gets fewer than three descriptors gives them back, which wakes the
processes that wait for one, and its caller sleeps (`Taken`, `GivenBack`). `Bcache` adds
`bget()`, `bread()`, `bwrite()`, `brelse()`, `bpin()`, `bunpin()`, the LRU list and the sleeplock
of a buffer. Contents are reduced to whether a copy is the block's last contents: that
is what can be wrong with it. A process holds one buffer at a time, and changes a
buffer only as the log lets it (written or pinned before it is released).

**`Fs`.** The inode table with its limit `NINODE` (`ref`, lock, cached `type` and `nlink`),
`namex()`, `create()`, `sys_open()`, `sys_link()`, `sys_unlink()`, the closing of a file,
`iput()` with its window between the two times it holds `itable.lock`, `ireclaim()` at
boot, and crashes. A directory has its "." and ".." entries, which `create()` makes one by
one and may fail to make, and paths go through them. A step ends where a process gives
up `itable.lock` or waits for an inode's lock. `ialloc()` may return any free inode: its
scan locks one block at a time. `panicked` says which panic was called, and by whom.

**`Vm`.** Who owns each page of memory. Each `kalloc()` and `kfree()` is a step; the loops of
`uvmalloc()`, `uvmcopy()`, `vmfault()`, `proc_pagetable()`, `walk()`, `uvmunmap()`, `freewalk()`,
`kexec()`, `sys_exec()` and `freeproc()` run over three-level tables whose pages have `FAN`
entries. Any allocation may find the list empty, after which the error paths of the code
run step by step. Contents of pages and permissions are left out, and so are the page
faults that `copyin()` and `copyout()` take inside `exec()` and `wait()`.

## What the runs check

Twelve runs. "States" are distinct states; each run takes at most about two and a half
minutes with two workers.

| Run | Module | Checks | States |
|-----|--------|--------|-------:|
| `sched_smp` | `MCSchedHistory` | `TypeOK`, `OneCpuPerProcess`, `RunningIsOnCpu`, `SummaryAtEnd`, `ImplementsCpuAlloc`, `OneRunPerThrottle` | 1,280,114 |
| `sched_up` | `MCThermalSched` | `GateHolds`, `SelectionOrder` | 392,920 |
| `pipe_one` | `MCPipe` | `TypeOK`, `PipeMutex`, `CallsEndBeforeFree`, `FreedSafely`, `NoOverrun`, `ImplementsByteQueue` | 2,259,238 |
| `log_crash` | `MCLog` | `TypeOK`, `NoPanic`, `QuietIsDurable`, `ImplementsAtomicDisk`, `BeginWakes` | 307,892 |
| `proc_tree` | `MCProc` | `TypeOK`, `NoMissedExit`, `NoOrphan`, `ImplementsProcTree`, `OrphansReaped` | 96,858 |
| `disk_cache` | `MCBcache` | `TypeOK`, `ReadsLastWrite`, `OneBufferPerBlock`, `PanicsOnlyWhenFull`, `SleepersWait`, `DescriptorsConserved` | 434,620 |
| `fs_tree` | `MCFs` | `TypeOK`, `NoPanic`, `EntryCurrent`, `NoDangling`, `OpenFileKeeps`, `BootReclaims` | 701,556 |
| `vm_pages` | `MCVm` | `TypeOK`, `PagesConserved`, `NoPanic`, `MappedBelowSize` | 216,459 |
| `sched_summary`, `sched_starve`, `pipe_panic`, `fs_orphan` | `MCThermalSched`, `MCPipe`, `MCFs` | one property each, violated: see below | |

What each shows is in the `about` of `PROJECT.json`, and each property is stated in
words above its definition. Every property that holds has a mutant, a plausible bug in
one definition (marked as a fault in the modules), under which the same run finds it
violated.

How far the properties of unlocked code go:

- *Throttle.* That nothing at all runs at the throttle temperature is true of one CPU
  only; the machine has three. With several, a CPU that has passed the test of STEP 2
  still dispatches after another has heated the machine. `OneRunPerThrottle` bounds
  this to one dispatch of each CPU while the temperature stays up.
- *Summary.* The scan of STEP 0 takes one `p->lock` after the other. `SummaryAtEnd` says that
  no child that was active through the whole scan is overlooked. A child forked into a slot
  that the scan has passed is overlooked, and a run may lose its summary when another CPU
  sets `tm_had_children` around the reset; no property claims otherwise.
- *Pipe.* `PipeMutex` and the refinement of `ByteQueue` are claims about one process on each
  side and a machine that keeps loads after stores (`Peterson`), `NoOverrun` about one process
  on each side and any machine, `FreedSafely` about any number of processes on an ordered machine,
  `CallsEndBeforeFree` about any number on any machine. Outside of these the model has what
  happens: sections overlap, bytes are lost with two writers, and two closers that are
  inside together may both free the page.
- *Names.* `NoPanic` of `Fs` leaves two panics: a full inode table, when more than `NINODE`
  inodes are in use, and the lookup of ".." in a directory that was removed under its user,
  whose parent was removed and freed after it (`kernel/fs.c:316`). Both are reached in the run.

Bounds, and why they are enough for the cases that matter:

- `sched_smp`: two CPUs are the least with a `chosen` process that another CPU takes, puts to
  sleep or frees before the dispatch, and with a heating that makes the throttle stale; three
  slots hold init, a test program and its child. Temperatures are scaled to 0..1. CPUs are
  symmetric. `sched_up` has wider ranges, so that every zone, gate and clamp is reached, and
  a test program with two children whose pids are not in slot order.
- `pipe_one`: a ring of 2 bytes with counters modulo 4, so that full, empty and wrapped
  occur; five bytes over its life; two writers and a reader, of which any may hold the pipe.
  A shared pipe gets two bytes and calls of at most one, since its properties are about calls.
  Deadlock is not checked: a closed pipe stops, and a panic or a spin ends in a stop.
- `log_crash`: two processes whose blocks together are as many as the log holds (4), with
  `MAXOPBLOCKS` of 2 and calls that log one block each, once or again: the calls of the code
  stay below `MAXOPBLOCKS` too (`filewrite()` cuts what it writes), and must, since `log_write()`
  panics on a full log even for a block that the log has. Only what `begin_op()` reserves keeps
  the log from filling up. Two of the blocks keep their contents and only take up
  space. Group commit, absorption and a crash in each step occur.
- `proc_tree`: four slots give init, a parent that exits, and its children. Five pids let
  slots be reused.
- `disk_cache`: four blocks over three buffers force recycling, two pins and two holders
  make `bget()` run out of them; four descriptors allow one request and leave one that
  is taken and given back, seven allow two. Processes and blocks are symmetric; no liveness is
  checked there.
- `fs_tree`: four inodes over a table of three, and two names: one process makes and removes
  a directory, creates and opens a file in it and looks through "..", the other makes a
  directory in it, links and removes what is in it, and removes it. Free inodes are alike, so
  that inodes other than the root are symmetric. Calls that overlap without end would never be
  committed: at most two go into one commit, three with the lookup through "..".
- `vm_pages`: tables of two entries a page, five sizes of memory from just enough for the
  first process to enough for two and the table that `kexec()` builds. Pages differ only
  by name; the view `UpToPages` identifies states that differ only in which page is where.

### Fairness

- `ThermalSched` (`sched_starve`): weak fairness of each CPU's scheduler loop and of its clock
  tick. A hart always runs and the timer always fires. Nothing is assumed of the processes.
- `Log`: weak fairness of the steps of a process that can run and of the boot, and strong
  fairness of `end_op()`, because each system call logs finitely many blocks and then ends.
  Crashes are not fair.
- `Proc`: strong fairness of a process's steps in the kernel (`Goes`): the scheduler runs it again
  and again and `wait_lock` is given to everyone in the end. The first is an assumption about
  the scheduler that `sched_starve` shows to be false of the thermal policy under
  load; `OrphansReaped` is conditional on it.
- The other runs are safety only. That nobody waits for ever is a state property there,
  which needs no fairness: `SleepersWait` and `NoMissedExit` say that no wakeup is lost.

## What disagrees with the code's own comments

Four runs are violated, each by what a comment in the code promises:

- `sched_summary` (`kernel/proc.c:667`): with two CPUs the summary of one run is
  printed twice; the guard is tested and set with no lock.
- `sched_starve` (`kernel/proc.c:790`): with the code's own constants, one CPU and four
  computing processes, a process in a late slot waits for ever. The bypass lifts the gate,
  but pass B still takes the coolest, first slot first.
- `pipe_panic` (`kernel/pipe.c:139`): waiting on a pipe calls `sleep()` with no lock,
  which panics.
- `fs_orphan` (`kernel/fs.c:361`): an inode that `ialloc()` hands out while `iput()` frees it
  may end with no links, no references, and not freed before the next boot.

Other behaviour met while modelling, which no run claims to be wrong, is in the notes of
the hazards in `PROJECT.json`: besides what is said above, `kkill()` between `killed()` and
`sleep()` in `kwait()` wakes nobody; `kill(0)` marks an unused slot, whose next process starts killed;
`create()` or `link()` into a directory that was removed after its lookup leaves an inode
with `nlink` 1 and no name; and `NBUF` equals `LOGBLOCKS`, so that a full log may pin every buffer.

## What is proved

TLAPS proves these for all values of the constants that satisfy the modules' `ASSUME`s.

| Theorem | Module | Statement |
|---------|--------|-----------|
| `TypeCorrect` | `ThermalSchedInvariant` | `Spec => []TypeOK`, with the clamp of the unlocked `cpu_temp` |
| `MutualExclusion` | `ThermalSchedInvariant` | `Spec => []OneCpuPerProcess` |
| `RunningAgrees` | `ThermalSchedInvariant` | `Spec => []RunningIsOnCpu` |
| `SchedRefinesAlloc` | `ThermalSchedProofs` | `Spec => ImplementsCpuAlloc` |
| `ThrottleStopsEveryCpu` | `SchedHistoryProofs` | `HSpec => OneRunPerThrottle` |
| `NoEarlySummary` | `SchedHistoryProofs` | `HSpec => []SummaryAtEnd` |
| `NoOrphans`, `ExitsAreSeen` | `ProcProofs` | `Spec => []NoOrphan`, `Spec => []NoMissedExit` |
| `FreedWhenUnused` | `PipeProofs` | `Spec => []CallsEndBeforeFree` |
| `LogIsAtomic` | `LogProofs` | `Spec => ImplementsAtomicDisk` |
| `QuietMeansDurable` | `LogProofs` | `Spec => []QuietIsDurable` |
| `NoIdleSleep` | `LogProofs` | `Spec => []SleepersMustWait` |

The arguments:

- *Scheduler.* `SchedInv` says what a CPU at each place owns: it is committed to
  `cproc[c]`, which is RUNNING, or whose lock it holds around the two halves of `swtch()`. No other
  CPU can then take that process, so that a dispatch, which needs the lock and RUNNABLE, takes a
  free one. The refinement maps a process in `swtch()` to its new state once its CPU has
  let go.
- *Throttle and scan.* `HInv` adds: a CPU that has dispatched in the heat is not past the test of
  STEP 2 while the heat lasts, because only that test leads there; and whoever was active
  since the scan began is still ahead of it, because the scan stops at an active one.
- *Processes.* `PInv` says who holds `wait_lock` where, that a USED slot is the `np` of one `kfork()`,
  and that from the scan of `kwait()` to its sleep no zombie appears: `kexit()` needs `wait_lock`
  to become one.
- *Pipe.* `FreeInv`: a call holds a descriptor, a side is closed only when it has none left, a
  freed pipe has both sides closed. It does not mention the flags, which is why the result
  needs neither order nor mutual exclusion.
- *Log.* `LogInv` follows the header: when it names blocks their copies in the log are whole, what
  has been installed agrees with them, a buffer stays pinned as long as its home block is
  behind, and no call is under way during a commit. The refinement is the one that the run checks.
  `SleepersMustWait` (a process sleeps in `begin_op()` only while a commit runs or there is no room)
  is not an invariant of the run, which has two processes: it covers both wakeups of
  `end_op()` for any number.

Only model-checked: liveness (`BeginWakes`, `OrphansReaped`, `NoStarvation`), which the provers
do not reach; `NoPanic` of the log, whose count of reserved blocks is a sum over the calls;
`PipeMutex`, `FreedSafely`, `NoOverrun` and the refinement of `ByteQueue`; `ImplementsProcTree`; and all of
`Bcache`, `Fs` and `Vm`.

## What is not modelled

The tables behind the thermal summary, the console and the UART, the nesting of `push_off()`,
the entry of traps and system calls, the contents of files (`balloc()`, `bmap()`, `readi()`,
`writei()`), the file table and descriptors as such, formatting, boot code and assembly, the user
programs and the host tools. `PROJECT.json` says why for each.
