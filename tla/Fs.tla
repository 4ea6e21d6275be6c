--------------------------------- MODULE Fs ---------------------------------
(***************************************************************************)
(* Inodes, directories and the system calls on names of kernel/fs.c and    *)
(* kernel/sysfile.c. `mem' is the file system as the calls see it through  *)
(* the buffer cache, `disk' what the log has committed: module Log shows   *)
(* that the calls under way are committed together when the last one ends, *)
(* and that a crash loses them together.                                   *)
(*                                                                         *)
(* A step ends where a process gives up itable.lock or waits for the sleep *)
(* lock of an inode. Work on inodes that stay locked is part of the step   *)
(* that locks the last of them. The table has one entry for each inode:    *)
(* iget() searches it and fills an entry under one lock.                   *)
(*                                                                         *)
(* File contents and the blocks that hold them are left out; a directory   *)
(* is a function from names, "." and ".." among them, to inodes.           *)
(***************************************************************************)
EXTENDS Integers, Sequences, FiniteSets

CONSTANTS
  Proc, Name,
  Inum, ROOT,  \* the numbers of the inodes on the disk, and of the root
  NINODE,      \* entries of the inode table
  GROUP,       \* bound: the calls that go into one commit
  Calls,       \* the system calls that each process makes: see CallOK
  None

Dots == {".", ".."}
Elem == Name \cup Dots   \* of a path
Path == Seq(Elem) \ {<<>>}
Types == {"FREE", "FILE", "DIR"}

(* open has O_CREATE iff create is set; new is link()'s second path.       *)
CallOK(c) ==
  \/ c.op \in {"unlink", "mkdir", "create", "open"} /\ c.path \in Path
  \/ c.op = "link" /\ c.path \in Path /\ c.new \in Path
  \/ c.op = "close"

ASSUME FsAssumption ==
  /\ IsFiniteSet(Inum) /\ ROOT \in Inum /\ None \notin Inum
  /\ NINODE \in Nat \ {0} /\ GROUP \in Nat \ {0} /\ Name \cap Dots = {}
  /\ \A p \in Proc : \A c \in Calls[p] : CallOK(c)

VARIABLES
  mem, disk,       \* dinodes and directories: in the cache, committed
  ref, lock,       \* the inode table: ip->ref, the owner of ip->lock
  ip,              \* type and nlink of an entry if ip->valid, else None
  file,            \* the inode of the process's open file
  pc, call,
  cur, rest,       \* namex(): the inode, the names that are left; then dp and name
  ino,             \* ip in the system calls
  puts, cont,      \* inodes to iunlock() if locked and iput(), and what follows
  begun,           \* the calls since the last commit
  boot,            \* the inodes that ireclaim() has not looked at since the start
  panicked         \* None, or what panic() was called with and by whom

table == <<ref, lock, ip>>
regs == <<call, cur, rest, ino>>
vars == <<mem, disk, table, file, pc, regs, puts, cont, begun, boot, panicked>>

Free == [type |-> "FREE", nlink |-> 0, dir |-> [n \in Elem |-> None]]
EmptyRoot == [Free EXCEPT !.type = "DIR", !.nlink = 1, !.dir["."] = ROOT, !.dir[".."] = ROOT]

(* No process runs, and only init's current directory is referenced.       *)
Refs0 == [i \in Inum |-> IF i = ROOT THEN 1 ELSE 0]
Inums(x) == [i \in Inum |-> x]
Procs(x) == [p \in Proc |-> x]

(* The image that mkfs writes, before the first process runs.              *)
Init ==
  /\ mem = [i \in Inum |-> IF i = ROOT THEN EmptyRoot ELSE Free]
  /\ disk = mem /\ boot = Inum
  /\ ref = Refs0 /\ lock = Inums(None) /\ ip = Inums(None) /\ file = Procs(None)
  /\ pc = Procs("idle") /\ call = Procs(None) /\ cur = Procs(None) /\ rest = Procs(<<>>)
  /\ ino = Procs(None) /\ puts = Procs(<<>>) /\ cont = Procs("idle")
  /\ begun = 0 /\ panicked = None

(* dirlookup() of the next name of p's path in i, and dirlink() of it.     *)
dirlookup(p, i) == mem[i].dir[Head(rest[p])]
dirlink(p, i, j) == [mem EXCEPT ![i].dir[Head(rest[p])] = j]

Running == boot = {} /\ panicked = None

-----------------------------------------------------------------------------
(* The entry of i once ilock(i) has read it if it was not valid.           *)
Loaded(i) == IF ip[i] # None THEN ip[i]
             ELSE [type |-> mem[i].type, nlink |-> mem[i].nlink]
ilocked(i) == [ip EXCEPT ![i] = Loaded(i)]

(* iget(i) of an inode that has no entry takes a free one. What a free     *)
(* entry holds is forgotten when its last reference is dropped instead of  *)
(* in iget(), which sets ip->valid = 0 before anybody looks.               *)
TableFull(i) == ref[i] = 0 /\ Cardinality({ j \in Inum : ref[j] > 0 }) >= NINODE

(* The panics of ilock(i), and of ilock(i) with dirlookup() that finds j.  *)
ilockPanic(p, i) == IF Loaded(i).type = "FREE" THEN <<"ilock: no type", p>> ELSE None
igetPanic(p, j) == IF j # None /\ TableFull(j) THEN <<"iget: no inodes", p>> ELSE None
lookPanic(p, i, j) ==
  IF Loaded(i).type = "FREE" THEN ilockPanic(p, i)
  ELSE IF Loaded(i).type # "DIR" THEN <<"dirlookup not DIR", p>>
  ELSE igetPanic(p, j)

(* Memory and table after ip->nlink changes to n, with iupdate().          *)
MemLinks(m, i, n) == [m EXCEPT ![i].nlink = n, ![i].type = Loaded(i).type]
TabLinks(t, i, n) == [t EXCEPT ![i] = [type |-> Loaded(i).type, nlink |-> n]]

Goto(p, label) == pc' = [pc EXCEPT ![p] = label] /\ UNCHANGED <<puts, cont>>

(* iput() the inodes of s in order, then go on at label.                   *)
Then(p, s, label) ==
  /\ pc' = [pc EXCEPT ![p] = "put"]
  /\ puts' = [puts EXCEPT ![p] = s] /\ cont' = [cont EXCEPT ![p] = label]

(* Which label follows a path lookup, and does it look for the parent?     *)
Linking(p) == call[p].op = "link" /\ ino[p] # None
Parent(p) == call[p].op \in {"unlink", "mkdir", "create"} \/ Linking(p)
AfterPath(p) ==
  CASE call[p].op = "unlink" -> "unlink_dp"
    [] call[p].op \in {"mkdir", "create"} -> "create_dp"
    [] call[p].op = "open" -> "open_ip"
    [] call[p].op = "link" -> IF Linking(p) THEN "link_dp" ELSE "link_ip"
NoPath(p) == IF Linking(p) THEN "link_bad" ELSE "end"

-----------------------------------------------------------------------------
(* sys_close() forgets the file.                                           *)
StillOpen(p) == file   \* fault: ofile[fd] is not cleared
Closed(p) == [file EXCEPT ![p] = None]

(* begin_op(), which lets no more calls into a group than the log has room *)
(* for, and iget(ROOTINO) by namex(); close() has no path. The paths are   *)
(* absolute.                                                               *)
Begin(p, c) ==
  /\ Running /\ pc[p] = "idle" /\ begun < GROUP
  /\ begun' = begun + 1
  /\ call' = [call EXCEPT ![p] = c]
  /\ \/ /\ c.op # "close"
        /\ ref' = [ref EXCEPT ![ROOT] = @ + 1]
        /\ cur' = [cur EXCEPT ![p] = ROOT]
        /\ rest' = [rest EXCEPT ![p] = c.path]
        /\ Goto(p, "namex")
        /\ UNCHANGED file
     \/ /\ c.op = "close" /\ file[p] # None
        /\ file' = Closed(p)
        /\ Then(p, <<file[p]>>, "end")
        /\ UNCHANGED <<ref, cur, rest>>
  /\ UNCHANGED <<mem, disk, lock, ip, ino, boot, panicked>>

(* One turn of the loop of namex(): ilock, look up the next name, iunlock. *)
namex(p) ==
  LET i == cur[p]
      next == dirlookup(p, i)
      isdir == Loaded(i).type = "DIR"
      last == Len(rest[p]) = 1
  IN
  /\ Running /\ pc[p] = "namex" /\ lock[i] = None
  /\ \/ /\ isdir /\ Parent(p) /\ last
        /\ Goto(p, AfterPath(p))
        /\ ip' = ilocked(i) /\ UNCHANGED panicked
        /\ UNCHANGED <<ref, cur, rest>>
     \/ /\ isdir /\ ~(Parent(p) /\ last) /\ next # None
        /\ ref' = [ref EXCEPT ![next] = @ + 1]
        /\ ip' = ilocked(i) /\ panicked' = igetPanic(p, next)
        /\ cur' = [cur EXCEPT ![p] = next]
        /\ rest' = [rest EXCEPT ![p] = Tail(@)]
        /\ Then(p, <<i>>, IF last THEN AfterPath(p) ELSE "namex")
     \/ /\ ~isdir \/ (~(Parent(p) /\ last) /\ next = None)
        /\ Then(p, <<i>>, NoPath(p))
        /\ ip' = ilocked(i) /\ panicked' = ilockPanic(p, i)
        /\ UNCHANGED <<ref, cur, rest>>
  /\ UNCHANGED <<mem, disk, lock, file, call, ino, begun, boot>>

-----------------------------------------------------------------------------
(* iput(): the last reference to an inode with no links frees it. "this    *)
(* acquiresleep() won't block": if it did, itable.lock would be held in    *)
(* sched(), which panics.                                                  *)
Release(p) ==
  LET i == Head(puts[p])
      left == Tail(puts[p])
  IN
  /\ ref' = [ref EXCEPT ![i] = @ - 1]
  /\ ip' = IF ref[i] = 1 THEN [ip EXCEPT ![i] = None] ELSE ip
  /\ puts' = [puts EXCEPT ![p] = left]
  /\ IF left = <<>>
       THEN /\ pc' = [pc EXCEPT ![p] = cont[p]]
            /\ cont' = [cont EXCEPT ![p] = "idle"]
            /\ UNCHANGED lock
       ELSE /\ pc' = [pc EXCEPT ![p] = "put"]
            /\ UNCHANGED cont
            /\ lock' = IF lock[Head(left)] = p THEN [lock EXCEPT ![Head(left)] = None] ELSE lock

Dead(i) == ref[i] = 1 /\ ip[i] # None /\ ip[i].nlink = 0

iput(p) ==
  LET i == Head(puts[p]) IN
  /\ Running /\ pc[p] = "put"
  /\ \/ /\ Dead(i)
        /\ panicked' = IF lock[i] # None THEN <<"sched locks", p>> ELSE None
        /\ lock' = [lock EXCEPT ![i] = p]
        /\ Goto(p, "free")
        /\ UNCHANGED <<ref, ip>>
     \/ ~Dead(i) /\ Release(p) /\ UNCHANGED panicked
  /\ UNCHANGED <<mem, disk, file, regs, begun, boot>>

(* itrunc(), ip->type = 0, iupdate(): from now on ialloc() may take it.    *)
iput_free(p) ==
  LET i == Head(puts[p]) IN
  /\ Running /\ pc[p] = "free"
  /\ mem' = [mem EXCEPT ![i] = Free]
  /\ ip' = [ip EXCEPT ![i] = [type |-> "FREE", nlink |-> 0]]
  /\ Goto(p, "invalid")
  /\ UNCHANGED <<disk, ref, lock, file, regs, begun, boot, panicked>>

iput_valid(p) ==   \* fault: ip->valid stays set
  /\ Running /\ pc[p] = "invalid"
  /\ lock' = [lock EXCEPT ![Head(puts[p])] = None]
  /\ Goto(p, "drop")
  /\ UNCHANGED <<mem, disk, ref, ip, file, regs, begun, boot, panicked>>

(* ip->valid = 0, releasesleep().                                          *)
iput_invalid(p) ==
  LET i == Head(puts[p]) IN
  /\ Running /\ pc[p] = "invalid"
  /\ ip' = [ip EXCEPT ![i] = None] /\ lock' = [lock EXCEPT ![i] = None]
  /\ Goto(p, "drop")
  /\ UNCHANGED <<mem, disk, ref, file, regs, begun, boot, panicked>>

(* ip->ref--, with no second look at ip->ref and ip->nlink.                *)
iput_drop(p) ==
  /\ Running /\ pc[p] = "drop"
  /\ Release(p)
  /\ UNCHANGED <<mem, disk, file, regs, begun, boot, panicked>>

-----------------------------------------------------------------------------
(* sys_unlink(): ilock(dp), dirlookup(); "." and ".." are refused.         *)
UnlinkLook(p, owner) ==
  LET i == cur[p]
      j == IF Head(rest[p]) \in Dots THEN None ELSE dirlookup(p, i)
  IN
  /\ Running /\ pc[p] = "unlink_dp" /\ lock[i] = None
  /\ ip' = ilocked(i) /\ panicked' = lookPanic(p, i, j)
  /\ \/ /\ j = None
        /\ Then(p, <<i>>, "end")
        /\ UNCHANGED <<ref, lock, ino>>
     \/ /\ j # None
        /\ lock' = [lock EXCEPT ![i] = owner]
        /\ ref' = [ref EXCEPT ![j] = @ + 1]
        /\ ino' = [ino EXCEPT ![p] = j]
        /\ Goto(p, "unlink_ip")
  /\ UNCHANGED <<mem, disk, file, call, cur, rest, begun, boot>>

unlink_dp_open(p) == UnlinkLook(p, None)   \* fault: dp is not locked
unlink_dp(p) == UnlinkLook(p, p)

IsDirEmpty(j) == \A n \in Name : mem[j].dir[n] = None

(* ilock(ip), the tests, and the removal of the entry.                     *)
unlink_ip(p) ==
  LET i == cur[p]
      j == ino[p]
      isdir == Loaded(j).type = "DIR"
      cleared == dirlink(p, i, None)
  IN
  /\ Running /\ pc[p] = "unlink_ip" /\ lock[j] = None
  /\ panicked' = IF Loaded(j).type # "FREE" /\ Loaded(j).nlink < 1
                   THEN <<"unlink: nlink < 1", p>> ELSE ilockPanic(p, j)
  /\ \/ /\ isdir /\ ~IsDirEmpty(j)
        /\ Then(p, <<j, i>>, "end")
        /\ ip' = ilocked(j) /\ UNCHANGED <<mem, lock>>
     \/ /\ ~isdir \/ IsDirEmpty(j)
        /\ IF isdir
             THEN /\ mem' = MemLinks(cleared, i, Loaded(i).nlink - 1)
                  /\ ip' = TabLinks(ilocked(j), i, Loaded(i).nlink - 1)
             ELSE mem' = cleared /\ ip' = ilocked(j)
        /\ lock' = [lock EXCEPT ![i] = None, ![j] = p]
        /\ Then(p, <<i>>, "unlink_end")
  /\ UNCHANGED <<disk, ref, file, regs, begun, boot>>

(* ip->nlink--, iupdate(ip), iunlockput(ip).                               *)
unlink_end(p) ==
  LET j == ino[p] IN
  /\ Running /\ pc[p] = "unlink_end"
  /\ mem' = MemLinks(mem, j, Loaded(j).nlink - 1)
  /\ ip' = TabLinks(ip, j, Loaded(j).nlink - 1)
  /\ lock' = [lock EXCEPT ![j] = None]
  /\ Then(p, <<j>>, "end")
  /\ UNCHANGED <<disk, ref, file, regs, begun, boot, panicked>>

-----------------------------------------------------------------------------
NewType(p) == IF call[p].op = "mkdir" THEN "DIR" ELSE "FILE"

(* ialloc() has found j free. Its scan locks one inode block at a time, so *)
(* that j need not be the first one that is free when it ends.             *)
ialloc(p, j) == [mem EXCEPT ![j] = [Free EXCEPT !.type = NewType(p)]]

(* create(): ilock(dp), dirlookup(), and ialloc() if the name is new.      *)
create_dp(p) ==
  LET i == cur[p]
      old == dirlookup(p, i)
  IN
  /\ Running /\ pc[p] = "create_dp" /\ lock[i] = None
  /\ \/ /\ old # None
        /\ ref' = [ref EXCEPT ![old] = @ + 1]
        /\ ip' = ilocked(i) /\ panicked' = lookPanic(p, i, old)
        /\ ino' = [ino EXCEPT ![p] = old]
        /\ Then(p, <<i>>, "create_old")
        /\ UNCHANGED <<mem, lock>>
     \/ /\ old = None /\ \A j \in Inum : mem[j].type # "FREE"
        /\ ip' = ilocked(i) /\ panicked' = lookPanic(p, i, None)
        /\ Then(p, <<i>>, "end")
        /\ UNCHANGED <<mem, ref, lock, ino>>
     \/ \E j \in Inum :
        /\ old = None /\ mem[j].type = "FREE"
        /\ mem' = ialloc(p, j)
        /\ ref' = [ref EXCEPT ![j] = @ + 1]
        /\ ip' = ilocked(i) /\ panicked' = lookPanic(p, i, j)
        /\ ino' = [ino EXCEPT ![p] = j]
        /\ lock' = [lock EXCEPT ![i] = p]
        /\ Goto(p, "create_ip")
  /\ UNCHANGED <<disk, file, call, cur, rest, begun, boot>>

(* The name exists: only a file may be "created" again, by open().         *)
create_old(p) ==
  LET j == ino[p] IN
  /\ Running /\ pc[p] = "create_old" /\ lock[j] = None
  /\ panicked' = ilockPanic(p, j)
  /\ ip' = ilocked(j)
  /\ IF NewType(p) = "FILE" /\ Loaded(j).type = "FILE"
       THEN lock' = [lock EXCEPT ![j] = p] /\ Goto(p, "open_file")
       ELSE Then(p, <<j>>, "end") /\ UNCHANGED lock
  /\ UNCHANGED <<mem, disk, ref, file, regs, begun, boot>>

(* ilock(ip), nlink = 1, "." and ".." in a new directory, and the entry in *)
(* dp. A dirlink() fails when there is no block for a longer directory;    *)
(* ip then has the entries that were made before, and no links.            *)
create_ip(p) ==
  LET i == cur[p]
      j == ino[p]
      dots(ns) == [mem EXCEPT ![j].dir = [n \in Elem |->
                     IF n \notin ns THEN @[n] ELSE IF n = "." THEN j ELSE i]]
      isdir == NewType(p) = "DIR"
      dotted == IF isdir THEN dots(Dots) ELSE mem
      entered == [dotted EXCEPT ![i].dir[Head(rest[p])] = j]
      up == Loaded(i).nlink + (IF isdir THEN 1 ELSE 0)
  IN
  /\ Running /\ pc[p] = "create_ip" /\ lock[j] = None
  /\ panicked' = ilockPanic(p, j)
  /\ \/ /\ mem' = MemLinks(MemLinks(entered, j, 1), i, up)
        /\ ip' = TabLinks(TabLinks(ip, j, 1), i, up)
        /\ lock' = [lock EXCEPT ![i] = None, ![j] = p]
        /\ Then(p, <<i>>, IF isdir THEN "made" ELSE "open_file")
     \/ /\ \E m \in {dotted} \cup (IF isdir THEN {mem, dots({"."})} ELSE {}) :
             mem' = MemLinks(m, j, 0)
        /\ ip' = TabLinks(ip, j, 0)
        /\ Then(p, <<j, i>>, "end")
        /\ UNCHANGED lock
  /\ UNCHANGED <<disk, ref, file, regs, begun, boot>>

(* sys_mkdir(): iunlockput(ip).                                            *)
made(p) ==
  /\ Running /\ pc[p] = "made"
  /\ lock' = [lock EXCEPT ![ino[p]] = None]
  /\ Then(p, <<ino[p]>>, "end")
  /\ UNCHANGED <<mem, disk, ref, ip, file, regs, begun, boot, panicked>>

-----------------------------------------------------------------------------
(* sys_open() without O_CREATE: a directory can be opened for reading only.*)
open_ip(p) ==
  LET j == cur[p] IN
  /\ Running /\ pc[p] = "open_ip" /\ lock[j] = None
  /\ panicked' = ilockPanic(p, j)
  /\ ip' = ilocked(j)
  /\ \/ /\ lock' = [lock EXCEPT ![j] = p]
        /\ ino' = [ino EXCEPT ![p] = j]
        /\ Goto(p, "open_file")
     \/ /\ Loaded(j).type = "DIR"
        /\ Then(p, <<j>>, "end")
        /\ UNCHANGED <<lock, ino>>
  /\ UNCHANGED <<mem, disk, ref, file, call, cur, rest, begun, boot>>

open_file_put(p) ==   \* fault: iunlockput(ip) in place of iunlock(ip)
  LET j == ino[p] IN
  /\ Running /\ pc[p] = "open_file"
  /\ lock' = [lock EXCEPT ![j] = None]
  /\ file' = [file EXCEPT ![p] = j] /\ Then(p, <<j>>, "end")
  /\ UNCHANGED <<mem, disk, ref, ip, regs, begun, boot, panicked>>

(* filealloc() and fdalloc() may fail; otherwise the file keeps the        *)
(* reference to ip.                                                        *)
open_file(p) ==
  LET j == ino[p] IN
  /\ Running /\ pc[p] = "open_file"
  /\ lock' = [lock EXCEPT ![j] = None]
  /\ \/ /\ file[p] = None
        /\ file' = [file EXCEPT ![p] = j] /\ Goto(p, "end")
     \/ Then(p, <<j>>, "end") /\ UNCHANGED file
  /\ UNCHANGED <<mem, disk, ref, ip, regs, begun, boot, panicked>>

-----------------------------------------------------------------------------
(* sys_link(): nlink++ on the old inode, then the new name is looked up.   *)
LinkOld(p, links) ==
  LET j == cur[p]
      n == Loaded(j).nlink + links
  IN
  /\ Running /\ pc[p] = "link_ip" /\ lock[j] = None
  /\ panicked' = ilockPanic(p, j)
  /\ \/ /\ Loaded(j).type = "DIR"
        /\ ip' = ilocked(j) /\ Then(p, <<j>>, "end")
        /\ UNCHANGED <<mem, ref, cur, rest, ino>>
     \/ /\ Loaded(j).type # "DIR"
        /\ mem' = MemLinks(mem, j, n) /\ ip' = TabLinks(ip, j, n)
        /\ ino' = [ino EXCEPT ![p] = j]
        /\ ref' = [ref EXCEPT ![ROOT] = @ + 1]
        /\ cur' = [cur EXCEPT ![p] = ROOT]
        /\ rest' = [rest EXCEPT ![p] = call[p].new]
        /\ Goto(p, "namex")
  /\ UNCHANGED <<disk, lock, file, call, begun, boot>>

link_ip_none(p) == LinkOld(p, 0)   \* fault: no ip->nlink++
link_ip(p) == LinkOld(p, 1)

(* ilock(dp), dirlink(): it fails if the name exists, after an iget() and  *)
(* an iput() of what has it, or if the disk is full.                       *)
link_dp(p) ==
  LET i == cur[p]
      old == dirlookup(p, i)
  IN
  /\ Running /\ pc[p] = "link_dp" /\ lock[i] = None
  /\ ip' = ilocked(i) /\ panicked' = lookPanic(p, i, old)
  /\ \/ /\ old = None
        /\ mem' = dirlink(p, i, ino[p])
        /\ Then(p, <<i, ino[p]>>, "end")
        /\ UNCHANGED <<ref, lock>>
     \/ /\ old = None
        /\ Then(p, <<i>>, "link_bad")
        /\ UNCHANGED <<mem, ref, lock>>
     \/ /\ old # None
        /\ ref' = [ref EXCEPT ![old] = @ + 1]
        /\ lock' = [lock EXCEPT ![i] = p]
        /\ Then(p, <<old, i>>, "link_bad")
        /\ UNCHANGED mem
  /\ UNCHANGED <<disk, file, regs, begun, boot>>

link_bad(p) ==
  LET j == ino[p]
      n == Loaded(j).nlink - 1
  IN
  /\ Running /\ pc[p] = "link_bad" /\ lock[j] = None
  /\ mem' = MemLinks(mem, j, n) /\ ip' = TabLinks(ip, j, n)
  /\ Then(p, <<j>>, "end")
  /\ UNCHANGED <<disk, ref, lock, file, regs, begun, boot, panicked>>

-----------------------------------------------------------------------------
(* end_op(): the last call commits.                                        *)
end(p) ==
  /\ Running /\ pc[p] = "end"
  /\ IF \A q \in Proc \ {p} : pc[q] = "idle"
       THEN disk' = mem /\ begun' = 0
       ELSE UNCHANGED <<disk, begun>>
  /\ pc' = [pc EXCEPT ![p] = "idle"] /\ call' = [call EXCEPT ![p] = None]
  /\ cur' = [cur EXCEPT ![p] = None] /\ rest' = [rest EXCEPT ![p] = <<>>]
  /\ ino' = [ino EXCEPT ![p] = None] /\ UNCHANGED cont
  /\ UNCHANGED <<mem, table, file, puts, boot, panicked>>

(* The machine stops, by itself or for a panic, and starts again with what *)
(* was committed.                                                          *)
Crash ==
  /\ mem' = disk /\ boot' = Inum
  /\ ref' = Refs0 /\ lock' = Inums(None) /\ ip' = Inums(None) /\ file' = Procs(None)
  /\ pc' = Procs("idle") /\ call' = Procs(None) /\ cur' = Procs(None) /\ rest' = Procs(<<>>)
  /\ ino' = Procs(None) /\ puts' = Procs(<<>>) /\ cont' = Procs("idle")
  /\ begun' = 0 /\ panicked' = None
  /\ UNCHANGED disk

(* ireclaim(), by the first process, alone: one transaction for each       *)
(* inode that has a type and no links. The scan goes by number; here it    *)
(* goes in any order.                                                      *)
OrphanFile(i) == mem[i].type = "FILE" /\ mem[i].nlink = 0   \* fault: not directories
Orphan(i) == mem[i].type # "FREE" /\ mem[i].nlink = 0

ireclaim(i) ==
  /\ i \in boot
  /\ mem' = IF Orphan(i) THEN [mem EXCEPT ![i] = Free] ELSE mem
  /\ disk' = mem'
  /\ boot' = boot \ {i}
  /\ UNCHANGED <<table, file, pc, regs, puts, cont, begun, panicked>>

Step(p) ==
  \/ namex(p) \/ iput(p) \/ iput_free(p) \/ iput_invalid(p) \/ iput_drop(p)
  \/ unlink_dp(p) \/ unlink_ip(p) \/ unlink_end(p)
  \/ create_dp(p) \/ create_old(p) \/ create_ip(p) \/ made(p)
  \/ open_ip(p) \/ open_file(p) \/ link_ip(p) \/ link_dp(p) \/ link_bad(p) \/ end(p)

Next ==
  \/ Crash \/ \E i \in Inum : ireclaim(i)
  \/ \E p \in Proc : Step(p) \/ \E c \in Calls[p] : Begin(p, c)

Spec == Init /\ [][Next]_vars

-----------------------------------------------------------------------------
TypeOK ==
  /\ mem \in [Inum -> [type : Types, nlink : Nat, dir : [Elem -> Inum \cup {None}]]]
  /\ disk \in [Inum -> [type : Types, nlink : Nat, dir : [Elem -> Inum \cup {None}]]]
  /\ ref \in [Inum -> Nat] /\ lock \in [Inum -> Proc \cup {None}]
  /\ \A i \in Inum : ip[i] = None \/ (ip[i].type \in Types /\ ip[i].nlink \in Nat)
  /\ file \in [Proc -> Inum \cup {None}]
  /\ cur \in [Proc -> Inum \cup {None}] /\ ino \in [Proc -> Inum \cup {None}]
  /\ begun \in 0..GROUP /\ boot \subseteq Inum
  /\ panicked = None \/ panicked[2] \in Proc

(* The inodes that the processes, their files and init's directory use.    *)
InUse ==
  ({ROOT} \cup UNION { {file[p], cur[p], ino[p]} \cup { puts[p][k] : k \in 1..Len(puts[p]) } :
                        p \in Proc }) \ {None}

(* The last name that p's lookup has followed is "..".                     *)
WentUp(p) ==
  LET path == IF Linking(p) THEN call[p].new ELSE call[p].path
      k == Len(path) - Len(rest[p])
  IN k > 0 /\ path[k] = ".."

(* No call finds an inode without a type or a file where it had seen a     *)
(* directory, no unlink() an inode without links, iput() does not wait for *)
(* a lock under itable.lock, and the table is full only when that many     *)
(* inodes are in use. One panic is left: the ".." of a directory that was  *)
(* removed under its user may name a parent that was removed and freed.    *)
NoPanic ==
  panicked # None =>
    \/ panicked[1] = "iget: no inodes" /\ Cardinality(InUse) > NINODE
    \/ panicked[1] = "ilock: no type" /\ WentUp(panicked[2])

(* What an unlocked entry of the table says of an inode is what the cache  *)
(* says, also when the inode was freed and allocated again under it.       *)
EntryCurrent ==
  \A i \in Inum : ref[i] > 0 /\ ip[i] # None /\ lock[i] = None =>
    ip[i].type = mem[i].type /\ ip[i].nlink = mem[i].nlink

Entries(m, j) == UNION { { <<d, n>> : n \in { x \in Name : m[d].dir[x] = j } } :
                        d \in { x \in Inum : m[x].type = "DIR" } }

(* The directories that have not been removed and are not being removed.   *)
LiveDirs(m) ==
  { d \in Inum \ {ROOT} : m[d].type = "DIR" /\ m[d].nlink > 0 /\ (m = mem => lock[d] = None) }

(* A name is of an inode that is allocated and counts it, in the cache and *)
(* after a crash at any point; the ".." of a directory that has a name is  *)
(* the directory that has it; and the parent of a directory that is not    *)
(* removed counts its "..", so that it is not freed before it. (The ".."   *)
(* of a removed directory that is still in use may name a freed inode.)    *)
NoDangling ==
  \A m \in {mem, disk} :
    LET live == LiveDirs(m) IN
    \A j \in Inum :
      LET names == Entries(m, j)
          children == { d \in live : m[d].dir[".."] = j }
      IN names # {} \/ children # {} =>
           /\ m[j].type # "FREE" /\ m[j].nlink >= Cardinality(names) + Cardinality(children)
           /\ m[j].type = "DIR" => \A e \in names : m[j].dir[".."] = e[1] /\ m[j].dir["."] = j

(* When ireclaim() is done, no inode is left that a crash cut off from its *)
(* last reference.                                                         *)
BootReclaims ==
  [][boot' = {} /\ boot # {} =>
       \A i \in Inum : disk'[i].nlink = 0 => disk'[i].type = "FREE"]_vars

(* fs.c on iput(): "If that was the last reference and the inode has no    *)
(* links to it, free the inode (and its content) on disk."                 *)
OrphansAreHeld ==
  \A i \in Inum : i \notin boot /\ mem[i].type # "FREE" /\ mem[i].nlink = 0 => ref[i] > 0

(* An open file keeps its inode, whatever happens to its names.            *)
OpenFileKeeps ==
  [][\A p \in Proc : file[p] # None /\ file'[p] = file[p] =>
       mem'[file[p]].type = mem[file[p]].type]_vars
=============================================================================
