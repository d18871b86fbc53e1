------------------------------- MODULE Flock --------------------------------
(***************************************************************************)
(* flock and funlock, from the descriptor to the lock: the open files of   *)
(* ftable (file.c), the inode cache their references keep alive (fs.c),    *)
(* and the sleep-lock ip->flock of each cache slot (sleeplock.c).          *)
(*                                                                         *)
(* Each body under ftable.lock, icache.lock or a sleep-lock's own          *)
(* spin-lock is one action.  A process has one descriptor here; pipes and  *)
(* the disk inode are left out.                                            *)
(***************************************************************************)
EXTENDS Integers, FiniteSets

CONSTANTS
  Proc, NoProc,   \* processes; "the sleep-lock is free"
  Inum, NoInum,   \* inodes on the disk; "none"
  NINODE, NFILE   \* sizes of icache and ftable

Slot == 1 .. NINODE
File == 1 .. NFILE

ASSUME NoneAssumption == NoProc \notin Proc /\ NoInum \notin Inum
ASSUME SizeAssumption == NINODE \in Nat \ {0} /\ NFILE \in Nat \ {0}

VARIABLES
  inum, iref,   \* ip->inum and ip->ref of each slot of icache
  flock,        \* its flock: lk->pid, NoProc if not locked
  granted,      \* history: the inode for which that lock was taken
  fref, fip,    \* f->ref and f->ip of each entry of ftable
  ofile,        \* the entry of each process's descriptor, 0 if closed
  has,          \* history: the inode each process has locked and not yet
                \* unlocked or closed
  pc, ip        \* where each process is in open, close or flock; ip there

iVars == <<inum, iref>>
lVars == <<flock, granted, has>>
fVars == <<fref, fip, ofile>>
vars  == <<iVars, lVars, fVars, pc, ip>>

Set(f, x, y) == [f EXCEPT ![x] = y]

First(S) == CHOOSE s \in S : \A t \in S : s <= t

Init ==
  /\ inum = [s \in Slot |-> NoInum] /\ iref = [s \in Slot |-> 0]
  /\ flock = [s \in Slot |-> NoProc] /\ granted = [s \in Slot |-> NoInum]
  /\ fref = [f \in File |-> 0] /\ fip = [f \in File |-> 0]
  /\ ofile = [p \in Proc |-> 0] /\ has = [p \in Proc |-> NoInum]
  /\ pc = [p \in Proc |-> "idle"] /\ ip = [p \in Proc |-> 0]

\* The slot of the process's open file.
SlotOf(p) == fip[ofile[p]]
-----------------------------------------------------------------------------
Empty == {s \in Slot : iref[s] = 0}

Cached(k) == {s \in Slot : iref[s] > 0 /\ inum[s] = k}

\* iget(k), when open has found the name: the slot with the inode, or the first
\* that nobody refers to.  With no such slot iget panics: not a step here.
iget(p, k) ==
  /\ pc[p] = "idle" /\ ofile[p] = 0
  /\ Cached(k) # {} \/ Empty # {}
  /\ LET s == IF Cached(k) # {} THEN First(Cached(k)) ELSE First(Empty)
     IN  /\ inum' = Set(inum, s, k)
         /\ iref' = Set(iref, s, iref[s] + 1)
         /\ ip' = Set(ip, p, s)
  /\ pc' = Set(pc, p, "open")
  /\ UNCHANGED <<lVars, fVars>>

FreeFiles == {f \in File : fref[f] = 0}

\* filealloc, and the rest of open.
filealloc(p) ==
  /\ pc[p] = "open" /\ FreeFiles # {}
  /\ fref' = Set(fref, First(FreeFiles), 1)
  /\ fip' = Set(fip, First(FreeFiles), ip[p])
  /\ ofile' = Set(ofile, p, First(FreeFiles))
  /\ pc' = Set(pc, p, "idle")
  /\ ip' = Set(ip, p, 0)
  /\ UNCHANGED <<iVars, lVars>>

\* Mutant: open returns -1 with the inode still referenced.
open_fail_leaks(p) ==
  /\ pc[p] = "open" /\ FreeFiles = {}
  /\ pc' = Set(pc, p, "idle")
  /\ ip' = Set(ip, p, 0)
  /\ UNCHANGED <<iVars, lVars, fVars>>

\* No free entry: open puts the inode back.
open_fail(p) ==
  /\ pc[p] = "open" /\ FreeFiles = {}
  /\ pc' = Set(pc, p, "iput")
  /\ UNCHANGED <<iVars, lVars, fVars, ip>>

\* fork: the child q has its parent's open file.
filedup(p, q) ==
  /\ pc[p] = "idle" /\ ofile[p] # 0
  /\ pc[q] = "idle" /\ ofile[q] = 0
  /\ fref' = Set(fref, ofile[p], fref[ofile[p]] + 1)
  /\ ofile' = Set(ofile, q, ofile[p])
  /\ UNCHANGED <<iVars, lVars, fip, pc, ip>>

\* close, and exit: the inode is put when the last descriptor goes; its lock is
\* not looked at.
fileclose(p) ==
  /\ pc[p] = "idle" /\ ofile[p] # 0
  /\ fref' = Set(fref, ofile[p], fref[ofile[p]] - 1)
  /\ ofile' = Set(ofile, p, 0)
  /\ has' = Set(has, p, NoInum)
  /\ IF fref[ofile[p]] = 1
     THEN pc' = Set(pc, p, "iput") /\ ip' = Set(ip, p, SlotOf(p))
     ELSE UNCHANGED <<pc, ip>>
  /\ UNCHANGED <<iVars, flock, granted, fip>>

iput(p) ==
  /\ pc[p] = "iput"
  /\ iref' = Set(iref, ip[p], iref[ip[p]] - 1)
  /\ pc' = Set(pc, p, "idle")
  /\ ip' = Set(ip, p, 0)
  /\ UNCHANGED <<inum, lVars, fVars>>
-----------------------------------------------------------------------------
\* acquiresleep of the flock of slot s returns.
Take(p, s) ==
  /\ flock' = Set(flock, s, p)
  /\ granted' = Set(granted, s, inum[s])
  /\ has' = Set(has, p, inum[s])
  /\ pc' = Set(pc, p, "idle")
  /\ UNCHANGED <<iVars, fVars, ip>>

\* Mutant: a process that was woken does not look again.
acquiresleep_once(p) ==
  /\ pc[p] \in {"idle", "woken"} /\ ofile[p] # 0
  /\ pc[p] = "woken" \/ flock[SlotOf(p)] = NoProc
  /\ Take(p, SlotOf(p))

\* flock: the tests of filelock and fsemaphore_lock, then acquiresleep's loop.
acquiresleep(p) ==
  /\ pc[p] \in {"idle", "woken"} /\ ofile[p] # 0
  /\ iref[SlotOf(p)] > 0
  /\ flock[SlotOf(p)] = NoProc
  /\ Take(p, SlotOf(p))

acquiresleep_sleep(p) ==
  /\ pc[p] \in {"idle", "woken"} /\ ofile[p] # 0
  /\ iref[SlotOf(p)] > 0
  /\ flock[SlotOf(p)] # NoProc
  /\ pc' = Set(pc, p, "asleep")
  /\ UNCHANGED <<iVars, lVars, fVars, ip>>

\* funlock: only the holder passes the tests of fileunlock.
releasesleep(p) ==
  /\ pc[p] = "idle" /\ ofile[p] # 0
  /\ flock[SlotOf(p)] = p
  /\ flock' = Set(flock, SlotOf(p), NoProc)
  /\ granted' = Set(granted, SlotOf(p), NoInum)
  /\ has' = Set(has, p, NoInum)
  /\ pc' = [q \in Proc |-> IF pc[q] = "asleep" /\ SlotOf(q) = SlotOf(p) THEN "woken" ELSE pc[q]]
  /\ UNCHANGED <<iVars, fVars, ip>>
-----------------------------------------------------------------------------
Next == \E p \in Proc :
  \/ \E k \in Inum : iget(p, k)
  \/ filealloc(p) \/ open_fail(p)
  \/ \E q \in Proc : filedup(p, q)
  \/ fileclose(p) \/ iput(p)
  \/ acquiresleep(p) \/ acquiresleep_sleep(p) \/ releasesleep(p)

Spec == Init /\ [][Next]_vars
-----------------------------------------------------------------------------
TypeOK ==
  /\ inum \in [Slot -> Inum \cup {NoInum}]
  /\ iref \in [Slot -> Nat]
  /\ flock \in [Slot -> Proc \cup {NoProc}]
  /\ granted \in [Slot -> Inum \cup {NoInum}]
  /\ fref \in [File -> Nat]
  /\ fip \in [File -> 0 .. NINODE]
  /\ ofile \in [Proc -> 0 .. NFILE]
  /\ has \in [Proc -> Inum \cup {NoInum}]
  /\ pc \in [Proc -> {"idle", "open", "iput", "asleep", "woken"}]
  /\ ip \in [Proc -> 0 .. NINODE]

(* The reference counts are right: an entry of ftable counts the           *)
(* descriptors on it, and a slot of icache the entries and the calls in    *)
(* progress that point to it, so neither is recycled too early or never.   *)
RefsCount ==
  /\ \A f \in File : fref[f] = Cardinality({p \in Proc : ofile[p] = f})
  /\ \A s \in Slot : iref[s] = Cardinality({f \in File : fref[f] > 0 /\ fip[f] = s})
                              + Cardinality({p \in Proc : ip[p] = s})

(* An inode has one slot, and so one lock: iget finds the one in use.      *)
OneSlotPerInode ==
  \A s, t \in Slot : iref[s] > 0 /\ iref[t] > 0 /\ inum[s] = inum[t] => s = t

(* flock excludes: of the processes that have a file open, one at most has *)
(* locked it, even if they opened it on their own.                         *)
FlockExcludes ==
  \A p, q \in Proc : has[p] = has[q] /\ has[p] # NoInum => p = q

(* No wakeup is lost: a process asleep in flock waits for a lock that is   *)
(* held.                                                                   *)
AsleepIsLocked ==
  \A p \in Proc : pc[p] = "asleep" => flock[SlotOf(p)] # NoProc

(* flock waits for the "sleep lock associated with the open file": a       *)
(* process is made to wait only by a lock that was taken on its file.      *)
WaitsForItsFile ==
  \A p \in Proc : pc[p] = "asleep" => granted[SlotOf(p)] = inum[SlotOf(p)]

(* The counts of open files and of inode slots are exact at every step of  *)
(* open, close and flock, its failures included, and an inode that is in   *)
(* use has one slot: none is recycled early, twice or never.               *)
SlotsAreCounted == TypeOK /\ RefsCount /\ OneSlotPerInode

(* flock is a lock: one holder at a time, and nobody is left asleep when   *)
(* it is free.                                                             *)
FlockIsLock == FlockExcludes /\ AsleepIsLocked
=============================================================================
