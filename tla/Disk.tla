-------------------------------- MODULE Disk --------------------------------
(***************************************************************************)
(* The buffer cache (bio.c) on the IDE driver (ide.c): blocks are read     *)
(* into a small set of buffers, which tasks lock, change and write back    *)
(* through a queue of requests that the interrupt handler serves.          *)
(*                                                                         *)
(* A body under bcache.lock, idelock or a sleep-lock's spin-lock is one    *)
(* action.  A transfer may fail: the driver then goes on.                  *)
(***************************************************************************)
EXTENDS Integers, Sequences, SequencesExt, FiniteSets

CONSTANTS
  Task, NoTask,   \* kernel threads; "the buffer is not locked"
  Blk, NoBlk,     \* disk blocks; "none yet"
  NBUF,           \* number of buffers
  MAXPIN,         \* bound: dirty buffers that the log has pinned
  MAXFAIL         \* bound: blocks on which the disk fails a transfer

Buf == 1 .. NBUF

VARIABLES
  bno, refcnt, valid, dirty,   \* fields of each buffer
  block,      \* holder of its sleep-lock
  mru,        \* the list bcache.head, most recently used first
  idequeue,   \* buffers waiting for the disk, the active one first
  cmd, irq,   \* what the disk was told to do; "ok" or "error" once done
  data, disk, \* contents, as a Boolean: does the buffer, or the disk, have
              \* what was last put in the block?
  failed,     \* history: blocks with a transfer that failed
  dpc, mine   \* where each task is; the buffer it uses

bufVars  == <<bno, refcnt, valid, dirty, data, mru>>
ideVars  == <<idequeue, cmd, irq, disk>>
diskVars == <<bufVars, block, ideVars, failed, dpc, mine>>

Put(f, x, y) == [f EXCEPT ![x] = y]
NoCmd == [write |-> FALSE, blk |-> NoBlk, data |-> FALSE]

\* binit puts every buffer in front of the list.
DiskInit ==
  /\ bno = [b \in Buf |-> NoBlk] /\ refcnt = [b \in Buf |-> 0]
  /\ valid = [b \in Buf |-> FALSE] /\ dirty = [b \in Buf |-> FALSE]
  /\ data = [b \in Buf |-> FALSE] /\ block = [b \in Buf |-> NoTask]
  /\ mru = [i \in Buf |-> NBUF + 1 - i]
  /\ idequeue = <<>> /\ cmd = NoCmd /\ irq = "none"
  /\ disk = [n \in Blk |-> TRUE] /\ failed = {}
  /\ dpc = [t \in Task |-> "idle"] /\ mine = [t \in Task |-> 0]
-----------------------------------------------------------------------------

CachedBufs(n) == {b \in Buf : bno[b] = n}

\* Mutant: dirty buffers are recycled too.
Recyclable_dirty == {b \in Buf : refcnt[b] = 0}

Recyclable == {b \in Buf : refcnt[b] = 0 /\ ~dirty[b]}

\* bget, when the block is cached: take a reference, then wait for the lock.
bget_cached(t, n) ==
  /\ dpc[t] = "idle"
  /\ \E b \in CachedBufs(n) :
       /\ refcnt' = Put(refcnt, b, refcnt[b] + 1)
       /\ mine' = Put(mine, t, b)
  /\ dpc' = Put(dpc, t, "lock")
  /\ UNCHANGED <<bno, valid, dirty, data, mru, block, ideVars, failed>>

\* bget, when it is not: the last buffer of the list that can be recycled.
bget_recycle(t, n) ==
  /\ dpc[t] = "idle" /\ CachedBufs(n) = {} /\ Recyclable # {}
  /\ LET b == Last(SelectSeq(mru, LAMBDA c : c \in Recyclable))
     IN  /\ bno' = Put(bno, b, n)
         /\ valid' = Put(valid, b, FALSE) /\ dirty' = Put(dirty, b, FALSE)
         /\ refcnt' = Put(refcnt, b, 1) /\ data' = Put(data, b, FALSE)
         /\ mine' = Put(mine, t, b)
  /\ dpc' = Put(dpc, t, "lock")
  /\ UNCHANGED <<mru, block, ideVars, failed>>

bget_panic(t, n) ==
  /\ dpc[t] = "idle" /\ CachedBufs(n) = {} /\ Recyclable = {}
  /\ dpc' = Put(dpc, t, "panic")
  /\ UNCHANGED <<bufVars, block, ideVars, failed, mine>>

\* acquiresleep of the buffer; bread then calls iderw if it is not valid.
lock_buf(t) ==
  LET b == mine[t] IN
  /\ dpc[t] = "lock"
  /\ IF block[b] # NoTask
     THEN block' = block /\ dpc' = Put(dpc, t, "asleep")
     ELSE block' = Put(block, b, t) /\ dpc' = Put(dpc, t, IF valid[b] THEN "have" ELSE "rw")
  /\ UNCHANGED <<bufVars, ideVars, failed, mine>>

\* The holder changes the block and calls bwrite.
bwrite(t) ==
  /\ dpc[t] = "have"
  /\ data' = Put(data, mine[t], TRUE) /\ disk' = Put(disk, bno[mine[t]], FALSE)
  /\ dirty' = Put(dirty, mine[t], TRUE)
  /\ dpc' = Put(dpc, t, "rw")
  /\ UNCHANGED <<bno, refcnt, valid, mru, block, idequeue, cmd, irq, failed, mine>>

\* The holder changes the block and calls log_write, which pins it.
log_pin(t) ==
  /\ dpc[t] = "have"
  /\ Cardinality({b \in Buf \ {mine[t]} : dirty[b]}) < MAXPIN
  /\ data' = Put(data, mine[t], TRUE) /\ disk' = Put(disk, bno[mine[t]], FALSE)
  /\ dirty' = Put(dirty, mine[t], TRUE)
  /\ UNCHANGED <<bno, refcnt, valid, mru, block, idequeue, cmd, irq, failed, dpc, mine>>

\* brelse unlocks the buffer and wakes whoever waits for it ...
brelse(t) ==
  /\ dpc[t] = "have"
  /\ block' = Put(block, mine[t], NoTask)
  /\ dpc' = [u \in Task |-> CASE u = t -> "unref"
                              [] dpc[u] = "asleep" /\ mine[u] = mine[t] -> "lock"
                              [] OTHER -> dpc[u]]
  /\ UNCHANGED <<bufVars, ideVars, failed, mine>>

\* ... then drops the reference; the last one moves the buffer to the front.
brelse_unref(t) ==
  /\ dpc[t] = "unref"
  /\ LET b == mine[t] IN
     /\ refcnt' = Put(refcnt, b, refcnt[b] - 1)
     /\ mru' = IF refcnt[b] = 1 THEN <<b>> \o SelectSeq(mru, LAMBDA c : c # b) ELSE mru
  /\ dpc' = Put(dpc, t, "idle") /\ mine' = Put(mine, t, 0)
  /\ UNCHANGED <<bno, valid, dirty, data, block, ideVars, failed>>
-----------------------------------------------------------------------------
\* The command of a request: a write sends the data along.
idestart(b) == [write |-> dirty[b], blk |-> bno[b], data |-> data[b]]

\* iderw appends the buffer, starts an idle disk and sleeps.
iderw(t) ==
  /\ dpc[t] = "rw"
  /\ idequeue' = Append(idequeue, mine[t])
  /\ cmd' = IF idequeue = <<>> THEN idestart(mine[t]) ELSE cmd
  /\ dpc' = Put(dpc, t, "io")
  /\ UNCHANGED <<bufVars, block, irq, disk, failed, mine>>

\* The disk carries out its command and raises the interrupt.
disk_done(ok) ==
  /\ cmd # NoCmd /\ irq = "none"
  /\ ok \/ Cardinality(failed) < MAXFAIL
  /\ irq' = IF ok THEN "ok" ELSE "error"
  /\ disk' = IF cmd.write /\ ok THEN Put(disk, cmd.blk, cmd.data) ELSE disk
  /\ failed' = IF ok THEN failed ELSE failed \cup {cmd.blk}
  /\ UNCHANGED <<bufVars, block, idequeue, cmd, dpc, mine>>

\* Mutant: the next request is not started.
ideintr_stops ==
  /\ irq # "none" /\ idequeue # <<>>
  /\ LET b == Head(idequeue) IN
     /\ data' = IF dirty[b] \/ irq = "error" THEN data ELSE Put(data, b, disk[cmd.blk])
     /\ valid' = Put(valid, b, TRUE) /\ dirty' = Put(dirty, b, FALSE)
     /\ dpc' = [t \in Task |-> IF dpc[t] = "io" /\ mine[t] = b THEN "woken" ELSE dpc[t]]
  /\ idequeue' = Tail(idequeue) /\ irq' = "none"
  /\ cmd' = NoCmd
  /\ UNCHANGED <<bno, refcnt, mru, block, disk, failed, mine>>

\* ideintr: take the data of a read unless idewait reports an error, mark the
\* buffer valid and clean in either case, wake its task, start the next one.
ideintr ==
  /\ irq # "none" /\ idequeue # <<>>
  /\ LET b == Head(idequeue) IN
     /\ data' = IF dirty[b] \/ irq = "error" THEN data ELSE Put(data, b, disk[cmd.blk])
     /\ valid' = Put(valid, b, TRUE) /\ dirty' = Put(dirty, b, FALSE)
     /\ dpc' = [t \in Task |-> IF dpc[t] = "io" /\ mine[t] = b THEN "woken" ELSE dpc[t]]
  /\ idequeue' = Tail(idequeue) /\ irq' = "none"
  /\ cmd' = IF Len(idequeue) > 1 THEN idestart(idequeue[2]) ELSE NoCmd
  /\ UNCHANGED <<bno, refcnt, mru, block, disk, failed, mine>>

\* The woken task tests the flags again and returns from iderw.
iderw_return(t) ==
  /\ dpc[t] = "woken"
  /\ dpc' = Put(dpc, t, IF valid[mine[t]] /\ ~dirty[mine[t]] THEN "have" ELSE "io")
  /\ UNCHANGED <<bufVars, block, ideVars, failed, mine>>
-----------------------------------------------------------------------------
\* A panic stops the machine.
Panicked == \E t \in Task : dpc[t] = "panic"

DiskNext ==
  /\ ~Panicked
  /\ \/ \E t \in Task :
          \/ \E n \in Blk : bget_cached(t, n) \/ bget_recycle(t, n) \/ bget_panic(t, n)
          \/ lock_buf(t) \/ brelse(t) \/ brelse_unref(t)
          \/ bwrite(t) \/ log_pin(t)
          \/ iderw(t) \/ iderw_return(t)
     \/ \E ok \in BOOLEAN : disk_done(ok)
     \/ ideintr

\* The disk answers, interrupts are taken, and a running task goes on.
DiskFairness ==
  /\ WF_diskVars(~Panicked /\ \E ok \in BOOLEAN : disk_done(ok))
  /\ WF_diskVars(~Panicked /\ ideintr)
  /\ \A t \in Task : WF_diskVars(~Panicked /\ (iderw(t) \/ iderw_return(t)))

DiskSpec == DiskInit /\ [][DiskNext]_diskVars /\ DiskFairness
-----------------------------------------------------------------------------
DiskTypeOK ==
  /\ bno \in [Buf -> Blk \cup {NoBlk}] /\ refcnt \in [Buf -> 0 .. Cardinality(Task)]
  /\ valid \in [Buf -> BOOLEAN] /\ dirty \in [Buf -> BOOLEAN] /\ data \in [Buf -> BOOLEAN]
  /\ block \in [Buf -> Task \cup {NoTask}] /\ ToSet(mru) = Buf /\ Len(mru) = NBUF
  /\ ToSet(idequeue) \subseteq Buf /\ irq \in {"none", "ok", "error"}
  /\ disk \in [Blk -> BOOLEAN] /\ failed \subseteq Blk
  /\ dpc \in [Task -> {"idle", "lock", "asleep", "have", "rw", "io", "woken", "unref", "panic"}]
  /\ mine \in [Task -> 0 .. NBUF]

(* bio.c promises "a synchronization point for disk blocks": a block is in *)
(* one buffer, however many tasks miss it at once.                         *)
OneBufferPerBlock ==
  \A b, c \in Buf : bno[b] = bno[c] /\ bno[b] # NoBlk => b = c

(* No update is lost and no read is stale: a valid buffer has what was     *)
(* last put in its block, and so has the disk once no buffer is dirty,     *)
(* unless the disk failed on that block.                                   *)
CacheCoherent ==
  \A n \in Blk \ failed :
    /\ \A b \in CachedBufs(n) : valid[b] => data[b]
    /\ (\A b \in CachedBufs(n) : ~dirty[b]) => disk[n]

(* "First queued buffer is the active request": what the disk is doing is  *)
(* what the handler will take the interrupt for.                           *)
HeadIsActive ==
  IF idequeue = <<>> THEN cmd = NoCmd ELSE cmd = idestart(Head(idequeue))

(* A buffer the disk works on is locked by one task that waits for it, so  *)
(* it is neither recycled nor changed under the transfer; and a task that  *)
(* sleeps, on a transfer or on the lock, has someone to wake it.           *)
WaitersAreServed ==
  /\ \A b \in ToSet(idequeue) : block[b] # NoTask /\ dpc[block[b]] = "io" /\ mine[block[b]] = b
  /\ \A t \in Task : /\ dpc[t] = "io" => mine[t] \in ToSet(idequeue)
                     /\ dpc[t] = "asleep" => block[mine[t]] # NoTask

(* bget panics only when the buffers really are too few: each is pinned by *)
(* the log or used by a task of its own.  References are dropped, and      *)
(* clean buffers come back.                                                *)
PanicOnlyWhenFull ==
  Panicked => Cardinality({b \in Buf : dirty[b]}) + Cardinality({mine[t] : t \in Task} \ {0}) >= NBUF

(* Every transfer ends: a task that has called iderw gets its buffer,      *)
(* whether or not the disk fails, unless the machine panics.               *)
IoReturns ==
  \A t \in Task : dpc[t] = "rw" ~> dpc[t] = "have" \/ Panicked

(* The buffer cache over the disk's queue: one buffer per block, the last  *)
(* write in it or on disk, the active request at the head of the queue,    *)
(* nobody asleep without a waker, and no buffer lost to a reference.       *)
CacheIsDisk ==
  DiskTypeOK /\ OneBufferPerBlock /\ CacheCoherent /\ HeadIsActive /\ WaitersAreServed /\ PanicOnlyWhenFull
=============================================================================
