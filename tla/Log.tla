--------------------------------- MODULE Log ---------------------------------
(***************************************************************************)
(* The redo log of log.c over the buffer cache of bio.c, with crashes.     *)
(*                                                                         *)
(* A critical section under log.lock is one action: nothing else reads or  *)
(* writes the fields it protects, except the unlocked test at the head of  *)
(* log_write, which is an action of its own.  A bwrite is one action: the  *)
(* disk writes a sector entirely or not at all, and iderw returns only     *)
(* once it has.                                                            *)
(***************************************************************************)
EXTENDS Integers, Sequences

CONSTANTS
  Proc,         \* processes that make FS system calls
  Block,        \* home blocks (everything outside the log area)
  Val,          \* contents of a block
  Zero,         \* the contents mkfs gives every block
  NoVal,        \* "no buffer of the cache holds this block"
  NoProc,       \* "nobody holds the buffer's sleep-lock"
  MAXOPBLOCKS,  \* param.h
  LOGSIZE,      \* param.h
  NLOG,         \* sb.nlog: blocks of the log area, the header included
  OPBLOCKS      \* bound: calls of log_write one system call makes

ASSUME ValAssumption == Zero \in Val /\ NoVal \notin Val
ASSUME ProcAssumption == NoProc \notin Proc
ASSUME SizeAssumption ==
  /\ MAXOPBLOCKS \in Nat \ {0}
  /\ LOGSIZE = 3 * MAXOPBLOCKS     \* param.h
  /\ NLOG = LOGSIZE                \* mkfs.c: nlog = LOGSIZE
  /\ OPBLOCKS \in 1 .. MAXOPBLOCKS

VARIABLES
  home,         \* disk: contents of the home blocks
  slot,         \* disk: slot[i] is block log.start+i
  head,         \* disk: the header block log.start, as the sequence block[0..n-1]
  cache,        \* b->data of the valid buffer that holds each block, or NoVal
  dirty,        \* blocks whose buffer has B_DIRTY
  owner,        \* the holder of the buffer's sleep-lock, between bread and brelse
  lh,           \* log.lh, as a sequence
  outstanding,  \* log.outstanding
  committing,   \* log.committing
  tail,         \* next index of the loop in write_log or install_trans
  mode,         \* the machine: recovering in two phases, up, or stopped by panic
  pc,           \* where each process is
  nw            \* calls of log_write made by the process's system call

diskVars == <<home, slot, head>>
bufVars  == <<cache, dirty, owner>>
logVars  == <<lh, outstanding, committing, tail>>
procVars == <<mode, pc, nw>>
vars     == <<diskVars, bufVars, logVars, procVars>>

PC == {"idle", "asleep", "woken", "op", "modified", "checked",
       "write_log", "install", "committed"}

InOp(p) == pc[p] \in {"op", "modified", "checked"}

InCommit(p) == pc[p] \in {"write_log", "install", "committed"}

\* bread: the cached contents, else the disk's.
Bread(b) == IF cache[b] = NoVal THEN home[b] ELSE cache[b]

LhBlocks == {lh[i] : i \in 1 .. Len(lh)}

Go(p, loc) == pc' = [pc EXCEPT ![p] = loc]

\* wakeup(&log), as part of a step in which p itself moves to loc.
GoAndWakeup(p, loc) ==
  pc' = [q \in Proc |-> IF q = p THEN loc
                        ELSE IF pc[q] = "asleep" THEN "woken" ELSE pc[q]]
-----------------------------------------------------------------------------
\* The memory of a machine that has just booted; initlog runs next.
Booted ==
  /\ cache = [b \in Block |-> NoVal]
  /\ dirty = {}
  /\ owner = [b \in Block |-> NoProc]
  /\ lh = <<>>
  /\ outstanding = 0
  /\ committing = FALSE
  /\ tail = 1
  /\ mode = "read_head"
  /\ pc = [p \in Proc |-> "idle"]
  /\ nw = [p \in Proc |-> 0]

\* The file system as mkfs leaves it: every block zeroed, the log empty.
Init ==
  /\ home = [b \in Block |-> Zero]
  /\ slot = [i \in 1 .. LOGSIZE |-> Zero]
  /\ head = <<>>
  /\ Booted

\* Power failure or reboot: memory is lost, the disk is not.
Crash ==
  /\ UNCHANGED diskVars
  /\ cache' = [b \in Block |-> NoVal]
  /\ dirty' = {}
  /\ owner' = [b \in Block |-> NoProc]
  /\ lh' = <<>>
  /\ outstanding' = 0
  /\ committing' = FALSE
  /\ tail' = 1
  /\ mode' = "read_head"
  /\ pc' = [p \in Proc |-> "idle"]
  /\ nw' = [p \in Proc |-> 0]

\* Mutant: a zero-based loop index against a one-based log area.
read_head_from_zero ==
  /\ mode = "read_head"
  /\ lh' = head
  /\ tail' = 0
  /\ mode' = "recover"
  /\ UNCHANGED <<diskVars, bufVars, outstanding, committing, pc, nw>>

read_head ==
  /\ mode = "read_head"
  /\ lh' = head
  /\ tail' = 1
  /\ mode' = "recover"
  /\ UNCHANGED <<diskVars, bufVars, outstanding, committing, pc, nw>>

\* One iteration of install_trans: copy a log block over its home block, in the
\* cache and then on the disk; the interrupt handler of ide.c clears B_DIRTY.
install_block ==
  /\ tail <= Len(lh)
  /\ home' = [home EXCEPT ![lh[tail]] = slot[tail]]
  /\ cache' = [cache EXCEPT ![lh[tail]] = slot[tail]]
  /\ dirty' = dirty \ {lh[tail]}
  /\ tail' = tail + 1
  /\ UNCHANGED <<slot, head, owner, lh, outstanding, committing>>

recover_install ==
  /\ mode = "recover"
  /\ install_block
  /\ UNCHANGED procVars

\* log.lh.n = 0; write_head(): the transaction is erased from the log.
erase_log ==
  /\ tail > Len(lh)
  /\ lh' = <<>>
  /\ head' = <<>>
  /\ UNCHANGED <<home, slot, bufVars, outstanding, committing, tail>>

recover_erase ==
  /\ mode = "recover"
  /\ erase_log
  /\ mode' = "up"
  /\ UNCHANGED <<pc, nw>>
-----------------------------------------------------------------------------
\* A process reads a block that no buffer holds.
bread(b) ==
  /\ mode = "up"
  /\ cache[b] = NoVal
  /\ cache' = [cache EXCEPT ![b] = home[b]]
  /\ UNCHANGED <<diskVars, dirty, owner, logVars, procVars>>

\* bget recycles the buffer of b for another block: nobody references it and
\* it is not pinned by B_DIRTY.
bget_recycle(b) ==
  /\ mode = "up"
  /\ cache[b] # NoVal
  /\ owner[b] = NoProc
  /\ b \notin dirty
  /\ cache' = [cache EXCEPT ![b] = NoVal]
  /\ UNCHANGED <<diskVars, dirty, owner, logVars, procVars>>

\* Mutants: begin_op does not wait for a commit; it forgets what is logged.
MustWait_not_for_commit == Len(lh) + (outstanding + 1) * MAXOPBLOCKS > LOGSIZE
MustWait_not_for_logged == committing \/ (outstanding + 1) * MAXOPBLOCKS > LOGSIZE

MustWait == committing \/ Len(lh) + (outstanding + 1) * MAXOPBLOCKS > LOGSIZE

begin_op_sleep(p) ==
  /\ mode = "up"
  /\ pc[p] \in {"idle", "woken"}
  /\ MustWait
  /\ Go(p, "asleep")
  /\ UNCHANGED <<diskVars, bufVars, logVars, mode, nw>>

begin_op(p) ==
  /\ mode = "up"
  /\ pc[p] \in {"idle", "woken"}
  /\ ~MustWait
  /\ outstanding' = outstanding + 1
  /\ Go(p, "op")
  /\ nw' = [nw EXCEPT ![p] = 0]
  /\ UNCHANGED <<diskVars, bufVars, lh, committing, tail, mode>>

\* bp = bread(b); modify bp->data.  The buffer stays locked until brelse.
modify(p, b, v) ==
  /\ mode = "up"
  /\ pc[p] = "op"
  /\ nw[p] < OPBLOCKS
  /\ owner[b] = NoProc
  /\ owner' = [owner EXCEPT ![b] = p]
  /\ cache' = [cache EXCEPT ![b] = v]
  /\ Go(p, "modified")
  /\ UNCHANGED <<diskVars, dirty, logVars, mode, nw>>

\* The two tests of log_write, made before it takes log.lock.
TooBig == Len(lh) >= LOGSIZE \/ Len(lh) >= NLOG - 1

\* The panics of log_write, and the one of end_op when it finds log.committing.
Panics(p) ==
  \/ pc[p] = "modified" /\ (TooBig \/ outstanding < 1)
  \/ pc[p] = "op" /\ committing

panic(p) ==
  /\ mode = "up"
  /\ Panics(p)
  /\ mode' = "panic"
  /\ UNCHANGED <<diskVars, bufVars, logVars, pc, nw>>

log_write_check(p) ==
  /\ mode = "up"
  /\ pc[p] = "modified"
  /\ ~Panics(p)
  /\ Go(p, "checked")
  /\ UNCHANGED <<diskVars, bufVars, logVars, mode, nw>>

\* Mutants: log_write does not pin the buffer; it does not absorb.
log_write_unpinned(p, b) ==
  /\ mode = "up"
  /\ pc[p] = "checked"
  /\ owner[b] = p
  /\ lh' = IF b \in LhBlocks THEN lh ELSE Append(lh, b)
  /\ owner' = [owner EXCEPT ![b] = NoProc]
  /\ nw' = [nw EXCEPT ![p] = @ + 1]
  /\ Go(p, "op")
  /\ UNCHANGED <<diskVars, cache, dirty, outstanding, committing, tail, mode>>
log_write_no_absorption(p, b) ==
  /\ mode = "up"
  /\ pc[p] = "checked"
  /\ owner[b] = p
  /\ lh' = Append(lh, b)
  /\ dirty' = dirty \cup {b}
  /\ owner' = [owner EXCEPT ![b] = NoProc]
  /\ nw' = [nw EXCEPT ![p] = @ + 1]
  /\ Go(p, "op")
  /\ UNCHANGED <<diskVars, cache, outstanding, committing, tail, mode>>

\* The rest of log_write, under log.lock, and the caller's brelse.
log_write(p, b) ==
  /\ mode = "up"
  /\ pc[p] = "checked"
  /\ owner[b] = p
  /\ lh' = IF b \in LhBlocks THEN lh ELSE Append(lh, b)
  /\ dirty' = dirty \cup {b}
  /\ owner' = [owner EXCEPT ![b] = NoProc]
  /\ nw' = [nw EXCEPT ![p] = @ + 1]
  /\ Go(p, "op")
  /\ UNCHANGED <<diskVars, cache, outstanding, committing, tail, mode>>

\* end_op of a system call that is not the last one.
end_op(p) ==
  /\ mode = "up"
  /\ pc[p] = "op"
  /\ ~Panics(p)
  /\ outstanding > 1
  /\ outstanding' = outstanding - 1
  /\ GoAndWakeup(p, "idle")
  /\ UNCHANGED <<diskVars, bufVars, lh, committing, tail, mode, nw>>

\* Mutant: off by one in "if (log.lh.n > 0)" of commit.
end_op_last_skips(p) ==
  /\ mode = "up"
  /\ pc[p] = "op"
  /\ ~Panics(p)
  /\ outstanding = 1
  /\ outstanding' = 0
  /\ committing' = TRUE
  /\ tail' = 1
  /\ Go(p, IF Len(lh) > 1 THEN "write_log" ELSE "committed")
  /\ UNCHANGED <<diskVars, bufVars, lh, mode, nw>>

\* end_op of the last one: it commits, unless nothing was logged.
end_op_last(p) ==
  /\ mode = "up"
  /\ pc[p] = "op"
  /\ ~Panics(p)
  /\ outstanding = 1
  /\ outstanding' = 0
  /\ committing' = TRUE
  /\ tail' = 1
  /\ Go(p, IF Len(lh) > 0 THEN "write_log" ELSE "committed")
  /\ UNCHANGED <<diskVars, bufVars, lh, mode, nw>>

write_log(p) ==
  /\ mode = "up"
  /\ pc[p] = "write_log"
  /\ tail <= Len(lh)
  /\ slot' = [slot EXCEPT ![tail] = Bread(lh[tail])]
  /\ cache' = [cache EXCEPT ![lh[tail]] = Bread(lh[tail])]
  /\ tail' = tail + 1
  /\ UNCHANGED <<home, head, dirty, owner, lh, outstanding, committing, procVars>>

\* Mutant: the header is written before the blocks it describes.
write_head_early(p) ==
  /\ mode = "up"
  /\ pc[p] = "write_log"
  /\ head' = lh
  /\ tail' = 1
  /\ Go(p, "install")
  /\ UNCHANGED <<home, slot, bufVars, lh, outstanding, committing, mode, nw>>

\* "The true point at which the current transaction commits."
write_head(p) ==
  /\ mode = "up"
  /\ pc[p] = "write_log"
  /\ tail > Len(lh)
  /\ head' = lh
  /\ tail' = 1
  /\ Go(p, "install")
  /\ UNCHANGED <<home, slot, bufVars, lh, outstanding, committing, mode, nw>>

commit_install(p) ==
  /\ mode = "up"
  /\ pc[p] = "install"
  /\ install_block
  /\ UNCHANGED procVars

commit_erase(p) ==
  /\ mode = "up"
  /\ pc[p] = "install"
  /\ erase_log
  /\ Go(p, "committed")
  /\ UNCHANGED <<mode, nw>>

\* Mutant: no wakeup after the commit.
end_commit_silent(p) ==
  /\ mode = "up"
  /\ pc[p] = "committed"
  /\ committing' = FALSE
  /\ Go(p, "idle")
  /\ UNCHANGED <<diskVars, bufVars, lh, outstanding, tail, mode, nw>>

\* end_op, after commit() has returned.
end_commit(p) ==
  /\ mode = "up"
  /\ pc[p] = "committed"
  /\ committing' = FALSE
  /\ GoAndWakeup(p, "idle")
  /\ UNCHANGED <<diskVars, bufVars, lh, outstanding, tail, mode, nw>>
-----------------------------------------------------------------------------
Recovery == read_head \/ recover_install \/ recover_erase

\* The steps a process takes once its system call has called begin_op.
Step(p) ==
  \/ panic(p) \/ log_write_check(p)
  \/ \E b \in Block : log_write(p, b)
  \/ end_op(p) \/ end_op_last(p)
  \/ write_log(p) \/ write_head(p)
  \/ commit_install(p) \/ commit_erase(p) \/ end_commit(p)

Next ==
  \/ Crash
  \/ Recovery
  \/ \E b \in Block : bread(b) \/ bget_recycle(b)
  \/ \E p \in Proc : begin_op_sleep(p) \/ begin_op(p)
  \/ \E p \in Proc, b \in Block, v \in Val : modify(p, b, v)
  \/ \E p \in Proc : Step(p)

Spec == Init /\ [][Next]_vars

\* Recovery runs to its end, and every system call that has begun is run by the
\* scheduler until it has ended: log_write, end_op and commit have no loop that
\* waits for another process.
Fairness == WF_vars(Recovery) /\ \A p \in Proc : WF_vars(Step(p))

FairSpec == Spec /\ Fairness
-----------------------------------------------------------------------------
TypeOK ==
  /\ home \in [Block -> Val]
  /\ slot \in [1 .. LOGSIZE -> Val]
  /\ head \in Seq(Block)
  /\ cache \in [Block -> Val \cup {NoVal}]
  /\ dirty \in SUBSET Block
  /\ owner \in [Block -> Proc \cup {NoProc}]
  /\ lh \in Seq(Block)
  /\ outstanding \in Nat
  /\ committing \in BOOLEAN
  /\ tail \in Nat \ {0}
  /\ mode \in {"read_head", "recover", "up", "panic"}
  /\ pc \in [Proc -> PC]
  /\ nw \in [Proc -> 0 .. OPBLOCKS]

(* A commit never contains half of a system call: while log.committing is  *)
(* set, one process commits and none is between begin_op and end_op, so    *)
(* the buffers that write_log copies hold finished updates only.           *)
CommitExclusive ==
  /\ \A p, q \in Proc : InCommit(p) /\ InCommit(q) => p = q
  /\ committing <=> \E p \in Proc : InCommit(p)
  /\ committing => outstanding = 0 /\ \A p \in Proc : ~InOp(p)

(* The header lists a block once (log absorption), and the list fits the   *)
(* log area: block log.start+n is inside it.  The reservation of begin_op  *)
(* has to make up for the test of log_write being made without log.lock.   *)
LogFits ==
  /\ Len(lh) <= NLOG - 1
  /\ \A i, j \in 1 .. Len(lh) : lh[i] = lh[j] => i = j

(* No FS system call runs out of the log space that begin_op reserved for  *)
(* it.                                                                     *)
NoPanic == mode # "panic"

(* A dirty buffer is pinned until its block is installed: B_DIRTY covers   *)
(* every logged block that the disk does not have yet, so bget can never   *)
(* recycle the only copy of an update.                                     *)
PinnedUntilInstalled ==
  mode = "up" =>
    \A b \in Block : cache[b] \notin {NoVal, home[b]} =>
        b \in dirty \/ owner[b] # NoProc
-----------------------------------------------------------------------------
\* What a reboot would find once recovery has installed the log.
Recovered ==
  [b \in Block |-> IF \E i \in 1 .. Len(head) : head[i] = b
                   THEN slot[CHOOSE i \in 1 .. Len(head) : head[i] = b]
                   ELSE home[b]]

\* What the file system reads; until recovery is over it cannot read anything.
View == IF mode \in {"read_head", "recover"} THEN Recovered
        ELSE [b \in Block |-> Bread(b)]

Disk == INSTANCE AtomicDisk WITH
          durable <- Recovered,
          view    <- View,
          active  <- {p \in Proc : InOp(p)}

(* Crash atomicity: through the buffer cache and across crashes at any     *)
(* point, those of recovery included, log.c behaves like a disk on which   *)
(* whole transactions appear at once, made of finished system calls only.  *)
CrashAtomic == Disk!Spec

(* Once a transaction has ended (nothing in progress, no commit running)   *)
(* all its updates are durable.                                            *)
DurableWhenIdle ==
  mode = "up" /\ outstanding = 0 /\ ~committing => Recovered = View

(* No wakeup is lost: a process asleep in begin_op is woken again, either  *)
(* by a system call that ends or by the end of a commit.                   *)
SleepersWake == \A p \in Proc : pc[p] = "asleep" ~> pc[p] # "asleep"
=============================================================================
