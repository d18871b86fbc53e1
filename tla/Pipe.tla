-------------------------------- MODULE Pipe --------------------------------
(***************************************************************************)
(* A pipe (pipe.c) and the processes that share its two ends: the ring,    *)
(* its two wrapping counters, sleep and wakeup on a full or an empty ring, *)
(* kill, and the close that frees the page.                                *)
(*                                                                         *)
(* An iteration of a loop under p->lock is one action; sleep releases the  *)
(* lock, and a woken process takes it again before it goes on.             *)
(***************************************************************************)
EXTENDS Integers, Sequences

CONSTANTS
  Proc, NoProc,     \* processes; "nobody holds p->lock"
  Readers, Writers, \* which of them have the read and the write end
  Val,              \* bytes
  PIPESIZE,
  WRAP,             \* 2^32, the range of the uint counters
  MAXN              \* bound: bytes asked for in one call

ASSUME EndsAssumption == NoProc \notin Proc /\ Readers \subseteq Proc /\ Writers \subseteq Proc
ASSUME SizeAssumption ==
  /\ PIPESIZE \in Nat \ {0} /\ WRAP \in Nat /\ MAXN \in Nat
  /\ WRAP > PIPESIZE /\ WRAP % PIPESIZE = 0

VARIABLES
  data, nread, nwrite, readopen, writeopen, lock,  \* struct pipe
  freed,       \* whether its page has been given back
  rd, wr,      \* who still has the read and the write end open
  killed,      \* p->killed
  pc, n, i,    \* where each process is in piperead or pipewrite; n and i there
  addr,        \* what its current read has copied out
  res          \* how its last call ended

pipeVars == <<data, nread, nwrite, readopen, writeopen, freed>>
endVars  == <<rd, wr, killed>>
callVars == <<pc, n, i, addr, res>>
vars     == <<pipeVars, lock, endVars, callVars>>

Full  == nwrite = (nread + PIPESIZE) % WRAP
Empty == nread = nwrite

Set(f, p, x) == [f EXCEPT ![p] = x]

\* wakeup on one of the two channels, then process p goes to loc.
WakeAndGo(asleep, woken, p, loc) ==
  pc' = [r \in Proc |-> IF r = p THEN loc ELSE IF pc[r] = asleep THEN woken ELSE pc[r]]

\* The call returns r, and its locals are gone.
Return(p, r) ==
  /\ lock' = NoProc
  /\ res' = Set(res, p, r)
  /\ n' = Set(n, p, 0) /\ i' = Set(i, p, 0) /\ addr' = Set(addr, p, <<>>)

\* pipealloc: kalloc does not clear the page.
Init ==
  /\ data \in [0 .. PIPESIZE - 1 -> Val]
  /\ nread = 0 /\ nwrite = 0
  /\ readopen = TRUE /\ writeopen = TRUE /\ freed = FALSE
  /\ lock = NoProc
  /\ rd = Readers /\ wr = Writers
  /\ killed = [p \in Proc |-> FALSE]
  /\ pc = [p \in Proc |-> "idle"]
  /\ n = [p \in Proc |-> 0] /\ i = [p \in Proc |-> 0]
  /\ addr = [p \in Proc |-> <<>>]
  /\ res = [p \in Proc |-> "ok"]
-----------------------------------------------------------------------------
\* Entry of pipewrite and of piperead, through an end the process has open.
Enter(p, ends, loc) ==
  /\ pc[p] = "idle" /\ p \in ends
  /\ lock = NoProc /\ lock' = p
  /\ \E k \in 0 .. MAXN : n' = Set(n, p, k)
  /\ res' = Set(res, p, "busy")
  /\ pc' = Set(pc, p, loc)
  /\ UNCHANGED <<pipeVars, endVars, i, addr>>

pipewrite(p) == Enter(p, wr, "write")
piperead(p)  == Enter(p, rd, "read")

\* Mutant: a full ring takes one more byte.
pipewrite_byte_overrun(p) ==
  /\ pc[p] = "write" /\ i[p] < n[p]
  /\ nwrite # (nread + PIPESIZE + 1) % WRAP
  /\ \E v \in Val : data' = Set(data, nwrite % PIPESIZE, v)
  /\ nwrite' = (nwrite + 1) % WRAP
  /\ i' = Set(i, p, i[p] + 1)
  /\ UNCHANGED <<nread, readopen, writeopen, freed, lock, endVars, pc, n, addr, res>>

pipewrite_byte(p) ==
  /\ pc[p] = "write" /\ i[p] < n[p]
  /\ ~Full
  /\ \E v \in Val : data' = Set(data, nwrite % PIPESIZE, v)
  /\ nwrite' = (nwrite + 1) % WRAP
  /\ i' = Set(i, p, i[p] + 1)
  /\ UNCHANGED <<nread, readopen, writeopen, freed, lock, endVars, pc, n, addr, res>>

pipewrite_fail(p) ==
  /\ pc[p] = "write" /\ i[p] < n[p]
  /\ Full /\ (~readopen \/ killed[p])
  /\ pc' = Set(pc, p, "idle")
  /\ Return(p, "err")
  /\ UNCHANGED <<pipeVars, endVars>>

\* Mutant: a writer that waits does not wake the readers first.
pipewrite_full_silent(p) ==
  /\ pc[p] = "write" /\ i[p] < n[p]
  /\ Full /\ readopen /\ ~killed[p]
  /\ pc' = Set(pc, p, "wslp")
  /\ UNCHANGED <<pipeVars, lock, endVars, n, i, addr, res>>

pipewrite_full(p) ==
  /\ pc[p] = "write" /\ i[p] < n[p]
  /\ Full /\ readopen /\ ~killed[p]
  /\ WakeAndGo("rsleep", "rwoken", p, "wslp")
  /\ UNCHANGED <<pipeVars, lock, endVars, n, i, addr, res>>

pipewrite_done(p) ==
  /\ pc[p] = "write" /\ i[p] = n[p]
  /\ WakeAndGo("rsleep", "rwoken", p, "idle")
  /\ Return(p, "ok")
  /\ UNCHANGED <<pipeVars, endVars>>
-----------------------------------------------------------------------------
piperead_fail(p) ==
  /\ pc[p] = "read"
  /\ Empty /\ writeopen /\ killed[p]
  /\ pc' = Set(pc, p, "idle")
  /\ Return(p, "err")
  /\ UNCHANGED <<pipeVars, endVars>>

piperead_empty(p) ==
  /\ pc[p] = "read"
  /\ Empty /\ writeopen /\ ~killed[p]
  /\ pc' = Set(pc, p, "rslp")
  /\ UNCHANGED <<pipeVars, lock, endVars, n, i, addr, res>>

piperead_copy(p) ==
  /\ pc[p] = "read"
  /\ ~(Empty /\ writeopen)
  /\ pc' = Set(pc, p, "copy")
  /\ UNCHANGED <<pipeVars, lock, endVars, n, i, addr, res>>

piperead_byte(p) ==
  /\ pc[p] = "copy" /\ i[p] < n[p] /\ ~Empty
  /\ addr' = Set(addr, p, Append(addr[p], data[nread % PIPESIZE]))
  /\ nread' = (nread + 1) % WRAP
  /\ i' = Set(i, p, i[p] + 1)
  /\ UNCHANGED <<data, nwrite, readopen, writeopen, freed, lock, endVars, pc, n, res>>

\* Mutant: the writers are not woken.
piperead_done_silent(p) ==
  /\ pc[p] = "copy" /\ (i[p] = n[p] \/ Empty)
  /\ pc' = Set(pc, p, "idle")
  /\ Return(p, IF i[p] = 0 /\ n[p] > 0 THEN "eof" ELSE "ok")
  /\ UNCHANGED <<pipeVars, endVars>>

\* piperead returns i: zero, when bytes were asked for, is the end of the file.
piperead_done(p) ==
  /\ pc[p] = "copy" /\ (i[p] = n[p] \/ Empty)
  /\ WakeAndGo("wsleep", "wwoken", p, "idle")
  /\ Return(p, IF i[p] = 0 /\ n[p] > 0 THEN "eof" ELSE "ok")
  /\ UNCHANGED <<pipeVars, endVars>>
-----------------------------------------------------------------------------
\* sleep(): the lock is given up in the step that makes the process SLEEPING.
sleep(p) ==
  /\ pc[p] \in {"wslp", "rslp"}
  /\ pc' = Set(pc, p, IF pc[p] = "wslp" THEN "wsleep" ELSE "rsleep")
  /\ lock' = NoProc
  /\ UNCHANGED <<pipeVars, endVars, n, i, addr, res>>

sleep_return(p) ==
  /\ pc[p] \in {"wwoken", "rwoken"}
  /\ lock = NoProc /\ lock' = p
  /\ pc' = Set(pc, p, IF pc[p] = "wwoken" THEN "write" ELSE "read")
  /\ UNCHANGED <<pipeVars, endVars, n, i, addr, res>>

kill(p) ==
  /\ killed' = Set(killed, p, TRUE)
  /\ pc' = Set(pc, p, IF pc[p] = "wsleep" THEN "wwoken"
                      ELSE IF pc[p] = "rsleep" THEN "rwoken" ELSE pc[p])
  /\ UNCHANGED <<pipeVars, lock, rd, wr, n, i, addr, res>>

\* fileclose: only the last reference to an end closes it.
pipeclose_write(p) ==
  /\ pc[p] = "idle" /\ p \in wr
  /\ wr' = wr \ {p}
  /\ IF wr' = {}
     THEN /\ lock = NoProc
          /\ writeopen' = FALSE
          /\ WakeAndGo("rsleep", "rwoken", p, "idle")
          /\ freed' = ~readopen
     ELSE UNCHANGED <<writeopen, pc, freed>>
  /\ UNCHANGED <<data, nread, nwrite, readopen, lock, rd, killed, n, i, addr, res>>

pipeclose_read(p) ==
  /\ pc[p] = "idle" /\ p \in rd
  /\ rd' = rd \ {p}
  /\ IF rd' = {}
     THEN /\ lock = NoProc
          /\ readopen' = FALSE
          /\ WakeAndGo("wsleep", "wwoken", p, "idle")
          /\ freed' = ~writeopen
     ELSE UNCHANGED <<readopen, pc, freed>>
  /\ UNCHANGED <<data, nread, nwrite, writeopen, lock, wr, killed, n, i, addr, res>>
-----------------------------------------------------------------------------
\* What a process does once it is inside a call.
Continue(p) ==
  \/ pipewrite_byte(p) \/ pipewrite_fail(p) \/ pipewrite_full(p) \/ pipewrite_done(p)
  \/ piperead_fail(p) \/ piperead_empty(p) \/ piperead_copy(p)
  \/ piperead_byte(p) \/ piperead_done(p)
  \/ sleep(p) \/ sleep_return(p)

Next == \E p \in Proc :
  \/ Continue(p) \/ pipewrite(p) \/ piperead(p)
  \/ kill(p) \/ pipeclose_write(p) \/ pipeclose_read(p)

Spec == Init /\ [][Next]_vars

\* A process runs, gets a spin-lock it spins for, and in the end closes what it
\* has open, if only by exiting.
Fairness == \A p \in Proc :
  /\ SF_vars(Continue(p))
  /\ SF_vars(pipeclose_write(p))
  /\ SF_vars(pipeclose_read(p))

FairSpec == Spec /\ Fairness
-----------------------------------------------------------------------------
Loc == {"idle", "write", "wslp", "wsleep", "wwoken", "read", "rslp", "rsleep", "rwoken", "copy"}

TypeOK ==
  /\ data \in [0 .. PIPESIZE - 1 -> Val]
  /\ nread \in 0 .. WRAP - 1 /\ nwrite \in 0 .. WRAP - 1
  /\ readopen \in BOOLEAN /\ writeopen \in BOOLEAN /\ freed \in BOOLEAN
  /\ lock \in Proc \cup {NoProc}
  /\ rd \subseteq Proc /\ wr \subseteq Proc
  /\ killed \in [Proc -> BOOLEAN]
  /\ pc \in [Proc -> Loc]
  /\ n \in [Proc -> 0 .. MAXN] /\ i \in [Proc -> 0 .. MAXN]
  /\ res \in [Proc -> {"ok", "err", "eof", "busy"}]

(* No wakeup is lost: whenever nobody is inside the pipe, a sleeping       *)
(* writer waits for room that is not there, and a sleeping reader for      *)
(* bytes that are not there, with the other end open (pipewrite-full,      *)
(* pipe-empty).  The exception is a writer that is killed on a full pipe:  *)
(* it returns without the wakeup of the readers.                           *)
SleepersHaveReason ==
  lock = NoProc => \A p \in Proc :
    /\ pc[p] = "wsleep" => Full /\ readopen
    /\ pc[p] = "rsleep" => writeopen /\ (Empty \/ \E w \in Writers : killed[w])

(* The page is freed only when no process has an end open or is inside     *)
(* piperead or pipewrite, asleep included (pipeclose).                     *)
FreedIsUnused ==
  freed => rd = {} /\ wr = {} /\ \A p \in Proc : pc[p] = "idle"

Unread == [k \in 1 .. (nwrite - nread + WRAP) % WRAP |-> data[(nread + k - 1) % PIPESIZE]]

S == INSTANCE Stream WITH q <- Unread, got <- addr, wopen <- writeopen, SIZE <- PIPESIZE

(* The pipe is a first-in first-out stream of at most PIPESIZE bytes,      *)
(* although its counters wrap around; and piperead returns 0 only at the   *)
(* end of the stream.                                                      *)
IsStream == S!Spec

(* Nobody hangs: as long as processes close what they have open in the     *)
(* end, every pipewrite and piperead returns.                              *)
CallsReturn == \A p \in Proc : pc[p] # "idle" ~> pc[p] = "idle"

(* What holds between the steps of piperead, pipewrite and pipeclose: no   *)
(* wakeup is lost, and the page is not freed while it is in use.           *)
PipeSafe == TypeOK /\ SleepersHaveReason /\ FreedIsUnused
=============================================================================
