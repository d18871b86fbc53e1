-------------------------------- MODULE Proc --------------------------------
(***************************************************************************)
(* The process table of proc.c: the per-CPU schedulers, swtch with         *)
(* ptable.lock handed across it, sleep and wakeup, fork, exit, wait, kill  *)
(* and nice.                                                               *)
(*                                                                         *)
(* A stretch of code that runs under ptable.lock without switching stacks  *)
(* is one action, except that setting p->state and the swtch after it are  *)
(* two: in between, a process is no longer RUNNING but still on its CPU    *)
(* and on its kernel stack, and only the lock protects it.  nice and the   *)
(* failure paths of fork do not take the lock and are actions of their     *)
(* own.                                                                    *)
(***************************************************************************)
EXTENDS Integers

CONSTANTS
  NPROC,         \* size of ptable.proc
  CPU,           \* the processors
  NoCpu,         \* "nobody holds ptable.lock"
  Chan,          \* sleep channels other than the processes themselves
  MAXPID,        \* bound: no fork once nextpid has passed it
  KillPid,       \* arguments given to kill
  NicePid,       \* what sys_nice may take for a pid ...
  NicePrio,      \* ... and for a priority; empty if nobody calls nice
  NiceMayFault   \* whether sys_nice's stray pointer may point nowhere

Slot == 1 .. NPROC

ASSUME SlotAssumption == NPROC \in Nat \ {0}
ASSUME CpuAssumption == NoCpu \notin CPU
ASSUME ChanAssumption == Chan \cap (0 .. NPROC) = {}
ASSUME PidAssumption ==
  MAXPID \in Nat /\ KillPid \subseteq Nat /\ NicePid \subseteq Nat /\ NicePrio \subseteq Int

VARIABLES
  state, pid, parent, chan, killed, priority,  \* fields of struct proc
  kstack,    \* whether p->kstack points to a page
  pc,        \* what the process's kernel thread does when it runs
  sw,        \* the function it called sched() from and has not returned from
  np,        \* the child it is making, in fork
  nextpid,
  proc,      \* c->proc, 0 if null
  at,        \* the CPU: top of scheduler()'s loop, its scan, a process, or panic
  idx,       \* the scan's position
  low,       \* the scheduler's local lowestPriority
  lock       \* the CPU that holds ptable.lock

pVars == <<state, pid, parent, chan, killed, priority, kstack>>
tVars == <<pc, sw, np, nextpid>>
cVars == <<proc, at, idx, low, lock>>
vars  == <<pVars, tVars, cVars>>

MAXPRIO == 2004318071                  \* 0x77777777
Init1 == 1                             \* initproc: userinit finds the first slot

PC == {"user", "sys", "alloc", "copy", "ready", "slp", "exit", "wait", "forkret"}

Set(f, p, x) == [f EXCEPT ![p] = x]

\* wakeup1(ch), in a table st: the states after it.
wakeup1(ch, st) ==
  [q \in Slot |-> IF st[q] = "SLEEPING" /\ chan[q] = ch THEN "RUNNABLE" ELSE st[q]]

\* CPU c executes process p, at loc, outside sched().
Exec(c, p, loc) ==
  /\ at[c] = "run" /\ proc[c] = p /\ p \in Slot
  /\ state[p] = "RUNNING" /\ sw[p] = "no" /\ pc[p] = loc

Acquired(c) == lock = NoCpu /\ lock' = c
Within == lock = NoCpu /\ lock' = lock      \* acquires and releases
Released == lock' = NoCpu
-----------------------------------------------------------------------------
\* After userinit: the first process is about to run; every CPU schedules.
Init ==
  /\ state = [p \in Slot |-> IF p = Init1 THEN "RUNNABLE" ELSE "UNUSED"]
  /\ pid = [p \in Slot |-> IF p = Init1 THEN 1 ELSE 0]
  /\ parent = [p \in Slot |-> 0]
  /\ chan = [p \in Slot |-> 0]
  /\ killed = [p \in Slot |-> FALSE]
  /\ priority = [p \in Slot |-> 0]
  /\ kstack = [p \in Slot |-> p = Init1]
  /\ pc = [p \in Slot |-> "forkret"]
  /\ sw = [p \in Slot |-> "no"]
  /\ np = [p \in Slot |-> 0]
  /\ nextpid = 2
  /\ proc = [c \in CPU |-> 0]
  /\ at = [c \in CPU |-> "loop"]
  /\ idx = [c \in CPU |-> 1]
  /\ low = [c \in CPU |-> MAXPRIO]
  /\ lock = NoCpu
-----------------------------------------------------------------------------
(* scheduler() *)

scheduler_acquire(c) ==
  /\ at[c] = "loop"
  /\ Acquired(c)
  /\ at' = Set(at, c, "scan")
  /\ idx' = Set(idx, c, 1)
  /\ UNCHANGED <<pVars, tVars, proc, low>>

\* Mutant: a process as urgent as the last one is passed over.
Skips_equal(c, p) == state[p] # "RUNNABLE" \/ priority[p] >= low[c]

Skips(c, p) == state[p] # "RUNNABLE" \/ priority[p] > low[c]

scheduler_skip(c) ==
  /\ at[c] = "scan" /\ idx[c] \in Slot
  /\ Skips(c, idx[c])
  /\ idx' = Set(idx, c, idx[c] + 1)
  /\ UNCHANGED <<pVars, tVars, proc, at, low, lock>>

\* The process resumes in forkret, yield or sleep, with the lock held.
scheduler_run(c) ==
  /\ at[c] = "scan" /\ idx[c] \in Slot
  /\ ~Skips(c, idx[c])
  /\ low' = Set(low, c, priority[idx[c]])
  /\ proc' = Set(proc, c, idx[c])
  /\ state' = Set(state, idx[c], "RUNNING")
  /\ at' = Set(at, c, "run")
  /\ UNCHANGED <<pid, parent, chan, killed, priority, kstack, tVars, idx, lock>>

scheduler_release(c) ==
  /\ at[c] = "scan" /\ idx[c] \notin Slot
  /\ Released
  /\ at' = Set(at, c, "loop")
  /\ UNCHANGED <<pVars, tVars, proc, idx, low>>

\* sched(): swtch to the scheduler of this CPU, which goes on with its scan.
sched(c) ==
  /\ at[c] = "run" /\ lock = c
  /\ state[proc[c]] # "RUNNING"
  /\ proc' = Set(proc, c, 0)
  /\ at' = Set(at, c, "scan")
  /\ idx' = Set(idx, c, idx[c] + 1)
  /\ UNCHANGED <<pVars, tVars, low, lock>>

Resumed(c, p) == at[c] = "run" /\ lock = c /\ proc[c] = p /\ state[p] = "RUNNING"

forkret(c) == \E p \in Slot :
  /\ Resumed(c, p)
  /\ pc[p] = "forkret"
  /\ pc' = Set(pc, p, "user")
  /\ Released
  /\ UNCHANGED <<pVars, sw, np, nextpid, proc, at, idx, low>>

\* Mutant: the lock is released before sched().
yield_unlocked(c) == \E p \in Slot :
  /\ Exec(c, p, "user")
  /\ Within
  /\ state' = Set(state, p, "RUNNABLE")
  /\ sw' = Set(sw, p, "yield")
  /\ UNCHANGED <<pid, parent, chan, killed, priority, kstack, pc, np, nextpid,
                 proc, at, idx, low>>

\* yield(), when the timer interrupts; anywhere outside a spin-lock.
yield(c) == \E p \in Slot :
  /\ \E loc \in {"user", "sys", "alloc", "copy", "ready", "exit"} : Exec(c, p, loc)
  /\ Acquired(c)
  /\ state' = Set(state, p, "RUNNABLE")
  /\ sw' = Set(sw, p, "yield")
  /\ UNCHANGED <<pid, parent, chan, killed, priority, kstack, pc, np, nextpid,
                 proc, at, idx, low>>

yield_return(c) == \E p \in Slot :
  /\ Resumed(c, p)
  /\ sw[p] = "yield"
  /\ sw' = Set(sw, p, "no")
  /\ Released
  /\ UNCHANGED <<pVars, pc, np, nextpid, proc, at, idx, low>>
-----------------------------------------------------------------------------
(* trap(), on a system call, and sleep() and wakeup() *)

\* A killed process does not enter, but may be killed once inside.
syscall(c) == \E p \in Slot :
  /\ Exec(c, p, "user")
  /\ ~killed[p]
  /\ pc' = Set(pc, p, "sys")
  /\ UNCHANGED <<pVars, sw, np, nextpid, cVars>>

\* A call that leaves the process table alone, or a sleeping one that is done.
syscall_return(c) == \E p \in Slot :
  /\ Exec(c, p, "sys")
  /\ pc' = Set(pc, p, "user")
  /\ UNCHANGED <<pVars, sw, np, nextpid, cVars>>

\* The loops around sleep in sys_sleep, piperead, pipewrite and consoleread test
\* p->killed first; the spin-lock they hold keeps the timer out until they sleep.
\* init calls none of them once it has opened the console.
test_killed(c) == \E p \in Slot \ {Init1} :
  /\ Exec(c, p, "sys")
  /\ ~killed[p]
  /\ pc' = Set(pc, p, "slp")
  /\ UNCHANGED <<pVars, sw, np, nextpid, cVars>>

\* sleep(ch, lk) from such a loop, or from begin_op, acquiresleep and iderw, which
\* do not test p->killed; exit gets there too, when it closes files.
sleep(c) == \E p \in Slot \ {Init1}, ch \in Chan :
  /\ \E loc \in {"slp", "sys", "exit"} : Exec(c, p, loc)
  /\ Acquired(c)
  /\ chan' = Set(chan, p, ch)
  /\ state' = Set(state, p, "SLEEPING")
  /\ sw' = Set(sw, p, "sleep")
  /\ UNCHANGED <<pid, parent, killed, priority, kstack, pc, np, nextpid,
                 proc, at, idx, low>>

\* The end of sleep(): the lock is kept if it is the one sleep was given.
sleep_return(c) == \E p \in Slot :
  /\ Resumed(c, p)
  /\ sw[p] = "sleep"
  /\ sw' = Set(sw, p, "no")
  /\ chan' = Set(chan, p, 0)
  /\ pc' = IF pc[p] = "slp" THEN Set(pc, p, "sys") ELSE pc
  /\ lock' = IF pc[p] = "wait" THEN c ELSE NoCpu
  /\ UNCHANGED <<state, pid, parent, killed, priority, kstack, np, nextpid,
                 proc, at, idx, low>>

\* wakeup(ch), by an interrupt handler or another process.
wakeup(ch) ==
  /\ Within
  /\ \E q \in Slot : state[q] = "SLEEPING" /\ chan[q] = ch
  /\ state' = wakeup1(ch, state)
  /\ UNCHANGED <<pid, parent, chan, killed, priority, kstack, tVars,
                 proc, at, idx, low>>
-----------------------------------------------------------------------------
(* fork(): allocproc, then the copy, then the child is made RUNNABLE.       *)

Unused == {q \in Slot : state[q] = "UNUSED"}

First(S) == CHOOSE q \in S : \A r \in S : q <= r


\* The loop clears the priority of every slot it passes.
allocproc(c) == \E p \in Slot :
  /\ Exec(c, p, "sys")
  /\ Within
  /\ Unused # {} /\ nextpid <= MAXPID
  /\ priority' = [q \in Slot |-> IF q <= First(Unused) THEN 0 ELSE priority[q]]
  /\ state' = Set(state, First(Unused), "EMBRYO")
  /\ pid' = Set(pid, First(Unused), nextpid)
  /\ nextpid' = nextpid + 1
  /\ np' = Set(np, p, First(Unused))
  /\ pc' = Set(pc, p, "alloc")
  /\ UNCHANGED <<parent, chan, killed, kstack, sw, proc, at, idx, low>>

\* No free slot: fork returns -1.
allocproc_full(c) == \E p \in Slot :
  /\ Exec(c, p, "sys")
  /\ Within
  /\ Unused = {}
  /\ priority' = [q \in Slot |-> 0]
  /\ pc' = Set(pc, p, "user")
  /\ UNCHANGED <<state, pid, parent, chan, killed, kstack, sw, np, nextpid, proc, at, idx, low>>

allocproc_stack(c) == \E p \in Slot :
  /\ Exec(c, p, "alloc")
  /\ kstack' = Set(kstack, np[p], TRUE)
  /\ pc' = [pc EXCEPT ![p] = "copy", ![np[p]] = "forkret"]
  /\ UNCHANGED <<state, pid, parent, chan, killed, priority, sw, np, nextpid, cVars>>

\* kalloc or copyuvm fails; the slot keeps its pid, and no lock is held.
fork_fail(c) == \E p \in Slot :
  /\ Exec(c, p, "alloc") \/ Exec(c, p, "copy")
  /\ kstack' = Set(kstack, np[p], FALSE)
  /\ state' = Set(state, np[p], "UNUSED")
  /\ pc' = Set(pc, p, "user")
  /\ np' = Set(np, p, 0)
  /\ UNCHANGED <<pid, parent, chan, killed, priority, sw, nextpid, cVars>>

fork_copy(c) == \E p \in Slot :
  /\ Exec(c, p, "copy")
  /\ parent' = Set(parent, np[p], p)
  /\ pc' = Set(pc, p, "ready")
  /\ UNCHANGED <<state, pid, chan, killed, priority, kstack, sw, np, nextpid, cVars>>

fork_ready(c) == \E p \in Slot :
  /\ Exec(c, p, "ready")
  /\ Within
  /\ state' = Set(state, np[p], "RUNNABLE")
  /\ pc' = Set(pc, p, "user")
  /\ np' = Set(np, p, 0)
  /\ UNCHANGED <<pid, parent, chan, killed, priority, kstack, sw, nextpid,
                 proc, at, idx, low>>
-----------------------------------------------------------------------------
(* exit() and wait() *)

\* exit(), called or forced by trap() on a killed process: first the files.
exit_begin(c) == \E p \in Slot \ {Init1} :
  /\ Exec(c, p, "sys") \/ (Exec(c, p, "user") /\ killed[p])
  /\ pc' = Set(pc, p, "exit")
  /\ UNCHANGED <<pVars, sw, np, nextpid, cVars>>

\* panic("init exiting"): this CPU stops.
exit_panic(c) ==
  /\ Exec(c, Init1, "user")
  /\ killed[Init1]
  /\ at' = Set(at, c, "panic")
  /\ UNCHANGED <<pVars, tVars, proc, idx, low, lock>>

Adopts(p) == \E q \in Slot : parent[q] = p /\ state[q] = "ZOMBIE"

\* Mutant: ptable.lock is released before sched().
exit_unlocked(c) == \E p \in Slot :
  /\ Exec(c, p, "exit")
  /\ Within
  /\ LET st == wakeup1(parent[p], state)
     IN  state' = Set(IF Adopts(p) THEN wakeup1(Init1, st) ELSE st, p, "ZOMBIE")
  /\ parent' = [q \in Slot |-> IF parent[q] = p THEN Init1 ELSE parent[q]]
  /\ sw' = Set(sw, p, "exit")
  /\ UNCHANGED <<pid, chan, killed, priority, kstack, pc, np, nextpid,
                 proc, at, idx, low>>

\* Mutant: the parent is not woken.
exit_silent(c) == \E p \in Slot :
  /\ Exec(c, p, "exit")
  /\ Acquired(c)
  /\ state' = Set(state, p, "ZOMBIE")
  /\ parent' = [q \in Slot |-> IF parent[q] = p THEN Init1 ELSE parent[q]]
  /\ sw' = Set(sw, p, "exit")
  /\ UNCHANGED <<pid, chan, killed, priority, kstack, pc, np, nextpid,
                 proc, at, idx, low>>

exit(c) == \E p \in Slot :
  /\ Exec(c, p, "exit")
  /\ Acquired(c)
  /\ LET st == wakeup1(parent[p], state)
     IN  state' = Set(IF Adopts(p) THEN wakeup1(Init1, st) ELSE st, p, "ZOMBIE")
  /\ parent' = [q \in Slot |-> IF parent[q] = p THEN Init1 ELSE parent[q]]
  /\ sw' = Set(sw, p, "exit")
  /\ UNCHANGED <<pid, chan, killed, priority, kstack, pc, np, nextpid,
                 proc, at, idx, low>>

wait(c) == \E p \in Slot :
  /\ Exec(c, p, "sys")
  /\ Acquired(c)
  /\ pc' = Set(pc, p, "wait")
  /\ UNCHANGED <<pVars, sw, np, nextpid, proc, at, idx, low>>

Children(p) == {q \in Slot : parent[q] = p}

Zombies(p) == {q \in Children(p) : state[q] = "ZOMBIE"}

wait_reap(c) == \E p \in Slot :
  /\ Exec(c, p, "wait")
  /\ Zombies(p) # {}
  /\ LET z == First(Zombies(p))
     IN  /\ kstack' = Set(kstack, z, FALSE)
         /\ pid' = Set(pid, z, 0)
         /\ parent' = Set(parent, z, 0)
         /\ killed' = Set(killed, z, FALSE)
         /\ state' = Set(state, z, "UNUSED")
         /\ sw' = Set(sw, z, "no")
  /\ pc' = Set(pc, p, "user")
  /\ Released
  /\ UNCHANGED <<chan, priority, np, nextpid, proc, at, idx, low>>

\* wait() returns -1.
wait_none(c) == \E p \in Slot :
  /\ Exec(c, p, "wait")
  /\ Zombies(p) = {} /\ (Children(p) = {} \/ killed[p])
  /\ pc' = Set(pc, p, "user")
  /\ Released
  /\ UNCHANGED <<pVars, sw, np, nextpid, proc, at, idx, low>>

\* sleep(curproc, &ptable.lock)
wait_sleep(c) == \E p \in Slot :
  /\ Exec(c, p, "wait")
  /\ Zombies(p) = {} /\ Children(p) # {} /\ ~killed[p]
  /\ chan' = Set(chan, p, p)
  /\ state' = Set(state, p, "SLEEPING")
  /\ sw' = Set(sw, p, "sleep")
  /\ UNCHANGED <<pid, parent, killed, priority, kstack, pc, np, nextpid, cVars>>
-----------------------------------------------------------------------------
(* kill() and nice() *)

\* Mutant: the process is made RUNNABLE though it has exited.
kill_zombie(c, k) == \E p \in Slot :
  /\ Exec(c, p, "sys")
  /\ Within
  /\ \E q \in Slot : pid[q] = k
  /\ LET q == First({r \in Slot : pid[r] = k})
     IN  killed' = Set(killed, q, TRUE) /\ state' =
           IF state[q] \in {"SLEEPING", "ZOMBIE"} THEN Set(state, q, "RUNNABLE") ELSE state
  /\ pc' = Set(pc, p, "user")
  /\ UNCHANGED <<pid, parent, chan, priority, kstack, sw, np, nextpid, proc, at, idx, low>>

\* kill(k) takes the first slot with that pid, whatever its state.
kill(c, k) == \E p \in Slot :
  /\ Exec(c, p, "sys")
  /\ Within
  /\ \E q \in Slot : pid[q] = k
  /\ LET q == First({r \in Slot : pid[r] = k})
     IN  /\ killed' = Set(killed, q, TRUE)
         /\ state' = IF state[q] = "SLEEPING" THEN Set(state, q, "RUNNABLE") ELSE state
  /\ pc' = Set(pc, p, "user")
  /\ UNCHANGED <<pid, parent, chan, priority, kstack, sw, np, nextpid, proc, at, idx, low>>

\* A trap in user space that the kernel does not expect: the process is killed.
trap_fault(c) == \E p \in Slot \ {Init1} :
  /\ Exec(c, p, "user")
  /\ killed' = Set(killed, p, TRUE)
  /\ UNCHANGED <<state, pid, parent, chan, priority, kstack, tVars, cVars>>

\* sys_nice declares a parameter that syscall() does not pass: it reads a pid and
\* a priority through whatever the stack holds.  proc_nice takes no lock.
nice(c, k, prio) == \E p \in Slot :
  /\ Exec(c, p, "sys")
  /\ priority' = [q \in Slot |-> IF pid[q] = k THEN prio ELSE priority[q]]
  /\ pc' = Set(pc, p, "user")
  /\ UNCHANGED <<state, pid, parent, chan, killed, kstack, sw, np, nextpid, cVars>>

\* ... and if that points nowhere, trap() panics.
nice_fault(c) == \E p \in Slot :
  /\ NiceMayFault
  /\ Exec(c, p, "sys")
  /\ at' = Set(at, c, "panic")
  /\ UNCHANGED <<pVars, tVars, proc, idx, low, lock>>
-----------------------------------------------------------------------------
\* What a CPU does of itself: schedule, switch, finish what it does under a lock.
Kernel(c) ==
  \/ scheduler_acquire(c) \/ scheduler_skip(c) \/ scheduler_run(c) \/ scheduler_release(c)
  \/ sched(c) \/ forkret(c) \/ yield(c) \/ yield_return(c)
  \/ sleep(c) \/ sleep_return(c)
  \/ exit(c) \/ wait_reap(c) \/ wait_none(c) \/ wait_sleep(c)

\* The rest of a fork that has its slot.
Fork(c) == allocproc_stack(c) \/ fork_fail(c) \/ fork_copy(c) \/ fork_ready(c)

\* What the processes ask for.
Call(c) ==
  \/ syscall(c) \/ syscall_return(c) \/ test_killed(c) \/ wait(c) \/ exit_begin(c) \/ exit_panic(c)
  \/ allocproc(c) \/ allocproc_full(c) \/ Fork(c)
  \/ \E k \in KillPid : kill(c, k)
  \/ trap_fault(c)
  \/ \E k \in NicePid, prio \in NicePrio : nice(c, k, prio)
  \/ nice_fault(c)

Next ==
  \/ \E c \in CPU : Kernel(c) \/ Call(c)
  \/ \E ch \in Chan : wakeup(ch)

Spec == Init /\ [][Next]_vars

\* A CPU keeps executing; a timer interrupt that came while interrupts were off is
\* pending until they are on.  init.c calls wait in a loop for ever, and executes
\* some instructions whenever it runs.
Fairness ==
  /\ \A c \in CPU : WF_vars(Kernel(c)) /\ SF_vars(yield(c))
  /\ SF_vars(\E c \in CPU : proc[c] = Init1 /\ (syscall(c) \/ Fork(c)))
  /\ SF_vars(\E c \in CPU : proc[c] = Init1 /\ wait(c))

FairSpec == Spec /\ Fairness
-----------------------------------------------------------------------------
State == {"UNUSED", "EMBRYO", "SLEEPING", "RUNNABLE", "RUNNING", "ZOMBIE"}

TypeOK ==
  /\ state \in [Slot -> State]
  /\ pid \in [Slot -> Nat]
  /\ parent \in [Slot -> 0 .. NPROC]
  /\ chan \in [Slot -> Chan \cup (0 .. NPROC)]
  /\ killed \in [Slot -> BOOLEAN]
  /\ priority \in [Slot -> Int]
  /\ kstack \in [Slot -> BOOLEAN]
  /\ pc \in [Slot -> PC]
  /\ sw \in [Slot -> {"no", "yield", "sleep", "exit"}]
  /\ np \in [Slot -> 0 .. NPROC]
  /\ nextpid \in Nat
  /\ proc \in [CPU -> 0 .. NPROC]
  /\ at \in [CPU -> {"loop", "scan", "run", "panic"}]
  /\ idx \in [CPU -> 1 .. NPROC + 1]
  /\ low \in [CPU -> Int]
  /\ lock \in CPU \cup {NoCpu}

(* A process runs on one CPU at most, although a process that has made     *)
(* itself RUNNABLE in yield is still on its CPU, where another scheduler   *)
(* could find it.                                                          *)
OneCpuPerProcess ==
  \A c, d \in CPU : proc[c] = proc[d] /\ proc[c] # 0 => c = d

(* The table tells the truth: a RUNNING process is on a CPU, and a process *)
(* on a CPU is RUNNING unless that CPU holds ptable.lock to switch away    *)
(* from it.                                                                *)
RunningIsOnCpu ==
  /\ \A p \in Slot : state[p] = "RUNNING" => \E c \in CPU : proc[c] = p
  /\ \A c \in CPU : proc[c] # 0 /\ lock # c => state[proc[c]] = "RUNNING"

(* No kernel stack is freed under a running thread: exit() makes itself a  *)
(* ZOMBIE while it still runs on the stack that wait() frees, and fork's   *)
(* failure path frees a stack without the lock.                            *)
StackInUse ==
  /\ \A c \in CPU : proc[c] # 0 => kstack[proc[c]]
  /\ \A p \in Slot : state[p] \in {"RUNNABLE", "RUNNING", "SLEEPING", "ZOMBIE"} => kstack[p]

(* Every process but init has a parent that can still wait for it: an      *)
(* exiting process leaves no child behind.                                 *)
ParentIsAlive ==
  \A p \in Slot \ {Init1} :
    state[p] \in {"RUNNABLE", "RUNNING", "SLEEPING", "ZOMBIE"} =>
      parent[p] # 0 /\ state[parent[p]] \in {"RUNNABLE", "RUNNING", "SLEEPING"}

(* No exit and no kill is missed by wait(): a process asleep in wait has   *)
(* no dead child to reap, and has not been killed.                         *)
WaiterMissesNothing ==
  \A p \in Slot : state[p] = "SLEEPING" /\ pc[p] = "wait" =>
    Zombies(p) = {} /\ ~killed[p] /\ Children(p) # {}

(* kill and wait name a process by its pid: no two processes share one.    *)
PidsDiffer ==
  \A p, q \in Slot : state[p] # "UNUSED" /\ state[q] # "UNUSED" /\ pid[p] = pid[q] => p = q

(* A slot under construction belongs to one fork: nobody else takes it or  *)
(* runs it, though fork works on it without the lock.                      *)
EmbryoHasOneMaker ==
  /\ \A p \in Slot : state[p] = "EMBRYO" => \E q \in Slot : np[q] = p
  /\ \A p \in Slot : np[p] # 0 => state[np[p]] = "EMBRYO"
  /\ \A p, q \in Slot : np[p] = np[q] /\ np[p] # 0 => p = q

(* A dead process stays dead until it is reaped: no wakeup and no kill     *)
(* brings a ZOMBIE back, and only its parent's wait ends it.               *)
ZombieOnlyReaped ==
  [][\A p \in Slot : state[p] = "ZOMBIE" /\ state'[p] # "ZOMBIE" =>
        /\ state'[p] = "UNUSED"
        /\ \E c \in CPU : proc[c] = parent[p] /\ lock = c]_vars

(* A panic leaves the other CPUs running: the one that stops never holds   *)
(* ptable.lock, although nice reads through a stray pointer.               *)
PanicHoldsNoLock == \A c \in CPU : at[c] = "panic" => lock # c

(* Without nice, the scheduler is fair: a RUNNABLE process gets to run.    *)
RunnableRuns == \A p \in Slot : state[p] = "RUNNABLE" ~> state[p] = "RUNNING"

(* Orphans are reaped: a dead child of init is cleaned up.                 *)
OrphansReaped ==
  \A p \in Slot : state[p] = "ZOMBIE" /\ parent[p] = Init1 ~> state[p] = "UNUSED"

(* "Give up the CPU for one scheduling round" (yield): a process that has  *)
(* yielded runs again.                                                     *)
YieldReturns ==
  \A p \in Slot : state[p] = "RUNNABLE" /\ sw[p] = "yield" ~> state[p] = "RUNNING"

(* The table and the CPUs agree at every step of the hand-over of          *)
(* ptable.lock through swtch: no process is on two CPUs, a RUNNING one is  *)
(* on one, and a CPU that panics in nice stops without the lock.           *)
TableMatchesCpus == TypeOK /\ OneCpuPerProcess /\ RunningIsOnCpu /\ PanicHoldsNoLock

(* exit and wait agree about the family: no child is left to a parent that *)
(* is gone, and no wait sleeps through an exit or a kill.                  *)
FamilyIntact == ParentIsAlive /\ WaiterMissesNothing

=============================================================================
