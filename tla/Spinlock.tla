------------------------------ MODULE Spinlock ------------------------------
(***************************************************************************)
(* Spin-locks, the nesting of pushcli and popcli, and what a context       *)
(* switch does to them (spinlock.c, sched and scheduler of proc.c).        *)
(*                                                                         *)
(* A kernel thread, or the scheduler thread of a CPU, is a list of         *)
(* micro-operations still to do; acquire and release are three each, so    *)
(* that CPUs interleave inside them, and an interrupt puts its handler in  *)
(* front of the list.  A thread may resume on another CPU.                 *)
(***************************************************************************)
EXTENDS Integers, Sequences, FiniteSets

CONSTANTS Cpu, NoCpu, Thread

Lock == {"ptable", "dev"}   \* ptable.lock; the lock of a device

VARIABLES
  locked, lkcpu,         \* lk->locked and lk->cpu of each lock
  inside,                \* history: the CPUs between acquire and release
  IF_, ncli, intena,     \* of each CPU: interrupts on, and its struct cpu
  run,                   \* the thread each CPU runs, or its own scheduler
  work,                  \* what each thread and scheduler has yet to do
  oops                   \* a panic has been called

spinVars == <<locked, lkcpu, inside, IF_, ncli, intena, run, work, oops>>

Upd(f, x, y) == [f EXCEPT ![x] = y]
Op(name, x) == <<[op |-> name, arg |-> x]>>

acquire(l) == Op("pushcli", l) \o Op("xchg", l) \o Op("setcpu", l)

release(l) == Op("clearcpu", l) \o Op("unlock", l) \o Op("popcli", 0)

\* A device's critical section, with a wakeup inside.
wake == acquire("dev") \o acquire("ptable") \o release("ptable") \o release("dev")

\* sleep(chan, &dev) in a critical section of the device.
sleep_on == acquire("dev") \o acquire("ptable") \o release("dev") \o Op("sched", 0)
              \o release("ptable") \o acquire("dev") \o release("dev")

yield_cpu == acquire("ptable") \o Op("sched", 0) \o release("ptable")

\* One round of the scheduler's loop.
sched_loop == Op("sti", 0) \o acquire("ptable") \o Op("pick", 0) \o release("ptable")

\* A new thread starts in forkret and leaves through trapret, with IF set.
SpinInit ==
  /\ locked = [l \in Lock |-> FALSE] /\ lkcpu = [l \in Lock |-> NoCpu]
  /\ inside = [l \in Lock |-> {}]
  /\ IF_ = [c \in Cpu |-> FALSE] /\ ncli = [c \in Cpu |-> 0] /\ intena = [c \in Cpu |-> FALSE]
  /\ run = [c \in Cpu |-> c]
  /\ work = [e \in Cpu \cup Thread |-> IF e \in Cpu THEN sched_loop
                                       ELSE release("ptable") \o Op("sti", 0)]
  /\ oops = FALSE
-----------------------------------------------------------------------------
\* The next operation of CPU c is op on x; the rest stays to be done.
Does(c, op) == work[run[c]] # <<>> /\ Head(work[run[c]]).op = op
Arg(c) == Head(work[run[c]]).arg
Done(c) == work' = Upd(work, run[c], Tail(work[run[c]]))

panic_if(bad) == oops' = (oops \/ bad)

holding(c, l) == locked[l] /\ lkcpu[l] = c

\* Mutant: interrupts stay on.
pushcli_no_cli(c) ==
  /\ Does(c, "pushcli") /\ Done(c)
  /\ intena' = Upd(intena, c, IF ncli[c] = 0 THEN IF_[c] ELSE intena[c])
  /\ ncli' = Upd(ncli, c, ncli[c] + 1)
  /\ panic_if(holding(c, Arg(c)))
  /\ UNCHANGED <<locked, lkcpu, inside, IF_, run>>

\* pushcli, and acquire's test that the CPU does not hold the lock.
pushcli(c) ==
  /\ Does(c, "pushcli") /\ Done(c)
  /\ IF_' = Upd(IF_, c, FALSE)
  /\ intena' = Upd(intena, c, IF ncli[c] = 0 THEN IF_[c] ELSE intena[c])
  /\ ncli' = Upd(ncli, c, ncli[c] + 1)
  /\ panic_if(holding(c, Arg(c)))
  /\ UNCHANGED <<locked, lkcpu, inside, run>>

xchg(c) ==
  /\ Does(c, "xchg") /\ ~locked[Arg(c)] /\ Done(c)
  /\ locked' = Upd(locked, Arg(c), TRUE)
  /\ UNCHANGED <<lkcpu, inside, IF_, ncli, intena, run, oops>>

setcpu(c) ==
  /\ Does(c, "setcpu") /\ Done(c)
  /\ lkcpu' = Upd(lkcpu, Arg(c), c)
  /\ inside' = Upd(inside, Arg(c), inside[Arg(c)] \cup {c})
  /\ UNCHANGED <<locked, IF_, ncli, intena, run, oops>>

clearcpu(c) ==
  /\ Does(c, "clearcpu") /\ Done(c)
  /\ panic_if(~holding(c, Arg(c)))
  /\ lkcpu' = Upd(lkcpu, Arg(c), NoCpu)
  /\ inside' = Upd(inside, Arg(c), inside[Arg(c)] \ {c})
  /\ UNCHANGED <<locked, IF_, ncli, intena, run>>

unlock(c) ==
  /\ Does(c, "unlock") /\ Done(c)
  /\ locked' = Upd(locked, Arg(c), FALSE)
  /\ UNCHANGED <<lkcpu, inside, IF_, ncli, intena, run, oops>>

popcli(c) ==
  /\ Does(c, "popcli") /\ Done(c)
  /\ panic_if(IF_[c] \/ ncli[c] = 0)
  /\ ncli' = Upd(ncli, c, ncli[c] - 1)
  /\ IF_' = Upd(IF_, c, ncli[c] = 1 /\ intena[c])
  /\ UNCHANGED <<locked, lkcpu, inside, intena, run>>

\* Mutant: intena is not saved with the thread.
sched_bare(c) ==
  /\ Does(c, "sched") /\ Done(c)
  /\ panic_if(~holding(c, "ptable") \/ ncli[c] # 1 \/ IF_[c])
  /\ run' = Upd(run, c, c)
  /\ UNCHANGED <<locked, lkcpu, inside, IF_, ncli, intena>>

\* sched: back to the CPU's scheduler; what comes after swtch, on whatever CPU
\* the thread resumes, is to restore intena.
sched(c) ==
  /\ Does(c, "sched")
  /\ panic_if(~holding(c, "ptable") \/ ncli[c] # 1 \/ IF_[c])
  /\ work' = Upd(work, run[c], Op("restore", intena[c]) \o Tail(work[run[c]]))
  /\ run' = Upd(run, c, c)
  /\ UNCHANGED <<locked, lkcpu, inside, IF_, ncli, intena>>

restore(c) ==
  /\ Does(c, "restore") /\ Done(c)
  /\ intena' = Upd(intena, c, Arg(c))
  /\ UNCHANGED <<locked, lkcpu, inside, IF_, ncli, run, oops>>

\* The scheduler's inner loop: switch to a thread, or come to the end.
pick(c) ==
  /\ Does(c, "pick")
  /\ \/ \E t \in Thread : /\ \A d \in Cpu : run[d] # t
                          /\ run' = Upd(run, c, t) /\ work' = work
     \/ Done(c) /\ run' = run
  /\ UNCHANGED <<locked, lkcpu, inside, IF_, ncli, intena, oops>>

\* sti of the scheduler; iret, which goes back to where interrupts were on.
sti(c) ==
  /\ Does(c, "sti") \/ Does(c, "iret")
  /\ Done(c)
  /\ IF_' = Upd(IF_, c, TRUE)
  /\ UNCHANGED <<locked, lkcpu, inside, ncli, intena, run, oops>>

\* A thread that has nothing to do enters the kernel; the scheduler loops.
begin(c) ==
  /\ work[run[c]] = <<>>
  /\ \E w \in (IF run[c] \in Cpu THEN {sched_loop} ELSE {wake, sleep_on}) :
       work' = Upd(work, run[c], w)
  /\ UNCHANGED <<locked, lkcpu, inside, IF_, ncli, intena, run, oops>>

\* An interrupt gate clears IF.  The clock makes a process yield.
interrupt(c) ==
  /\ IF_[c] /\ IF_' = Upd(IF_, c, FALSE)
  /\ \E h \in {wake} \cup (IF run[c] \in Thread THEN {yield_cpu} ELSE {}) :
       work' = Upd(work, run[c], h \o Op("iret", 0) \o work[run[c]])
  /\ UNCHANGED <<locked, lkcpu, inside, ncli, intena, run, oops>>

SpinStep(c) ==
  \/ pushcli(c) \/ xchg(c) \/ setcpu(c) \/ clearcpu(c) \/ unlock(c) \/ popcli(c)
  \/ sched(c) \/ restore(c) \/ pick(c) \/ sti(c) \/ begin(c) \/ interrupt(c)

SpinNext == ~oops /\ \E c \in Cpu : SpinStep(c)

SpinSpec == SpinInit /\ [][SpinNext]_spinVars
-----------------------------------------------------------------------------
(* acquire and release exclude, also when the lock is handed from a thread *)
(* to a scheduler, and the thread releases it on another CPU.              *)
LocksExclude == \A l \in Lock : Cardinality(inside[l]) <= 1

(* "disable interrupts to avoid deadlock": a CPU that holds a spin-lock,   *)
(* or spins for one, takes no interrupt, so that no handler waits for a    *)
(* lock of the code it has interrupted.                                    *)
NoInterruptInside ==
  \A c \in Cpu : IF_[c] => ncli[c] = 0 /\ \A l \in Lock : c \notin inside[l]

(* The panics of acquire, release, popcli and sched are never reached.     *)
SpinNoPanic == ~oops

(* "intena is a property of this kernel thread, not this CPU": a thread    *)
(* that goes back to its own work has interrupts on, and one that was      *)
(* interrupted is not interrupted again before its handler returns.        *)
InterruptsRestored ==
  \A c \in Cpu :
    /\ run[c] \in Thread /\ work[run[c]] = <<>> => IF_[c]
    /\ (\E i \in DOMAIN work[run[c]] : work[run[c]][i].op = "iret") /\ run[c] \in Thread => ~IF_[c]

(* The CPUs never all spin for one another's locks.                        *)
SomeCpuRuns ==
  \E c \in Cpu : ~(Does(c, "xchg") /\ locked[Arg(c)])

(* A spin-lock excludes the other CPUs and the interrupt handlers of its   *)
(* own, and none of the panics of spinlock.c and sched is reached.         *)
SpinSafe == LocksExclude /\ NoInterruptInside /\ SpinNoPanic

(* Nothing is left switched off: interrupts come back with the thread they *)
(* belong to, and the CPUs never all spin.                                 *)
NoCpuIsStuck == InterruptsRestored /\ SomeCpuRuns
=============================================================================
