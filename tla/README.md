# Verification of the kernel

TLA+ models of the xv6-derived kernel in `src/` and of some of its user programs,
checked with TLC on small instances and, for the logging layer, proved with TLAPS
for every instance. The code is the reference: an action has the name of the
function it translates, and `PROJECT.json` gives the lines.

## Inventory

| Part | State | Operations | What is hard about it |
|---|---|---|---|
| Logging (`log.c`, over `bio.c`) | in-memory header, on-disk header and log blocks, home blocks, `outstanding`, `committing`, dirty buffers | `begin_op`, `log_write`, `end_op`, `commit`, `recover_from_log` | a crash between any two disk writes; space reserved in one place and tested in another without the lock; sleepers |
| Processes (`proc.c`, `trap.c`, `sysproc.c`) | `ptable`, `nextpid`, each CPU's `proc` and `lowestPriority`, who holds `ptable.lock` | `scheduler`, `sched`, `yield`, `sleep`, `wakeup`, `fork`, `exit`, `wait`, `kill`, `nice` | the lock passes through `swtch`; a process is RUNNABLE or ZOMBIE while still on its stack; lost wakeups; orphans; starvation |
| Pipes (`pipe.c`) | ring, `nread`, `nwrite`, two open flags | `piperead`, `pipewrite`, `pipeclose` | wrapping counters; two sleep channels; kill; free on last close |
| Open files, inode references and `flock` (`file.c`, `fs.c`, `sleeplock.c`, `sysfile.c`) | `ftable`, `icache`, each slot's `flock` | `open`, `close`, `dup` in fork, `iget`, `iput`, `flock`, `funlock` | recycling of slots; failure after a reference is taken; woken waiters |
| Buffer cache and disk (`bio.c`, `ide.c`) | buffers and their list, `idequeue`, the disk's command | `bget`, `bwrite`, `brelse`, `iderw`, `ideintr` | recycling against locking; the interrupt against the request; transfers that fail |
| Names (`fs.c`, `sysfile.c`) | inodes with `ref`, `nlink`, lock and entries; each process's place in its call | `namex`, `create`, `link`, `unlink`, `open`, `chdir`, `iput` | locks of several inodes; counts across failures; freeing what another process uses |
| File contents (`fs.c`, `file.c`, `mkfs.c`) | bit map, blocks, inodes on disk and in memory | `readi`, `writei`, `bmap`, `itrunc`, `filewrite`, mkfs | indirect blocks; what a transaction writes; copies of an inode |
| Directories (`fs.c`, `string.c`) | entries, the buffer for a name | `skipelem`, `dirlookup`, `dirlink` | names that fill their field, without a nul |
| Spin-locks (`spinlock.c`, `proc.c`) | lock word, `ncli`, `intena` | `acquire`, `release`, `pushcli`, `popcli`, `sched` | interrupts on the CPU that holds the lock; a thread that changes CPU |
| Memory (`kalloc.c`, `vm.c`, `exec.c`) | free list, page tables, `sz` | `fork`, `exec`, `sbrk`, `exit`, `wait` | pages on failure paths; rounding |
| Console (`console.c`, `kbd.c`) | `r`, `w`, `e` of the input ring; the screen; modifiers | `consoleintr`, `consoleread`, `cgaputc`, `kbdgetc` | interrupt against readers; three wrapping indices; ^D; scrolling |
| User library (`umalloc.c`, `printf.c`, `ulib.c`) | heap list | `malloc`, `free`, `snprintf`, `memmove`, `gets` | coalescing; bounds |
| Programs (`sh.c`, `grep.c`) | parse tree; processes and pipe ends; line buffer | `parsecmd`, `runcmd`, `match`, `grep` | closing the right ends; lines cut by reads |

How they interact: every file-system call runs inside a transaction of the log;
the log keeps its blocks in the buffer cache; every blocking operation is
`sleep`/`wakeup` on the process table, whose lock closes the window between a
test and the sleep; `fork` and `exit` duplicate and close open files, and so
drive the reference counts of files, pipes and inodes.

## Modules

| Module | Models |
|---|---|
| `AtomicDisk` | what the log promises: transactions that survive a crash whole or not at all |
| `Log` | `log.c` over the cache, one action per disk write or critical section, with crashes |
| `LogInvariant` | the inductive invariant of `Log`; its parts about types, locks, the commit and the reservations are preserved |
| `LogProofs` | the other parts are preserved; the safety theorems |
| `LogRefinement` | `Log` implements `AtomicDisk` |
| `Proc` | the process table and the schedulers |
| `Stream`, `Pipe` | a bounded FIFO stream, and `pipe.c`, which implements it |
| `Flock` | open files, inode cache and file locks |
| `Disk` | the buffer cache on the disk driver, with the interrupt |
| `Spinlock` | spin-locks, nested `pushcli`, interrupts and context switches |
| `Names` | path lookup, inode life cycle and the calls on names, by several processes |
| `Inode` | mkfs, and the contents of files: bit map, blocks, transactions |
| `Dirs` | names in paths and in directory entries |
| `Vm` | physical pages and address spaces |
| `Console`, `Screen`, `Keyboard` | console input, console output, scan codes and modifiers |
| `Malloc`, `Format`, `Strings` | the user allocator; `printf`, `snprintf`, `cprintf`; copying functions |
| `ShParse`, `ShRun` | the shell's parser; the processes and pipes of a command |
| `Grep` | the matcher and the reading loop |
| `MCLog`, `MCProc`, `MCPipe` | the instances TLC checks of `Log`, `Proc`, `Pipe` |
| `MCLocks` | an instance of `Flock`, `Spinlock` and `Names` |
| `MCParts` | an instance of the thirteen modules from `Disk` to `Grep` other than `Spinlock` and `Names` |

The modules in `MCLocks`, and those in `MCParts`, share no state. A variable `part`
chooses the module a behaviour is about, and the others stay as they start; so one
run explores each of them by itself, and not their product.

A definition preceded by a comment that starts with "Mutant:" is a plausible bug
in the definition after it. Nothing uses it; replacing the definition by it must
break the property named for it in `PROJECT.json`, which shows that the property
is about the code.

### Log

`home`, `slot` and `head` are the disk: the home blocks, the log's data blocks,
and its header. `cache` and `dirty` are the buffers and `B_DIRTY`; `lh`,
`outstanding` and `committing` are `struct log`. A `bwrite` is one action, since
the disk writes a sector whole or not at all and `iderw` returns only afterwards.
The test at the head of `log_write` runs without `log.lock` and is an action of
its own. `Crash` may happen in every state, recovery included; it empties memory
and leaves the disk.

### Proc

A body under `ptable.lock` is one action, up to a switch of stacks. Setting
`p->state` and `swtch` are two actions (`yield` then `sched`, for instance),
because in between only the lock keeps other CPUs off the stack. `sw[p]` says
from which function `p` called `sched`, so what it does on resuming;
`lock` passes from the process to the scheduler and back. `pc[p]` is the place in
a system call: "user" in user space, "sys" inside a call, "alloc", "copy" and
"ready" inside `fork`, "slp" between a test of `p->killed` and `sleep`, "exit",
"wait", "forkret". User programs make any calls in any order, except that init
does not exit by itself and does not sleep on files. `sys_nice` has a parameter
the dispatcher does not pass, so it works on whatever the stack holds: `nice`
takes any pid and priority of two constant sets, and `nice_fault` is the panic
when the word is no valid address. Memory allocation fails by choice.

### Pipe and Stream

An iteration of a loop under `p->lock` is one action. `WRAP` stands for 2^32; the
model needs of it what the code does, that it is a multiple of `PIPESIZE` and
larger. `rd` and `wr` are the processes that share each end, so that
`pipeclose` happens on the last close. The refinement maps the queue of `Stream`
to the part of the ring between the counters.

### Flock

`iget`, `filealloc`, `filedup`, `fileclose` and `iput` are separate actions since
they run under different locks. `granted` and `has` are history: the inode for
which a slot's lock was taken, and the inode a process has locked and not yet
unlocked or closed. Pipes and the disk inode are left out.

### Disk

A body under `bcache.lock`, under `idelock` or under the spin-lock of a sleep-lock is
one action. The contents of a buffer and of a block are one Boolean: does it have
what was last put in the block? `disk_done` is the hardware, external: it carries out
the command and raises the interrupt, with or without an error. `log_pin` is the
caller that changes a block and calls `log_write`, which leaves the buffer dirty.

### Spinlock

A thread is the list of micro-operations it still has to do. `acquire` and `release`
are three each, so that the CPUs interleave between the exchange and `lk->cpu`. An
interrupt puts its handler before the rest of the list. `sched` saves `intena` and
gives the CPU to the scheduler with `ptable.lock` held; the thread may resume on the
other CPU.

### Names

A step ends where a process may wait for an inode's lock or lets go of one. `iput` is a
sub-program: a call lists in `puts` the inodes it has to put, and goes on when the list
is empty. `iput` reads `ref` in one step and decrements it in another, as the code does.
The log is left out: a transaction excludes no other.

### Inode and Dirs

`Inode` begins with mkfs, which builds the image the kernel then works on. A call on one
inode runs under its lock and is one action, except that `filewrite` is one action for
each transaction. `fs.logged` is the set of blocks a transaction has passed to
`log_write`. `Dirs` has one directory, with names as cells and nuls, and the buffer that
`skipelem` copies names to keeps what was in it.

### Vm

Sizes count half pages, so that rounding matters. A call is one action; what other CPUs
take of the free list meanwhile is a choice of how many pages it still gets. Pages are
counted and not named.

### Console, Screen and Keyboard

`cons.lock` is held from `acquire` to `release` or `sleep`; each character a reader takes
is a step. `tape` in `Screen` is all that was ever printed, as a sequence of cells.
`Keyboard` has the keys that are down and the codes the controller has not yet
delivered; the modifiers must follow the keys once all codes are read.

### The user library and programs

`Malloc` has the list in a memory of header-sized units. `Format`, `Strings` and
`ShParse` are algorithms: a step picks an input, and the property compares the result
with a definition of what it should be (the value of a numeral, the string before the
call, a grammar). `Grep` is the matcher, compared with the meaning of a pattern, and the
loop over reads of any length. `ShRun` forks, connects and waits as `runcmd` does; the
programs a command runs are external: one writes two messages,
one copies its input, one exits at once.

## Runs

Log:
- `log_crash` (3 processes, 2 blocks, 2 values, one block per call, MAXOPBLOCKS 1):
  `Log` implements `AtomicDisk` whatever the crashes; a logged block is pinned until
  installed; when nothing is in progress the disk is up to date. The calls use all of
  MAXOPBLOCKS, so that `log_write` may also panic. With two blocks the log, which
  lists a block once, cannot grow past its area; `log_space` and the proof ask
  whether it can.
- `log_space` (3 processes, 5 blocks, MAXOPBLOCKS 2, one block per call): the log
  never overflows although its test is unlocked; no call overlaps a commit. Three
  processes are as many as `LOGSIZE = 3*MAXOPBLOCKS` admits.
- `log_live`: nobody sleeps in `begin_op` for ever.

Processes:
- `proc_safe` (3 slots, 2 CPUs, pids up to 3, kill, and nice with arbitrary
  arguments): a process is on one CPU at most, the table agrees with the CPUs, no
  stack is freed in use, parents are alive, `wait` misses neither an exit nor a kill,
  pids differ, a slot in construction has one maker, a ZOMBIE is only reaped, and a
  CPU that panics in `sys_nice` holds no lock. Two CPUs are enough for the hand-over
  of the lock: its races are between the CPU that switches and one other. Deadlock is
  not checked, as every CPU may panic. Three slots are not enough for one case: a
  process that is not init's child exits after its own child (four processes with
  init), where `exit` has to wake init for the zombie it inherits.
- `proc_live` (3 slots, 1 CPU, the Makefile's default): without nice, RUNNABLE
  processes run and init reaps its children.
- `proc_starve`, a violation: after one nice a process that yields may never run
  again, since `lowestPriority` is never raised.

Pipes:
- `pipe` (a reader, a writer, ring of 2, counters modulo 4, calls of up to 3 bytes,
  kills): the pipe is a FIFO stream, no sleeper is forgotten, the page is freed when
  nobody can use it, and every call returns. Calls longer than the ring and several
  turns of the counters occur. A writer killed on a full pipe is the exception that
  `SleepersHaveReason` names.

It stops once every process has closed its ends, so deadlock is not checked.

Locks (`locks`; deadlock is not checked, since a process that locks a file twice sleeps,
a panic stops the machine, and `Names` stops after its last call):
- `Flock`, 3 processes, 2 inodes, 2 slots, 2 entries: exact reference counts, one slot
  per inode, mutual exclusion, no lost wakeup. Both tables fill up and are recycled.
- `Spinlock`, 2 CPUs and a thread, 2 locks that nest: mutual exclusion, no interrupt
  inside a critical section, `intena` goes with its thread, no panic, and never both CPUs
  spinning. One thread is enough to resume on the other CPU, as the schedulers run too.
- `Names`, 2 processes, 3 inodes, 2 names, paths of one and two names, 4 calls: link
  counts never below the entries and exact between calls, exact reference counts, no use
  of a freed inode. Four calls are enough to make a directory, put a file in it, and race
  two more calls for them. Two processes can each hold what the other waits for.
- `flock_stale`, a violation: a lock left behind by `close` blocks another file.
- `names_deadlock`, a violation: `iput` locks the inode. `create` and `unlink` put a
  parent directory while they hold the lock of its child, and `unlink` locks them in the
  other order: two processes wait for each other for ever.
- `names_leak`, a violation: two `iput`s of an unlinked inode both see two references,
  and neither frees it.

Parts (`parts`; deadlock is not checked, since the algorithms take one step and the
others have bounds):

| Module | Bounds | Why they are enough |
|---|---|---|
| `Disk` | 2 tasks, 3 blocks, 2 buffers, a pinned block, a failed block | fewer buffers than blocks, so that they are recycled and run out |
| `Console` | 2 readers, ring of 2, indices modulo 4, reads of up to 2 | the ring fills, the indices wrap, readers compete for a line |
| `Screen` | 2 columns, 4 rows, 8 cells | wraps, scrolls, and erases across the end of a row |
| `Keyboard` | 4 codes in store | an arrow with shift held sends four |
| `Vm` | 2 slots, 16 frames, 4 user pages, 2 to a page table | memory runs out inside every call; a second page table is needed |
| `Inode` | blocks of 2 cells, 2 direct numbers, files of up to 8 cells, 4 calls | indirect blocks, the largest file, a write of several transactions |
| `Dirs` | names of 2, paths of up to 4 characters, 4 entries | names shorter than the field, as long, and longer |
| `Malloc` | 12 units, blocks of 2, 3 and 6 units | splitting, joining on both sides, growing twice, gaps |
| `Format` | 8-bit words, formats of up to 4 characters, buffers of up to 6 | every number; cuts inside numbers and strings |
| `Strings` | 4 cells | every overlap |
| `Grep` | patterns of up to 3 (and four longer), texts of up to 3, a buffer of 4 | every operator next to every other; lines cut anywhere |
| `ShParse` | lines of up to 3 or 4 characters, and four long ones | every pair of symbols; too many words |
| `ShRun` | five command trees, a failure | pipelines of two and three, lists, background commands, redirections |

Most properties of `proc_safe`, `pipe`, `locks` and `parts` are conjunctions of the facts
that make up one idea; each conjunct has a name of its own in the module, and a comment
unless it is the type invariant.

## Fairness

`Log`: processes inside a transaction go on and finish it (no user code runs
there), and sleepers that were woken run. `Proc`: each CPU keeps executing; the
timer is strongly fair, because an interrupt that comes while interrupts are off
stays pending; init, which calls `wait` in a loop, executes instructions whenever
it is scheduled. With one CPU no assumption on the spin-lock is needed. `Pipe`:
processes inside a call go on and get the lock they spin for, and every process
closes its ends in the end, as exit does. `Disk`: the disk carries out the command it
was given, its interrupt is taken, and a task inside `iderw` goes on; that is the
hardware's promise, and what `Proc` shows of processes that are woken. The other
modules are checked for safety only.

## Proofs

`LogInvariant`, `LogProofs` and `LogRefinement` prove, for every set of processes,
blocks and values and every size:

- `Invariance`: the inductive invariant `IInv`. Its parts:
  - the holder of a buffer's sleep-lock is modifying that buffer (`OwnerInv`);
  - during a commit nobody is outstanding and only one process commits (`CommitInv`);
  - every outstanding call has one of three tickets, and what is logged plus what the
    tickets still allow fits LOGSIZE (`TicketInv`, `SpaceInv`). The tickets are there
    because `outstanding` is a number: they name the at most three calls that a count
    alone cannot tell apart;
  - the header lists a block once, and is empty when nothing is in progress (`LhInv`);
  - recovery has installed the blocks before `tail` (`RecoveryInv`);
  - once the machine is up (`CacheInv`): the disk header is empty but during an
    installation, an unchanged block reads as it is on disk, a buffer that differs
    from the disk is dirty or locked, and `write_log` and `install_trans` have copied
    the blocks before `tail`.
- `TypeCorrect`, `CommitIsExclusive`, `UpdatesArePinned`, `CommittedIsDurable`
  follow from `IInv`.
- `LogNeverOverflows`: if a call makes fewer than MAXOPBLOCKS `log_write`s, the log
  fits and nothing panics. The assumption is needed: the header takes one of the
  LOGSIZE blocks of the area, so three calls of MAXOPBLOCKS writes each panic.
- `LogIsCrashAtomic`: under the same assumption `Log` implements `AtomicDisk`; each
  step maps to a step or a stutter, and `write_head` is the commit point.

Model-checked only: liveness (out of the prover's reach), and every module but `Log`.
The algorithms use recursive operators, about which the prover cannot reason by
induction.

## Observed without a run of its own

Where the code does something a caller may not expect, the model does it too. A property
that it would break names the case as an exception.

- Three calls that each write MAXOPBLOCKS blocks overflow the log area (`log.c`).
- A writer killed on a full pipe returns without waking the readers (`SleepersHaveReason`).
- `kill` looks at `pid` also in unused slots, so that the process made there next may
  start killed (`Proc`).
- Something created in a directory that was removed, while the creator still had it, is
  never freed (`stray` in `Names`).
- A process whose directory was removed may follow `..` to a parent that is freed too,
  and `ilock` panics with "no type"; `link` to a name that ends in `.` waits for its own
  lock. The module `Names` has `.` and `..`; the paths of the instance do not.
- The root directory's size is rounded up by a block too many when its entries fill
  their last block (`mkfs.c`); reading to the end then makes `bmap` allocate outside a
  transaction. `ReadsDontAllocate` fails for a listing of that length; the listings of the
  instance do not have it.
- A buffer whose read failed is marked valid (`failed` in `Disk`).
- `sbrk` down to a size of 0 frees the pages and keeps `sz` ("gone" in `Vm`).
- `grep` drops a partial line when a read brings no end of line (`dropped` in `Grep`).
- `snprintf` with a size of 0 takes the size for the largest number; `Format` has sizes
  from 1.

## Plan

1. Proofs for `Proc` (one CPU per process, stacks in use, `wait` misses nothing),
   with `ptable.lock` and the position of each CPU as the inductive invariant; for
   `Pipe` (`SleepersHaveReason`, `FreedIsUnused`); for `Flock` (`OneSlotPerInode`,
   `AsleepIsLocked`).
2. `Disk` shown to implement the cache that `Log` assumes.
3. `Names` over `Log`: the transactions of a call and crashes between them.
4. `ps`; fetching of system call arguments; the shell's `cd`.

## Not modelled

- Boot, interrupt controllers, the serial port and the memory disk: straight-line
  programming of devices.
- Paths with `.` or `..` in the instance of `Names`; `NamesNoPanic` is about paths
  without them (see above).
- The bytes of user pages, `copyout`, segments; fetching of system call arguments.
- The tables from scan codes to characters; the wording of messages.
- Programs other than the shell, `grep` and init's loop: they are clients, and tests.
- Crashes in `Names` and `Inode`: `Log` shows that a transaction is all or nothing.
- The memory model is sequentially consistent: `__sync_synchronize` in `acquire` and
  `release` is taken to do its work.
