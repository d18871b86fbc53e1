--------------------------------- MODULE Vm ---------------------------------
(***************************************************************************)
(* Physical pages and address spaces: kalloc.c, vm.c, and the calls of     *)
(* fork, exec, growproc and wait that build, change and free them.         *)
(*                                                                         *)
(* Sizes are counted in half pages, so that rounding matters.  A system    *)
(* call is one action: it touches its own address space and the free list  *)
(* only, and what the other CPUs hold meanwhile is the choice of how many  *)
(* pages it can still get.  A page that is handed out is a fresh one, so   *)
(* pages are counted, not named: one that is freed twice, or freed while   *)
(* it is used, makes free and used pages more than there are.              *)
(***************************************************************************)
EXTENDS Integers, Sequences, SequencesExt, FiniteSetsExt

CONSTANTS
  Slot,    \* slots of ptable that the model uses; the first is init's
  NFRAME,  \* physical pages
  NPTE,    \* pages a page table maps
  NPG,     \* user pages: KERNBASE / PGSIZE
  Image,   \* programs: the ends vaddr + memsz of their segments, in order
  Growth   \* the arguments of sbrk

ASSUME VmAssumption == 1 \in Slot /\ NPG % NPTE = 0

PGROUNDUP(n) == (n + 1) \div 2       \* as a number of pages
KERNBASE == 2 * NPG
PDX(v) == v \div NPTE
KernPages == <<NPG, NPG + NPTE>>      \* what kmap makes each directory map

VARIABLES
  freelist,   \* length of kmem.freelist
  kstack, mm, sz, pstate,  \* of each slot: kstack, pgdir, sz; "gone" when the
                           \* process has no user page left to run in
  guard,      \* history: the page below its stack, or -1
  vmpanic     \* a panic of vm.c

vmVars == <<freelist, kstack, mm, sz, pstate, guard, vmpanic>>

\* A page directory: is there one, its page tables, the pages that are mapped,
\* those of them that the user can access.
NoDir == [dir |-> FALSE, pt |-> {}, pg |-> {}, user |-> {}]
PagesOf(d) == (IF d.dir THEN 1 ELSE 0) + Cardinality(d.pt) + Cardinality(d.pg)

\* A call in progress: the free pages, how many it can get, its directory.
Call(left, d) == [free |-> freelist, left |-> left, as |-> d, ok |-> TRUE, panic |-> FALSE]
Fails(m) == [m EXCEPT !.ok = FALSE]
-----------------------------------------------------------------------------
CanAlloc(m) == m.left > 0 /\ m.free > 0
kalloc(m) == [m EXCEPT !.free = @ - 1, !.left = @ - 1]
kfree(m, n) == [m EXCEPT !.free = @ + n]

\* walkpgdir with alloc set.
walkpgdir(m, v) ==
  IF ~m.ok \/ PDX(v) \in m.as.pt THEN m
  ELSE IF ~CanAlloc(m) THEN Fails(m)
  ELSE [kalloc(m) EXCEPT !.as.pt = @ \cup {PDX(v)}]

mappages(m, v, u) ==
  LET n == walkpgdir(m, v)
  IN  IF ~n.ok THEN n
      ELSE [n EXCEPT !.panic = @ \/ v \in n.as.pg,       \* "remap"
                     !.as.pg = @ \cup {v}, !.as.user = IF u THEN @ \cup {v} ELSE @ \ {v}]

\* Pages that are not there are passed over.
deallocuvm(m, oldsz, newsz) ==
  LET gone == m.as.pg \cap (PGROUNDUP(newsz) .. PGROUNDUP(oldsz) - 1)
  IN  [kfree(m, Cardinality(gone)) EXCEPT !.as.pg = @ \ gone, !.as.user = @ \ gone]

freevm(m) ==
  LET n == deallocuvm(m, KERNBASE, 0)
  IN  [kfree(n, PagesOf(n.as)) EXCEPT !.as = NoDir, !.panic = @ \/ ~m.as.dir]

\* A directory, then the tables of the kernel's part; nothing when it fails.
setupkvm(m) ==
  IF ~CanAlloc(m) THEN Fails(m)
  ELSE LET n == FoldLeft(walkpgdir, [kalloc(m) EXCEPT !.as.dir = TRUE], KernPages)
       IN  IF n.ok THEN n ELSE freevm(n)

\* Mutant: a page that cannot be mapped is forgotten.
AddPage_leaks(m, v, u) ==
  IF ~m.ok THEN m ELSE IF ~CanAlloc(m) THEN Fails(m) ELSE mappages(kalloc(m), v, u)

\* One page of allocuvm or copyuvm: the new page goes back if it cannot be mapped.
AddPage(m, v, u) ==
  IF ~m.ok THEN m
  ELSE IF ~CanAlloc(m) THEN Fails(m)
  ELSE LET n == mappages(kalloc(m), v, u) IN IF n.ok THEN n ELSE kfree(n, 1)

Pages(from, to) == [i \in 1 .. to - from |-> from + i - 1]

\* Grow from oldsz to newsz, or undo the pages already mapped.
allocuvm(m, oldsz, newsz) ==
  IF newsz >= KERNBASE THEN Fails(m)
  ELSE LET n == FoldLeft(LAMBDA s, v : AddPage(s, v, TRUE), m,
                         Pages(PGROUNDUP(oldsz), PGROUNDUP(newsz)))
       IN  IF n.ok THEN n ELSE deallocuvm(n, newsz, oldsz)

copied(d, v) == v \in d.user

copyuvm(m, d, s) ==
  LET k == setupkvm(m)
      n == FoldLeft(LAMBDA c, v : IF v \notin d.pg THEN [c EXCEPT !.panic = TRUE]
                                  ELSE AddPage(c, v, copied(d, v)),
                    k, Pages(0, PGROUNDUP(s)))
  IN  IF ~k.ok THEN k ELSE IF n.ok THEN n ELSE freevm(n)
-----------------------------------------------------------------------------
\* kinit, then userinit: init runs in one page; the rest of memory is free.
VmInit ==
  LET m == AddPage(setupkvm([free |-> NFRAME - 1, left |-> NFRAME, as |-> NoDir,
                             ok |-> TRUE, panic |-> FALSE]), 0, TRUE)
  IN  /\ freelist = m.free
      /\ kstack = [s \in Slot |-> s = 1]
      /\ mm = [s \in Slot |-> IF s = 1 THEN m.as ELSE NoDir]
      /\ sz = [s \in Slot |-> IF s = 1 THEN 2 ELSE 0]
      /\ pstate = [s \in Slot |-> IF s = 1 THEN "alive" ELSE "unused"]
      /\ guard = [s \in Slot |-> -1] /\ vmpanic = FALSE

\* What a call did becomes the state of memory.
Commit(m) == freelist' = m.free /\ vmpanic' = (vmpanic \/ m.panic)

\* fork: allocproc takes the kernel stack, copyuvm the rest; all or nothing.
fork(s, c) ==
  /\ pstate[s] = "alive" /\ pstate[c] = "unused"
  /\ \E left \in 1 .. freelist :
       LET n == copyuvm(kalloc(Call(left, NoDir)), mm[s], sz[s])
       IN  IF ~n.ok
           THEN Commit(kfree(n, 1)) /\ UNCHANGED <<kstack, mm, sz, pstate, guard>>
           ELSE /\ Commit(n) /\ kstack' = [kstack EXCEPT ![c] = TRUE]
                /\ mm' = [mm EXCEPT ![c] = n.as] /\ sz' = [sz EXCEPT ![c] = sz[s]]
                /\ pstate' = [pstate EXCEPT ![c] = "alive"]
                /\ guard' = [guard EXCEPT ![c] = guard[s]]

\* exec's loop over the first k segments: the space and the size so far.
Segments(m, ends, k) ==
  FoldLeft(LAMBDA a, end : LET n == IF end < a.sz THEN a.m ELSE allocuvm(a.m, a.sz, end)
                           IN  IF ~a.m.ok THEN a
                               ELSE [m |-> IF Max({a.sz, end}) = 0 THEN Fails(n) ELSE n,
                                     sz |-> Max({a.sz, end})],
           [m |-> m, sz |-> 0], SubSeq(ends, 1, k))

\* The two pages of the stack, the first made inaccessible.
UserStack(m, n) ==
  LET k == allocuvm(m, 2 * n, 2 * n + 4)
  IN  IF k.ok THEN [k EXCEPT !.as.user = @ \ {n}] ELSE k

\* exec: a new space beside the old one.  The file may end early (k segments
\* are loaded) and the arguments may not fit; then the old one stays.
Stacked(a, whole) == IF a.m.ok /\ whole THEN UserStack(a.m, PGROUNDUP(a.sz)) ELSE Fails(a.m)
Replaces(s, m, n, args) ==
  IF ~m.ok \/ ~args THEN Commit(freevm(m)) /\ UNCHANGED <<kstack, mm, sz, pstate, guard>>
  ELSE /\ Commit(freevm([m EXCEPT !.as = mm[s]]))
       /\ mm' = [mm EXCEPT ![s] = m.as] /\ sz' = [sz EXCEPT ![s] = 2 * n + 4]
       /\ guard' = [guard EXCEPT ![s] = n] /\ UNCHANGED <<kstack, pstate>>
Loads(s, a, whole, args) == Replaces(s, Stacked(a, whole), PGROUNDUP(a.sz), args)
ExecIn(s, d, ends, k, args) ==
  IF ~d.ok THEN Commit(d) /\ UNCHANGED <<kstack, mm, sz, pstate, guard>>
  ELSE Loads(s, Segments(d, ends, k), k = Len(ends), args)
exec(s) ==
  /\ pstate[s] = "alive"
  /\ \E ends \in Image, left \in 0 .. freelist, args \in BOOLEAN :
     \E k \in 0 .. Len(ends) : ExecIn(s, setupkvm(Call(left, NoDir)), ends, k, args)

\* growproc with n > 0.
grow(s, n) ==
  /\ pstate[s] = "alive"
  /\ \E left \in 0 .. freelist :
       LET m == allocuvm(Call(left, mm[s]), sz[s], sz[s] + n)
       IN  /\ Commit(m) /\ mm' = [mm EXCEPT ![s] = m.as]
           /\ sz' = [sz EXCEPT ![s] = IF m.ok THEN @ + n ELSE @]
  /\ UNCHANGED <<kstack, pstate, guard>>

\* growproc with n < 0.  A size below 0 wraps and changes nothing; size 0 looks
\* like an error, so sz keeps its value although no page is left.
shrink(s, n) ==
  /\ pstate[s] = "alive" /\ n <= sz[s]
  /\ LET m == deallocuvm(Call(0, mm[s]), sz[s], sz[s] - n)
     IN  Commit(m) /\ mm' = [mm EXCEPT ![s] = m.as]
  /\ sz' = [sz EXCEPT ![s] = IF n = @ THEN @ ELSE @ - n]
  /\ pstate' = [pstate EXCEPT ![s] = IF n = sz[s] THEN "gone" ELSE @]
  /\ guard' = [guard EXCEPT ![s] = IF @ < PGROUNDUP(sz[s] - n) THEN @ ELSE -1]
  /\ UNCHANGED kstack

\* exit, called, or by the fault of a process with no page to run in.
exit(s) ==
  /\ s # 1 /\ pstate[s] \in {"alive", "gone"}
  /\ pstate' = [pstate EXCEPT ![s] = "zombie"]
  /\ UNCHANGED <<freelist, kstack, mm, sz, guard, vmpanic>>

\* wait frees a zombie.
wait(s) ==
  /\ pstate[s] = "zombie"
  /\ Commit(freevm(kfree(Call(0, mm[s]), 1)))
  /\ kstack' = [kstack EXCEPT ![s] = FALSE] /\ mm' = [mm EXCEPT ![s] = NoDir]
  /\ sz' = [sz EXCEPT ![s] = 0] /\ guard' = [guard EXCEPT ![s] = -1]
  /\ pstate' = [pstate EXCEPT ![s] = "unused"]

VmNext ==
  /\ ~vmpanic
  /\ \E s \in Slot :
       \/ \E c \in Slot : fork(s, c)
       \/ exec(s) \/ exit(s) \/ wait(s)
       \/ \E n \in Growth : grow(s, n) \/ shrink(s, n)
       \/ shrink(s, sz[s])

VmSpec == VmInit /\ [][VmNext]_vmVars
-----------------------------------------------------------------------------
VmTypeOK ==
  /\ freelist \in 0 .. NFRAME /\ vmpanic \in BOOLEAN
  /\ kstack \in [Slot -> BOOLEAN] /\ sz \in [Slot -> 0 .. KERNBASE - 1]
  /\ pstate \in [Slot -> {"unused", "alive", "gone", "zombie"}] /\ guard \in [Slot -> -1 .. NPG]
  /\ \A s \in Slot : mm[s].user \subseteq mm[s].pg /\ mm[s].pg \subseteq 0 .. NPG - 1

(* Whatever fails on the way, in fork, exec or sbrk, every physical page   *)
(* is on the free list or has one use in one process: none leaks, none is  *)
(* freed twice or while it is in use.                                      *)
PagesConserved ==
  freelist + MapThenSumSet(LAMBDA s : PagesOf(mm[s]) + (IF kstack[s] THEN 1 ELSE 0), Slot) = NFRAME

(* "remap", "copyuvm: page not present" and "freevm: no pgdir" are never   *)
(* reached.                                                                *)
VmNoPanic == ~vmpanic

(* A process that can run has exactly the pages below its size, whatever   *)
(* the sizes were rounded to: the bound that argptr and fetchstr check is  *)
(* the memory that is there.                                               *)
MappedBelowSz ==
  \A s \in Slot : pstate[s] = "alive" => mm[s].pg = 0 .. PGROUNDUP(sz[s]) - 1

(* "Make the first inaccessible": the page under the stack, and only that  *)
(* one, stays out of the user's reach, also in children and while the heap *)
(* grows and shrinks.                                                      *)
GuardStays ==
  \A s \in Slot : mm[s].user = mm[s].pg \ {guard[s]}

(* The memory of the processes, through every failure of fork, exec and    *)
(* sbrk: no page lost or shared, exactly the pages below the size, the     *)
(* guard page closed, and no panic.                                        *)
MemoryIsOwned == VmTypeOK /\ VmNoPanic /\ PagesConserved /\ MappedBelowSz /\ GuardStays
=============================================================================
