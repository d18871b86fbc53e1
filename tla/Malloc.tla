------------------------------- MODULE Malloc -------------------------------
(***************************************************************************)
(* The allocator of user programs, umalloc.c: a circular list of free      *)
(* blocks in address order, grown with sbrk.  Addresses count units of one *)
(* header; the static `base` is below the heap, at 0, and the heap starts  *)
(* at 2.  The program may also move the break itself, so that blocks of    *)
(* two calls of morecore need not touch.                                   *)
(***************************************************************************)
EXTENDS Integers, FiniteSets

CONSTANTS
  HEADER,     \* sizeof(Header)
  MINCORE,    \* 4096: the least morecore asks for, in units
  BRKMAX,     \* bound: where sbrk fails
  Nbytes      \* arguments of malloc

VARIABLES
  heap,       \* [ptr, size]: the fields at each address, freep (0 - 1: null), brk
  given,      \* history: <<address of its header, nbytes>> of each block in use
  others      \* history: units that the program took with sbrk
heapVars == <<heap, given, others>>

base == 0
Null == -1
Addr == 0 .. BRKMAX

MallocInit ==
  /\ heap = [ptr |-> [a \in Addr |-> base], size |-> [a \in Addr |-> 0], freep |-> Null, brk |-> 2]
  /\ given = {} /\ others = {}

\* Where the loop of free stops: between p and its successor, or at the end.
here(h, bp, p) ==
  \/ bp > p /\ bp < h.ptr[p]
  \/ p >= h.ptr[p] /\ (bp > p \/ bp < h.ptr[p])

RECURSIVE place(_, _, _, _)
place(h, bp, p, turns) == IF here(h, bp, p) \/ turns = 0 THEN p ELSE place(h, bp, h.ptr[p], turns - 1)

join_lower(h, p, bp) ==
  IF p + h.size[p] = bp THEN [h EXCEPT !.size[p] = @ + h.size[bp], !.ptr[p] = h.ptr[bp]]
  ELSE [h EXCEPT !.ptr[p] = bp]

\* Mutant: the successor's size is forgotten.
join_upper_short(h, p, bp) ==
  IF bp + h.size[bp] = h.ptr[p] THEN [h EXCEPT !.ptr[bp] = h.ptr[h.ptr[p]]]
  ELSE [h EXCEPT !.ptr[bp] = h.ptr[p]]

join_upper(h, p, bp) ==
  IF bp + h.size[bp] = h.ptr[p]
  THEN [h EXCEPT !.size[bp] = @ + h.size[h.ptr[p]], !.ptr[bp] = h.ptr[h.ptr[p]]]
  ELSE [h EXCEPT !.ptr[bp] = h.ptr[p]]

free(h, bp) ==
  LET p == place(h, bp, h.freep, BRKMAX) IN
  [join_lower(join_upper(h, p, bp), p, bp) EXCEPT !.freep = p]

\* The heap with at least nu more units in its list, or as it was.
morecore(h, nu) ==
  LET n == IF nu < MINCORE THEN MINCORE ELSE nu IN
  IF h.brk + n > BRKMAX THEN h
  ELSE free([h EXCEPT !.brk = @ + n, !.size[h.brk] = n], h.brk)

units(nbytes) == (nbytes + HEADER - 1) \div HEADER + 1

\* Take n units from the block at p: all of it, or its tail.
take(h, prevp, p, n) ==
  IF h.size[p] = n THEN [h |-> [h EXCEPT !.ptr[prevp] = h.ptr[p], !.freep = prevp], at |-> p]
  ELSE LET q == p + h.size[p] - n IN
       [h |-> [h EXCEPT !.size[p] = @ - n, !.size[q] = n, !.freep = prevp], at |-> q]

\* malloc's loop: the heap, and the block's header or Null.
RECURSIVE search(_, _, _, _)
search(h, prevp, p, n) ==
  IF h.size[p] >= n THEN take(h, prevp, p, n)
  ELSE IF p # h.freep THEN search(h, p, h.ptr[p], n)
  ELSE LET g == morecore(h, n) IN
       IF g = h THEN [h |-> h, at |-> Null] ELSE search(g, g.freep, g.ptr[g.freep], n)

Started(h) == IF h.freep = Null THEN [h EXCEPT !.freep = base, !.ptr[base] = base, !.size[base] = 0] ELSE h

\* The blocks on the free list.
RECURSIVE Listed(_, _, _)
Listed(h, p, seen) == IF p \in seen THEN seen ELSE Listed(h, h.ptr[p], seen \cup {p})

\* What is no longer part of a header is not looked at again, and is 0 here.
Becomes(h, use) ==
  LET free_ == Listed(h, base, {}) IN
  /\ given' = use
  /\ heap' = [h EXCEPT !.ptr = [a \in Addr |-> IF a \in free_ THEN h.ptr[a] ELSE 0],
                       !.size = [a \in Addr |-> IF a \in free_ \cup {b[1] : b \in use} THEN h.size[a] ELSE 0]]

malloc(nbytes) ==
  LET h == Started(heap)
      r == search(h, h.freep, h.ptr[h.freep], units(nbytes))
  IN  /\ Becomes(r.h, IF r.at = Null THEN given ELSE given \cup {<<r.at, nbytes>>})
      /\ UNCHANGED others

free_block(b) ==
  /\ Becomes(free(heap, b[1]), given \ {b})
  /\ UNCHANGED others

sbrk(n) ==
  /\ heap.brk + n <= BRKMAX
  /\ heap' = [heap EXCEPT !.brk = @ + n] /\ others' = others \cup (heap.brk .. heap.brk + n - 1)
  /\ UNCHANGED given

MallocNext ==
  \/ \E nbytes \in Nbytes : malloc(nbytes)
  \/ \E b \in given : free_block(b)
  \/ sbrk(1)

MallocSpec == MallocInit /\ [][MallocNext]_heapVars
-----------------------------------------------------------------------------
\* The free blocks; the units of a block.
Free == IF heap.freep = Null THEN {} ELSE Listed(heap, base, {}) \ {base}
Span(a) == a .. a + heap.size[a] - 1
InUse == {b[1] : b \in given}

(* Every unit of the heap is in exactly one free block, one block in use   *)
(* or the program's own: splitting, joining and growing lose nothing and   *)
(* give nothing twice, and the header of a block in use is still what      *)
(* malloc made it.                                                         *)
HeapPartitioned ==
  /\ UNION {Span(a) : a \in Free \cup InUse} \cup others = 2 .. heap.brk - 1
  /\ \A a, b \in Free \cup InUse : Span(a) \cap Span(b) # {} => a = b
  /\ \A a \in Free \cup InUse : Span(a) \cap others = {} /\ heap.size[a] > 0
  /\ Free \cap InUse = {}

(* A block has room for its header and the bytes that were asked for.      *)
BlockIsLargeEnough == \A b \in given : (heap.size[b[1]] - 1) * HEADER >= b[2]

(* The list stays circular and in address order, wherever freep is, or     *)
(* free's loop would put a block in the wrong place or never stop.         *)
ListInOrder ==
  heap.freep # Null =>
    /\ heap.freep \in Free \cup {base}
    /\ \A a \in Free \cup {base} :
         LET above == {b \in Free : b > a} IN
         heap.ptr[a] = IF above = {} THEN base ELSE CHOOSE b \in above : \A c \in above : b <= c

(* Two free blocks never touch: free joins on both sides.                  *)
FreeBlocksJoined == \A a, b \in Free : a + heap.size[a] # b

(* The heap after any sequence of malloc, free and sbrk: a partition into  *)
(* blocks that are large enough, the free ones joined and in a ring in     *)
(* address order.                                                          *)
HeapIsSound == ListInOrder /\ HeapPartitioned /\ BlockIsLargeEnough /\ FreeBlocksJoined
=============================================================================
