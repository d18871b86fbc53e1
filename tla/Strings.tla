------------------------------- MODULE Strings ------------------------------
(***************************************************************************)
(* The rest of string.c and ulib.c, on a memory of a few cells: memmove of *)
(* the kernel and of user programs, safestrcpy and gets.                   *)
(* Each step picks addresses, lengths and contents; the properties compare *)
(* what the loops leave in memory with what the functions are for.         *)
(***************************************************************************)
EXTENDS Integers, Sequences
LOCAL INSTANCE SequencesExt

CONSTANTS
  MEM,       \* cells of the memory
  CharVal    \* their values besides 0, which ends a string; 10 ends a line

VARIABLE scase
strVars == <<scase>>

Range_(a, n) == a .. a + n - 1
Picked == DOMAIN scase # {}

\* A loop that copies cell after cell, in the order of the sequence ks.
CopyCells(m, dst, src, ks) == FoldLeft(LAMBDA mm, k : [mm EXCEPT ![dst + k] = mm[src + k]], m, ks)
Ascending(n) == [k \in 1 .. n |-> k - 1]

\* Mutant: only the start of the source is compared.
overlaps_never(dst, src, n) == FALSE

overlaps(dst, src, n) == src < dst /\ src + n > dst

\* The kernel's memmove: backwards if the source begins below and overlaps.
kmemmove(m, dst, src, n) ==
  CopyCells(m, dst, src, IF overlaps(dst, src, n) THEN Reverse(Ascending(n)) ELSE Ascending(n))

\* The user's: always forwards.
umemmove(m, dst, src, n) == CopyCells(m, dst, src, Ascending(n))

\* safestrcpy's loop, and the nul after it.
RECURSIVE safecopy(_, _, _, _)
safecopy(m, s, t, n) ==
  IF n - 1 > 0 THEN LET mm == [m EXCEPT ![s] = m[t]] IN
                    IF m[t] # 0 THEN safecopy(mm, s + 1, t + 1, n - 1) ELSE [mm EXCEPT ![s + 1] = 0]
  ELSE [m EXCEPT ![s] = 0]

safestrcpy(m, s, t, n) == IF n <= 0 THEN m ELSE safecopy(m, s, t, n)

room_gets(i, max) == i + 1 < max

\* gets: how many characters of the input it takes.
RECURSIVE taken(_, _, _)
taken(input, i, max) ==
  IF ~room_gets(i, max) \/ input = <<>> THEN i
  ELSE IF input[1] \in {10, 13} THEN i + 1 ELSE taken(Tail(input), i + 1, max)

gets(m, buf, max, input) ==
  LET n == taken(input, 0, max) IN
  [a \in DOMAIN m |-> IF a \in Range_(buf, n) THEN input[a - buf + 1] ELSE IF a = buf + n THEN 0 ELSE m[a]]

StrInit == scase = <<>>

StrNext ==
  /\ ~Picked
  /\ \E m \in [0 .. MEM - 1 -> CharVal \cup {0}], dst, src \in 0 .. MEM - 1, n \in 0 .. MEM :
       dst + n <= MEM /\ src + n <= MEM /\ scase' = [m |-> m, dst |-> dst, src |-> src, n |-> n]

StrSpec == StrInit /\ [][StrNext]_strVars
-----------------------------------------------------------------------------
Cells == [k \in 1 .. MEM |-> scase.m[k - 1]]
Moved(m, d, s, n) == [a \in DOMAIN m |-> IF a \in Range_(d, n) THEN m[s + a - d] ELSE m[a]]

(* The kernel's memmove leaves in the destination what the source held     *)
(* before, however they overlap, and touches nothing else: cgaputc, wsect  *)
(* and copyout rely on it.  The user's does for a destination at or below  *)
(* the source, as grep uses it.                                            *)
MemmoveMoves ==
  Picked => LET m == scase.m
                d == scase.dst
                s == scase.src
                n == scase.n
            IN  /\ kmemmove(m, d, s, n) = Moved(m, d, s, n)
                /\ d <= s \/ s + n <= d => umemmove(m, d, s, n) = Moved(m, d, s, n)

\* Length of the string at t.
StrLen(m, t) == CHOOSE k \in 0 .. MEM - t : (t + k = MEM \/ m[t + k] = 0) /\ \A j \in 0 .. k - 1 : m[t + j] # 0

(* "Like strncpy but guaranteed to NUL-terminate": safestrcpy copies what  *)
(* fits of the string in n-1 characters, ends it, and writes nothing       *)
(* outside the n cells it was given.                                       *)
SafestrcpyEnds ==
  Picked /\ scase.n > 0 /\ (scase.src + scase.n <= scase.dst \/ scase.dst + scase.n <= scase.src) =>
    LET m == scase.m
        r == safestrcpy(m, scase.dst, scase.src, scase.n)
        len == StrLen(m, scase.src)
        k == IF len < scase.n THEN len ELSE scase.n - 1
    IN  /\ \A j \in 0 .. k - 1 : r[scase.dst + j] = m[scase.src + j]
        /\ r[scase.dst + k] = 0
        /\ \A a \in DOMAIN m \ Range_(scase.dst, scase.n) : r[a] = m[a]

(* gets takes one line or max-1 characters of the input, whichever is      *)
(* less, and the string it leaves is inside the buffer.                    *)
GetsTakesOneLine ==
  Picked /\ scase.n > 0 =>
    LET input == SubSeq(Cells, 1, scase.src)
        r == gets(scase.m, scase.dst, scase.n, input)
        n == taken(input, 0, scase.n)
    IN  /\ n < scase.n /\ r[scase.dst + n] = 0
        /\ \A k \in 1 .. n - 1 : input[k] # 10
        /\ n < scase.n - 1 => n = Len(input) \/ (n > 0 /\ input[n] = 10)
        /\ \A a \in DOMAIN r \ Range_(scase.dst, scase.n) : r[a] = scase.m[a]

(* The copying functions move what they should, end what they copy, and    *)
(* write nothing outside the cells they were given.                        *)
CopiesStayInside == MemmoveMoves /\ SafestrcpyEnds /\ GetsTakesOneLine
=============================================================================
