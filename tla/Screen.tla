------------------------------- MODULE Screen -------------------------------
(***************************************************************************)
(* Console output (cgaputc, consputc and consolewrite of console.c): the   *)
(* memory of the screen, its cursor, and scrolling.  cons.lock serialises  *)
(* the characters.                                                         *)
(***************************************************************************)
EXTENDS Integers, Sequences, SequencesExt

CONSTANTS
  COLS, ROWS,   \* 80 and 25; the last row is never used
  MAXTAPE       \* bound: cells printed

VARIABLES
  crt, pos,     \* the cells of the screen; the cursor
  tape          \* history: every cell printed, scrolled away or not
screenVars == <<crt, pos, tape>>

Last_ == (ROWS - 1) * COLS          \* the first cell that must not be reached
Blanks(n) == [i \in 1 .. n |-> " "]

\* The boot loader leaves some text, with nothing below the cursor.
ScreenInit ==
  /\ pos = COLS + 1 /\ tape = [i \in 1 .. COLS + 1 |-> "x"]
  /\ crt = [i \in 0 .. ROWS * COLS - 1 |-> IF i < COLS + 1 THEN "x" ELSE " "]

\* Where the cursor goes, before scrolling.
advance(c) ==
  CASE c = "\n" -> pos + COLS - (pos % COLS)
    [] c = "BACKSPACE" -> IF pos > 0 THEN pos - 1 ELSE pos
    [] OTHER -> pos + 1

written(c) == IF c \in {"\n", "BACKSPACE"} THEN crt ELSE [crt EXCEPT ![pos] = c]

\* Mutant: the last row is not blanked.
scrolled_dirty(m, p) ==
  IF p < Last_ THEN m
  ELSE [i \in DOMAIN m |-> IF i < Last_ - COLS THEN m[i + COLS] ELSE m[i]]

\* memmove all rows but the first up by one, then blank from the cursor on.
scrolled(m, p) ==
  IF p < Last_ THEN m
  ELSE [i \in DOMAIN m |-> CASE i \in (p - COLS) .. Last_ - 1 -> " "
                             [] i < Last_ - COLS -> m[i + COLS]
                             [] OTHER -> m[i]]

settle(p) == IF p >= Last_ THEN p - COLS ELSE p

\* cgaputc ends by blanking the cell under the cursor.
cgaputc(c) ==
  LET p == advance(c) IN
  /\ pos' = settle(p)
  /\ crt' = [scrolled(written(c), p) EXCEPT ![settle(p)] = " "]

\* consputc, from consolewrite, cprintf or the echo of a key.
consputc(c) ==
  /\ Len(tape) < MAXTAPE
  /\ cgaputc(c)
  /\ tape' = CASE c = "\n" -> tape \o Blanks(COLS - (Len(tape) % COLS))
               [] c = "BACKSPACE" -> IF pos > 0 THEN Front(tape) ELSE tape
               [] OTHER -> Append(tape, c)

ScreenNext == \E c \in {"x", "y", "\n", "BACKSPACE"} : consputc(c)

ScreenSpec == ScreenInit /\ [][ScreenNext]_screenVars
-----------------------------------------------------------------------------
(* The screen shows the end of what was printed, up to the cursor, in rows *)
(* that start where they started when they were printed; the rest is       *)
(* blank.  Erasing across the end of a row, and scrolling, do not break    *)
(* it, nor do they take the cursor to "pos under/overflow".                *)
ScreenShowsTape ==
  /\ pos \in 0 .. Last_ - 1
  /\ Len(tape) >= pos /\ (Len(tape) - pos) % COLS = 0
  /\ \A i \in 0 .. Last_ - 1 : crt[i] = IF i < pos THEN tape[Len(tape) - pos + i + 1] ELSE " "
=============================================================================
