------------------------------ MODULE Console -------------------------------
(***************************************************************************)
(* Console input (console.c): the interrupt handler edits a line in a ring *)
(* of characters, and commits it to the readers at a newline, at ^D, or    *)
(* when the ring is full.  The indices r, w and e count for ever and wrap. *)
(*                                                                         *)
(* cons.lock is held from acquire to release or sleep: the steps of a      *)
(* reader are interleaved with no interrupt until it lets go of the lock.  *)
(***************************************************************************)
EXTENDS Integers, Sequences, SequencesExt

CONSTANTS
  Reader, Nobody,   \* processes that read the console
  INPUT_BUF,        \* size of the ring
  WRAP,             \* the indices are modulo WRAP (2^32), a multiple of INPUT_BUF
  MAXREAD           \* bound: the most a reader asks for

ASSUME ConsAssumption == WRAP % INPUT_BUF = 0 /\ WRAP > INPUT_BUF

Key == {"x", "\n", "\r", "^D", "^U", "^H", "^P", "0"}

VARIABLES
  cbuf, ir, iw, ie,   \* struct input
  conslock,           \* holder of cons.lock among the readers
  rpc, want, got,     \* of each reader: where it is, n, what it has read
  ckilled,            \* its p->killed
  ready, line         \* history: characters committed and not read; being edited

ringVars == <<cbuf, ir, iw, ie>>
consVars == <<ringVars, conslock, rpc, want, got, ckilled, ready, line>>

Plus(i, n) == (i + n) % WRAP
Dist(i, j) == (j - i) % WRAP
InRing(i, j) == [k \in 1 .. Dist(i, j) |-> cbuf[Plus(i, k - 1) % INPUT_BUF]]

ConsInit ==
  /\ cbuf = [i \in 0 .. INPUT_BUF - 1 |-> "0"] /\ ir = 0 /\ iw = 0 /\ ie = 0
  /\ conslock = Nobody /\ ready = <<>> /\ line = <<>>
  /\ rpc = [p \in Reader |-> "idle"] /\ want = [p \in Reader |-> 0]
  /\ got = [p \in Reader |-> <<>>] /\ ckilled = [p \in Reader |-> FALSE]

wakeup_readers == rpc' = [p \in Reader |-> IF rpc[p] = "asleep" THEN "woken" ELSE rpc[p]]
-----------------------------------------------------------------------------
\* ^U: back to the last newline, or to what is committed.
kill_line ==
  /\ ie' = Plus(iw, LET s == InRing(iw, ie) IN SelectLastInSeq(s, LAMBDA c : c = "\n"))
  /\ line' = <<>>
  /\ UNCHANGED <<cbuf, ir, iw, rpc, ready>>

\* Mutant: what has been committed can be erased too.
erase_committed ==
  /\ ie' = IF ie # ir THEN Plus(ie, -1) ELSE ie
  /\ line' = IF line # <<>> THEN Front(line) ELSE line
  /\ UNCHANGED <<cbuf, ir, iw, rpc, ready>>

\* ^H
erase ==
  /\ ie' = IF ie # iw THEN Plus(ie, -1) ELSE ie
  /\ line' = IF line # <<>> THEN Front(line) ELSE line
  /\ UNCHANGED <<cbuf, ir, iw, rpc, ready>>

room == Dist(ir, ie) < INPUT_BUF

\* Is the line done once c is in?
ends_line(c) == c \in {"\n", "^D"} \/ Plus(ie, 1) = Plus(ir, INPUT_BUF)

store(c) ==
  /\ cbuf' = [cbuf EXCEPT ![ie % INPUT_BUF] = c] /\ ie' = Plus(ie, 1)
  /\ iw' = IF ends_line(c) THEN ie' ELSE iw
  /\ IF ends_line(c) THEN wakeup_readers ELSE rpc' = rpc
  /\ ready' = IF ends_line(c) THEN ready \o Append(line, c) ELSE ready
  /\ line' = IF ends_line(c) THEN <<>> ELSE Append(line, c)
  /\ ir' = ir

\* One character of consoleintr; ^P only lists the processes.
consoleintr(c) ==
  /\ conslock = Nobody
  /\ CASE c = "^U" -> kill_line
       [] c = "^H" -> erase
       [] c \notin {"^U", "^H", "^P", "0"} /\ room -> store(IF c = "\r" THEN "\n" ELSE c)
       [] OTHER -> UNCHANGED <<ringVars, rpc, ready, line>>
  /\ UNCHANGED <<conslock, want, got, ckilled>>
-----------------------------------------------------------------------------
consoleread(p, n) ==
  /\ rpc[p] = "idle" /\ conslock = Nobody
  /\ conslock' = p /\ rpc' = [rpc EXCEPT ![p] = "in"]
  /\ want' = [want EXCEPT ![p] = n] /\ got' = [got EXCEPT ![p] = <<>>]
  /\ UNCHANGED <<ringVars, ckilled, ready, line>>


\* ^D ends the read; it stays for the next one unless nothing was read.
read_eof(p) ==
  /\ conslock = p /\ rpc[p] = "in" /\ want[p] > 0 /\ ir # iw /\ cbuf[ir % INPUT_BUF] = "^D"
  /\ IF got[p] = <<>> THEN ir' = Plus(ir, 1) /\ ready' = Tail(ready)
                      ELSE UNCHANGED <<ir, ready>>
  /\ rpc' = [rpc EXCEPT ![p] = "return"]
  /\ UNCHANGED <<cbuf, iw, ie, conslock, want, got, ckilled, line>>

read_char(p) ==
  LET c == cbuf[ir % INPUT_BUF] IN
  /\ conslock = p /\ rpc[p] = "in" /\ want[p] > 0 /\ ir # iw /\ c # "^D"
  /\ ir' = Plus(ir, 1) /\ ready' = Tail(ready)
  /\ got' = [got EXCEPT ![p] = Append(@, c)] /\ want' = [want EXCEPT ![p] = @ - 1]
  /\ rpc' = [rpc EXCEPT ![p] = IF c = "\n" THEN "return" ELSE "in"]
  /\ UNCHANGED <<cbuf, iw, ie, conslock, ckilled, line>>

\* Nothing to read: sleep, or leave with -1.
read_wait(p) ==
  /\ conslock = p /\ rpc[p] = "in" /\ want[p] > 0 /\ ir = iw
  /\ conslock' = Nobody
  /\ rpc' = [rpc EXCEPT ![p] = IF ckilled[p] THEN "idle" ELSE "asleep"]
  /\ got' = [got EXCEPT ![p] = IF ckilled[p] THEN <<>> ELSE @]
  /\ want' = [want EXCEPT ![p] = IF ckilled[p] THEN 0 ELSE @]
  /\ UNCHANGED <<ringVars, ckilled, ready, line>>

read_resume(p) ==
  /\ rpc[p] = "woken" /\ conslock = Nobody
  /\ conslock' = p /\ rpc' = [rpc EXCEPT ![p] = "in"]
  /\ UNCHANGED <<ringVars, want, got, ckilled, ready, line>>

read_return(p) ==
  /\ conslock = p /\ rpc[p] \in {"in", "return"}
  /\ rpc[p] = "in" => want[p] = 0
  /\ conslock' = Nobody /\ rpc' = [rpc EXCEPT ![p] = "idle"]
  /\ got' = [got EXCEPT ![p] = <<>>] /\ want' = [want EXCEPT ![p] = 0]
  /\ UNCHANGED <<ringVars, ckilled, ready, line>>

\* kill marks a reader, and wakes it.
kill(p) ==
  /\ ~ckilled[p] /\ ckilled' = [ckilled EXCEPT ![p] = TRUE]
  /\ rpc' = [rpc EXCEPT ![p] = IF @ = "asleep" THEN "woken" ELSE @]
  /\ UNCHANGED <<ringVars, conslock, want, got, ready, line>>

ConsNext ==
  \/ \E c \in Key : consoleintr(c)
  \/ \E p \in Reader : \/ \E n \in 0 .. MAXREAD : consoleread(p, n)
                       \/ read_eof(p) \/ read_char(p) \/ read_wait(p)
                       \/ read_resume(p) \/ read_return(p) \/ kill(p)

ConsSpec == ConsInit /\ [][ConsNext]_consVars
-----------------------------------------------------------------------------
ConsTypeOK ==
  /\ cbuf \in [0 .. INPUT_BUF - 1 -> Key] /\ {ir, iw, ie} \subseteq 0 .. WRAP - 1
  /\ conslock \in Reader \cup {Nobody} /\ ckilled \in [Reader -> BOOLEAN]
  /\ rpc \in [Reader -> {"idle", "in", "asleep", "woken", "return"}]
  /\ want \in [Reader -> 0 .. MAXREAD] /\ \A p \in Reader : Len(got[p]) <= MAXREAD

(* The ring holds what was typed, edited and not yet read, in order: no    *)
(* character is overwritten before it is read, none that was committed is  *)
(* erased, and the wrapping of the indices does not show.                  *)
RingIsQueue == InRing(ir, iw) = ready /\ InRing(iw, ie) = line

(* A full ring has something to read.  Otherwise consoleintr would drop    *)
(* every key, newline included, and no reader could make room.             *)
FullIsReadable == Dist(ir, ie) = INPUT_BUF => ir # iw

(* No reader sleeps on &input.r while there are characters to read.        *)
NoLostLine == \A p \in Reader : rpc[p] = "asleep" => ir = iw

(* A read returns a piece of one line: nothing after its newline, and no   *)
(* ^D.                                                                     *)
ReadsOneLine ==
  \A p \in Reader : \A i \in DOMAIN got[p] :
    got[p][i] # "^D" /\ (got[p][i] = "\n" => i = Len(got[p]) /\ rpc[p] # "in")


(* The console is a queue of edited lines between the keyboard's interrupt *)
(* and the readers: none lost, none merged, nobody asleep over one.        *)
LinesAreDelivered == ConsTypeOK /\ RingIsQueue /\ FullIsReadable /\ NoLostLine /\ ReadsOneLine
=============================================================================
