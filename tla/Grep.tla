-------------------------------- MODULE Grep --------------------------------
(***************************************************************************)
(* grep.c: the matcher, and the loop that reads into a buffer and prints   *)
(* the lines that match, with what read returns cut anywhere.  The loop    *)
(* empties its buffer when a read brings no end of line; `dropped`         *)
(* remembers that.                                                         *)
(***************************************************************************)
EXTENDS Integers, Sequences
LOCAL INSTANCE SequencesExt

CONSTANTS
  TextChar, Pattern,   \* characters of a text without "nl"; patterns
  MAXTEXT,             \* bound: characters of the texts that matching is tried on
  BUF                  \* sizeof(buf)

VARIABLES
  pattern, gbuf,       \* the pattern; buf[0 .. m-1]
  printed,             \* what this turn of the loop wrote
  partial, whole,      \* history: text after the last end of line; the lines
                       \* that this read completed
  dropped              \* history: the loop threw away part of a line
grepVars == <<pattern, gbuf, printed, partial, whole, dropped>>

RECURSIVE matchhere(_, _), matchstar(_, _, _), anywhere(_, _)

\* Does c* take one more character?
more(c, text) == text # <<>> /\ (text[1] = c \/ c = ".")

matchstar(c, re, text) ==
  matchhere(re, text) \/ (more(c, text) /\ matchstar(c, re, Tail(text)))

matchhere(re, text) ==
  IF re = <<>> THEN TRUE
  ELSE IF Len(re) > 1 /\ re[2] = "*" THEN matchstar(re[1], SubSeq(re, 3, Len(re)), text)
  ELSE IF re = <<"$">> THEN text = <<>>
  ELSE text # <<>> /\ (re[1] = "." \/ re[1] = text[1]) /\ matchhere(Tail(re), Tail(text))

\* The do-while of match looks at the empty rest of the text too.
anywhere(re, text) == matchhere(re, text) \/ (text # <<>> /\ anywhere(re, Tail(text)))

match(re, text) ==
  IF re # <<>> /\ re[1] = "^" THEN matchhere(Tail(re), text) ELSE anywhere(re, text)
-----------------------------------------------------------------------------
\* The lines that end in s, and what is after them.
RECURSIVE Lines(_)
Lines(s) ==
  IF ~Contains(s, "nl") THEN <<>>
  ELSE LET k == CHOOSE j \in DOMAIN s : s[j] = "nl" /\ \A i \in 1 .. j - 1 : s[i] # "nl"
       IN  <<SubSeq(s, 1, k - 1)>> \o Lines(SubSeq(s, k + 1, Len(s)))
Unfinished(s) ==
  LET n == {0} \cup {j \in DOMAIN s : s[j] = "nl"} IN
  SubSeq(s, 1 + (CHOOSE j \in n : \A i \in n : i <= j), Len(s))

GrepInit ==
  /\ pattern = <<>> /\ gbuf = <<>> /\ printed = <<>>
  /\ partial = <<>> /\ whole = <<>> /\ dropped = FALSE

\* main has taken the pattern from its arguments.
start(re) ==
  /\ pattern = <<>> /\ pattern' = re
  /\ UNCHANGED <<gbuf, printed, partial, whole, dropped>>

\* Mutant: the rest of the buffer is thrown away.
kept_none(b) == <<>>

\* What is left at the front of the buffer: after the last line, or nothing if
\* there was no line in it.
kept(b) == IF Contains(b, "nl") THEN Unfinished(b) ELSE <<>>

\* A turn of the loop: read, print the matching lines, move the rest down.
grep(chunk) ==
  LET b == gbuf \o chunk IN
  /\ pattern # <<>> /\ Len(chunk) \in 1 .. BUF - Len(gbuf) - 1
  /\ printed' = SelectSeq(Lines(b), LAMBDA l : match(pattern, l))
  /\ gbuf' = kept(b)
  /\ whole' = Lines(partial \o chunk) /\ partial' = Unfinished(partial \o chunk)
  /\ dropped' = (dropped \/ ~Contains(b, "nl"))
  /\ UNCHANGED pattern

GrepNext ==
  \/ \E re \in Pattern : start(re)
  \/ ~dropped /\ \E chunk \in SeqOf(TextChar \cup {"nl"}, BUF - 1) : grep(chunk)

GrepSpec == GrepInit /\ [][GrepNext]_grepVars
-----------------------------------------------------------------------------
\* What a pattern means: each item takes one character, or any number of them.
Item(re) == IF Len(re) > 1 /\ re[2] = "*" THEN 2 ELSE 1
Takes(c, x) == c = "." \/ c = x

RECURSIVE Denotes(_, _)
Denotes(re, text) ==
  IF re = <<>> THEN TRUE
  ELSE IF re = <<"$">> THEN text = <<>>
  ELSE \E k \in IF Item(re) = 2 THEN 0 .. Len(text) ELSE {1} :
         /\ k <= Len(text) /\ \A j \in 1 .. k : Takes(re[1], text[j])
         /\ Denotes(SubSeq(re, Item(re) + 1, Len(re)), SubSeq(text, k + 1, Len(text)))

(* "Only supports ^ . * $ operators": match finds a pattern exactly where  *)
(* some part of the text is what the pattern describes, backtracking over  *)
(* "*" and looking at the empty end of the text.                           *)
MatchIsExact ==
  pattern # <<>> => \A text \in SeqOf(TextChar, MAXTEXT) :
    match(pattern, text) <=>
      IF pattern[1] = "^" THEN Denotes(Tail(pattern), text)
      ELSE \E k \in 0 .. Len(text) : Denotes(pattern, SubSeq(text, k + 1, Len(text)))

(* Every line is printed that matches, once and whole, wherever the reads  *)
(* cut it -- as long as no read ended before the first end of line in the  *)
(* buffer, when the loop forgets the beginning of the line.                *)
PrintsMatchingLines ==
  ~dropped => gbuf = partial /\ printed = SelectSeq(whole, LAMBDA l : match(pattern, l))

(* grep prints the lines its pattern describes: match is exact, and the    *)
(* loop gives it each line whole.                                          *)
GrepIsRight == MatchIsExact /\ PrintsMatchingLines
=============================================================================
