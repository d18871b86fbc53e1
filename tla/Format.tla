------------------------------- MODULE Format -------------------------------
(***************************************************************************)
(* Formatted output: printf and snprintf of user programs (printf.c), and  *)
(* cprintf of the kernel (console.c).  Words have W bits.  Each step picks *)
(* a format, arguments and a buffer size; the properties compare what the  *)
(* code's loops produce with what the format means.                        *)
(***************************************************************************)
EXTENDS Integers, Sequences
LOCAL INSTANCE SequencesExt

CONSTANTS
  W,            \* bits of int and uint
  FmtChar,      \* characters of a format
  MAXFMT,       \* bound: its length
  Arg,          \* argument lists: sequences of [n |-> int, s |-> string or NullStr]
  MAXN          \* bound: snprintf's n

VARIABLE fcase  \* the call under consideration
fmtVars == <<fcase>>

UINT(x) == x % 2 ^ W
INT == -(2 ^ (W - 1)) .. 2 ^ (W - 1) - 1
NullStr == <<"null">>
Chosen == DOMAIN fcase # {}
DigitChar == <<"0", "1", "2", "3", "4", "5", "6", "7", "8", "9", "A", "B", "C", "D", "E", "F">>

\* s ? s : "(null)", which is one character here.
Text(s) == IF s = NullStr THEN <<"(null)">> ELSE s
-----------------------------------------------------------------------------
\* The loop over x % base, of at most `most` turns; least significant first.
RECURSIVE Digits(_, _, _)
Digits(x, b, most) == IF x = 0 \/ most = 0 THEN <<>> ELSE <<DigitChar[(x % b) + 1]>> \o Digits(x \div b, b, most - 1)

\* -xx or xx, converted to uint.
Magnitude(xx, sgn) == IF sgn /\ xx < 0 THEN UINT(-xx) ELSE UINT(xx)

s_getReverseDigits(length, xx, b, sgn) ==
  LET d == Digits(Magnitude(xx, sgn), b, length - 1)
      z == IF xx = 0 /\ Len(d) + 1 < length THEN d \o <<"0">> ELSE d
  IN  IF sgn /\ xx < 0 /\ Len(z) < length THEN z \o <<"-">> ELSE z

\* The kernel's: a do-while, and as many digits as there are.
printint(xx, b, sign) ==
  LET x == Magnitude(xx, sign)
      d == IF x = 0 THEN <<"0">> ELSE Digits(x, b, W)
  IN  Reverse(d \o (IF sign /\ xx < 0 THEN <<"-">> ELSE <<>>))

\* Where a character goes: to the end of a file, or in a buffer if it fits.
s_putc(out, length, index, c) == out \o <<c>>


s_sputc(out, length, index, c) == IF index < length THEN [out EXCEPT ![index] = c] ELSE out

\* The function s_printf is given to output a character with.
putcFunction(to, out, length, index, c) ==
  IF to = "buffer" THEN s_sputc(out, length, index, c) ELSE s_putc(out, length, index, c)

\* The state of s_printf's loop, with characters cs output; for a number only
\* those within length are.
Emit(to, st, length, cs, bounded) ==
  LET Put(out, k) == IF bounded /\ st.idx + k - 1 >= length THEN out ELSE putcFunction(to, out, length, st.idx + k - 1, cs[k])
  IN  [st EXCEPT !.out = FoldLeft(Put, st.out, [k \in DOMAIN cs |-> k]), !.idx = @ + Len(cs)]

s_printint(to, st, length, xx, b, sgn) ==
  Emit(to, st, length, Reverse(s_getReverseDigits(16, xx, b, sgn)), TRUE)

Next_arg(st) == [st EXCEPT !.ap = @ + 1]

\* One turn of the loop of s_printf.
s_printf_step(to, st, length, args, c) ==
  LET plain(cs) == Emit(to, st, length, cs, FALSE)
      arg == args[st.ap]
      done(t) == [t EXCEPT !.pct = FALSE]
  IN  CASE st.idx >= length -> st
        [] ~st.pct /\ c = "%" -> [st EXCEPT !.pct = TRUE]
        [] ~st.pct -> plain(<<c>>)
        [] c = "d" -> done([s_printint(to, st, length, arg.n, 10, TRUE) EXCEPT !.ap = @ + 1])
        [] c \in {"x", "p"} -> done([s_printint(to, st, length, arg.n, 16, FALSE) EXCEPT !.ap = @ + 1])
        [] c = "s" -> done(Next_arg(plain(Text(arg.s))))
        [] c = "c" -> done([plain(<<arg.c>>) EXCEPT !.ap = @ + 1])
        [] c = "%" -> done(plain(<<c>>))
        [] OTHER -> done(plain(<<"%", c>>))

s_printf(to, out, n, fmt, args) ==
  LET length == UINT(n - 1) IN
  FoldLeft(LAMBDA st, c : s_printf_step(to, st, length, args, c),
           [out |-> out, idx |-> 0, pct |-> FALSE, ap |-> 1], fmt)

\* 2^30 in printf, the largest length here.
printf(fmt, args) == s_printf("file", <<>>, 2 ^ W - 1, fmt, args).out

\* snprintf: the buffer afterwards, and what is returned.
snprintf(buf, n, fmt, args) ==
  LET st == s_printf("buffer", buf, n, fmt, args)
      length == UINT(n - 1)
      count == IF length < st.idx THEN length ELSE st.idx
  IN  <<IF count < n THEN [st.out EXCEPT ![count] = "NUL"] ELSE st.out, count>>

\* One turn of cprintf's loop: a character after "%" is taken with it.
cprintf_step(st, args, c) ==
  LET out(cs) == [st EXCEPT !.out = @ \o cs, !.pct = FALSE]
      arg == args[st.ap]
      outarg(cs) == [out(cs) EXCEPT !.ap = @ + 1]
  IN  CASE ~st.pct /\ c = "%" -> [st EXCEPT !.pct = TRUE]
        [] ~st.pct -> out(<<c>>)
        [] c = "d" -> outarg(printint(arg.n, 10, TRUE))
        [] c \in {"x", "p"} -> outarg(printint(arg.n, 16, FALSE))
        [] c = "s" -> outarg(Text(arg.s))
        [] c = "%" -> out(<<"%">>)
        [] OTHER -> out(<<"%", c>>)

cprintf(fmt, args) ==
  FoldLeft(LAMBDA st, c : cprintf_step(st, args, c), [out |-> <<>>, pct |-> FALSE, ap |-> 1], fmt).out
-----------------------------------------------------------------------------
FmtInit == fcase = <<>>

FmtNext ==
  /\ ~Chosen
  /\ \/ \E fmt \in SeqOf(FmtChar, MAXFMT), args \in Arg, n \in 1 .. MAXN :
          fcase' = [fmt |-> fmt, args |-> args, n |-> n]
     \/ \E x \in INT : fcase' = [fmt |-> <<"%", "d">>, n |-> MAXN, args |-> <<[n |-> x, s |-> NullStr, c |-> "a"]>>]

FmtSpec == FmtInit /\ [][FmtNext]_fmtVars

\* What characters mean as a number in base b.
IndexOf(c) == CHOOSE k \in 0 .. 15 : DigitChar[k + 1] = c
Value(cs, b) == IF cs[1] = "-" THEN -FoldLeft(LAMBDA v, c : v * b + IndexOf(c), 0, Tail(cs))
                ELSE FoldLeft(LAMBDA v, c : v * b + IndexOf(c), 0, cs)

(* %d and %x print what the number is, zero and the most negative int      *)
(* included, without a leading zero, in printf as in cprintf.              *)
NumbersAreExact ==
  Chosen => \A base_ \in {10, 16}, sgn \in BOOLEAN :
    LET x == fcase.args[1].n
        user == Reverse(s_getReverseDigits(16, x, base_, sgn))
    IN  /\ Value(user, base_) = IF sgn THEN x ELSE UINT(x)
        /\ user[1] = "0" => Len(user) = 1
        /\ printint(x, base_, sgn) = user

\* A format without %c, which only printf knows.
RECURSIVE NoC(_)
NoC(fmt) == Len(fmt) > 1 => IF fmt[1] = "%" THEN fmt[2] # "c" /\ NoC(Tail(Tail(fmt))) ELSE NoC(Tail(fmt))

(* printf and cprintf, two codes for one format language, print the same.  *)
PrintersAgree == Chosen /\ NoC(fcase.fmt) => printf(fcase.fmt, fcase.args) = cprintf(fcase.fmt, fcase.args)

(* "Print into outbuffer at most n characters.  If n is greater than 0, a  *)
(* terminating nul is always stored.  Return the number of characters      *)
(* written": snprintf stores the first n-1 characters that printf would    *)
(* print, a nul and nothing else, wherever the cut falls.                  *)
SnprintfIsPrefix ==
  Chosen =>
    LET full == printf(fcase.fmt, fcase.args)
        k == IF Len(full) < fcase.n THEN Len(full) ELSE fcase.n - 1
        r == snprintf([i \in 0 .. MAXN |-> "old"], fcase.n, fcase.fmt, fcase.args)
    IN  /\ r[2] = k
        /\ \A i \in 0 .. MAXN : r[1][i] = IF i < k THEN full[i + 1] ELSE IF i = k THEN "NUL" ELSE "old"

=============================================================================
