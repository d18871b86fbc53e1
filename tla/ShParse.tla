------------------------------ MODULE ShParse -------------------------------
(***************************************************************************)
(* The shell's parser, sh.c: a recursive descent over the characters of a  *)
(* line, and nulterminate, which ends the words in place once the whole    *)
(* line is parsed.  A word is <<q, eq>>, its first position and the one    *)
(* after it.  Each step picks a line; the properties compare the parser    *)
(* with the grammar.                                                       *)
(***************************************************************************)
EXTENDS Integers, Sequences, FiniteSets
LOCAL INSTANCE SequencesExt

CONSTANTS
  Line,      \* the lines: sequences of characters
  MAXARGS

VARIABLE cmdline, parsed   \* a line, and what parsecmd makes of it
shVars == <<cmdline, parsed>>

whitespace == {" "}
symbols == {"<", "|", ">", "&", ";", "(", ")"}
End == Len(cmdline) + 1
Char(s) == IF s < End THEN cmdline[s] ELSE "nul"

RECURSIVE Skip(_, _), SkipWord(_)
Skip(s, S) == IF s < End /\ Char(s) \in S THEN Skip(s + 1, S) ELSE s
SkipWord(s) == IF s < End /\ Char(s) \notin whitespace \cup symbols THEN SkipWord(s + 1) ELSE s

\* The token at q, of the length it has.
Token(q, ret, eq) == [ret |-> ret, q |-> q, eq |-> eq, s |-> Skip(eq, whitespace)]
TokenAt(q, c, next) ==
  CASE c = "nul" -> Token(q, c, q)
    [] c = ">" /\ next = ">" -> Token(q, "+", q + 2)
    [] c \in symbols /\ (c = ">" => next # ">") -> Token(q, c, q + 1)
    [] OTHER -> Token(q, "a", SkipWord(q))
FirstToken(q) == TokenAt(q, Char(q), Char(q + 1))
gettoken(ps) == FirstToken(Skip(ps, whitespace))

peek(s, toks) == Char(Skip(s, whitespace)) \in toks
-----------------------------------------------------------------------------
\* A parsing function returns the command and where it stopped; at 0 the shell
\* has panicked.
Panic == [cmd |-> <<>>, s |-> 0]

RECURSIVE parseline(_), parsepipe(_), parseredirs(_), args(_, _), Backs(_)

\* Mutant: a redirection takes the place of the one before it.
redircmd_last(r, tok, f) ==
  IF f.ret # "a" THEN Panic
  ELSE [cmd |-> <<"redir", IF r.cmd[1] = "redir" THEN r.cmd[2] ELSE r.cmd, IF tok = "<" THEN 0 ELSE 1, <<f.q, f.eq>>>>,
        s |-> f.s]

\* The redirection goes around the command.
redircmd(r, tok, f) ==
  IF f.ret # "a" THEN Panic
  ELSE [cmd |-> <<"redir", r.cmd, IF tok = "<" THEN 0 ELSE 1, <<f.q, f.eq>>>>, s |-> f.s]

Redirected(r, t) == parseredirs(redircmd(r, t.ret, gettoken(t.s)))
parseredirs(r) == IF r.s = 0 \/ ~peek(r.s, {"<", ">"}) THEN r ELSE Redirected(r, gettoken(r.s))

Closed(r) == IF r.s = 0 \/ ~peek(r.s, {")"}) THEN Panic ELSE parseredirs([r EXCEPT !.s = gettoken(@).s])
parseblock(s) == Closed(parseline(gettoken(s).s))

\* The innermost command gets the word.
RECURSIVE AddWord(_, _)
AddWord(c, w) == IF c[1] = "exec" THEN <<"exec", Append(c[2], w)>> ELSE [c EXCEPT ![2] = AddWord(@, w)]

\* The while loop of parseexec, and its body.
arg(r, t, argc) ==
  IF t.ret = "nul" THEN r
  ELSE IF t.ret # "a" \/ argc + 1 >= MAXARGS THEN Panic
  ELSE args(parseredirs([cmd |-> AddWord(r.cmd, <<t.q, t.eq>>), s |-> t.s]), argc + 1)
args(r, argc) == IF r.s = 0 \/ peek(r.s, {"|", ")", "&", ";"}) THEN r ELSE arg(r, gettoken(r.s), argc)

parseexec(s) ==
  IF peek(s, {"("}) THEN parseblock(s) ELSE args(parseredirs([cmd |-> <<"exec", <<>>>>, s |-> s]), 0)

\* pipecmd and listcmd, of what comes before and after the symbol.
Joined(kind, l, r) == IF r.s = 0 THEN Panic ELSE [r EXCEPT !.cmd = <<kind, l.cmd, @>>]

Piped(l) == IF l.s = 0 \/ ~peek(l.s, {"|"}) THEN l ELSE Joined("pipe", l, parsepipe(gettoken(l.s).s))
parsepipe(s) == Piped(parseexec(s))

Backs(r) ==
  IF r.s = 0 \/ ~peek(r.s, {"&"}) THEN r ELSE Backs([cmd |-> <<"back", r.cmd>>, s |-> gettoken(r.s).s])
Listed_(l) == IF l.s = 0 \/ ~peek(l.s, {";"}) THEN l ELSE Joined("list", l, parseline(gettoken(l.s).s))
parseline(s) == Listed_(Backs(parsepipe(s)))

\* parsecmd: the command, or <<>> when the shell reports a syntax error.
parsecmd(c) ==
  LET r == parseline(1) IN IF r.s = 0 \/ Skip(r.s, whitespace) # End THEN <<>> ELSE r.cmd

ends_file(c) == {c[4][2]}

\* The positions nulterminate puts a nul at.
RECURSIVE nulterminate(_)
nulterminate(c) ==
  CASE c[1] = "exec" -> {c[2][k][2] : k \in DOMAIN c[2]}
    [] c[1] = "redir" -> nulterminate(c[2]) \cup ends_file(c)
    [] c[1] = "back" -> nulterminate(c[2])
    [] OTHER -> nulterminate(c[2]) \cup nulterminate(c[3])

ShInit == cmdline = <<>> /\ parsed = <<"none">>

\* getcmd read a line, then it is parsed.
read_line(l) == cmdline = <<>> /\ cmdline' = l /\ UNCHANGED parsed
parse == cmdline # <<>> /\ parsed = <<"none">> /\ parsed' = parsecmd(cmdline) /\ UNCHANGED cmdline

ShNext == (\E l \in Line : read_line(l)) \/ parse

ShSpec == ShInit /\ [][ShNext]_shVars
-----------------------------------------------------------------------------
\* The grammar, over the tokens of a line.
RECURSIVE Tokens(_)
Tokens(s) == LET t == gettoken(s) IN IF t.ret = "nul" THEN <<>> ELSE <<t.ret>> \o Tokens(t.s)

RECURSIVE IsLine(_), IsPipe(_), IsSimple(_)
\* Words and redirections.
IsSimple(ts) ==
  ts = <<>> \/ (ts[1] = "a" /\ IsSimple(Tail(ts)))
  \/ (Len(ts) > 1 /\ ts[1] \in {"<", ">", "+"} /\ ts[2] = "a" /\ IsSimple(SubSeq(ts, 3, Len(ts))))
\* The words that are no file names.
NArgs(ts) == Cardinality({k \in DOMAIN ts : ts[k] = "a" /\ (k = 1 \/ ts[k - 1] = "a")})
IsRedirs(ts) == IsSimple(ts) /\ Len(ts) % 2 = 0 /\ \A k \in DOMAIN ts : (k % 2 = 1) => ts[k] # "a"
IsExec(ts) ==
  \/ IsSimple(ts) /\ NArgs(ts) < MAXARGS
  \/ \E k \in 2 .. Len(ts) : ts[1] = "(" /\ ts[k] = ")" /\ IsLine(SubSeq(ts, 2, k - 1)) /\ IsRedirs(SubSeq(ts, k + 1, Len(ts)))
IsPipe(ts) ==
  \/ IsExec(ts)
  \/ \E k \in DOMAIN ts : ts[k] = "|" /\ IsExec(SubSeq(ts, 1, k - 1)) /\ IsPipe(SubSeq(ts, k + 1, Len(ts)))
IsLine(ts) ==
  \E k \in 0 .. Len(ts), n \in 0 .. Len(ts) :
    /\ k + n <= Len(ts) /\ IsPipe(SubSeq(ts, 1, k)) /\ \A j \in k + 1 .. k + n : ts[j] = "&"
    /\ k + n = Len(ts) \/ (ts[k + n + 1] = ";" /\ IsLine(SubSeq(ts, k + n + 2, Len(ts))))

(* The shell runs exactly the lines of the grammar its parse functions     *)
(* describe: lists of background and foreground pipelines of blocks and of *)
(* simple commands of less than MAXARGS words, with redirections; the      *)
(* others it rejects, with nothing left over.                              *)
ParsesTheGrammar == parsed # <<"none">> => (parsed # <<>> <=> IsLine(Tokens(1)))

\* All words of a command.
RECURSIVE Words(_)
Words(c) ==
  CASE c[1] = "exec" -> {c[2][k] : k \in DOMAIN c[2]}
    [] c[1] = "redir" -> Words(c[2]) \cup {c[4]}
    [] c[1] = "back" -> Words(c[2])
    [] OTHER -> Words(c[2]) \cup Words(c[3])
IsWord(a, b) == /\ \A k \in a .. b - 1 : Char(k) \notin whitespace \cup symbols
                /\ Char(b) \in whitespace \cup symbols \cup {"nul"} /\ (a > 1 => Char(a - 1) \in whitespace \cup symbols)

(* "NUL-terminate all the counted strings": after parsing every word of    *)
(* the line is an argument or a file name, ends with a nul, and no nul is  *)
(* inside another word, although the nuls go over the characters between   *)
(* them, symbols included.                                                 *)
WordsAreKept ==
  parsed \notin {<<"none">>, <<>>} =>
    LET z == nulterminate(parsed) IN
    /\ Words(parsed) = {w \in (1 .. Len(cmdline)) \X (2 .. End) : w[1] < w[2] /\ IsWord(w[1], w[2])}
    /\ \A w \in Words(parsed) : w[2] \in z /\ \A k \in w[1] .. w[2] - 1 : k \notin z

\* Pipes and lists of the tree, and the symbols that made them.
RECURSIVE Nodes(_, _)
Nodes(c, kind) ==
  (IF c[1] = kind THEN 1 ELSE 0) +
  (CASE c[1] = "exec" -> 0 [] c[1] \in {"redir", "back"} -> Nodes(c[2], kind)
     [] OTHER -> Nodes(c[2], kind) + Nodes(c[3], kind))
Times(tok) == Len(SelectSeq(Tokens(1), LAMBDA t : t \in tok))

(* Nothing of an accepted line is lost: the command has a pipe, list,      *)
(* background command and redirection for each of its symbols.             *)
SymbolsAreKept ==
  parsed \notin {<<"none">>, <<>>} =>
    /\ Nodes(parsed, "pipe") = Times({"|"}) /\ Nodes(parsed, "list") = Times({";"})
    /\ Nodes(parsed, "back") = Times({"&"}) /\ Nodes(parsed, "redir") = Times({"<", ">", "+"})

(* The parser accepts exactly the grammar, and what it accepts it keeps:   *)
(* every symbol in the tree, and every word, ended by its nul.             *)
LinesAreParsed == ParsesTheGrammar /\ SymbolsAreKept /\ WordsAreKept
=============================================================================
