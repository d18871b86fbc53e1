------------------------------- MODULE ShRun --------------------------------
(***************************************************************************)
(* runcmd and main of sh.c: the processes a command forks, the pipes       *)
(* between them and who waits for whom.  A command is a tree as the parser *)
(* makes it.  The programs that are run are external: one writes a little  *)
(* and exits, one copies its input until its end, one exits at once.  A    *)
(* pipe has room for one message.  fork may fail MAXFAILS times.           *)
(***************************************************************************)
EXTENDS Integers, Sequences, FiniteSets

CONSTANTS
  Command,    \* command trees
  NSHPROC,    \* processes; the first is the shell
  NSHPIPE,    \* pipes
  MAXCMD,     \* bound: commands typed
  MAXFAILS    \* bound: forks that fail

VARIABLES
  sp,         \* each process: state, command, parent, fd 0 and 1, the pipe it
              \* has in p[], children to wait for, background?
  full,       \* pipes with a message in them
  typed, fails,   \* commands typed so far, forks failed
  cut         \* history: a fork of a foreground command failed
runVars == <<sp, full, typed, fails, cut>>

Pid == 1 .. NSHPROC
PipeId == 1 .. NSHPIPE
NoProc_ == [st |-> "none", cmd |-> <<>>, parent |-> 0, in |-> 0, out |-> 0, p |-> 0, kids |-> 0, bg |-> FALSE]

Alive(i) == sp[i].st \notin {"none", "zombie"}
Readers(k) == {i \in Pid : Alive(i) /\ k \in {sp[i].in, sp[i].p}}
Writers(k) == {i \in Pid : Alive(i) /\ k \in {sp[i].out, sp[i].p}}

RunInit ==
  /\ sp = [i \in Pid |-> IF i = 1 THEN [NoProc_ EXCEPT !.st = "prompt"] ELSE NoProc_]
  /\ full = {} /\ typed = 0 /\ fails = 0 /\ cut = FALSE

\* exit: what it had open is closed, its children are init's, which reaps them;
\* the parent finds a zombie, if there is one that is alive.
Exits(s, i) ==
  [j \in Pid |->
    CASE j = i -> IF s[i].parent \in Pid /\ s[s[i].parent].st \notin {"none", "zombie"}
                  THEN [NoProc_ EXCEPT !.st = "zombie", !.parent = s[i].parent] ELSE NoProc_
      [] j # i /\ s[j].parent = i -> IF s[j].st = "zombie" THEN NoProc_ ELSE [s[j] EXCEPT !.parent = 0]
      [] OTHER -> s[j]]

\* A pipe that nobody has open is gone, and its message with it.
Becomes_(s) ==
  /\ sp' = s
  /\ full' = {k \in full : \E i \in Pid : s[i].st \notin {"none", "zombie"} /\ k \in {s[i].in, s[i].out, s[i].p}}

Exit(i) == Becomes_(Exits(sp, i)) /\ UNCHANGED <<typed, fails, cut>>
At_(i, st, kind) == sp[i].st = st /\ sp[i].cmd # <<>> /\ sp[i].cmd[1] = kind

\* fork1: the child is c; i goes on as r.  Or fork fails, and i panics;
\* for the shell that is its end.
fork1(i, c, r, n) ==
  /\ typed' = n
  /\ \/ \E j \in Pid : /\ sp[j].st = "none" /\ \A k \in 1 .. j - 1 : sp[k].st # "none"
                       /\ Becomes_([sp EXCEPT ![i] = r, ![j] = c]) /\ UNCHANGED <<fails, cut>>
     \/ /\ fails < MAXFAILS /\ fails' = fails + 1 /\ cut' = (cut \/ ~sp[i].bg)
        /\ Becomes_(Exits(sp, i))
Child(i, c) == [sp[i] EXCEPT !.st = "run", !.cmd = c, !.parent = i, !.kids = 0]

\* main: a command is typed; a child runs it, and the shell waits.
main(c) ==
  /\ sp[1].st = "prompt" /\ typed < MAXCMD
  /\ fork1(1, Child(1, c), [sp[1] EXCEPT !.st = "wait", !.kids = 1], typed + 1)

\* getcmd has come to the end of the input.
main_end == sp[1].st = "prompt" /\ Exit(1)

\* wait: a zombie is reaped; -1 if there are no children.
wait_child(i) ==
  /\ sp[i].st = "wait"
  /\ \/ \E j \in Pid : /\ sp[j].st = "zombie" /\ sp[j].parent = i
                       /\ Becomes_([sp EXCEPT ![i].kids = @ - 1, ![j] = NoProc_])
     \/ (\A j \in Pid : sp[j].parent # i) /\ Becomes_([sp EXCEPT ![i].kids = @ - 1])
  /\ UNCHANGED <<typed, fails, cut>>

\* After the last wait: the shell prompts, a list goes on, a pipeline is done.
waited(i) ==
  /\ sp[i].st = "wait" /\ sp[i].kids = 0
  /\ CASE i = 1 -> Becomes_([sp EXCEPT ![1].st = "prompt"])
       [] sp[i].cmd[1] = "list" -> Becomes_([sp EXCEPT ![i].st = "run", ![i].cmd = sp[i].cmd[3]])
       [] OTHER -> Becomes_(Exits(sp, i))
  /\ UNCHANGED <<typed, fails, cut>>
-----------------------------------------------------------------------------
\* exec: one of the programs, or it fails and the process exits.
run_exec(i) ==
  /\ At_(i, "run", "exec")
  /\ \/ \E prog \in {"echo", "cat"} : Becomes_([sp EXCEPT ![i].st = prog]) /\ UNCHANGED <<typed, fails, cut>>
     \/ Exit(i)

\* A file takes the place of fd 0 or 1, or cannot be opened.
run_redir(i) ==
  /\ At_(i, "run", "redir")
  /\ \/ Becomes_([sp EXCEPT ![i].cmd = sp[i].cmd[2],
                            ![i].in = IF sp[i].cmd[3] = 0 THEN 0 ELSE @, ![i].out = IF sp[i].cmd[3] = 1 THEN 0 ELSE @])
        /\ UNCHANGED <<typed, fails, cut>>
     \/ Exit(i)

run_list(i) ==
  /\ At_(i, "run", "list")
  /\ fork1(i, Child(i, sp[i].cmd[2]), [sp[i] EXCEPT !.st = "wait", !.kids = 1], typed)

run_back(i) ==
  /\ At_(i, "run", "back")
  /\ fork1(i, [Child(i, sp[i].cmd[2]) EXCEPT !.bg = TRUE], [sp[i] EXCEPT !.st = "done"], typed)

run_done(i) == sp[i].st = "done" /\ Exit(i)

\* pipe gives a new pipe, or fails and the process panics.
run_pipe(i) ==
  /\ At_(i, "run", "pipe")
  /\ \/ \E k \in PipeId : /\ Readers(k) \cup Writers(k) = {} /\ \A m \in 1 .. k - 1 : Readers(m) \cup Writers(m) # {}
                          /\ Becomes_([sp EXCEPT ![i].st = "left", ![i].p = k])
                          /\ UNCHANGED <<typed, fails, cut>>
     \/ Exit(i)

\* The first child writes to the pipe, the second reads from it; both close p[].
pipe_left(i) ==
  /\ sp[i].st = "left"
  /\ fork1(i, [Child(i, sp[i].cmd[2]) EXCEPT !.out = sp[i].p, !.p = 0], [sp[i] EXCEPT !.st = "right"], typed)

\* Mutant: the second child keeps the pipe's ends in p[].
right_child_open(i) == [Child(i, sp[i].cmd[3]) EXCEPT !.in = sp[i].p]

right_child(i) == [Child(i, sp[i].cmd[3]) EXCEPT !.in = sp[i].p, !.p = 0]

pipe_right(i) == sp[i].st = "right" /\ fork1(i, right_child(i), [sp[i] EXCEPT !.st = "close"], typed)

waits == 2

\* The parent closes both ends and waits twice.
pipe_close(i) ==
  /\ sp[i].st = "close"
  /\ Becomes_([sp EXCEPT ![i].p = 0, ![i].st = "wait", ![i].kids = waits])
  /\ UNCHANGED <<typed, fails, cut>>
-----------------------------------------------------------------------------
\* The programs.  A write goes into an empty pipe, or fails when nobody reads;
\* a read takes the message, or finds the end when nobody writes.
put_msg(i, next) ==
  LET k == sp[i].out IN
  /\ \/ (k = 0 \/ Readers(k) = {}) /\ full' = full
     \/ k # 0 /\ Readers(k) # {} /\ k \notin full /\ full' = full \cup {k}
  /\ sp' = [sp EXCEPT ![i].st = next]
  /\ UNCHANGED <<typed, fails, cut>>

echo(i) == sp[i].st = "echo" /\ put_msg(i, "echo2")
echo2(i) == sp[i].st = "echo2" /\ put_msg(i, "done")

cat_read(i) ==
  LET k == sp[i].in IN
  /\ sp[i].st = "cat"
  /\ \/ k \in full /\ full' = full \ {k} /\ sp' = [sp EXCEPT ![i].st = "catw"]
     \/ k \notin full /\ (k = 0 \/ Writers(k) = {}) /\ full' = full /\ sp' = [sp EXCEPT ![i].st = "done"]
  /\ UNCHANGED <<typed, fails, cut>>
cat_write(i) == sp[i].st = "catw" /\ put_msg(i, "cat")

RunStep(i) ==
  \/ wait_child(i) /\ sp[i].kids > 0
  \/ waited(i) \/ run_exec(i) \/ run_redir(i) \/ run_list(i) \/ run_back(i) \/ run_done(i)
  \/ run_pipe(i) \/ pipe_left(i) \/ pipe_right(i) \/ pipe_close(i)
  \/ echo(i) \/ echo2(i) \/ cat_read(i) \/ cat_write(i)

RunNext == (\E c \in Command : main(c)) \/ main_end \/ \E i \in Pid : RunStep(i)

RunSpec == RunInit /\ [][RunNext]_runVars
-----------------------------------------------------------------------------
\* What keeps a process from going on.
Blocked(i) ==
  CASE sp[i].st = "wait" -> sp[i].kids > 0 /\ (\E j \in Pid : sp[j].parent = i) /\ ~ \E j \in Pid : sp[j].parent = i /\ sp[j].st = "zombie"
    [] sp[i].st \in {"echo", "echo2", "catw"} -> sp[i].out \in full /\ Readers(sp[i].out) # {}
    [] sp[i].st = "cat" -> sp[i].in \notin full /\ sp[i].in # 0 /\ Writers(sp[i].in) # {}
    [] OTHER -> FALSE

(* No command hangs: as long as there is a process besides the shell at    *)
(* its prompt, some process can go on.  A reader gets the end of its       *)
(* input, a writer an error, and each wait its child, because every        *)
(* process closes the ends of pipes that it does not use -- also when a    *)
(* fork, an exec or an open has failed half way through the command.       *)
NothingHangs ==
  LET on == {i \in Pid : Alive(i) /\ sp[i].st # "prompt"} IN
  on # {} => \E i \in on : ~Blocked(i)

(* The shell prompts again only when all of the foreground command has     *)
(* ended, pipelines inside lists and blocks included, unless a fork        *)
(* failed; background commands may still run.                              *)
PromptAfterCommand ==
  sp[1].st = "prompt" /\ ~cut => \A i \in Pid \ {1} : Alive(i) => sp[i].bg

(* A command line runs to its end, whatever fork, exec or open fails: no   *)
(* process of it hangs, and the prompt waits for the foreground ones.      *)
CommandsEnd == NothingHangs /\ PromptAfterCommand
=============================================================================
