------------------------------ MODULE MCParts -------------------------------
(* Parts of the kernel and of the programs that share no state, each        *)
(* checked by itself: `part` says which one a behaviour is about, and the   *)
(* others stay as they start.  The constants below are their instances.     *)
EXTENDS Disk, Console, Screen, Keyboard, Vm, Inode, Dirs, Malloc, Format, Strings, Grep, ShParse, ShRun
LOCAL INSTANCE SequencesExt

VARIABLE part

MCImage == {<<>>, <<0>>, <<1>>, <<3, 1>>}

MCListing == {<<5>>, <<0, 8, 3>>}

MCArg ==
  {[k \in 1 .. 4 |-> [n |-> IF k = 1 THEN -128 ELSE 10 * k, c |-> "c", s |-> IF k = 2 THEN NullStr ELSE <<"u", "v">>]],
   [k \in 1 .. 4 |-> [n |-> k - 1, c |-> "c", s |-> IF k = 1 THEN <<>> ELSE <<"u", "v", "w">>]]}

MCPattern ==
  (SeqOf({"a", ".", "*", "^", "$"}, 3) \ {<<>>}) \cup
  {<<"^", ".", "*", "$">>, <<"^", "a", "*", "$">>, <<"a", ".", "*", "b">>, <<"^", ".", "*", "b", "$">>}

MCLine ==
  (SeqOf({"a", " ", "|", ";", "&", "<", ">", "(", ")"}, 3) \cup SeqOf({"a", " ", "|", ">", "(", ")"}, 4) \cup
   {<<"a", " ", "a", " ", "a">>, <<"a", " ", "a", ">", "a", "a", ">", ">", "a">>,
    <<"(", "a", "a", ";", "a", "|", "a", "&", ")", ">", "a", "&", ";", "(", "a", ")">>,
    <<"<", "a", " ", "a", ">", "a", " ", "a", "|", "a", "<", "a">>}) \ {<<>>}

exec_ == <<"exec">>
pipe_ == <<"pipe", exec_, exec_>>
MCCommand ==
  {pipe_, <<"pipe", exec_, pipe_>>, <<"list", <<"redir", pipe_, 1>>, <<"back", exec_>>>>,
   <<"list", <<"back", exec_>>, pipe_>>, <<"pipe", <<"list", exec_, exec_>>, <<"redir", exec_, 0>>>>}

MCInit ==
  /\ part \in {"disk", "cons", "screen", "kbd", "vm", "inode", "dirs", "malloc", "format", "strings", "grep", "parse", "run"}
  /\ DiskInit /\ ConsInit /\ ScreenInit /\ KbdInit /\ VmInit /\ InodeInit /\ DirsInit /\ MallocInit /\ FmtInit /\ StrInit /\ GrepInit /\ ShInit /\ RunInit

\* A step of the part x, if it is the one.
Only(x, next) == part = x /\ part' = part /\ next

MCNext ==
  \/ Only("disk", DiskNext)
     /\ UNCHANGED <<consVars, screenVars, kbdVars, vmVars, fsVars, dirVars, heapVars, fmtVars, strVars, grepVars, shVars, runVars>>
  \/ Only("cons", ConsNext)
     /\ UNCHANGED <<diskVars, screenVars, kbdVars, vmVars, fsVars, dirVars, heapVars, fmtVars, strVars, grepVars, shVars, runVars>>
  \/ Only("screen", ScreenNext)
     /\ UNCHANGED <<diskVars, consVars, kbdVars, vmVars, fsVars, dirVars, heapVars, fmtVars, strVars, grepVars, shVars, runVars>>
  \/ Only("kbd", KbdNext)
     /\ UNCHANGED <<diskVars, consVars, screenVars, vmVars, fsVars, dirVars, heapVars, fmtVars, strVars, grepVars, shVars, runVars>>
  \/ Only("vm", VmNext)
     /\ UNCHANGED <<diskVars, consVars, screenVars, kbdVars, fsVars, dirVars, heapVars, fmtVars, strVars, grepVars, shVars, runVars>>
  \/ Only("inode", InodeNext)
     /\ UNCHANGED <<diskVars, consVars, screenVars, kbdVars, vmVars, dirVars, heapVars, fmtVars, strVars, grepVars, shVars, runVars>>
  \/ Only("dirs", DirsNext)
     /\ UNCHANGED <<diskVars, consVars, screenVars, kbdVars, vmVars, fsVars, heapVars, fmtVars, strVars, grepVars, shVars, runVars>>
  \/ Only("malloc", MallocNext)
     /\ UNCHANGED <<diskVars, consVars, screenVars, kbdVars, vmVars, fsVars, dirVars, fmtVars, strVars, grepVars, shVars, runVars>>
  \/ Only("format", FmtNext)
     /\ UNCHANGED <<diskVars, consVars, screenVars, kbdVars, vmVars, fsVars, dirVars, heapVars, strVars, grepVars, shVars, runVars>>
  \/ Only("strings", StrNext)
     /\ UNCHANGED <<diskVars, consVars, screenVars, kbdVars, vmVars, fsVars, dirVars, heapVars, fmtVars, grepVars, shVars, runVars>>
  \/ Only("grep", GrepNext)
     /\ UNCHANGED <<diskVars, consVars, screenVars, kbdVars, vmVars, fsVars, dirVars, heapVars, fmtVars, strVars, shVars, runVars>>
  \/ Only("parse", ShNext)
     /\ UNCHANGED <<diskVars, consVars, screenVars, kbdVars, vmVars, fsVars, dirVars, heapVars, fmtVars, strVars, grepVars, runVars>>
  \/ Only("run", RunNext)
     /\ UNCHANGED <<diskVars, consVars, screenVars, kbdVars, vmVars, fsVars, dirVars, heapVars, fmtVars, strVars, grepVars, shVars>>

MCVars ==
  <<part, diskVars, consVars, screenVars, kbdVars, vmVars, fsVars, dirVars, heapVars, fmtVars, strVars, grepVars, shVars, runVars>>

MCSpec == MCInit /\ [][MCNext]_MCVars /\ DiskFairness
=============================================================================
