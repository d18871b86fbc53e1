----------------------------- MODULE AtomicDisk -----------------------------
(***************************************************************************)
(* What the logging layer promises to the file system (the comment at the  *)
(* head of log.c): the updates of the system calls of one transaction      *)
(* reach the disk together or not at all, and only when no system call is  *)
(* in progress.  A crash undoes exactly the updates after the last commit. *)
(***************************************************************************)
CONSTANTS Proc,   \* processes that make FS system calls
          Block,  \* blocks outside the log
          Val,    \* contents of a block
          Zero    \* the contents mkfs gives every block

VARIABLES durable,  \* what a reboot would find, after recovery
          view,     \* what the file system reads through the buffer cache
          active    \* processes between begin_op and end_op

vars == <<durable, view, active>>

Init ==
  /\ durable = [b \in Block |-> Zero]
  /\ view = durable
  /\ active = {}

Begin(p) ==
  /\ p \notin active
  /\ active' = active \cup {p}
  /\ UNCHANGED <<durable, view>>

Write(p, b, v) ==
  /\ p \in active
  /\ view' = [view EXCEPT ![b] = v]
  /\ UNCHANGED <<durable, active>>

End(p) ==
  /\ p \in active
  /\ active' = active \ {p}
  /\ UNCHANGED <<durable, view>>

Commit ==
  /\ active = {}
  /\ durable' = view
  /\ UNCHANGED <<view, active>>

Crash ==
  /\ view' = durable
  /\ active' = {}
  /\ UNCHANGED durable

Next ==
  \/ \E p \in Proc : Begin(p) \/ End(p)
  \/ \E p \in Proc, b \in Block, v \in Val : Write(p, b, v)
  \/ Commit
  \/ Crash

Spec == Init /\ [][Next]_vars
=============================================================================
