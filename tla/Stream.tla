------------------------------- MODULE Stream -------------------------------
(***************************************************************************)
(* What a pipe promises: a bounded first-in first-out stream of bytes.     *)
(* A read takes bytes from its front, in order, and reports the end of the *)
(* stream only when it is drained and no writer is left.                   *)
(***************************************************************************)
EXTENDS Integers, Sequences

CONSTANTS Proc, Val, SIZE

VARIABLES
  q,       \* bytes written and not yet read
  got,     \* the bytes each process's current read has
  wopen,   \* whether a writer is left
  res      \* how each process's last call ended

vars == <<q, got, wopen, res>>

Init ==
  /\ q = <<>>
  /\ got = [p \in Proc |-> <<>>]
  /\ wopen = TRUE
  /\ res = [p \in Proc |-> "ok"]

Start(p) ==
  /\ res' = [res EXCEPT ![p] = "busy"]
  /\ UNCHANGED <<q, got, wopen>>

Put ==
  /\ wopen /\ Len(q) < SIZE
  /\ \E v \in Val : q' = Append(q, v)
  /\ UNCHANGED <<got, wopen, res>>

Get(p) ==
  /\ q # <<>>
  /\ got' = [got EXCEPT ![p] = Append(@, Head(q))]
  /\ q' = Tail(q)
  /\ UNCHANGED <<wopen, res>>

Return(p) ==
  /\ \E r \in {"ok", "err", "eof"} :
       /\ r = "eof" => got[p] = <<>> /\ q = <<>> /\ ~wopen
       /\ res' = [res EXCEPT ![p] = r]
  /\ got' = [got EXCEPT ![p] = <<>>]
  /\ UNCHANGED <<q, wopen>>

Close == wopen' = FALSE /\ UNCHANGED <<q, got, res>>

Next == Put \/ Close \/ \E p \in Proc : Start(p) \/ Get(p) \/ Return(p)

Spec == Init /\ [][Next]_vars
=============================================================================
