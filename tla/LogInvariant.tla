---------------------------- MODULE LogInvariant -----------------------------
(***************************************************************************)
(* The inductive invariant of the redo log, and its parts about types,     *)
(* locks, the commit and the reservations.                                 *)
(***************************************************************************)
EXTENDS Log, TLAPS

Recovering == mode \in {"read_head", "recover"}

\* Who owns a buffer is inside log_write's caller, and owns one buffer.
OwnerInv ==
  /\ \A b \in Block : owner[b] # NoProc => pc[owner[b]] \in {"modified", "checked"}
  /\ \A b, c \in Block : owner[b] = owner[c] /\ owner[b] # NoProc => b = c
  /\ \A p \in Proc : pc[p] \in {"modified", "checked"} => nw[p] < OPBLOCKS

\* One process commits at a time.
CommitInv ==
  /\ \A p, q \in Proc : InCommit(p) /\ InCommit(q) => p = q
  /\ committing <=> \E p \in Proc : InCommit(p)
  /\ committing => outstanding = 0

\* The three tickets of the log: LOGSIZE is three times MAXOPBLOCKS, so at most
\* three calls are in progress; f gives each of them a ticket of its own.
Held(x) == IF x = NoProc THEN 0 ELSE 1

Unused(x) == IF x = NoProc THEN 0 ELSE MAXOPBLOCKS - nw[x]

Tickets(f) ==
  /\ f \in [1 .. 3 -> Proc \cup {NoProc}]
  /\ \A p \in Proc : InOp(p) <=> \E t \in 1 .. 3 : f[t] = p
  /\ \A t, u \in 1 .. 3 : f[t] = f[u] /\ f[t] # NoProc => t = u
  /\ outstanding = Held(f[1]) + Held(f[2]) + Held(f[3])
  /\ Len(lh) + Unused(f[1]) + Unused(f[2]) + Unused(f[3]) <= LOGSIZE

TicketInv == \E f \in [1 .. 3 -> Proc \cup {NoProc}] : Tickets(f)

\* The log fits its area; it never gets to the last block of it, nor to the
\* panic of log_write, when calls stay below MAXOPBLOCKS.
SpaceInv ==
  /\ Len(lh) <= LOGSIZE
  /\ Len(head) <= LOGSIZE
  /\ OPBLOCKS < MAXOPBLOCKS =>
       Len(lh) < LOGSIZE /\ Len(head) < LOGSIZE /\ mode # "panic"

\* No block is logged twice, and the log is empty when nothing is in progress.
LhInv ==
  /\ \A i, j \in 1 .. Len(lh) : lh[i] = lh[j] => i = j
  /\ \A i, j \in 1 .. Len(head) : head[i] = head[j] => i = j
  /\ mode # "recover" /\ outstanding = 0 /\ ~committing => lh = <<>>
  /\ \A p \in Proc : pc[p] = "committed" => lh = <<>>

\* The state of the disk and of the cache while log.c recovers ...
RecoveryInv ==
  Recovering =>
    /\ pc = [p \in Proc |-> "idle"]
    /\ outstanding = 0
    /\ ~committing
    /\ \A b \in Block : cache[b] \in {NoVal, home[b]}
    /\ mode = "recover" =>
         /\ lh = head
         /\ \A i \in 1 .. Len(lh) : i < tail => home[lh[i]] = slot[i]

\* ... and once it has: the header on disk is empty but during an installation;
HeadInv == (\A p \in Proc : pc[p] # "install") => head = <<>>

\* a block that nobody has changed reads as it is on disk;
CleanInv == \A b \in Block : b \notin LhBlocks /\ owner[b] = NoProc => Bread(b) = home[b]

\* a buffer that differs from the disk cannot be recycled;
DirtyInv ==
  \A b \in Block : cache[b] \notin {NoVal, home[b]} => b \in dirty \/ owner[b] # NoProc

\* write_log has copied the blocks before tail;
CopiedInv ==
  \A p \in Proc : pc[p] = "write_log" =>
    \A i \in 1 .. Len(lh) : i < tail => slot[i] = Bread(lh[i])

\* and install_trans has copied the blocks before tail.
InstalledInv ==
  \A p \in Proc : pc[p] = "install" =>
    /\ head = lh
    /\ \A i \in 1 .. Len(lh) : slot[i] = Bread(lh[i])
    /\ \A i \in 1 .. Len(lh) : i < tail => home[lh[i]] = slot[i]

CacheInv == ~Recovering => HeadInv /\ CleanInv /\ DirtyInv /\ CopiedInv /\ InstalledInv

IInv ==
  /\ TypeOK
  /\ OwnerInv
  /\ CommitInv
  /\ TicketInv
  /\ SpaceInv
  /\ LhInv
  /\ RecoveryInv
  /\ CacheInv
-----------------------------------------------------------------------------
USE ValAssumption, ProcAssumption, SizeAssumption
    DEF vars, diskVars, bufVars, logVars, procVars, Go, GoAndWakeup, InOp, InCommit

(* The inductive invariant holds when the machine has booted from a fresh  *)
(* disk.                                                                   *)
LEMMA InitIInv == Init => IInv
<1>. SUFFICES ASSUME Init PROVE IInv
  OBVIOUS
<1>. USE DEF Init, Booted
<1>1. TypeOK
  <2>1. home \in [Block -> Val] /\ slot \in [1 .. LOGSIZE -> Val] /\ head \in Seq(Block)
    OBVIOUS
  <2>2. cache \in [Block -> Val \cup {NoVal}] /\ owner \in [Block -> Proc \cup {NoProc}]
    OBVIOUS
  <2>3. pc \in [Proc -> PC] /\ nw \in [Proc -> 0 .. OPBLOCKS]
    BY DEF PC
  <2>4. dirty \in SUBSET Block
    OBVIOUS
  <2>5. lh \in Seq(Block)
    OBVIOUS
  <2>6. committing \in BOOLEAN
    OBVIOUS
  <2>7. outstanding \in Nat /\ tail \in Nat \ {0} /\ mode \in {"read_head", "recover", "up", "panic"}
    OBVIOUS
  <2>. HIDE DEF Init
  <2>. QED
    BY <2>1, <2>2, <2>3, <2>4, <2>5, <2>6, <2>7 DEF TypeOK
<1>2. OwnerInv /\ CommitInv /\ SpaceInv /\ LhInv
  BY DEF OwnerInv, CommitInv, SpaceInv, LhInv
<1>3. Tickets([t \in 1 .. 3 |-> NoProc])
  BY DEF Tickets, Held, Unused
<1>4. TicketInv
  BY <1>3 DEF TicketInv
<1>5. RecoveryInv /\ CacheInv
  BY DEF RecoveryInv, CacheInv, HeadInv, CleanInv, DirtyInv, CopiedInv, InstalledInv, Recovering
<1>. QED
  BY <1>1, <1>2, <1>4, <1>5 DEF IInv

(* A call in progress holds a ticket: nobody commits, and the log has room *)
(* for what is left of the call's reservation.                             *)
LEMMA OpHasTicket ==
  ASSUME IInv, NEW p \in Proc, InOp(p)
  PROVE  /\ outstanding >= 1 /\ ~committing
         /\ \A q \in Proc : ~InCommit(q)
         /\ Len(lh) + MAXOPBLOCKS - nw[p] <= LOGSIZE
<1>1. PICK f \in [1 .. 3 -> Proc \cup {NoProc}] : Tickets(f)
  BY DEF IInv, TicketInv
<1>2. f[1] = p \/ f[2] = p \/ f[3] = p
  BY <1>1 DEF Tickets
<1>3. outstanding >= 1
  BY <1>1, <1>2 DEF Tickets, Held
<1>4. \A t \in 1 .. 3 : Unused(f[t]) \in Nat
  BY DEF IInv, TypeOK, Unused
<1>5. Unused(p) = MAXOPBLOCKS - nw[p]
  BY DEF Unused
<1>6. Len(lh) + MAXOPBLOCKS - nw[p] <= LOGSIZE
  BY SMTT(30), <1>1, <1>2, <1>4, <1>5 DEF Tickets, IInv, TypeOK
<1>. QED
  BY <1>3, <1>6 DEF IInv, CommitInv, TypeOK

(* The type invariant; log_write stays within its bound because of OwnerInv. *)
LEMMA TypeStep ==
  ASSUME IInv, [Next]_vars
  PROVE  TypeOK'
<1>. USE DEF IInv, TypeOK, PC, Bread, SpaceInv, OwnerInv
<1>1. CASE Crash
  <2>1. cache' \in [Block -> Val \cup {NoVal}] /\ owner' \in [Block -> Proc \cup {NoProc}]
    BY <1>1 DEF Crash
  <2>2. pc' \in [Proc -> PC] /\ nw' \in [Proc -> 0 .. OPBLOCKS]
    BY <1>1 DEF Crash
  <2>3. dirty' \in SUBSET Block
    BY <1>1 DEF Crash
  <2>4. lh' \in Seq(Block)
    BY <1>1 DEF Crash
  <2>5. committing' \in BOOLEAN
    BY <1>1 DEF Crash
  <2>6. /\ outstanding' \in Nat /\ tail' \in Nat \ {0}
        /\ mode' \in {"read_head", "recover", "up", "panic"}
    BY <1>1 DEF Crash
  <2>7. home' \in [Block -> Val] /\ slot' \in [1 .. LOGSIZE -> Val] /\ head' \in Seq(Block)
    BY <1>1 DEF Crash
  <2>. QED
    BY <2>1, <2>2, <2>3, <2>4, <2>5, <2>6, <2>7
<1>2. CASE read_head
  BY <1>2 DEF read_head
<1>3. CASE recover_install
  BY <1>3 DEF recover_install, install_block
<1>4. CASE recover_erase
  BY <1>4 DEF recover_erase, erase_log
<1>5. ASSUME NEW b \in Block, bread(b) PROVE TypeOK'
  BY <1>5 DEF bread
<1>6. ASSUME NEW b \in Block, bget_recycle(b) PROVE TypeOK'
  BY <1>6 DEF bget_recycle
<1>7. ASSUME NEW p \in Proc, begin_op_sleep(p) PROVE TypeOK'
  BY <1>7 DEF begin_op_sleep
<1>8. ASSUME NEW p \in Proc, begin_op(p) PROVE TypeOK'
  BY <1>8 DEF begin_op
<1>9. ASSUME NEW p \in Proc, NEW b \in Block, NEW v \in Val, modify(p, b, v) PROVE TypeOK'
  BY <1>9 DEF modify
<1>10. ASSUME NEW p \in Proc, panic(p) PROVE TypeOK'
  BY <1>10 DEF panic
<1>11. ASSUME NEW p \in Proc, log_write_check(p) PROVE TypeOK'
  BY <1>11 DEF log_write_check
<1>12. ASSUME NEW p \in Proc, NEW b \in Block, log_write(p, b) PROVE TypeOK'
  BY <1>12 DEF log_write
<1>13. ASSUME NEW p \in Proc, end_op(p) PROVE TypeOK'
  BY <1>13 DEF end_op
<1>14. ASSUME NEW p \in Proc, end_op_last(p) PROVE TypeOK'
  BY <1>14 DEF end_op_last
<1>15. ASSUME NEW p \in Proc, write_log(p) PROVE TypeOK'
  BY <1>15 DEF write_log
<1>16. ASSUME NEW p \in Proc, write_head(p) PROVE TypeOK'
  BY <1>16 DEF write_head
<1>17. ASSUME NEW p \in Proc, commit_install(p) PROVE TypeOK'
  BY <1>17 DEF commit_install, install_block
<1>18. ASSUME NEW p \in Proc, commit_erase(p) PROVE TypeOK'
  BY <1>18 DEF commit_erase, erase_log
<1>19. ASSUME NEW p \in Proc, end_commit(p) PROVE TypeOK'
  BY <1>19 DEF end_commit
<1>20. CASE UNCHANGED vars
  BY <1>20
<1>. QED
  BY ZenonT(60), <1>1, <1>2, <1>3, <1>4, <1>5, <1>6, <1>7, <1>8, <1>9, <1>10, <1>11,
     <1>12, <1>13, <1>14, <1>15, <1>16, <1>17, <1>18, <1>19, <1>20
  DEF Next, Recovery, Step

(* A buffer is owned between bread and brelse, by one process. *)
LEMMA OwnerStep ==
  ASSUME IInv, [Next]_vars
  PROVE  OwnerInv'
<1>. USE DEF IInv, TypeOK, OwnerInv, PC
<1>1. CASE Crash
  BY <1>1 DEF Crash
<1>2. CASE read_head
  BY <1>2 DEF read_head
<1>3. CASE recover_install
  BY <1>3 DEF recover_install, install_block
<1>4. CASE recover_erase
  BY <1>4 DEF recover_erase, erase_log
<1>5. ASSUME NEW b \in Block, bread(b) PROVE OwnerInv'
  BY <1>5 DEF bread
<1>6. ASSUME NEW b \in Block, bget_recycle(b) PROVE OwnerInv'
  BY <1>6 DEF bget_recycle
<1>7. ASSUME NEW p \in Proc, begin_op_sleep(p) PROVE OwnerInv'
  BY <1>7 DEF begin_op_sleep
<1>8. ASSUME NEW p \in Proc, begin_op(p) PROVE OwnerInv'
  BY <1>8 DEF begin_op
<1>9. ASSUME NEW p \in Proc, NEW b \in Block, NEW v \in Val, modify(p, b, v) PROVE OwnerInv'
  BY ZenonT(60), <1>9 DEF modify
<1>10. ASSUME NEW p \in Proc, panic(p) PROVE OwnerInv'
  BY <1>10 DEF panic
<1>11. ASSUME NEW p \in Proc, log_write_check(p) PROVE OwnerInv'
  BY <1>11 DEF log_write_check
<1>12. ASSUME NEW p \in Proc, NEW b \in Block, log_write(p, b) PROVE OwnerInv'
  BY <1>12 DEF log_write
<1>13. ASSUME NEW p \in Proc, end_op(p) PROVE OwnerInv'
  BY <1>13 DEF end_op
<1>14. ASSUME NEW p \in Proc, end_op_last(p) PROVE OwnerInv'
  BY <1>14 DEF end_op_last
<1>15. ASSUME NEW p \in Proc, write_log(p) PROVE OwnerInv'
  BY <1>15 DEF write_log
<1>16. ASSUME NEW p \in Proc, write_head(p) PROVE OwnerInv'
  BY <1>16 DEF write_head
<1>17. ASSUME NEW p \in Proc, commit_install(p) PROVE OwnerInv'
  BY <1>17 DEF commit_install, install_block
<1>18. ASSUME NEW p \in Proc, commit_erase(p) PROVE OwnerInv'
  BY <1>18 DEF commit_erase, erase_log
<1>19. ASSUME NEW p \in Proc, end_commit(p) PROVE OwnerInv'
  BY <1>19 DEF end_commit
<1>20. CASE UNCHANGED vars
  BY SMTT(30), <1>20
<1>. QED
  BY <1>1, <1>2, <1>3, <1>4, <1>5, <1>6, <1>7, <1>8, <1>9, <1>10, <1>11,
     <1>12, <1>13, <1>14, <1>15, <1>16, <1>17, <1>18, <1>19, <1>20
  DEF Next, Recovery, Step

(* Only the last end_op starts a commit, and begin_op waits for its end. *)
LEMMA CommitStep ==
  ASSUME IInv, [Next]_vars
  PROVE  CommitInv'
<1>. USE DEF IInv, TypeOK, CommitInv, PC
<1>1. CASE Crash
  BY <1>1 DEF Crash
<1>2. CASE read_head
  BY <1>2 DEF read_head
<1>3. CASE recover_install
  BY <1>3 DEF recover_install, install_block
<1>4. CASE recover_erase
  BY <1>4 DEF recover_erase, erase_log
<1>5. ASSUME NEW b \in Block, bread(b) PROVE CommitInv'
  BY <1>5 DEF bread
<1>6. ASSUME NEW b \in Block, bget_recycle(b) PROVE CommitInv'
  BY <1>6 DEF bget_recycle
<1>7. ASSUME NEW p \in Proc, begin_op_sleep(p) PROVE CommitInv'
  BY <1>7 DEF begin_op_sleep
<1>8. ASSUME NEW p \in Proc, begin_op(p) PROVE CommitInv'
  BY <1>8 DEF begin_op, MustWait
<1>9. ASSUME NEW p \in Proc, NEW b \in Block, NEW v \in Val, modify(p, b, v) PROVE CommitInv'
  BY <1>9 DEF modify
<1>10. ASSUME NEW p \in Proc, panic(p) PROVE CommitInv'
  BY <1>10 DEF panic
<1>11. ASSUME NEW p \in Proc, log_write_check(p) PROVE CommitInv'
  BY <1>11 DEF log_write_check
<1>12. ASSUME NEW p \in Proc, NEW b \in Block, log_write(p, b) PROVE CommitInv'
  BY <1>12 DEF log_write
<1>13. ASSUME NEW p \in Proc, end_op(p) PROVE CommitInv'
  BY <1>13 DEF end_op, Panics
<1>14. ASSUME NEW p \in Proc, end_op_last(p) PROVE CommitInv'
  BY <1>14 DEF end_op_last, Panics
<1>15. ASSUME NEW p \in Proc, write_log(p) PROVE CommitInv'
  BY <1>15 DEF write_log
<1>16. ASSUME NEW p \in Proc, write_head(p) PROVE CommitInv'
  BY <1>16 DEF write_head
<1>17. ASSUME NEW p \in Proc, commit_install(p) PROVE CommitInv'
  BY <1>17 DEF commit_install, install_block
<1>18. ASSUME NEW p \in Proc, commit_erase(p) PROVE CommitInv'
  BY <1>18 DEF commit_erase, erase_log
<1>19. ASSUME NEW p \in Proc, end_commit(p) PROVE CommitInv'
  BY <1>19 DEF end_commit
<1>20. CASE UNCHANGED vars
  BY <1>20
<1>. QED
  BY <1>1, <1>2, <1>3, <1>4, <1>5, <1>6, <1>7, <1>8, <1>9, <1>10, <1>11,
     <1>12, <1>13, <1>14, <1>15, <1>16, <1>17, <1>18, <1>19, <1>20
  DEF Next, Recovery, Step

(* A step that begins, ends and logs nothing keeps the tickets. *)
LEMMA TicketsKept ==
  ASSUME IInv, TypeOK', nw' = nw, outstanding' = outstanding, Len(lh') <= Len(lh),
         \A q \in Proc : InOp(q)' <=> InOp(q)
  PROVE  TicketInv'
<1>1. PICK f \in [1 .. 3 -> Proc \cup {NoProc}] : Tickets(f)
  BY DEF IInv, TicketInv
<1>2. \A t \in 1 .. 3 : Unused(f[t]) \in Nat /\ Unused(f[t])' = Unused(f[t])
  BY DEF IInv, TypeOK, Unused
<1>3. Len(lh) \in Nat /\ Len(lh') \in Nat
  BY DEF IInv, TypeOK
<1>4. Len(lh') + Unused(f[1])' + Unused(f[2])' + Unused(f[3])' <= LOGSIZE
  BY <1>1, <1>2, <1>3 DEF Tickets
<1>5. Tickets(f)'
  BY <1>1, <1>4 DEF Tickets, Held
<1>. QED
  BY <1>5 DEF TicketInv

(* begin_op hands out a free ticket, log_write uses one block of it, and *)
(* end_op gives it back.                                                  *)
LEMMA TicketStep ==
  ASSUME IInv, [Next]_vars
  PROVE  TicketInv'
<1>. USE DEF IInv, TypeOK
<1>1. CASE Crash
  <2>1. Tickets([t \in 1 .. 3 |-> NoProc])'
    BY <1>1 DEF Crash, Tickets, Held, Unused
  <2>. QED
    BY <2>1 DEF TicketInv
<1>2. CASE read_head
  <2>1. pc' = [q \in Proc |-> "idle"] /\ outstanding' = 0 /\ Len(lh') <= LOGSIZE
    BY <1>2 DEF read_head, RecoveryInv, Recovering, SpaceInv
  <2>2. Tickets([t \in 1 .. 3 |-> NoProc])'
    BY <2>1 DEF Tickets, Held, Unused
  <2>. QED
    BY <2>2 DEF TicketInv
<1>3. CASE recover_install
  <2>1. pc' = [q \in Proc |-> "idle"] /\ outstanding' = 0 /\ Len(lh') <= LOGSIZE
    BY <1>3 DEF recover_install, install_block, RecoveryInv, Recovering, SpaceInv
  <2>2. Tickets([t \in 1 .. 3 |-> NoProc])'
    BY <2>1 DEF Tickets, Held, Unused
  <2>. QED
    BY <2>2 DEF TicketInv
<1>4. CASE recover_erase
  <2>1. pc' = [q \in Proc |-> "idle"] /\ outstanding' = 0 /\ Len(lh') <= LOGSIZE
    BY <1>4 DEF recover_erase, erase_log, RecoveryInv, Recovering, SpaceInv
  <2>2. Tickets([t \in 1 .. 3 |-> NoProc])'
    BY <2>1 DEF Tickets, Held, Unused
  <2>. QED
    BY <2>2 DEF TicketInv
<1>5. ASSUME NEW b \in Block, bread(b) PROVE TicketInv'
  BY <1>5, TypeStep, TicketsKept DEF bread
<1>6. ASSUME NEW b \in Block, bget_recycle(b) PROVE TicketInv'
  BY <1>6, TypeStep, TicketsKept DEF bget_recycle
<1>7. ASSUME NEW p \in Proc, begin_op_sleep(p) PROVE TicketInv'
  BY <1>7, TypeStep, TicketsKept DEF begin_op_sleep
<1>8. ASSUME NEW p \in Proc, begin_op(p) PROVE TicketInv'
  <2>1. PICK f \in [1 .. 3 -> Proc \cup {NoProc}] : Tickets(f)
    BY DEF TicketInv
  <2>2. \A t \in 1 .. 3 : f[t] # p
    BY <1>8, <2>1 DEF begin_op, Tickets
  <2>3. \A t \in 1 .. 3 : /\ Held(f[t]) \in 0 .. 1
                          /\ Unused(f[t]) \in Nat
                          /\ Held(f[t]) = 0 => Unused(f[t]) = 0
                          /\ Held(f[t]) = 1 => Unused(f[t]) <= MAXOPBLOCKS
    BY DEF Unused, Held
  <2>4. Len(lh) + (outstanding + 1) * MAXOPBLOCKS <= LOGSIZE
    BY <1>8 DEF begin_op, MustWait
  <2>5. outstanding \in 0 .. 2
    BY <2>1, <2>4 DEF Tickets, Held
  <2>6. PICK t \in 1 .. 3 : f[t] = NoProc
    BY <2>1, <2>5 DEF Tickets, Held
  <2>. DEFINE g == [f EXCEPT ![t] = p]
  <2>7. /\ g \in [1 .. 3 -> Proc \cup {NoProc}]
        /\ g[t] = p
        /\ \A u \in 1 .. 3 : u # t => g[u] = f[u]
    OBVIOUS
  <2>8. /\ Unused(g[t])' = MAXOPBLOCKS
        /\ \A u \in 1 .. 3 : u # t => Unused(g[u])' = Unused(f[u])
    BY <1>8, <2>2, <2>7 DEF begin_op, Unused
  <2>9. /\ Held(g[t]) = 1 /\ Held(f[t]) = 0 /\ Unused(f[t]) = 0
        /\ \A u \in 1 .. 3 : u # t => Held(g[u]) = Held(f[u])
    BY <2>6, <2>7 DEF Held, Unused
  <2>10. outstanding' = Held(g[1]) + Held(g[2]) + Held(g[3])
    BY <1>8, <2>1, <2>9 DEF begin_op, Tickets, Held
  <2>11. Len(lh') + Unused(g[1])' + Unused(g[2])' + Unused(g[3])' <= LOGSIZE
    <3>1. outstanding = Held(f[1]) + Held(f[2]) + Held(f[3]) /\ lh' = lh /\ Len(lh) \in Nat
      BY <1>8, <2>1 DEF Tickets, begin_op
    <3>2. Len(lh) + Unused(f[1]) + Unused(f[2]) + Unused(f[3]) + MAXOPBLOCKS <= LOGSIZE
      <4>1. /\ Held(f[1]) \in 0 .. 1 /\ Held(f[2]) \in 0 .. 1 /\ Held(f[3]) \in 0 .. 1
            /\ Unused(f[1]) \in Nat /\ Unused(f[2]) \in Nat /\ Unused(f[3]) \in Nat
            /\ Unused(f[1]) <= Held(f[1]) * MAXOPBLOCKS
            /\ Unused(f[2]) <= Held(f[2]) * MAXOPBLOCKS
            /\ Unused(f[3]) <= Held(f[3]) * MAXOPBLOCKS
        BY <2>3
      <4>. HIDE DEF IInv, TypeOK
      <4>2. Unused(f[1]) + Unused(f[2]) + Unused(f[3]) <= outstanding * MAXOPBLOCKS
        BY <3>1, <4>1
      <4>3. Len(lh) + outstanding * MAXOPBLOCKS + MAXOPBLOCKS <= LOGSIZE
        BY <2>4, <2>5, <3>1
      <4>4. outstanding * MAXOPBLOCKS \in Nat
        BY <2>5
      <4>5. /\ Len(lh) \in Nat
            /\ Unused(f[1]) \in Nat /\ Unused(f[2]) \in Nat /\ Unused(f[3]) \in Nat
        BY <2>3, <3>1
      <4>. QED
        BY SMTT(30), <4>2, <4>3, <4>4, <4>5
    <3>. HIDE DEF g
    <3>3. CASE t = 1
      BY SMTT(30), <2>3, <2>8, <2>9, <3>1, <3>2, <3>3
    <3>4. CASE t = 2
      BY <2>3, <2>8, <2>9, <3>1, <3>2, <3>4
    <3>5. CASE t = 3
      BY <2>3, <2>8, <2>9, <3>1, <3>2, <3>5
    <3>. QED
      BY <3>3, <3>4, <3>5
  <2>12. \A q \in Proc : InOp(q)' <=> \E u \in 1 .. 3 : g[u] = q
    BY SMTT(30), <1>8, <2>1, <2>2, <2>6, <2>7 DEF begin_op, Tickets
  <2>13. \A u, w \in 1 .. 3 : g[u] = g[w] /\ g[u] # NoProc => u = w
    BY <2>1, <2>2, <2>7 DEF Tickets
  <2>14. Tickets(g)'
    BY <2>7, <2>10, <2>11, <2>12, <2>13 DEF Tickets, Held
  <2>. QED
    BY <2>7, <2>14 DEF TicketInv
<1>9. ASSUME NEW p \in Proc, NEW b \in Block, NEW v \in Val, modify(p, b, v) PROVE TicketInv'
  BY <1>9, TypeStep, TicketsKept DEF modify
<1>10. ASSUME NEW p \in Proc, panic(p) PROVE TicketInv'
  BY <1>10, TypeStep, TicketsKept DEF panic
<1>11. ASSUME NEW p \in Proc, log_write_check(p) PROVE TicketInv'
  BY <1>11, TypeStep, TicketsKept DEF log_write_check
<1>12. ASSUME NEW p \in Proc, NEW b \in Block, log_write(p, b) PROVE TicketInv'
  <2>1. PICK f \in [1 .. 3 -> Proc \cup {NoProc}] : Tickets(f)
    BY DEF TicketInv
  <2>2. PICK t \in 1 .. 3 : f[t] = p /\ \A u \in 1 .. 3 : u # t => f[u] # p
    BY <1>12, <2>1 DEF log_write, Tickets
  <2>3. \A u \in 1 .. 3 : Unused(f[u]) \in Nat
    BY DEF Unused
  <2>4. /\ Unused(f[t])' = Unused(f[t]) - 1
        /\ \A u \in 1 .. 3 : u # t => Unused(f[u])' = Unused(f[u])
    <3>1. nw[p] \in Nat /\ nw'[p] = nw[p] + 1 /\ \A q \in Proc : q # p => nw'[q] = nw[q]
      BY <1>12 DEF log_write
    <3>2. Unused(f[t])' = Unused(f[t]) - 1
      BY SMTT(30), <2>2, <3>1 DEF Unused
    <3>. QED
      BY SMTT(30), <2>2, <3>1, <3>2 DEF Unused
  <2>5. Len(lh) \in Nat /\ Len(lh') \in Nat /\ Len(lh') <= Len(lh) + 1
    BY <1>12 DEF log_write
  <2>6. Len(lh') + Unused(f[1])' + Unused(f[2])' + Unused(f[3])' <= LOGSIZE
    <3>1. Len(lh) + Unused(f[1]) + Unused(f[2]) + Unused(f[3]) <= LOGSIZE
      BY <2>1 DEF Tickets
    <3>. HIDE DEF IInv, TypeOK
    <3>2. CASE t = 1
      BY SMTT(30), <2>3, <2>4, <2>5, <3>1, <3>2
    <3>3. CASE t = 2
      BY SMTT(30), <2>3, <2>4, <2>5, <3>1, <3>3
    <3>4. CASE t = 3
      BY SMTT(30), <2>3, <2>4, <2>5, <3>1, <3>4
    <3>. QED
      BY <3>2, <3>3, <3>4
  <2>7. outstanding' = outstanding /\ \A q \in Proc : InOp(q)' <=> InOp(q)
    BY <1>12 DEF log_write
  <2>8. Tickets(f)'
    BY <2>1, <2>6, <2>7 DEF Tickets, Held
  <2>. QED
    BY <2>8 DEF TicketInv
<1>13. ASSUME NEW p \in Proc, end_op(p) PROVE TicketInv'
  <2>1. PICK f \in [1 .. 3 -> Proc \cup {NoProc}] : Tickets(f)
    BY DEF TicketInv
  <2>2. PICK t \in 1 .. 3 : f[t] = p
    BY <1>13, <2>1 DEF end_op, Tickets
  <2>. DEFINE g == [f EXCEPT ![t] = NoProc]
  <2>3. /\ g \in [1 .. 3 -> Proc \cup {NoProc}]
        /\ g[t] = NoProc
        /\ \A u \in 1 .. 3 : u # t => g[u] = f[u] /\ g[u] # p
    BY <2>1, <2>2 DEF Tickets
  <2>4. \A u \in 1 .. 3 : Unused(f[u]) \in Nat
    BY DEF Unused
  <2>5. Unused(g[t])' = 0 /\ \A u \in 1 .. 3 : u # t => Unused(g[u])' = Unused(f[u])
    BY <1>13, <2>3 DEF end_op, Unused
  <2>6. Len(lh') + Unused(g[1])' + Unused(g[2])' + Unused(g[3])' <= LOGSIZE
    <3>1. lh' = lh /\ Len(lh) \in Nat
      BY <1>13 DEF end_op
    <3>2. Len(lh) + Unused(f[1]) + Unused(f[2]) + Unused(f[3]) <= LOGSIZE
      BY <2>1 DEF Tickets
    <3>. HIDE DEF IInv, TypeOK, g
    <3>3. CASE t = 1
      BY <2>4, <2>5, <3>1, <3>2, <3>3
    <3>4. CASE t = 2
      BY <2>4, <2>5, <3>1, <3>2, <3>4
    <3>5. CASE t = 3
      BY <2>4, <2>5, <3>1, <3>2, <3>5
    <3>. QED
      BY <3>3, <3>4, <3>5
  <2>7. outstanding' = Held(g[1]) + Held(g[2]) + Held(g[3])
    BY <1>13, <2>1, <2>2, <2>3 DEF end_op, Tickets, Held
  <2>8. \A q \in Proc : InOp(q)' <=> \E u \in 1 .. 3 : g[u] = q
    BY <1>13, <2>1, <2>2, <2>3 DEF end_op, Tickets
  <2>9. \A u, w \in 1 .. 3 : g[u] = g[w] /\ g[u] # NoProc => u = w
    BY <2>1, <2>3 DEF Tickets
  <2>10. Tickets(g)'
    BY <2>3, <2>6, <2>7, <2>8, <2>9 DEF Tickets, Held
  <2>. QED
    BY <2>3, <2>10 DEF TicketInv
<1>14. ASSUME NEW p \in Proc, end_op_last(p) PROVE TicketInv'
  <2>1. PICK f \in [1 .. 3 -> Proc \cup {NoProc}] : Tickets(f)
    BY DEF TicketInv
  <2>2. PICK t \in 1 .. 3 : f[t] = p
    BY <1>14, <2>1 DEF end_op_last, Tickets
  <2>. DEFINE g == [f EXCEPT ![t] = NoProc]
  <2>3. /\ g \in [1 .. 3 -> Proc \cup {NoProc}]
        /\ g[t] = NoProc
        /\ \A u \in 1 .. 3 : u # t => g[u] = f[u] /\ g[u] # p
    BY <2>1, <2>2 DEF Tickets
  <2>4. \A u \in 1 .. 3 : Unused(f[u]) \in Nat
    BY DEF Unused
  <2>5. Unused(g[t])' = 0 /\ \A u \in 1 .. 3 : u # t => Unused(g[u])' = Unused(f[u])
    BY <1>14, <2>3 DEF end_op_last, Unused
  <2>6. Len(lh') + Unused(g[1])' + Unused(g[2])' + Unused(g[3])' <= LOGSIZE
    <3>1. lh' = lh /\ Len(lh) \in Nat
      BY <1>14 DEF end_op_last
    <3>2. Len(lh) + Unused(f[1]) + Unused(f[2]) + Unused(f[3]) <= LOGSIZE
      BY <2>1 DEF Tickets
    <3>. HIDE DEF IInv, TypeOK, g
    <3>3. CASE t = 1
      BY <2>4, <2>5, <3>1, <3>2, <3>3
    <3>4. CASE t = 2
      BY <2>4, <2>5, <3>1, <3>2, <3>4
    <3>5. CASE t = 3
      BY <2>4, <2>5, <3>1, <3>2, <3>5
    <3>. QED
      BY <3>3, <3>4, <3>5
  <2>7. outstanding' = Held(g[1]) + Held(g[2]) + Held(g[3])
    BY <1>14, <2>1, <2>2, <2>3 DEF end_op_last, Tickets, Held
  <2>8. \A q \in Proc : InOp(q)' <=> \E u \in 1 .. 3 : g[u] = q
    BY SMTT(30), <1>14, <2>1, <2>2, <2>3 DEF end_op_last, Tickets
  <2>9. \A u, w \in 1 .. 3 : g[u] = g[w] /\ g[u] # NoProc => u = w
    BY <2>1, <2>3 DEF Tickets
  <2>10. Tickets(g)'
    BY <2>3, <2>6, <2>7, <2>8, <2>9 DEF Tickets, Held
  <2>. QED
    BY <2>3, <2>10 DEF TicketInv
<1>15. ASSUME NEW p \in Proc, write_log(p) PROVE TicketInv'
  BY <1>15, TypeStep, TicketsKept DEF write_log
<1>16. ASSUME NEW p \in Proc, write_head(p) PROVE TicketInv'
  BY SMTT(30), <1>16, TypeStep, TicketsKept DEF write_head
<1>17. ASSUME NEW p \in Proc, commit_install(p) PROVE TicketInv'
  BY <1>17, TypeStep, TicketsKept DEF commit_install, install_block
<1>18. ASSUME NEW p \in Proc, commit_erase(p) PROVE TicketInv'
  BY SMTT(30), <1>18, TypeStep, TicketsKept DEF commit_erase, erase_log
<1>19. ASSUME NEW p \in Proc, end_commit(p) PROVE TicketInv'
  BY SMTT(30), <1>19, TypeStep, TicketsKept DEF end_commit
<1>20. CASE UNCHANGED vars
  BY SMTT(30), <1>20, TypeStep, TicketsKept
<1>. QED
  BY <1>1, <1>2, <1>3, <1>4, <1>5, <1>6, <1>7, <1>8, <1>9, <1>10, <1>11,
     <1>12, <1>13, <1>14, <1>15, <1>16, <1>17, <1>18, <1>19, <1>20
  DEF Next, Recovery, Step
=============================================================================
