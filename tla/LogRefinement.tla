---------------------------- MODULE LogRefinement ----------------------------
(***************************************************************************)
(* The redo log implements the atomic disk.                                *)
(***************************************************************************)
EXTENDS LogProofs

USE ValAssumption, ProcAssumption, SizeAssumption
    DEF vars, diskVars, bufVars, logVars, procVars, Go, GoAndWakeup, InOp, InCommit

(* What recovery would leave in a block: the log's copy if the header      *)
(* lists the block, else the home block.                                   *)
LEMMA RecoveredBlock ==
  ASSUME IInv, NEW b \in Block
  PROVE  /\ \A i \in 1 .. Len(head) : head[i] = b => Recovered[b] = slot[i]
         /\ (\A i \in 1 .. Len(head) : head[i] # b) => Recovered[b] = home[b]
<1>1. ASSUME NEW i \in 1 .. Len(head), head[i] = b
      PROVE  Recovered[b] = slot[i]
  <2>1. (CHOOSE j \in 1 .. Len(head) : head[j] = b) = i
    BY <1>1 DEF IInv, LhInv
  <2>. QED
    BY <1>1, <2>1 DEF Recovered
<1>2. ASSUME \A i \in 1 .. Len(head) : head[i] # b
      PROVE  Recovered[b] = home[b]
  BY <1>2 DEF Recovered
<1>. QED
  BY <1>1, <1>2

(* A fresh disk is an initial state of the atomic disk.                    *)
LEMMA RefinementInit == Init => Disk!Init
<1>. SUFFICES ASSUME Init PROVE Disk!Init
  OBVIOUS
<1>1. Recovered = [b \in Block |-> Zero]
  BY DEF Init, Recovered
<1>2. View = Recovered
  BY DEF Init, Booted, View
<1>3. {p \in Proc : InOp(p)} = {}
  BY DEF Init, Booted
<1>. QED
  BY <1>1, <1>2, <1>3 DEF Disk!Init

(* Steps that touch neither the disk nor the header leave Recovered alone. *)
LEMMA SameRecovered ==
  ASSUME UNCHANGED diskVars
  PROVE  Recovered' = Recovered
  BY DEF Recovered

(* Installing a block the header lists does not change what a reboot finds. *)
LEMMA InstallKeepsRecovered ==
  ASSUME IInv, IInv', install_block, head = lh
  PROVE  Recovered' = Recovered
<1>1. tail \in 1 .. Len(head) /\ lh[tail] \in Block /\ head' = head /\ slot' = slot
  BY DEF install_block, IInv, TypeOK
<1>2. ASSUME NEW b \in Block PROVE Recovered'[b] = Recovered[b]
  <2>1. ASSUME NEW i \in 1 .. Len(head), head[i] = b
        PROVE  Recovered'[b] = Recovered[b]
    BY <1>1, <2>1 DEF Recovered
  <2>2. ASSUME \A i \in 1 .. Len(head) : head[i] # b
        PROVE  Recovered'[b] = Recovered[b]
    <3>1. home'[b] = home[b]
      BY <1>1, <2>2 DEF install_block, IInv, TypeOK
    <3>. QED
      BY <1>1, <2>2, <3>1 DEF Recovered
  <2>. QED
    BY <2>1, <2>2
<1>. QED
  BY <1>2 DEF Recovered

(* Erasing the header when all its blocks are installed changes nothing.   *)
LEMMA EraseKeepsRecovered ==
  ASSUME IInv, erase_log, head = lh \/ head = <<>>,
         \A i \in 1 .. Len(head) : home[head[i]] = slot[i]
  PROVE  Recovered' = Recovered
<1>1. head' = <<>> /\ home' = home
  BY DEF erase_log
<1>2. Recovered' = [b \in Block |-> home[b]]
  BY <1>1 DEF Recovered
<1>3. \A b \in Block : Recovered[b] = home[b]
  BY RecoveredBlock
<1>4. Recovered = [b \in Block |-> Recovered[b]]
  BY DEF Recovered
<1>. QED
  BY <1>2, <1>3, <1>4

(* Every step of log.c is a step of the atomic disk, or changes nothing of *)
(* what it shows.                                                          *)
LEMMA RefinementStep ==
  ASSUME IInv, IInv', [Next]_vars
  PROVE  [Disk!Next]_(Disk!vars)
<1>. DEFINE active == {q \in Proc : InOp(q)}
<1>0. ASSUME Recovered' = Recovered, View' = View, active' = active
      PROVE  [Disk!Next]_(Disk!vars)
  BY <1>0 DEF Disk!vars
<1>1. CASE Crash
  <2>1. Recovered' = Recovered
    BY <1>1, SameRecovered DEF Crash
  <2>2. View' = Recovered
    BY <1>1, <2>1 DEF Crash, View
  <2>3. active' = {}
    BY <1>1 DEF Crash
  <2>. QED
    BY <2>1, <2>2, <2>3 DEF Disk!Next, Disk!Crash
<1>2. CASE read_head
  <2>1. Recovered' = Recovered
    BY <1>2, SameRecovered DEF read_head
  <2>2. View' = View
    BY <1>2, <2>1 DEF read_head, View
  <2>3. active' = active
    BY <1>2 DEF read_head
  <2>. QED
    BY <1>0, <2>1, <2>2, <2>3
<1>3. CASE recover_install
  <2>1. Recovered' = Recovered
    BY <1>3, InstallKeepsRecovered DEF recover_install, IInv, RecoveryInv, Recovering
  <2>2. View' = View
    BY <1>3, <2>1 DEF recover_install, View
  <2>3. active' = active
    BY <1>3 DEF recover_install
  <2>. QED
    BY <1>0, <2>1, <2>2, <2>3
<1>4. CASE recover_erase
  <2>1. head = lh /\ \A i \in 1 .. Len(head) : home[head[i]] = slot[i]
    BY <1>4 DEF recover_erase, erase_log, IInv, TypeOK, RecoveryInv, Recovering
  <2>2. Recovered' = Recovered
    BY <1>4, <2>1, EraseKeepsRecovered DEF recover_erase
  <2>3. \A b \in Block : Bread(b)' = home[b]
    BY <1>4 DEF recover_erase, erase_log, IInv, RecoveryInv, Recovering, Bread
  <2>4. View' = [b \in Block |-> home[b]]
    BY <1>4, <2>3 DEF recover_erase, View
  <2>5. \A b \in Block : Recovered[b] = home[b]
    BY <2>1, RecoveredBlock
  <2>6. View = Recovered
    BY <1>4 DEF recover_erase, View
  <2>7. View' = View
    BY <2>4, <2>5, <2>6 DEF Recovered
  <2>8. active' = active
    BY <1>4 DEF recover_erase
  <2>. QED
    BY <1>0, <2>2, <2>7, <2>8
<1>5. ASSUME NEW b \in Block, bread(b) PROVE [Disk!Next]_(Disk!vars)
  <2>1. Recovered' = Recovered
    BY <1>5, SameRecovered DEF bread
  <2>2. \A c \in Block : Bread(c)' = Bread(c)
    BY <1>5 DEF bread, Bread, IInv, TypeOK
  <2>3. View' = View
    BY <1>5, <2>2 DEF bread, View
  <2>4. active' = active
    BY <1>5 DEF bread
  <2>. QED
    BY <1>0, <2>1, <2>3, <2>4
<1>6. ASSUME NEW b \in Block, bget_recycle(b) PROVE [Disk!Next]_(Disk!vars)
  <2>1. Recovered' = Recovered
    BY <1>6, SameRecovered DEF bget_recycle
  <2>2. \A c \in Block : Bread(c)' = Bread(c)
    <3>1. mode = "up" /\ home' = home /\ b \notin dirty /\ owner[b] = NoProc
      BY <1>6 DEF bget_recycle
    <3>2. cache[b] \in {NoVal, home[b]}
      BY <3>1 DEF IInv, CacheInv, DirtyInv, Recovering
    <3>3. cache'[b] = NoVal /\ \A c \in Block : c # b => cache'[c] = cache[c]
      BY <1>6 DEF bget_recycle, IInv, TypeOK
    <3>. QED
      BY <3>1, <3>2, <3>3 DEF Bread
  <2>3. View' = View
    BY <1>6, <2>2 DEF bget_recycle, View
  <2>4. active' = active
    BY <1>6 DEF bget_recycle
  <2>. QED
    BY <1>0, <2>1, <2>3, <2>4
<1>7. ASSUME NEW p \in Proc, begin_op_sleep(p) PROVE [Disk!Next]_(Disk!vars)
  <2>1. Recovered' = Recovered
    BY <1>7, SameRecovered DEF begin_op_sleep
  <2>2. View' = View
    BY <1>7 DEF begin_op_sleep, View, Bread
  <2>3. active' = active
    BY <1>7 DEF begin_op_sleep, IInv, TypeOK
  <2>. QED
    BY <1>0, <2>1, <2>2, <2>3
<1>8. ASSUME NEW p \in Proc, begin_op(p) PROVE [Disk!Next]_(Disk!vars)
  <2>1. Recovered' = Recovered
    BY <1>8, SameRecovered DEF begin_op
  <2>2. View' = View
    BY <1>8 DEF begin_op, View, Bread
  <2>3. p \notin active /\ active' = active \cup {p}
    BY <1>8 DEF begin_op, IInv, TypeOK
  <2>. QED
    BY <2>1, <2>2, <2>3 DEF Disk!Next, Disk!Begin
<1>9. ASSUME NEW p \in Proc, NEW b \in Block, NEW v \in Val, modify(p, b, v)
      PROVE  [Disk!Next]_(Disk!vars)
  <2>1. Recovered' = Recovered
    BY <1>9, SameRecovered DEF modify
  <2>2. View' = [View EXCEPT ![b] = v]
    <3>1. \A c \in Block : Bread(c)' = IF c = b THEN v ELSE Bread(c)
      BY <1>9 DEF modify, Bread, IInv, TypeOK
    <3>2. View = [c \in Block |-> Bread(c)] /\ View' = [c \in Block |-> Bread(c)']
      BY <1>9 DEF modify, View
    <3>. QED
      BY <3>1, <3>2
  <2>3. InOp(p) /\ \A q \in Proc : InOp(q)' <=> InOp(q)
    BY <1>9 DEF modify, IInv, TypeOK
  <2>4. p \in active /\ active' = active
    BY <2>3
  <2>. QED
    BY <2>1, <2>2, <2>4 DEF Disk!Next, Disk!Write
<1>10. ASSUME NEW p \in Proc, panic(p) PROVE [Disk!Next]_(Disk!vars)
  <2>1. Recovered' = Recovered
    BY <1>10, SameRecovered DEF panic
  <2>2. View' = View
    BY <1>10 DEF panic, View, Bread
  <2>3. active' = active
    BY <1>10 DEF panic
  <2>. QED
    BY <1>0, <2>1, <2>2, <2>3
<1>11. ASSUME NEW p \in Proc, log_write_check(p) PROVE [Disk!Next]_(Disk!vars)
  <2>1. Recovered' = Recovered
    BY <1>11, SameRecovered DEF log_write_check
  <2>2. View' = View
    BY <1>11 DEF log_write_check, View, Bread
  <2>3. active' = active
    BY <1>11 DEF log_write_check, IInv, TypeOK
  <2>. QED
    BY <1>0, <2>1, <2>2, <2>3
<1>12. ASSUME NEW p \in Proc, NEW b \in Block, log_write(p, b)
       PROVE  [Disk!Next]_(Disk!vars)
  <2>1. Recovered' = Recovered
    BY <1>12, SameRecovered DEF log_write
  <2>2. View' = View
    BY <1>12 DEF log_write, View, Bread
  <2>3. active' = active
    BY <1>12 DEF log_write, IInv, TypeOK
  <2>. QED
    BY <1>0, <2>1, <2>2, <2>3
<1>13. ASSUME NEW p \in Proc, end_op(p) PROVE [Disk!Next]_(Disk!vars)
  <2>1. Recovered' = Recovered
    BY <1>13, SameRecovered DEF end_op
  <2>2. View' = View
    BY <1>13 DEF end_op, View, Bread
  <2>3. p \in active /\ active' = active \ {p}
    BY <1>13 DEF end_op, IInv, TypeOK
  <2>. QED
    BY <2>1, <2>2, <2>3 DEF Disk!Next, Disk!End
<1>14. ASSUME NEW p \in Proc, end_op_last(p) PROVE [Disk!Next]_(Disk!vars)
  <2>1. Recovered' = Recovered
    BY <1>14, SameRecovered DEF end_op_last
  <2>2. View' = View
    BY <1>14 DEF end_op_last, View, Bread
  <2>3. p \in active /\ active' = active \ {p}
    BY <1>14 DEF end_op_last, IInv, TypeOK
  <2>. QED
    BY <2>1, <2>2, <2>3 DEF Disk!Next, Disk!End
<1>15. ASSUME NEW p \in Proc, write_log(p) PROVE [Disk!Next]_(Disk!vars)
  <2>1. head = <<>> /\ head' = <<>> /\ home' = home
    <3>1. \A q \in Proc : pc[q] # "install"
      BY <1>15 DEF write_log, IInv, CommitInv
    <3>. QED
      BY <1>15, <3>1 DEF write_log, IInv, CacheInv, HeadInv, Recovering
  <2>2. Recovered' = Recovered
    BY <2>1 DEF Recovered
  <2>3. \A c \in Block : Bread(c)' = Bread(c)
    <3>1. \A c \in Block : cache'[c] = IF c = lh[tail] THEN Bread(c) ELSE cache[c]
      BY <1>15 DEF write_log, IInv, TypeOK
    <3>. QED
      BY <2>1, <3>1 DEF Bread
  <2>4. View' = View
    BY <1>15, <2>3 DEF write_log, View
  <2>5. active' = active
    BY <1>15 DEF write_log
  <2>. QED
    BY <1>0, <2>2, <2>4, <2>5
<1>16. ASSUME NEW p \in Proc, write_head(p) PROVE [Disk!Next]_(Disk!vars)
  <2>1. \A c \in Block : Bread(c)' = Bread(c)
    BY <1>16 DEF write_head, Bread
  <2>2. View = [c \in Block |-> Bread(c)] /\ View' = View
    BY <1>16, <2>1 DEF write_head, View
  <2>3. \A q \in Proc : ~InOp(q)
    BY <1>16, OpHasTicket DEF write_head
  <2>4. active = {} /\ active' = {}
    BY <1>16, <2>3 DEF write_head, IInv, TypeOK
  <2>5. ASSUME NEW c \in Block PROVE Recovered'[c] = Bread(c)
    <3>1. CASE c \in LhBlocks
      <4>1. PICK i \in 1 .. Len(lh) : lh[i] = c
        BY <3>1 DEF LhBlocks
      <4>2. Recovered'[c] = slot'[i]
        <5>1. head' = lh /\ (CHOOSE j \in 1 .. Len(lh) : lh[j] = c) = i
          BY <1>16, <4>1 DEF write_head, IInv, LhInv
        <5>. QED
          BY <4>1, <5>1 DEF Recovered
      <4>3. slot[i] = Bread(lh[i])
        <5>1. pc[p] = "write_log" /\ CopiedInv
          BY <1>16 DEF write_head, IInv, CacheInv, Recovering
        <5>2. Len(lh) \in Nat /\ tail \in Nat /\ tail > Len(lh)
          BY <1>16 DEF write_head, IInv, TypeOK
        <5>3. i < tail
          BY <5>2
        <5>. QED
          BY <5>1, <5>3 DEF CopiedInv
      <4>. QED
        BY <1>16, <4>1, <4>2, <4>3 DEF write_head
    <3>2. CASE c \notin LhBlocks
      <4>1. Recovered'[c] = home[c]
        BY <1>16, <3>2 DEF write_head, Recovered, LhBlocks
      <4>2. owner[c] = NoProc
        BY <2>3 DEF IInv, OwnerInv, TypeOK
      <4>. QED
        BY <1>16, <3>2, <4>1, <4>2 DEF write_head, IInv, CacheInv, CleanInv, Recovering
    <3>. QED
      BY <3>1, <3>2
  <2>6. Recovered' = View
    BY SMTT(30), <2>2, <2>5 DEF Recovered
  <2>. QED
    BY <2>2, <2>4, <2>6 DEF Disk!Next, Disk!Commit
<1>17. ASSUME NEW p \in Proc, commit_install(p) PROVE [Disk!Next]_(Disk!vars)
  <2>1. head = lh /\ \A i \in 1 .. Len(lh) : slot[i] = Bread(lh[i])
    BY <1>17 DEF commit_install, IInv, CacheInv, InstalledInv, Recovering
  <2>2. Recovered' = Recovered
    BY <1>17, <2>1, InstallKeepsRecovered DEF commit_install
  <2>3. \A c \in Block : Bread(c)' = Bread(c)
    <3>1. slot[tail] = Bread(lh[tail]) /\ lh[tail] \in Block
      BY <1>17, <2>1 DEF commit_install, install_block, IInv, TypeOK
    <3>2. \A c \in Block : home'[c] = IF c = lh[tail] THEN Bread(c) ELSE home[c]
      BY <1>17, <3>1 DEF commit_install, install_block, IInv, TypeOK
    <3>3. \A c \in Block : cache'[c] = IF c = lh[tail] THEN Bread(c) ELSE cache[c]
      BY <1>17, <3>1 DEF commit_install, install_block, IInv, TypeOK
    <3>. QED
      BY <3>2, <3>3 DEF Bread
  <2>4. View' = View
    BY <1>17, <2>3 DEF commit_install, View
  <2>5. active' = active
    BY <1>17 DEF commit_install
  <2>. QED
    BY <1>0, <2>2, <2>4, <2>5
<1>18. ASSUME NEW p \in Proc, commit_erase(p) PROVE [Disk!Next]_(Disk!vars)
  <2>1. head = lh /\ \A i \in 1 .. Len(head) : home[head[i]] = slot[i]
    <3>1. pc[p] = "install" /\ InstalledInv
      BY <1>18 DEF commit_erase, IInv, CacheInv, Recovering
    <3>2. \A i \in 1 .. Len(lh) : i < tail
      BY <1>18 DEF commit_erase, erase_log, IInv, TypeOK
    <3>. QED
      BY <3>1, <3>2 DEF InstalledInv
  <2>2. Recovered' = Recovered
    BY <1>18, <2>1, EraseKeepsRecovered DEF commit_erase
  <2>3. View' = View
    BY <1>18 DEF commit_erase, erase_log, View, Bread
  <2>4. active' = active
    BY <1>18 DEF commit_erase, IInv, TypeOK
  <2>. QED
    BY <1>0, <2>2, <2>3, <2>4
<1>19. ASSUME NEW p \in Proc, end_commit(p) PROVE [Disk!Next]_(Disk!vars)
  <2>1. Recovered' = Recovered
    BY <1>19, SameRecovered DEF end_commit
  <2>2. View' = View
    BY <1>19 DEF end_commit, View, Bread
  <2>3. active' = active
    BY <1>19 DEF end_commit, IInv, TypeOK
  <2>. QED
    BY <1>0, <2>1, <2>2, <2>3
<1>20. CASE UNCHANGED vars
  <2>1. Recovered' = Recovered /\ View' = View /\ active' = active
    BY <1>20 DEF Recovered, View, Bread
  <2>. QED
    BY <1>0, <2>1
<1>. QED
  BY <1>1, <1>2, <1>3, <1>4, <1>5, <1>6, <1>7, <1>8, <1>9, <1>10, <1>11, <1>12,
     <1>13, <1>14, <1>15, <1>16, <1>17, <1>18, <1>19, <1>20
  DEF Next, Recovery, Step

(* Crash atomicity, for every set of blocks and processes: the redo log    *)
(* over the buffer cache implements the atomic disk.  The assumption keeps *)
(* every copy of a block inside the log area (LogNeverOverflows).          *)
THEOREM LogIsCrashAtomic ==
  ASSUME OPBLOCKS < MAXOPBLOCKS
  PROVE  Spec => CrashAtomic
<1>1. IInv /\ IInv' /\ [Next]_vars => [Disk!Next]_(Disk!vars)
  BY RefinementStep
<1>. QED
  BY RefinementInit, Invariance, <1>1, PTL DEF Spec, CrashAtomic, Disk!Spec
=============================================================================
