------------------------------ MODULE LogProofs ------------------------------
(***************************************************************************)
(* The parts of the invariant about the log, recovery and the cache, and   *)
(* the safety theorems, for any processes, blocks, contents and sizes.     *)
(***************************************************************************)
EXTENDS LogInvariant

USE ValAssumption, ProcAssumption, SizeAssumption
    DEF vars, diskVars, bufVars, logVars, procVars, Go, GoAndWakeup, InOp, InCommit

(* The tickets leave log_write the room its unlocked test asks for. *)
LEMMA SpaceStep ==
  ASSUME IInv, [Next]_vars
  PROVE  SpaceInv'
<1>. USE DEF IInv, TypeOK, SpaceInv, TooBig, Panics
<1>1. CASE Crash
  BY <1>1 DEF Crash
<1>2. CASE read_head
  BY <1>2 DEF read_head
<1>3. CASE recover_install
  BY <1>3 DEF recover_install, install_block
<1>4. CASE recover_erase
  BY <1>4 DEF recover_erase, erase_log
<1>5. ASSUME NEW b \in Block, bread(b) PROVE SpaceInv'
  BY <1>5 DEF bread
<1>6. ASSUME NEW b \in Block, bget_recycle(b) PROVE SpaceInv'
  BY <1>6 DEF bget_recycle
<1>7. ASSUME NEW p \in Proc, begin_op_sleep(p) PROVE SpaceInv'
  BY <1>7 DEF begin_op_sleep
<1>8. ASSUME NEW p \in Proc, begin_op(p) PROVE SpaceInv'
  BY <1>8 DEF begin_op
<1>9. ASSUME NEW p \in Proc, NEW b \in Block, NEW v \in Val, modify(p, b, v) PROVE SpaceInv'
  BY <1>9 DEF modify
<1>10. ASSUME NEW p \in Proc, panic(p) PROVE SpaceInv'
  <2>1. InOp(p)
    BY <1>10 DEF panic
  <2>2. OPBLOCKS = MAXOPBLOCKS
    BY <1>10, <2>1, OpHasTicket DEF panic, OwnerInv
  <2>. QED
    BY <1>10, <2>2 DEF panic
<1>11. ASSUME NEW p \in Proc, log_write_check(p) PROVE SpaceInv'
  BY <1>11 DEF log_write_check
<1>12. ASSUME NEW p \in Proc, NEW b \in Block, log_write(p, b) PROVE SpaceInv'
  <2>1. InOp(p) /\ nw[p] < OPBLOCKS
    BY <1>12 DEF log_write, OwnerInv
  <2>2. Len(lh') <= Len(lh) + 1
    BY <1>12 DEF log_write
  <2>3. Len(lh) + MAXOPBLOCKS - nw[p] <= LOGSIZE
    BY <2>1, OpHasTicket
  <2>4. Len(lh) \in Nat /\ Len(lh') \in Nat
    BY <1>12 DEF log_write
  <2>. QED
    BY <1>12, <2>1, <2>2, <2>3, <2>4 DEF log_write
<1>13. ASSUME NEW p \in Proc, end_op(p) PROVE SpaceInv'
  BY <1>13 DEF end_op
<1>14. ASSUME NEW p \in Proc, end_op_last(p) PROVE SpaceInv'
  BY <1>14 DEF end_op_last
<1>15. ASSUME NEW p \in Proc, write_log(p) PROVE SpaceInv'
  BY <1>15 DEF write_log
<1>16. ASSUME NEW p \in Proc, write_head(p) PROVE SpaceInv'
  BY <1>16 DEF write_head
<1>17. ASSUME NEW p \in Proc, commit_install(p) PROVE SpaceInv'
  BY <1>17 DEF commit_install, install_block
<1>18. ASSUME NEW p \in Proc, commit_erase(p) PROVE SpaceInv'
  BY <1>18 DEF commit_erase, erase_log
<1>19. ASSUME NEW p \in Proc, end_commit(p) PROVE SpaceInv'
  BY <1>19 DEF end_commit
<1>20. CASE UNCHANGED vars
  BY SMTT(30), <1>20
<1>. QED
  BY <1>1, <1>2, <1>3, <1>4, <1>5, <1>6, <1>7, <1>8, <1>9, <1>10, <1>11,
     <1>12, <1>13, <1>14, <1>15, <1>16, <1>17, <1>18, <1>19, <1>20
  DEF Next, Recovery, Step

(* log_write absorbs a block that is logged already. *)
LEMMA LhStep ==
  ASSUME IInv, [Next]_vars
  PROVE  LhInv'
<1>. USE DEF IInv, TypeOK, LhInv, CommitInv, PC, LhBlocks, RecoveryInv, Recovering
<1>1. CASE Crash
  BY <1>1 DEF Crash
<1>2. CASE read_head
  BY <1>2 DEF read_head
<1>3. CASE recover_install
  BY <1>3 DEF recover_install, install_block
<1>4. CASE recover_erase
  BY <1>4 DEF recover_erase, erase_log
<1>5. ASSUME NEW b \in Block, bread(b) PROVE LhInv'
  BY <1>5 DEF bread
<1>6. ASSUME NEW b \in Block, bget_recycle(b) PROVE LhInv'
  BY <1>6 DEF bget_recycle
<1>7. ASSUME NEW p \in Proc, begin_op_sleep(p) PROVE LhInv'
  BY <1>7 DEF begin_op_sleep
<1>8. ASSUME NEW p \in Proc, begin_op(p) PROVE LhInv'
  BY <1>8 DEF begin_op, MustWait
<1>9. ASSUME NEW p \in Proc, NEW b \in Block, NEW v \in Val, modify(p, b, v) PROVE LhInv'
  BY <1>9 DEF modify
<1>10. ASSUME NEW p \in Proc, panic(p) PROVE LhInv'
  BY <1>10 DEF panic
<1>11. ASSUME NEW p \in Proc, log_write_check(p) PROVE LhInv'
  BY <1>11 DEF log_write_check
<1>12. ASSUME NEW p \in Proc, NEW b \in Block, log_write(p, b) PROVE LhInv'
  <2>1. outstanding >= 1 /\ \A q \in Proc : ~InCommit(q)
    BY <1>12, OpHasTicket DEF log_write
  <2>2. CASE b \in LhBlocks
    BY <1>12, <2>1, <2>2 DEF log_write
  <2>3. CASE b \notin LhBlocks
    BY <1>12, <2>1, <2>3 DEF log_write
  <2>. QED
    BY SMTT(30), <2>2, <2>3
<1>13. ASSUME NEW p \in Proc, end_op(p) PROVE LhInv'
  BY <1>13 DEF end_op
<1>14. ASSUME NEW p \in Proc, end_op_last(p) PROVE LhInv'
  BY <1>14 DEF end_op_last
<1>15. ASSUME NEW p \in Proc, write_log(p) PROVE LhInv'
  BY <1>15 DEF write_log
<1>16. ASSUME NEW p \in Proc, write_head(p) PROVE LhInv'
  BY <1>16 DEF write_head
<1>17. ASSUME NEW p \in Proc, commit_install(p) PROVE LhInv'
  BY <1>17 DEF commit_install, install_block
<1>18. ASSUME NEW p \in Proc, commit_erase(p) PROVE LhInv'
  BY <1>18 DEF commit_erase, erase_log
<1>19. ASSUME NEW p \in Proc, end_commit(p) PROVE LhInv'
  BY <1>19 DEF end_commit
<1>20. CASE UNCHANGED vars
  BY SMTT(30), <1>20
<1>. QED
  BY ZenonT(60), <1>1, <1>2, <1>3, <1>4, <1>5, <1>6, <1>7, <1>8, <1>9, <1>10, <1>11,
     <1>12, <1>13, <1>14, <1>15, <1>16, <1>17, <1>18, <1>19, <1>20
  DEF Next, Recovery, Step

(* Recovery installs the blocks of the header one by one. *)
LEMMA RecoveryStep ==
  ASSUME IInv, [Next]_vars
  PROVE  RecoveryInv'
<1>. USE DEF IInv, TypeOK, RecoveryInv, Recovering, SpaceInv
<1>1. CASE Crash
  BY <1>1 DEF Crash
<1>2. CASE read_head
  BY <1>2 DEF read_head
<1>3. CASE recover_install
  BY <1>3 DEF recover_install, install_block, LhInv
<1>4. CASE recover_erase
  BY <1>4 DEF recover_erase, erase_log
<1>5. ASSUME NEW b \in Block, bread(b) PROVE RecoveryInv'
  BY <1>5 DEF bread
<1>6. ASSUME NEW b \in Block, bget_recycle(b) PROVE RecoveryInv'
  BY <1>6 DEF bget_recycle
<1>7. ASSUME NEW p \in Proc, begin_op_sleep(p) PROVE RecoveryInv'
  BY <1>7 DEF begin_op_sleep
<1>8. ASSUME NEW p \in Proc, begin_op(p) PROVE RecoveryInv'
  BY <1>8 DEF begin_op
<1>9. ASSUME NEW p \in Proc, NEW b \in Block, NEW v \in Val, modify(p, b, v) PROVE RecoveryInv'
  BY <1>9 DEF modify
<1>10. ASSUME NEW p \in Proc, panic(p) PROVE RecoveryInv'
  BY <1>10 DEF panic
<1>11. ASSUME NEW p \in Proc, log_write_check(p) PROVE RecoveryInv'
  BY <1>11 DEF log_write_check
<1>12. ASSUME NEW p \in Proc, NEW b \in Block, log_write(p, b) PROVE RecoveryInv'
  BY <1>12 DEF log_write
<1>13. ASSUME NEW p \in Proc, end_op(p) PROVE RecoveryInv'
  BY <1>13 DEF end_op
<1>14. ASSUME NEW p \in Proc, end_op_last(p) PROVE RecoveryInv'
  BY <1>14 DEF end_op_last
<1>15. ASSUME NEW p \in Proc, write_log(p) PROVE RecoveryInv'
  BY <1>15 DEF write_log
<1>16. ASSUME NEW p \in Proc, write_head(p) PROVE RecoveryInv'
  BY <1>16 DEF write_head
<1>17. ASSUME NEW p \in Proc, commit_install(p) PROVE RecoveryInv'
  BY <1>17 DEF commit_install, install_block
<1>18. ASSUME NEW p \in Proc, commit_erase(p) PROVE RecoveryInv'
  BY <1>18 DEF commit_erase, erase_log
<1>19. ASSUME NEW p \in Proc, end_commit(p) PROVE RecoveryInv'
  BY <1>19 DEF end_commit
<1>20. CASE UNCHANGED vars
  BY SMTT(30), <1>20
<1>. QED
  BY ZenonT(60), <1>1, <1>2, <1>3, <1>4, <1>5, <1>6, <1>7, <1>8, <1>9, <1>10, <1>11,
     <1>12, <1>13, <1>14, <1>15, <1>16, <1>17, <1>18, <1>19, <1>20
  DEF Next, Recovery, Step

(* The cache, the log area and the home blocks agree as far as the commit has *)
(* got.                                                                        *)
LEMMA CacheStep ==
  ASSUME IInv, [Next]_vars
  PROVE  CacheInv'
<1>. USE DEF IInv, TypeOK, CacheInv, HeadInv, CleanInv, DirtyInv, CopiedInv, InstalledInv, Recovering, LhBlocks, Bread
<1>1. CASE Crash
  BY <1>1 DEF Crash
<1>2. CASE read_head
  BY <1>2 DEF read_head
<1>3. CASE recover_install
  BY <1>3 DEF recover_install, install_block
<1>4. CASE recover_erase
  BY <1>4 DEF recover_erase, erase_log, RecoveryInv
<1>5. ASSUME NEW b \in Block, bread(b) PROVE CacheInv'
  BY <1>5 DEF bread
<1>6. ASSUME NEW b \in Block, bget_recycle(b) PROVE CacheInv'
  BY <1>6 DEF bget_recycle
<1>7. ASSUME NEW p \in Proc, begin_op_sleep(p) PROVE CacheInv'
  BY <1>7 DEF begin_op_sleep
<1>8. ASSUME NEW p \in Proc, begin_op(p) PROVE CacheInv'
  BY <1>8 DEF begin_op
<1>9. ASSUME NEW p \in Proc, NEW b \in Block, NEW v \in Val, modify(p, b, v) PROVE CacheInv'
  <2>. HIDE DEF TypeOK, CacheInv, HeadInv, CleanInv, DirtyInv, CopiedInv, InstalledInv, LhBlocks, Bread
  <2>1. mode = "up" /\ lh' = lh /\ home' = home /\ head' = head /\ dirty' = dirty
    BY <1>9 DEF modify
  <2>2. HeadInv /\ CleanInv /\ DirtyInv
    BY <2>1 DEF CacheInv
  <2>3. \A q \in Proc : pc[q] \notin {"write_log", "install"}
    BY <1>9, OpHasTicket DEF modify
  <2>4. \A q \in Proc : pc'[q] \notin {"write_log", "install"}
    BY <1>9, <2>3 DEF modify, TypeOK
  <2>5. \A c \in Block : owner'[c] = IF c = b THEN p ELSE owner[c]
    BY <1>9 DEF modify, TypeOK
  <2>6. \A c \in Block : c # b => cache'[c] = cache[c]
    BY <1>9 DEF modify, TypeOK
  <2>7. p # NoProc
    OBVIOUS
  <2>8. HeadInv'
    BY <2>1, <2>2, <2>3 DEF HeadInv
  <2>9. CleanInv'
    BY <2>1, <2>2, <2>5, <2>6, <2>7 DEF CleanInv, Bread, LhBlocks
  <2>10. DirtyInv'
    BY <2>1, <2>2, <2>5, <2>6, <2>7 DEF DirtyInv
  <2>11. CopiedInv' /\ InstalledInv'
    BY <2>4 DEF CopiedInv, InstalledInv
  <2>. QED
    BY <2>8, <2>9, <2>10, <2>11 DEF CacheInv
<1>10. ASSUME NEW p \in Proc, panic(p) PROVE CacheInv'
  BY <1>10 DEF panic
<1>11. ASSUME NEW p \in Proc, log_write_check(p) PROVE CacheInv'
  BY <1>11 DEF log_write_check
<1>12. ASSUME NEW p \in Proc, NEW b \in Block, log_write(p, b) PROVE CacheInv'
  <2>. HIDE DEF CacheInv, HeadInv, CleanInv, DirtyInv, CopiedInv, InstalledInv, Recovering, LhBlocks, Bread
  <2>1. \A q \in Proc : ~InCommit(q)
    BY <1>12, OpHasTicket DEF log_write
  <2>2. \A c \in Block : c \notin LhBlocks' => c \notin LhBlocks /\ c # b
    <3>1. CASE b \in LhBlocks
      BY <1>12, <3>1 DEF log_write, LhBlocks
    <3>2. CASE b \notin LhBlocks
      <4>1. lh' = Append(lh, b)
        BY <1>12, <3>2 DEF log_write
      <4>2. /\ Len(lh) \in Nat /\ Len(lh') = Len(lh) + 1
            /\ lh'[Len(lh) + 1] = b
            /\ \A i \in 1 .. Len(lh) : lh'[i] = lh[i]
        BY <4>1
      <4>3. Len(lh) + 1 \in 1 .. Len(lh') /\ \A i \in 1 .. Len(lh) : i \in 1 .. Len(lh')
        BY <4>2
      <4>. QED
        BY <4>2, <4>3 DEF LhBlocks
    <3>. QED
      BY <3>1, <3>2
  <2>3. \A q \in Proc : pc'[q] \notin {"write_log", "install"}
    BY <1>12, <2>1 DEF log_write
  <2>4. mode = "up" /\ home' = home /\ head' = head /\ cache' = cache /\ dirty' = dirty \cup {b}
    BY <1>12 DEF log_write
  <2>5. HeadInv /\ CleanInv /\ DirtyInv
    BY <2>4 DEF CacheInv, Recovering
  <2>6. \A c \in Block : c # b => owner'[c] = owner[c]
    BY <1>12 DEF log_write
  <2>. HIDE DEF TypeOK
  <2>7. HeadInv'
    BY <2>1, <2>4, <2>5 DEF HeadInv
  <2>8. CleanInv'
    BY <2>2, <2>4, <2>5, <2>6 DEF CleanInv, Bread
  <2>9. DirtyInv'
    BY <2>4, <2>5, <2>6 DEF DirtyInv
  <2>10. CopiedInv' /\ InstalledInv'
    BY <2>3 DEF CopiedInv, InstalledInv
  <2>. QED
    BY <2>7, <2>8, <2>9, <2>10 DEF CacheInv
<1>13. ASSUME NEW p \in Proc, end_op(p) PROVE CacheInv'
  <2>1. \A q \in Proc : \A l \in {"write_log", "install"} : pc'[q] = l <=> pc[q] = l
    BY <1>13 DEF end_op
  <2>. QED
    BY <1>13, <2>1 DEF end_op
<1>14. ASSUME NEW p \in Proc, end_op_last(p) PROVE CacheInv'
  BY <1>14 DEF end_op_last, CommitInv, LhInv, Panics
<1>15. ASSUME NEW p \in Proc, write_log(p) PROVE CacheInv'
  <2>. HIDE DEF TypeOK, CacheInv, HeadInv, CleanInv, DirtyInv, CopiedInv, InstalledInv, LhBlocks, Bread
  <2>1. /\ mode = "up" /\ pc[p] = "write_log" /\ tail <= Len(lh) /\ tail' = tail + 1
        /\ UNCHANGED <<home, head, lh, owner, dirty, pc>>
    BY <1>15 DEF write_log
  <2>2. HeadInv /\ CleanInv /\ DirtyInv /\ CopiedInv
    BY <2>1 DEF CacheInv
  <2>3. \A q \in Proc : pc[q] # "install"
    BY <2>1 DEF CommitInv
  <2>4. /\ tail \in 1 .. LOGSIZE /\ lh[tail] \in Block
        /\ \A i \in 1 .. Len(lh) : i \in 1 .. LOGSIZE /\ lh[i] \in Block
    BY <2>1 DEF SpaceInv, TypeOK
  <2>5. \A c \in Block : cache'[c] = IF c = lh[tail] THEN Bread(c) ELSE cache[c]
    BY <1>15, <2>4 DEF write_log, TypeOK
  <2>6. \A i \in 1 .. LOGSIZE : slot'[i] = IF i = tail THEN Bread(lh[i]) ELSE slot[i]
    BY <1>15, <2>4 DEF write_log, TypeOK
  <2>7. \A c \in Block : Bread(c)' = Bread(c)
    BY <2>1, <2>5 DEF Bread
  <2>8. HeadInv'
    BY <2>1, <2>2, <2>3 DEF HeadInv
  <2>9. CleanInv'
    <3>1. LhBlocks' = LhBlocks
      BY <2>1 DEF LhBlocks
    <3>. QED
      BY <2>1, <2>2, <2>7, <3>1 DEF CleanInv
  <2>10. DirtyInv'
    BY <2>1, <2>2, <2>5 DEF DirtyInv, Bread
  <2>11. CopiedInv'
    <3>1. ASSUME NEW i \in 1 .. Len(lh), i < tail + 1 PROVE slot'[i] = Bread(lh[i])
      <4>1. i = tail \/ i < tail
        BY <2>4, <3>1
      <4>. QED
        BY <2>1, <2>2, <2>4, <2>6, <4>1 DEF CopiedInv
    <3>2. \A i \in 1 .. Len(lh) : i < tail' => slot'[i] = (IF cache'[lh[i]] = NoVal THEN home[lh[i]] ELSE cache'[lh[i]])
      BY <2>1, <2>4, <2>7, <3>1 DEF Bread
    <3>. QED
      BY <2>1, <3>2 DEF CopiedInv, Bread
  <2>12. InstalledInv'
    BY <2>1, <2>3 DEF InstalledInv
  <2>. QED
    BY <2>8, <2>9, <2>10, <2>11, <2>12 DEF CacheInv
<1>16. ASSUME NEW p \in Proc, write_head(p) PROVE CacheInv'
  <2>. HIDE DEF TypeOK, CacheInv, HeadInv, CleanInv, DirtyInv, CopiedInv, InstalledInv, LhBlocks, Bread
  <2>1. /\ mode = "up" /\ pc[p] = "write_log" /\ tail > Len(lh) /\ tail' = 1 /\ head' = lh
        /\ UNCHANGED <<home, slot, cache, lh, owner, dirty>>
    BY <1>16 DEF write_head
  <2>2. CleanInv /\ DirtyInv /\ CopiedInv
    BY <2>1 DEF CacheInv
  <2>3. pc'[p] = "install" /\ \A q \in Proc : pc'[q] # "write_log"
    BY <1>16, <2>1 DEF write_head, CommitInv, TypeOK
  <2>4. \A i \in 1 .. Len(lh) : i < tail /\ ~(i < 1)
    BY <2>1 DEF TypeOK
  <2>5. \A i \in 1 .. Len(lh) : slot[i] = Bread(lh[i])
    BY <2>1, <2>2, <2>4 DEF CopiedInv
  <2>6. HeadInv'
    BY <2>3 DEF HeadInv
  <2>7. CleanInv'
    BY <2>1, <2>2 DEF CleanInv, LhBlocks, Bread
  <2>8. DirtyInv'
    BY <2>1, <2>2 DEF DirtyInv
  <2>9. CopiedInv'
    BY <2>3 DEF CopiedInv
  <2>10. InstalledInv'
    BY <2>1, <2>4, <2>5 DEF InstalledInv, Bread
  <2>. QED
    BY <2>6, <2>7, <2>8, <2>9, <2>10 DEF CacheInv
<1>17. ASSUME NEW p \in Proc, commit_install(p) PROVE CacheInv'
  <2>. HIDE DEF TypeOK, CacheInv, HeadInv, CleanInv, DirtyInv, CopiedInv, InstalledInv, LhBlocks, Bread
  <2>1. /\ mode = "up" /\ pc[p] = "install" /\ tail <= Len(lh) /\ tail' = tail + 1
        /\ dirty' = dirty \ {lh[tail]}
        /\ UNCHANGED <<head, slot, lh, owner, pc>>
    BY <1>17 DEF commit_install, install_block
  <2>2. CleanInv /\ DirtyInv /\ InstalledInv
    BY <2>1 DEF CacheInv
  <2>3. \A q \in Proc : pc[q] # "write_log"
    BY <2>1 DEF CommitInv
  <2>4. /\ tail \in 1 .. Len(lh) /\ lh[tail] \in Block
        /\ \A i \in 1 .. Len(lh) : lh[i] \in Block
    BY <2>1 DEF TypeOK
  <2>5. slot[tail] = Bread(lh[tail]) /\ head = lh
    BY <2>1, <2>2, <2>4 DEF InstalledInv
  <2>6. \A c \in Block : home'[c] = IF c = lh[tail] THEN Bread(c) ELSE home[c]
    BY <1>17, <2>4, <2>5 DEF commit_install, install_block, TypeOK
  <2>7. \A c \in Block : cache'[c] = IF c = lh[tail] THEN Bread(c) ELSE cache[c]
    BY <1>17, <2>4, <2>5 DEF commit_install, install_block, TypeOK
  <2>8. \A c \in Block : Bread(c)' = Bread(c)
    BY <2>6, <2>7 DEF Bread
  <2>9. HeadInv'
    BY <2>1 DEF HeadInv
  <2>10. CleanInv'
    <3>1. LhBlocks' = LhBlocks /\ lh[tail] \in LhBlocks
      BY <2>1, <2>4 DEF LhBlocks
    <3>. QED
      BY <2>1, <2>2, <2>6, <2>8, <3>1 DEF CleanInv
  <2>11. DirtyInv'
    BY <2>1, <2>2, <2>6, <2>7 DEF DirtyInv
  <2>12. CopiedInv'
    BY <2>1, <2>3 DEF CopiedInv
  <2>13. \A i \in 1 .. Len(lh) : slot[i] = Bread(lh[i]) /\ (i < tail => home[lh[i]] = slot[i])
    BY <2>1, <2>2 DEF InstalledInv
  <2>14. ASSUME NEW i \in 1 .. Len(lh), i < tail + 1 PROVE home'[lh[i]] = slot[i]
    <3>1. i = tail \/ i < tail
      BY <2>4, <2>14
    <3>. QED
      BY <2>4, <2>6, <2>13, <3>1
  <2>15. \A i \in 1 .. Len(lh) : slot[i] = (IF cache'[lh[i]] = NoVal THEN home'[lh[i]] ELSE cache'[lh[i]])
    BY <2>4, <2>8, <2>13 DEF Bread
  <2>16. InstalledInv'
    BY <2>1, <2>5, <2>14, <2>15 DEF InstalledInv, Bread
  <2>. QED
    BY <2>9, <2>10, <2>11, <2>12, <2>16 DEF CacheInv
<1>18. ASSUME NEW p \in Proc, commit_erase(p) PROVE CacheInv'
  <2>. HIDE DEF CacheInv, HeadInv, CleanInv, DirtyInv, CopiedInv, InstalledInv, Recovering, LhBlocks, Bread
  <2>1. \A q \in Proc : pc'[q] \notin {"write_log", "install"}
    BY <1>18 DEF commit_erase, CommitInv
  <2>2. \A c \in Block : owner[c] = NoProc
    BY <1>18, OpHasTicket DEF commit_erase, OwnerInv
  <2>3. \A c \in LhBlocks : Bread(c) = home[c]
    BY <1>18 DEF commit_erase, erase_log, CacheInv, HeadInv, CleanInv, DirtyInv, CopiedInv, InstalledInv, LhBlocks, Recovering
  <2>4. \A c \in Block : Bread(c) = home[c]
    BY <1>18, <2>2, <2>3 DEF commit_erase, CacheInv, HeadInv, CleanInv, DirtyInv, CopiedInv, InstalledInv, Recovering
  <2>. QED
    BY <1>18, <2>1, <2>2, <2>4 DEF commit_erase, erase_log, CacheInv, HeadInv, CleanInv, DirtyInv, CopiedInv, InstalledInv, Bread, Recovering
<1>19. ASSUME NEW p \in Proc, end_commit(p) PROVE CacheInv'
  <2>1. \A q \in Proc : \A l \in {"write_log", "install"} : pc'[q] = l <=> pc[q] = l
    BY <1>19 DEF end_commit
  <2>. QED
    BY <1>19, <2>1 DEF end_commit
<1>20. CASE UNCHANGED vars
  BY <1>20
<1>. QED
  BY <1>1, <1>2, <1>3, <1>4, <1>5, <1>6, <1>7, <1>8, <1>9, <1>10, <1>11,
     <1>12, <1>13, <1>14, <1>15, <1>16, <1>17, <1>18, <1>19, <1>20
  DEF Next, Recovery, Step

(* The invariant of the redo log: all the parts above hold of every        *)
(* reachable state.                                                        *)
THEOREM Invariance == Spec => []IInv
<1>1. IInv /\ [Next]_vars => IInv'
  BY TypeStep, OwnerStep, CommitStep, TicketStep, SpaceStep, LhStep, RecoveryStep, CacheStep
  DEF IInv
<1>. QED
  BY InitIInv, <1>1, PTL DEF Spec

(* The variables of log.c and bio.c keep their types.                      *)
THEOREM TypeCorrect == Spec => []TypeOK
<1>1. IInv => TypeOK
  BY DEF IInv
<1>. QED
  BY Invariance, <1>1, PTL

(* A commit excludes every system call in progress and every other commit. *)
THEOREM CommitIsExclusive == Spec => []CommitExclusive
<1>1. IInv => CommitExclusive
  <2>. SUFFICES ASSUME IInv PROVE CommitExclusive
    OBVIOUS
  <2>1. committing => \A p \in Proc : ~InOp(p)
    BY OpHasTicket
  <2>. QED
    BY <2>1 DEF IInv, CommitInv, CommitExclusive
<1>. QED
  BY Invariance, <1>1, PTL

(* When every system call makes fewer than MAXOPBLOCKS calls of log_write, *)
(* the log never outgrows its area and log_write never panics, whatever    *)
(* the interleaving of its unlocked test.                                  *)
THEOREM LogNeverOverflows ==
  ASSUME OPBLOCKS < MAXOPBLOCKS
  PROVE  Spec => [](LogFits /\ NoPanic)
<1>1. IInv => LogFits /\ NoPanic
  BY DEF IInv, TypeOK, SpaceInv, LhInv, LogFits, NoPanic
<1>. QED
  BY Invariance, <1>1, PTL

(* bget never recycles the only copy of an update.                         *)
THEOREM UpdatesArePinned == Spec => []PinnedUntilInstalled
<1>1. IInv => PinnedUntilInstalled
  BY DEF IInv, CacheInv, HeadInv, CleanInv, DirtyInv, CopiedInv, InstalledInv, Recovering, PinnedUntilInstalled
<1>. QED
  BY Invariance, <1>1, PTL

(* Updates of system calls that have ended and committed survive a crash.  *)
THEOREM CommittedIsDurable == Spec => []DurableWhenIdle
<1>1. IInv => DurableWhenIdle
  <2>. SUFFICES ASSUME IInv, mode = "up", outstanding = 0, ~committing
                PROVE  Recovered = View
    BY DEF DurableWhenIdle
  <2>1. lh = <<>> /\ LhBlocks = {}
    BY DEF IInv, LhInv, LhBlocks
  <2>2. \A b \in Block : owner[b] = NoProc
    BY OpHasTicket DEF IInv, OwnerInv, TypeOK
  <2>3. head = <<>>
    BY SMTT(30) DEF IInv, CommitInv, CacheInv, HeadInv, CleanInv, DirtyInv, CopiedInv, InstalledInv, Recovering, TypeOK
  <2>4. \A b \in Block : Bread(b) = home[b]
    BY <2>1, <2>2 DEF IInv, CacheInv, HeadInv, CleanInv, DirtyInv, CopiedInv, InstalledInv, Recovering
  <2>5. Recovered = [b \in Block |-> home[b]]
    BY <2>3 DEF Recovered
  <2>6. View = [b \in Block |-> Bread(b)]
    BY DEF View
  <2>. QED
    BY <2>4, <2>5, <2>6
<1>. QED
  BY Invariance, <1>1, PTL
=============================================================================
