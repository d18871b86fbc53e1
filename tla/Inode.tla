------------------------------- MODULE Inode --------------------------------
(***************************************************************************)
(* The contents of files: the image mkfs builds, and how fs.c and file.c   *)
(* read and write it afterwards -- the bit map, the direct and indirect    *)
(* block numbers of an inode, its copies in memory and on disk, and what   *)
(* each transaction puts in the log.  Calls on one inode are serialised by *)
(* its lock; a long write is several transactions and lets others in       *)
(* between.  Blocks have BSIZE cells; a cell holds a byte, a block number  *)
(* or a directory entry.                                                   *)
(***************************************************************************)
EXTENDS Integers, Sequences, FiniteSets
LOCAL INSTANCE FiniteSetsExt

CONSTANTS
  BSIZE, NDIRECT,    \* cells of a block; direct block numbers of an inode
  NINODES, IPB,      \* inodes, and inodes in a block
  FSSIZE, BPB, LOGSIZE, MAXOPBLOCKS,
  Fd,                \* open files
  Listing,           \* arguments of mkfs: the lengths of the files
  Amount, Val,       \* how much, and what, the calls write
  MAXOPS             \* bound: system calls

ASSUME InodeAssumption ==
  /\ {BSIZE, NDIRECT, IPB, BPB, FSSIZE, NINODES, LOGSIZE, MAXOPBLOCKS} \subseteq Nat \ {0}
  /\ MAXOPBLOCKS > 5

NINDIRECT == BSIZE
MAXFILE == NDIRECT + NINDIRECT

\* mkfs: boot block, super block, log, inodes, bit map, then data.
ninodeblocks == NINODES \div IPB + 1
nbitmap == FSSIZE \div BPB + 1
nmeta == 2 + LOGSIZE + ninodeblocks + nbitmap
IBLOCK(i) == i \div IPB + 2 + LOGSIZE
BBLOCK(b) == b \div BPB + 2 + LOGSIZE + ninodeblocks

VARIABLES
  fs,     \* bit map, blocks, inodes on disk and in memory, blocks in this transaction
  live,   \* inodes whose type is not 0
  opened, \* each open file: its inode (0: closed), offset, what is left to write
  text,   \* history: what each file should hold
  fsops   \* system calls so far
fsVars == <<fs, live, opened, text, fsops>>

IsInode == 1 .. NINODES
Zeroes == [k \in 1 .. BSIZE |-> 0]
NewInode == [size |-> 0, addrs |-> [k \in 0 .. NDIRECT |-> 0]]
NoFile == [ip |-> 0, off |-> 0, left |-> 0, val |-> 0]
Lower(a, b) == IF a < b THEN a ELSE b
Rep(n, v) == [k \in 1 .. n |-> v]

InodeInit ==
  /\ fs = [made |-> FALSE, used |-> {}, freeblock |-> nmeta, logged |-> {}, panic |-> FALSE,
           blk |-> [b \in nmeta .. FSSIZE - 1 |-> Zeroes],
           mem |-> [i \in IsInode |-> NewInode], dino |-> [i \in IsInode |-> NewInode]]
  /\ live = {} /\ fsops = 0
  /\ opened = [f \in Fd |-> NoFile] /\ text = [i \in IsInode |-> <<>>]

log_write(s, b) == [s EXCEPT !.logged = @ \cup {b}]
Panics(s) == [s EXCEPT !.panic = TRUE]


iupdate(s, i) == log_write([s EXCEPT !.dino[i] = s.mem[i]], IBLOCK(i))
-----------------------------------------------------------------------------
\* The first free block, marked in the bit map and zeroed.
balloc(s) ==
  LET free == (0 .. FSSIZE - 1) \ s.used
      b == Min(free)
  IN  IF free = {} THEN <<Panics(s), nmeta>>
      ELSE <<log_write(log_write([s EXCEPT !.used = @ \cup {b}, !.blk[b] = Zeroes], BBLOCK(b)), b), b>>

bfree(s, b) ==
  IF b \notin s.used THEN Panics(s) ELSE log_write([s EXCEPT !.used = @ \ {b}], BBLOCK(b))

\* mkfs takes its blocks in order, and writes the bit map when it is done.
next_block(s) == <<[s EXCEPT !.freeblock = @ + 1], s.freeblock>>

InFile(bn) == bn - NDIRECT < NINDIRECT

\* The block allocator of the one who writes: the kernel, or mkfs.
alloc(who, s) == IF who = "mkfs" THEN next_block(s) ELSE balloc(s)

\* The k-th block number of the inode, with a block allocated if there is none.
SetAddr(r, i, k) == <<[r[1] EXCEPT !.mem[i].addrs[k] = r[2]], r[2]>>
AddrOf(who, s, i, k) ==
  IF s.mem[i].addrs[k] # 0 THEN <<s, s.mem[i].addrs[k]>> ELSE SetAddr(alloc(who, s), i, k)

\* The k-th number in the indirect block r[2].
SetIndirect(r, a, k) == <<log_write([r[1] EXCEPT !.blk[a][k] = r[2]], a), r[2]>>
Indirect(who, r, k) ==
  IF r[1].blk[r[2]][k] # 0 THEN <<r[1], r[1].blk[r[2]][k]>> ELSE SetIndirect(alloc(who, r[1]), r[2], k)

\* bmap, and the same look-up in mkfs's iappend: the block with the bn-th
\* piece of the file.
bmap(who, s, i, bn) ==
  IF bn < NDIRECT THEN AddrOf(who, s, i, bn)
  ELSE IF ~InFile(bn) THEN <<Panics(s), nmeta>>
  ELSE Indirect(who, AddrOf(who, s, i, NDIRECT), bn - NDIRECT + 1)

\* The part of a block from off on, or n if that is less.
Piece(off, n) == Lower(n, BSIZE - (off % BSIZE))

\* The cells c are copied into the file from off on, block by block.
RECURSIVE Copy(_, _, _, _, _)
CopyBlock(who, r, i, off, c, m) ==
  LET at == off % BSIZE
      new == [k \in 1 .. BSIZE |-> IF k \in at + 1 .. at + m THEN c[k - at] ELSE r[1].blk[r[2]][k]]
  IN  Copy(who, log_write([r[1] EXCEPT !.blk[r[2]] = new], r[2]), i, off + m, SubSeq(c, m + 1, Len(c)))
Copy(who, s, i, off, c) ==
  IF c = <<>> \/ s.panic THEN s
  ELSE CopyBlock(who, bmap(who, s, i, off \div BSIZE), i, off, c, Piece(off, Len(c)))

Grown(s, i, off) == IF off > s.mem[i].size THEN iupdate([s EXCEPT !.mem[i].size = off], i) ELSE s

Refused(s, i, off, n) == off > s.mem[i].size \/ off + n > MAXFILE * BSIZE

\* writei: the new state, and what it returns.
writei(s, i, off, c) ==
  IF Refused(s, i, off, Len(c)) THEN <<s, -1>>
  ELSE <<IF c = <<>> THEN s ELSE Grown(Copy("kernel", s, i, off, c), i, off + Len(c)), Len(c)>>

\* readi calls bmap too, which would allocate a block that is not there.
RECURSIVE ReadCells(_, _, _, _)
Prefixed(c, t) == <<t[1], c \o t[2]>>
ReadBlock(r, i, off, n, m) ==
  Prefixed(SubSeq(r[1].blk[r[2]], (off % BSIZE) + 1, (off % BSIZE) + m), ReadCells(r[1], i, off + m, n - m))
ReadCells(s, i, off, n) ==
  IF n = 0 \/ s.panic THEN <<s, <<>>>>
  ELSE ReadBlock(bmap("kernel", s, i, off \div BSIZE), i, off, n, Piece(off, n))

readi(s, i, off, n) ==
  IF off > s.mem[i].size THEN <<s, <<>>>> ELSE ReadCells(s, i, off, Lower(n, s.mem[i].size - off))

\* itrunc: the direct blocks, those of the indirect block, and that block itself.
itrunc(s, i) ==
  LET direct == {s.mem[i].addrs[k] : k \in 0 .. NDIRECT - 1} \ {0}
      ind == s.mem[i].addrs[NDIRECT]
      inner == IF ind = 0 THEN {} ELSE {s.blk[ind][k] : k \in 1 .. NINDIRECT} \ {0}
      t == FoldSet(LAMBDA b, u : bfree(u, b), s, direct \cup inner \cup ({ind} \ {0}))
  IN  iupdate([t EXCEPT !.mem[i] = NewInode], i)
-----------------------------------------------------------------------------
Saved(s, i) == [s EXCEPT !.dino[i] = s.mem[i]]
iappend(s, i, c) == Saved([Copy("mkfs", s, i, s.mem[i].size, c) EXCEPT !.mem[i].size = @ + Len(c)], i)

\* mkfs's balloc.
Bitmap(used) == 0 .. used - 1

\* The root directory: "." and "..", then an entry for each file, written
\* before the file; its size is then rounded up to the next block.
RECURSIVE AddFiles(_, _, _)
AddFiles(s, lens, k) ==
  IF k > Len(lens) THEN s
  ELSE AddFiles(iappend(iappend(s, 1, <<k + 1>>), k + 1, Rep(lens[k], k)), lens, k + 1)

Rounded(off) == (off \div BSIZE + 1) * BSIZE

\* main of mkfs, for files that fit the disk; its balloc asserts that the bit
\* map is one block.  The kernel then boots.
Made(s, lens) ==
  LET size == Rounded(s.dino[1].size)
  IN  /\ s.freeblock <= FSSIZE /\ s.freeblock < BPB
      /\ fs' = [s EXCEPT !.made = TRUE, !.used = Bitmap(s.freeblock), !.logged = {},
                         !.dino[1].size = size, !.mem[1].size = size]
      /\ live' = 1 .. Len(lens) + 1
      /\ text' = [i \in IsInode |->
                    IF i = 1 THEN [k \in 1 .. size |-> IF k <= 2 THEN 1 ELSE IF k <= Len(lens) + 2 THEN k - 1 ELSE 0]
                    ELSE IF i <= Len(lens) + 1 THEN Rep(lens[i - 1], i - 1) ELSE <<>>]
mkfs(lens) ==
  /\ ~fs.made /\ Made(AddFiles(iappend(fs, 1, <<1, 1>>), lens, 1), lens)
  /\ UNCHANGED <<opened, fsops>>

\* A system call, in a transaction of its own.
Op == fs.made /\ ~fs.panic /\ fsops < MAXOPS /\ fsops' = fsops + 1
Begin(s) == [s EXCEPT !.logged = {}]

\* ilock reads an inode that is not in memory.
open(f, i) ==
  /\ Op /\ opened[f].ip = 0 /\ i \in live
  /\ opened' = [opened EXCEPT ![f] = [NoFile EXCEPT !.ip = i]]
  /\ fs' = Begin(IF \E g \in Fd : opened[g].ip = i THEN fs ELSE [fs EXCEPT !.mem[i] = fs.dino[i]])
  /\ UNCHANGED <<live, text>>

close(f) ==
  /\ fs.made /\ opened[f].ip # 0 /\ opened[f].left = 0
  /\ opened' = [opened EXCEPT ![f] = NoFile]
  /\ UNCHANGED <<fs, live, text, fsops>>

\* fileread: not in a transaction.
GotCells(f, r) == fs' = r[1] /\ opened' = [opened EXCEPT ![f].off = @ + Len(r[2])]
fileread(f, n) ==
  /\ Op /\ opened[f].ip # 0 /\ opened[f].left = 0
  /\ GotCells(f, readi(fs, opened[f].ip, opened[f].off, n))
  /\ UNCHANGED <<live, text>>

\* filewrite is called; a directory cannot be opened for writing.
filewrite(f, n, v) ==
  /\ Op /\ opened[f].ip > 1 /\ opened[f].left = 0
  /\ opened' = [opened EXCEPT ![f].left = n, ![f].val = v]
  /\ UNCHANGED <<fs, live, text>>


\* "write a few blocks at a time": the most one transaction writes.
Chunk(left) == Lower(left, ((MAXOPBLOCKS - 1 - 1 - 2) \div 2) * BSIZE)

\* One transaction of filewrite's loop; it ends if writei refuses.
Wrote(f, n1, r) ==
  LET o == opened[f]
      old == text[o.ip]
  IN  IF r[2] < 0 THEN opened' = [opened EXCEPT ![f].left = 0, ![f].val = 0] /\ fs' = Begin(fs) /\ text' = text
      ELSE /\ fs' = [r[1] EXCEPT !.panic = @ \/ r[2] # n1]
           /\ opened' = [opened EXCEPT ![f].left = o.left - n1, ![f].off = o.off + n1,
                                       ![f].val = IF o.left = n1 THEN 0 ELSE @]
           /\ text' = [text EXCEPT ![o.ip] =
                SubSeq(old, 1, o.off) \o Rep(n1, o.val) \o SubSeq(old, o.off + n1 + 1, Len(old))]
write_chunk(f) ==
  LET o == opened[f]
      n1 == Chunk(o.left)
  IN  /\ o.left > 0 /\ ~fs.panic
      /\ Wrote(f, n1, writei(Begin(fs), o.ip, o.off, Rep(n1, o.val)))
      /\ UNCHANGED <<live, fsops>>

\* iput frees an inode that is not open (its links are in Names).
remove(i) ==
  /\ Op /\ i \in live \ {1} /\ \A f \in Fd : opened[f].ip # i
  /\ fs' = itrunc(Begin([fs EXCEPT !.mem[i] = fs.dino[i]]), i)
  /\ live' = live \ {i} /\ text' = [text EXCEPT ![i] = <<>>]
  /\ UNCHANGED opened

\* ialloc: the first free inode, cleared.
create ==
  LET i == Min(IsInode \ live) IN
  /\ Op /\ live # IsInode
  /\ fs' = log_write(Begin([fs EXCEPT !.dino[i] = NewInode]), IBLOCK(i))
  /\ live' = live \cup {i}
  /\ UNCHANGED <<opened, text>>

InodeNext ==
  \/ \E lens \in Listing : mkfs(lens)
  \/ \E f \in Fd :
       \/ \E i \in IsInode : open(f, i)
       \/ close(f) \/ write_chunk(f)
       \/ \E n \in Amount : fileread(f, n) \/ (\E v \in Val : filewrite(f, n, v))
  \/ \E i \in IsInode : remove(i)
  \/ create

InodeSpec == InodeInit /\ [][InodeNext]_fsVars
-----------------------------------------------------------------------------
\* The blocks of inode i on disk, as pairs of a place and a block.
Held(i) ==
  LET a == fs.dino[i].addrs
      ind == a[NDIRECT]
  IN  {<<i, k, a[k]>> : k \in {j \in 0 .. NDIRECT : a[j] # 0}} \cup
      (IF ind = 0 THEN {}
       ELSE {<<i, NDIRECT + k, fs.blk[ind][k]>> : k \in {j \in 1 .. NINDIRECT : fs.blk[ind][j] # 0}})
Placed == UNION {Held(i) : i \in live}
InMemory(i) == IF \E f \in Fd : opened[f].ip = i THEN fs ELSE [fs EXCEPT !.mem[i] = fs.dino[i]]

(* The bit map on disk has exactly the blocks that are in use, and no      *)
(* block is in two places: what balloc, bfree, itrunc and mkfs's freeblock *)
(* and balloc leave between transactions.                                  *)
BitmapExact ==
  fs.made => /\ fs.used = (0 .. nmeta - 1) \cup {p[3] : p \in Placed}
             /\ \A p, q \in Placed : p[3] = q[3] => p = q

(* Reading a file gives what was written to it, through direct and         *)
(* indirect blocks, across block boundaries, by another open file, and     *)
(* after the inode was dropped from memory and read back.                  *)
ReadBack ==
  \A i \in live : \A off \in 0 .. Len(text[i]) : \A n \in Amount :
    readi(InMemory(i), i, off, n)[2] = SubSeq(text[i], off + 1, Lower(off + n, Len(text[i])))

(* readi never makes bmap allocate: fileread runs outside transactions,    *)
(* where log_write panics, and readi does not save the inode.  No file has *)
(* a hole, then, neither after writei nor after mkfs rounded the root's    *)
(* size up.                                                                *)
ReadsDontAllocate ==
  \A i \in live : LET s == InMemory(i) IN readi(s, i, 0, s.mem[i].size)[1] = s

(* A transaction of filewrite, create or iput fits in the log: "write a    *)
(* few blocks at a time to avoid exceeding the maximum log transaction     *)
(* size, including i-node, indirect block, allocation blocks, and 2 blocks *)
(* of slop for non-aligned writes".                                        *)
ChunkFits == Cardinality(fs.logged) <= MAXOPBLOCKS

(* "freeing free block", "bmap: out of range" and "short filewrite" are    *)
(* not reached, at the largest file size included.                         *)
InodeNoPanic == ~fs.panic


=============================================================================
