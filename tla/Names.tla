------------------------------- MODULE Names --------------------------------
(***************************************************************************)
(* The name space: path lookup and the inode life cycle of fs.c, and the   *)
(* system calls of sysfile.c that add, remove and follow names, by several *)
(* processes at once.                                                      *)
(*                                                                         *)
(* A step ends where a process may wait for an inode's lock, or lets go of *)
(* one.  iput is a sub-program: the inodes a call still has to put are in  *)
(* its list `puts`, and it goes on when that is empty.  Directory entries  *)
(* are a function; file contents and the log are in other modules.         *)
(***************************************************************************)
EXTENDS Integers, Sequences, FiniteSets
LOCAL INSTANCE FiniteSetsExt

CONSTANTS
  User, NoUser,   \* processes; "the inode is not locked"
  NI,             \* number of inodes; the first is the root directory
  Name,           \* names other than "." and ".."
  Path,           \* paths: sequences of names, "." and ".."
  MAXCALL         \* bound: calls made

Ino == 1 .. NI
ROOTINO == 1

VARIABLES
  ino,        \* each inode: type, nlink, entries and "..", ref, valid, lock
  th,         \* each process: where it is in its call, and its variables
  ncwd, nfile,\* its current directory; the inode of its open file, or 0
  nspanic,    \* a panic has been called
  stray,      \* history: an entry was put in a removed directory
  calls       \* calls made so far
nsVars == <<ino, th, ncwd, nfile, nspanic, stray, calls>>

NoEnts == [n \in Name |-> 0]
IdleTh == [pc |-> "idle", op |-> "none", rest |-> <<>>, new |-> <<>>, ip |-> 0, dp |-> 0,
           old |-> 0, puts |-> <<>>, put |-> "lock"]

\* mkfs makes the root; every process starts there.
NamesInit ==
  /\ ino = [i \in Ino |-> [type |-> IF i = ROOTINO THEN "dir" ELSE "free", ents |-> NoEnts, up |-> 1,
                           nlink |-> IF i = ROOTINO THEN 1 ELSE 0, valid |-> FALSE, lock |-> NoUser,
                           ref |-> IF i = ROOTINO THEN Cardinality(User) ELSE 0]]
  /\ th = [p \in User |-> IdleTh]
  /\ ncwd = [p \in User |-> ROOTINO] /\ nfile = [p \in User |-> 0]
  /\ nspanic = FALSE /\ stray = FALSE /\ calls = 0

\* The call of p goes on with record r; it is at pc, with nothing to put.
Goes(p, r) == th' = [th EXCEPT ![p] = r]
Ends(p, is) == Goes(p, [IdleTh EXCEPT !.puts = is])
At(p, at) == th[p].pc = at /\ th[p].puts = <<>>
Unlocked(i) == ino[i].lock = NoUser

\* ilock reads an inode that is not valid, and panics if it is free.
Lockable(i) == Unlocked(i) /\ nspanic' = (nspanic \/ (~ino[i].valid /\ ino[i].type = "free"))

dirlookup(i, n) == CASE n = "." -> i [] n = ".." -> ino[i].up [] OTHER -> ino[i].ents[n]
-----------------------------------------------------------------------------
\* Calls that look for the parent of their last name.
nameiparent(op) == op \in {"file", "dir", "dev", "unlink", "link2"}

\* A call begins: namex starts at the root or at the current directory.
syscall(p, op, path, new) ==
  /\ At(p, "idle") /\ calls < MAXCALL /\ calls' = calls + 1
  /\ \E i \in {ROOTINO, ncwd[p]} :
       /\ ino' = [ino EXCEPT ![i].ref = @ + 1]
       /\ Goes(p, [IdleTh EXCEPT !.pc = "walk", !.op = op, !.rest = path, !.new = new, !.ip = i])
  /\ UNCHANGED <<ncwd, nfile, nspanic, stray>>

\* Where a call goes when its path leads nowhere.
Fails(r, is) == IF r.op = "link2" THEN [r EXCEPT !.pc = "undo", !.ip = 0, !.puts = is]
                                  ELSE [IdleTh EXCEPT !.puts = is]

\* One turn of namex: lock the inode, look the name up, unlock and put it.
namex(p) ==
  LET r == th[p]
      i == r.ip
      next == dirlookup(i, Head(r.rest))
  IN  /\ At(p, "walk") /\ r.rest # <<>>
      /\ Lockable(i)
      /\ IF ino[i].type # "dir" THEN Goes(p, Fails(r, <<i>>)) /\ ino' = [ino EXCEPT ![i].valid = TRUE]
         ELSE IF nameiparent(r.op) /\ Len(r.rest) = 1
         THEN Goes(p, [r EXCEPT !.pc = r.op]) /\ ino' = [ino EXCEPT ![i].valid = TRUE]
         ELSE IF next = 0 THEN Goes(p, Fails(r, <<i>>)) /\ ino' = [ino EXCEPT ![i].valid = TRUE]
         ELSE /\ Goes(p, [r EXCEPT !.rest = Tail(@), !.ip = next, !.puts = <<i>>])
              /\ ino' = [ino EXCEPT ![i].valid = TRUE, ![next].ref = @ + 1]
      /\ UNCHANGED <<ncwd, nfile, stray, calls>>

\* namex has used up the path.
namex_end(p) ==
  /\ At(p, "walk") /\ th[p].rest = <<>>
  /\ Goes(p, IF nameiparent(th[p].op) THEN Fails(th[p], <<th[p].ip>>)
             ELSE [th[p] EXCEPT !.pc = th[p].op])
  /\ UNCHANGED <<ino, ncwd, nfile, nspanic, stray, calls>>
-----------------------------------------------------------------------------

\* Mutant: the references are not counted.
unused_referenced(i) == ino[i].valid /\ ino[i].nlink = 0

\* iput frees an inode that has neither links nor other references.
unused(i) == ino[i].valid /\ ino[i].nlink = 0 /\ ino[i].ref = 1

\* iput: take the lock, and look whether the inode goes.
iput_lock(p) ==
  LET i == Head(th[p].puts) IN
  /\ th[p].puts # <<>> /\ th[p].put = "lock" /\ Unlocked(i)
  /\ Goes(p, [th[p] EXCEPT !.put = IF unused(i) THEN "free" ELSE "deref"])
  /\ ino' = IF unused(i) THEN [ino EXCEPT ![i].lock = p] ELSE ino
  /\ UNCHANGED <<ncwd, nfile, nspanic, stray, calls>>

\* itrunc, type 0, and unlock.
iput_free(p) ==
  /\ th[p].puts # <<>> /\ th[p].put = "free"
  /\ ino' = [ino EXCEPT ![Head(th[p].puts)] = [@ EXCEPT !.type = "free", !.ents = NoEnts, !.up = 1,
                                                        !.valid = FALSE, !.lock = NoUser]]
  /\ Goes(p, [th[p] EXCEPT !.put = "deref"])
  /\ UNCHANGED <<ncwd, nfile, nspanic, stray, calls>>

\* ref--; a slot of the cache without references forgets what it held.
iput_deref(p) ==
  /\ th[p].puts # <<>> /\ th[p].put = "deref"
  /\ ino' = [ino EXCEPT ![Head(th[p].puts)] = [@ EXCEPT !.ref = @ - 1, !.valid = @ /\ ino[Head(th[p].puts)].ref > 1]]
  /\ Goes(p, [th[p] EXCEPT !.puts = Tail(@), !.put = "lock"])
  /\ UNCHANGED <<ncwd, nfile, nspanic, stray, calls>>
-----------------------------------------------------------------------------
\* The end of sys_open: the file gets the inode, unless filealloc or fdalloc
\* fails, or a directory is opened for writing.
open_ip(p, i) ==
  \/ nfile[p] = 0 /\ nfile' = [nfile EXCEPT ![p] = i] /\ Ends(p, <<>>)
  \/ (nfile[p] # 0 \/ ino[i].type = "dir") /\ nfile' = nfile /\ Ends(p, <<i>>)

sys_open(p) ==
  LET i == th[p].ip IN
  /\ At(p, "open") /\ Lockable(i) /\ open_ip(p, i)
  /\ ino' = [ino EXCEPT ![i].valid = TRUE]
  /\ UNCHANGED <<ncwd, stray, calls>>

sys_close(p) ==
  /\ At(p, "idle") /\ nfile[p] # 0
  /\ Ends(p, <<nfile[p]>>) /\ nfile' = [nfile EXCEPT ![p] = 0]
  /\ UNCHANGED <<ino, ncwd, nspanic, stray, calls>>

sys_chdir(p) ==
  LET i == th[p].ip IN
  /\ At(p, "chdir") /\ Lockable(i)
  /\ ino' = [ino EXCEPT ![i].valid = TRUE]
  /\ IF ino[i].type = "dir" THEN Ends(p, <<ncwd[p]>>) /\ ncwd' = [ncwd EXCEPT ![p] = i]
                            ELSE Ends(p, <<i>>) /\ ncwd' = ncwd
  /\ UNCHANGED <<nfile, stray, calls>>

\* create, when the name is there: take it, let go of the directory.
create_found(p) ==
  LET r == th[p]
      e == dirlookup(r.ip, r.rest[1])
  IN  /\ r.pc \in {"file", "dir", "dev"} /\ r.puts = <<>> /\ Lockable(r.ip) /\ e # 0
      /\ ino' = [ino EXCEPT ![r.ip].valid = TRUE, ![e].ref = @ + 1]
      /\ Goes(p, [r EXCEPT !.pc = "exists", !.ip = e, !.puts = <<r.ip>>])
      /\ UNCHANGED <<ncwd, nfile, stray, calls>>

\* Only a file may be there already, and only for open.
create_exists(p) ==
  LET i == th[p].ip IN
  /\ At(p, "exists") /\ Lockable(i)
  /\ ino' = [ino EXCEPT ![i].valid = TRUE]
  /\ IF th[p].op = "file" /\ ino[i].type = "file" THEN open_ip(p, i)
     ELSE Ends(p, <<i>>) /\ nfile' = nfile
  /\ UNCHANGED <<ncwd, stray, calls>>

\* ialloc takes the first free inode; running out of them is a bound.
ialloc == {i \in Ino : ino[i].type = "free" /\ \A j \in 1 .. i - 1 : ino[j].type # "free"}

\* create, when it is not: a new inode, locked, then its entry; the directory is
\* unlocked and put while the new inode stays locked.
create_new(p) ==
  LET r == th[p]
      d == r.ip
  IN  /\ r.pc \in {"file", "dir", "dev"} /\ r.puts = <<>> /\ Lockable(d)
      /\ dirlookup(d, r.rest[1]) = 0
      /\ \E i \in ialloc :
           /\ ino' = [ino EXCEPT
                ![i] = [@ EXCEPT !.type = r.pc, !.nlink = 1, !.up = IF r.pc = "dir" THEN d ELSE 1,
                                 !.ref = @ + 1, !.valid = TRUE, !.lock = p],
                ![d] = [@ EXCEPT !.valid = TRUE, !.ents[r.rest[1]] = i,
                                 !.nlink = IF r.pc = "dir" THEN @ + 1 ELSE @]]
           /\ Goes(p, [r EXCEPT !.pc = "made", !.ip = i, !.puts = <<d>>])
      /\ stray' = (stray \/ ino[d].nlink = 0)
      /\ UNCHANGED <<ncwd, nfile, calls>>

\* The caller of create unlocks the new inode, and keeps it open or puts it.
create_made(p) ==
  LET i == th[p].ip IN
  /\ At(p, "made")
  /\ ino' = [ino EXCEPT ![i].lock = NoUser]
  /\ IF th[p].op = "file" THEN open_ip(p, i) ELSE Ends(p, <<i>>) /\ nfile' = nfile
  /\ UNCHANGED <<ncwd, nspanic, stray, calls>>
-----------------------------------------------------------------------------
\* sys_link counts the new link first ...
sys_link(p) ==
  LET r == th[p]
      i == r.ip
  IN  /\ At(p, "link") /\ Lockable(i)
      /\ IF ino[i].type = "dir" THEN Ends(p, <<i>>) /\ ino' = [ino EXCEPT ![i].valid = TRUE]
         ELSE \E d \in {ROOTINO, ncwd[p]} :
                /\ ino' = [[ino EXCEPT ![i] = [@ EXCEPT !.valid = TRUE, !.nlink = @ + 1]] EXCEPT ![d].ref = @ + 1]
                /\ Goes(p, [r EXCEPT !.pc = "walk", !.op = "link2", !.rest = r.new, !.new = <<>>,
                                     !.old = i, !.ip = d])
      /\ UNCHANGED <<ncwd, nfile, stray, calls>>

\* ... then adds the entry, unless the name is taken: dirlink puts what it
\* found while the directory is locked.
link_dirlink(p) ==
  LET r == th[p]
      d == r.ip
      e == dirlookup(d, r.rest[1])
  IN  /\ At(p, "link2") /\ Lockable(d)
      /\ IF e = 0
         THEN /\ ino' = [ino EXCEPT ![d] = [@ EXCEPT !.valid = TRUE, !.ents[r.rest[1]] = r.old]]
              /\ Ends(p, <<d, r.old>>) /\ stray' = (stray \/ ino[d].nlink = 0)
         ELSE /\ ino' = [[ino EXCEPT ![d] = [@ EXCEPT !.valid = TRUE, !.lock = p]] EXCEPT ![e].ref = @ + 1]
              /\ Goes(p, [r EXCEPT !.pc = "link_bad", !.ip = 0, !.dp = d, !.puts = <<e>>]) /\ stray' = stray
      /\ UNCHANGED <<ncwd, nfile, calls>>

link_bad(p) ==
  /\ At(p, "link_bad")
  /\ ino' = [ino EXCEPT ![th[p].dp].lock = NoUser]
  /\ Goes(p, Fails([th[p] EXCEPT !.dp = 0], <<th[p].dp>>))
  /\ UNCHANGED <<ncwd, nfile, nspanic, stray, calls>>

\* Mutant: the link stays counted.
link_undo_none(p) ==
  /\ At(p, "undo") /\ Lockable(th[p].old)
  /\ Ends(p, <<th[p].old>>)
  /\ UNCHANGED <<ino, ncwd, nfile, stray, calls>>

\* ... and takes the count back if that fails.
link_undo(p) ==
  /\ At(p, "undo") /\ Lockable(th[p].old)
  /\ ino' = [ino EXCEPT ![th[p].old].nlink = @ - 1]
  /\ Ends(p, <<th[p].old>>)
  /\ UNCHANGED <<ncwd, nfile, stray, calls>>

\* sys_unlink locks the directory, and finds the inode.
sys_unlink(p) ==
  LET r == th[p]
      d == r.ip
      e == IF r.rest[1] \in {".", ".."} THEN 0 ELSE dirlookup(d, r.rest[1])
  IN  /\ At(p, "unlink") /\ Lockable(d)
      /\ IF e = 0 THEN Ends(p, <<d>>) /\ ino' = [ino EXCEPT ![d].valid = TRUE]
         ELSE /\ ino' = [ino EXCEPT ![d] = [@ EXCEPT !.valid = TRUE, !.lock = p], ![e].ref = @ + 1]
              /\ Goes(p, [r EXCEPT !.pc = "unlink_ip", !.dp = d, !.ip = e])
      /\ UNCHANGED <<ncwd, nfile, stray, calls>>

isdirempty(i) == ino[i].ents = NoEnts

removable(i) == ino[i].type = "dir" => isdirempty(i)

\* With both locked: the entry goes and the directory is unlocked and put while
\* the inode stays locked; or the inode is put while the directory is locked.
unlink_ip(p) ==
  LET r == th[p]
      i == r.ip
      d == r.dp
      isdir == ino[i].type = "dir"
  IN  /\ At(p, "unlink_ip") /\ Unlocked(i)
      /\ nspanic' = (nspanic \/ (~ino[i].valid /\ ino[i].type = "free") \/ ino[i].nlink < 1)
      /\ IF removable(i)
         THEN /\ ino' = [ino EXCEPT ![i] = [@ EXCEPT !.valid = TRUE, !.lock = p],
                                    ![d] = [@ EXCEPT !.ents[r.rest[1]] = 0, !.lock = NoUser,
                                                     !.nlink = IF isdir THEN @ - 1 ELSE @]]
              /\ Goes(p, [r EXCEPT !.pc = "unlinked", !.dp = 0, !.puts = <<d>>])
         ELSE /\ ino' = [ino EXCEPT ![i].valid = TRUE]
              /\ Goes(p, [r EXCEPT !.pc = "unlink_bad", !.ip = 0, !.puts = <<i>>])
      /\ UNCHANGED <<ncwd, nfile, stray, calls>>

unlink_bad(p) ==
  /\ At(p, "unlink_bad")
  /\ ino' = [ino EXCEPT ![th[p].dp].lock = NoUser] /\ Ends(p, <<th[p].dp>>)
  /\ UNCHANGED <<ncwd, nfile, nspanic, stray, calls>>

\* Last, the link is uncounted.
unlinked(p) ==
  LET i == th[p].ip IN
  /\ At(p, "unlinked")
  /\ ino' = [ino EXCEPT ![i] = [@ EXCEPT !.nlink = @ - 1, !.lock = NoUser]] /\ Ends(p, <<i>>)
  /\ UNCHANGED <<ncwd, nfile, nspanic, stray, calls>>

NamesStep(p) ==
  \/ \E op \in {"open", "chdir", "file", "dir", "dev", "unlink"}, path \in Path : syscall(p, op, path, <<>>)
  \/ \E path, new \in Path : syscall(p, "link", path, new)
  \/ namex(p) \/ namex_end(p) \/ iput_lock(p) \/ iput_free(p) \/ iput_deref(p)
  \/ sys_open(p) \/ sys_close(p) \/ sys_chdir(p)
  \/ create_found(p) \/ create_exists(p) \/ create_new(p) \/ create_made(p)
  \/ sys_link(p) \/ link_dirlink(p) \/ link_bad(p) \/ link_undo(p)
  \/ sys_unlink(p) \/ unlink_ip(p) \/ unlink_bad(p) \/ unlinked(p)

NamesNext == ~nspanic /\ \E p \in User : NamesStep(p)

NamesSpec == NamesInit /\ [][NamesNext]_nsVars
-----------------------------------------------------------------------------
\* The entries that name i, the directories in i, the holders of references.
Entries(i) == {e \in Ino \X Name : ino[e[1]].type = "dir" /\ ino[e[1]].ents[e[2]] = i}
Subdirs(i) == {n \in Name : ino[i].ents[n] # 0 /\ ino[ino[i].ents[n]].type = "dir"}
Quiet == \A p \in User : At(p, "idle")
Count(S, P(_)) == Cardinality({s \in S : P(s)})
Holds(p, i) ==
  Count({"ip", "dp", "old"}, LAMBDA f : th[p][f] = i) + Count(DOMAIN th[p].puts, LAMBDA k : th[p].puts[k] = i)
    + (IF ncwd[p] = i THEN 1 ELSE 0) + (IF nfile[p] = i THEN 1 ELSE 0)

(* No entry dangles: an inode has at least as many links counted as there  *)
(* are names for it, at every step of every call, so it is not freed while *)
(* it can be found.                                                        *)
NoDanglingEntry ==
  \A i \in Ino : Entries(i) # {} => ino[i].type # "free" /\ Cardinality(Entries(i)) <= ino[i].nlink

(* Between calls the count is exact, as fs.h says of nlink ("Number of     *)
(* links to inode in file system"; a directory counts the ".." of its      *)
(* directories) -- unless something was put in a removed directory.        *)
LinksExact ==
  Quiet /\ ~stray => \A i \in Ino : ino[i].type # "free" =>
    ino[i].nlink = Cardinality(Entries(i)) + Cardinality(Subdirs(i)) + (IF i = ROOTINO THEN 1 ELSE 0)

(* "If that was the last reference and the inode has no links to it, free  *)
(* the inode (and its content) on disk", says iput: between calls, an      *)
(* inode without links that nobody uses is free.                           *)
UnlinkedIsFreed ==
  Quiet /\ ~stray => \A i \in Ino : ino[i].ref = 0 /\ ino[i].nlink = 0 => ino[i].type = "free"

(* An inode that iput is about to free belongs to that process alone, and  *)
(* no process has a free inode open or as its directory, although iput     *)
(* looks at ref, lets go of icache.lock and only then frees.               *)
FreedIsUnreachable ==
  /\ \A p \in User : th[p].puts # <<>> /\ th[p].put = "free" => ino[Head(th[p].puts)].ref = 1
  /\ \A i \in Ino : ino[i].type = "free" => \A p \in User : i \notin {ncwd[p], nfile[p]}

(* "ip->ref tracks the number of in-memory pointers to the entry": no call *)
(* loses or leaks a reference, whichever way it fails.                     *)
RefsExact == \A i \in Ino : ino[i].ref = FoldSet(LAMBDA p, n : n + Holds(p, i), 0, User)

(* "ilock: no type" and "unlink: nlink < 1" are never reached by paths     *)
(* without "..".                                                           *)
NamesNoPanic == ~nspanic

\* The inode whose lock p is about to take, and the waits between processes.
Wants(p) ==
  LET r == th[p] IN
  CASE r.puts # <<>> -> IF r.put = "lock" THEN {Head(r.puts)} ELSE {}
    [] r.pc \in {"idle", "made", "unlinked", "unlink_bad", "link_bad"} -> {}
    [] r.pc = "undo" -> {r.old}
    [] OTHER -> {r.ip}
Awaits(p, q) == \E i \in Wants(p) : ino[i].lock = q

(* usertests.c has a "concurrent link/unlink/create test, to look for      *)
(* deadlocks": no process waits for a lock of its own, and no two wait for *)
(* each other's.                                                           *)
NoLockCycle == ~ \E p, q \in User : Awaits(p, q) /\ Awaits(q, p)

(* The link counts protect the names: never below the number of entries,   *)
(* and exact between calls, whichever calls ran side by side or failed.    *)
LinksCount == NoDanglingEntry /\ LinksExact

(* The references protect the inodes in memory: each pointer counts once,  *)
(* nobody reaches an inode that iput frees, and no call panics.            *)
RefsProtect == RefsExact /\ FreedIsUnreachable /\ NamesNoPanic
=============================================================================
