-------------------------------- MODULE Dirs --------------------------------
(***************************************************************************)
(* Names in paths and in directories: skipelem, namecmp, dirlookup and     *)
(* dirlink of fs.c, isdirempty and the removal of an entry of sysfile.c,   *)
(* and the functions of string.c they are made of.  A name of DIRSIZ or    *)
(* more characters is cut, and then has no nul at its end; the buffer a    *)
(* name is copied to still holds the names before it.                      *)
(***************************************************************************)
EXTENDS Integers, Sequences, FiniteSets
LOCAL INSTANCE SequencesExt

CONSTANTS
  Letter, DIRSIZ,
  MAXPATH,     \* bound: characters of a path
  MAXENT,      \* bound: entries of the directory
  Inum_        \* i-numbers of new entries

VARIABLES dir,   \* the entries: [inum, name]
          namebuf,  \* the caller's buffer
          dmap     \* history: what each name was linked to, 0 if nothing
dirVars == <<dir, namebuf, dmap>>

NUL == "0"
PathText == {p \o <<NUL>> : p \in SeqOf(Letter \cup {"/"}, MAXPATH)}
Cut(s) == SubSeq(s, 1, IF Len(s) < DIRSIZ THEN Len(s) ELSE DIRSIZ)
ElemName == SeqOf(Letter, DIRSIZ) \ {<<>>}
-----------------------------------------------------------------------------
\* memmove(d, s, n) to the start of d.
memmove(d, s, n) == [k \in DOMAIN d |-> IF k <= n THEN s[k] ELSE d[k]]

\* Zero unless the strings differ within n characters, nul included.
RECURSIVE strncmp_at(_, _, _, _)
strncmp_at(p, q, n, k) ==
  IF n > 0 /\ p[k] # NUL /\ p[k] = q[k] THEN strncmp_at(p, q, n - 1, k + 1)
  ELSE n # 0 /\ p[k] # q[k]

\* Mutant: the last character is not compared.
strncmp_short(p, q, n) == strncmp_at(p, q, n - 1, 1)

strncmp(p, q, n) == strncmp_at(p, q, n, 1)

\* Copy up to the nul, then fill with nuls; no nul if t is too long.
strncpy(t, n) ==
  LET end == {k \in 1 .. n : t[k] = NUL /\ \A j \in 1 .. k - 1 : t[j] # NUL} IN
  [k \in 1 .. n |-> IF \E e \in end : k >= e THEN NUL ELSE t[k]]

namecmp(s, t) == strncmp(s, t, DIRSIZ)

RECURSIVE skip(_, _)
skip(path, S) == IF path[1] \in S THEN skip(Tail(path), S) ELSE path

Fits(len) == len < DIRSIZ

\* The rest of the path and the name buffer, or <<>> if there is no name.
skipelem(path, name) ==
  LET s == skip(path, {"/"})
      e == skip(s, Letter)
      len == Len(s) - Len(e)
      cut == IF Fits(len) THEN [k \in DOMAIN name |-> IF k <= len THEN s[k] ELSE IF k = len + 1 THEN NUL ELSE name[k]]
             ELSE memmove(name, s, DIRSIZ)
  IN  IF s[1] = NUL THEN <<>> ELSE <<skip(e, {"/"}), cut>>

\* The successive contents of the buffer, as namex calls skipelem.
RECURSIVE elems(_, _)
elems(path, name) ==
  LET r == skipelem(path, name) IN IF r = <<>> THEN <<>> ELSE <<r[2]>> \o elems(r[1], r[2])

Matches(d, k, name) == d[k].inum # 0 /\ ~namecmp(name, d[k].name)

\* The first entry with this name, or 0.
dirlookup(d, name) ==
  LET found == {k \in DOMAIN d : Matches(d, k, name)} IN
  IF found = {} THEN 0 ELSE CHOOSE k \in found : \A j \in found : k <= j

absent(d, name) == dirlookup(d, name) = 0

\* dirlink: in the first free entry, or after the last.
dirlink(d, name, inum) ==
  LET empty == {k \in DOMAIN d : d[k].inum = 0}
      new == [inum |-> inum, name |-> strncpy(name, DIRSIZ)]
  IN  IF empty = {} THEN Append(d, new) ELSE [d EXCEPT ![CHOOSE k \in empty : \A j \in empty : k <= j] = new]

isdirempty(d) == \A k \in 3 .. Len(d) : d[k].inum = 0

DirsInit ==
  /\ dir = <<>> /\ namebuf = [k \in 1 .. DIRSIZ |-> "g"]
  /\ dmap = [n \in ElemName |-> 0]

\* create links "." and ".." in a new directory.
mkdir ==
  /\ dir = <<>>
  /\ dir' = dirlink(dirlink(dir, <<".", NUL>>, 1), <<".", ".", NUL>>, 1)
  /\ dmap' = [n \in ElemName |-> IF n \in {<<".">>, <<".", ".">>} THEN 1 ELSE 0]
  /\ UNCHANGED namebuf

\* The element that nameiparent leaves in the buffer, as the user wrote it.
Split(path) ==
  LET starts == {k \in 1 .. Len(path) - 1 : path[k] # "/" /\ (k > 1 => path[k - 1] = "/")}
      len(k) == Cardinality({j \in k .. Len(path) - 1 : \A i \in k .. j : path[i] # "/"})
  IN  [n \in 1 .. Cardinality(starts) |->
         LET k == CHOOSE s \in starts : Cardinality({t \in starts : t <= s}) = n IN SubSeq(path, k, k + len(k) - 1)]

link(path, inum) ==
  LET es == elems(path, namebuf) IN
  /\ dir # <<>> /\ es # <<>> /\ namebuf' = Last(es)
  /\ absent(dir, Last(es)) /\ Len(dir) < MAXENT
  /\ dir' = dirlink(dir, Last(es), inum)
  /\ dmap' = [dmap EXCEPT ![Cut(Last(Split(path)))] = inum]

\* sys_unlink: neither "." nor ".."; the entry is zeroed.
unlink(path) ==
  LET es == elems(path, namebuf)
      k == dirlookup(dir, Last(es))
  IN  /\ dir # <<>> /\ es # <<>> /\ namebuf' = Last(es)
      /\ namecmp(Last(es), <<".", NUL>>) /\ namecmp(Last(es), <<".", ".", NUL>>)
      /\ k # 0
      /\ dir' = [dir EXCEPT ![k] = [inum |-> 0, name |-> [j \in 1 .. DIRSIZ |-> NUL]]]
      /\ dmap' = [dmap EXCEPT ![Cut(Last(Split(path)))] = 0]

DirsNext ==
  mkdir \/ \E path \in PathText : (\E inum \in Inum_ : link(path, inum)) \/ unlink(path)

DirsSpec == DirsInit /\ [][DirsNext]_dirVars
-----------------------------------------------------------------------------
\* The string in a field that has a nul only if there is room.
Str(f) == SubSeq(f, 1, SelectInSeq(f \o <<NUL>>, LAMBDA c : c = NUL) - 1)

(* skipelem takes a path apart at its slashes, however many there are, and *)
(* leaves each element in the buffer, cut to DIRSIZ and with its nul if    *)
(* there is room, whatever longer name the buffer held before.             *)
PathsAreSplit ==
  dir # <<>> => \A path \in PathText :
    LET es == elems(path, namebuf) IN
    [k \in DOMAIN es |-> Str(es[k])] = [k \in DOMAIN Split(path) |-> Cut(Split(path)[k])]

(* A directory is a map from names, cut to DIRSIZ, to inodes: a look-up    *)
(* finds what was linked last under a name with the same first DIRSIZ      *)
(* characters and not unlinked, for names that are shorter than the field, *)
(* fill it or are cut, whatever the buffer held before.                    *)
DirIsMap ==
  dir # <<>> => \A path \in PathText :
    LET es == elems(path, namebuf)
        k == dirlookup(dir, Last(es))
    IN  es # <<>> => (IF k = 0 THEN 0 ELSE dir[k].inum) = dmap[Cut(Last(Split(path)))]

(* No two entries have the same name, so removing one removes the name;    *)
(* isdirempty sees just the directories with nothing but "." and "..".     *)
EntriesDiffer ==
  /\ \A j, k \in DOMAIN dir : dir[j].inum # 0 /\ dir[k].inum # 0 /\ dir[j].name = dir[k].name => j = k
  /\ isdirempty(dir) <=> \A n \in ElemName : dmap[n] # 0 => n \in {<<".">>, <<".", ".">>}

(* From the text of a path to the entry: namex takes it apart, dirlookup   *)
(* finds what dirlink stored, and a name has one entry.                    *)
LookupFindsEntry == PathsAreSplit /\ DirIsMap /\ EntriesDiffer
=============================================================================
