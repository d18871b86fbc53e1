CONSTANTS
  Part = {"names"}
  Proc = {p1, p2, p3}
  NoProc = NoProc
  Inum = {a, b}
  NoInum = NoInum
  NINODE = 2
  NFILE = 2
  Cpu = {c1, c2}
  NoCpu = NoCpu
  Thread = {s1}
  User = {u1, u2}
  NoUser = NoUser
  NI = 3
  Name = {"a", "b"}
  Path <- MCPath
  MAXCALL = 4
SPECIFICATION MCSpec
SYMMETRY Symmetry
INVARIANT UnlinkedIsFreed
CHECK_DEADLOCK FALSE
