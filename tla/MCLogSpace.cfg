CONSTANTS
  Proc = {p1, p2, p3}
  Block = {b1, b2, b3, b4, b5}
  Val = {v0}
  Zero = v0
  NoVal = NoVal
  NoProc = NoProc
  MAXOPBLOCKS = 2
  LOGSIZE = 6
  NLOG = 6
  OPBLOCKS = 1
SPECIFICATION Spec
SYMMETRY Symmetry
INVARIANTS CommitExclusive LogFits NoPanic
