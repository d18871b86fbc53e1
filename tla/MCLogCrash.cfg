CONSTANTS
  Proc = {p1, p2, p3}
  Block = {b1, b2}
  Val = {v0, v1}
  Zero = v0
  NoVal = NoVal
  NoProc = NoProc
  MAXOPBLOCKS = 1
  LOGSIZE = 3
  NLOG = 3
  OPBLOCKS = 1
SPECIFICATION Spec
SYMMETRY Symmetry
INVARIANTS TypeOK PinnedUntilInstalled DurableWhenIdle
PROPERTY CrashAtomic
