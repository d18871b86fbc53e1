CONSTANTS
  p1 = p1
  p2 = p2
  Proc = {p1, p2}
  NoProc = NoProc
  Readers = {p1}
  Writers = {p2}
  Val = {a, b}
  PIPESIZE = 2
  WRAP = 4
  MAXN = 3
SPECIFICATION FairSpec
INVARIANTS
  PipeSafe
PROPERTIES IsStream CallsReturn
CHECK_DEADLOCK FALSE
