CONSTANTS
  Task = {t1, t2}
  NoTask = NoTask
  Blk = {b1, b2, b3}
  NoBlk = NoBlk
  NBUF = 2
  MAXPIN = 1
  MAXFAIL = 1
  Reader = {p1, p2}
  Nobody = Nobody
  INPUT_BUF = 2
  WRAP = 4
  MAXREAD = 2
  COLS = 2
  ROWS = 4
  MAXTAPE = 8
  MAXCODES = 4
  Slot = {1, 2}
  NFRAME = 16
  NPTE = 2
  NPG = 4
  Image <- MCImage
  Growth = {1, 2, 3}
  BSIZE = 2
  NDIRECT = 2
  NINODES = 4
  IPB = 2
  FSSIZE = 32
  BPB = 30
  LOGSIZE = 2
  MAXOPBLOCKS = 6
  Fd = {1, 2}
  Listing <- MCListing
  Amount = {1, 5, 8}
  Val = {7}
  MAXOPS = 4
  Letter = {"a", "."}
  DIRSIZ = 2
  MAXPATH = 4
  MAXENT = 4
  Inum_ = {2, 3}
  HEADER = 8
  MINCORE = 5
  BRKMAX = 14
  Nbytes = {8, 9, 33}
  W = 8
  FmtChar = {"%", "d", "x", "s", "c", "a"}
  MAXFMT = 4
  Arg <- MCArg
  MAXN = 6
  MEM = 4
  CharVal = {1, 10}
  TextChar = {"a", "b"}
  Pattern <- MCPattern
  MAXTEXT = 3
  BUF = 4
  Line <- MCLine
  MAXARGS = 3
  Command <- MCCommand
  NSHPROC = 8
  NSHPIPE = 3
  MAXCMD = 1
  MAXFAILS = 1
SPECIFICATION MCSpec
INVARIANTS
  CacheIsDisk LinesAreDelivered ScreenShowsTape  MemoryIsOwned
    LookupFindsEntry HeapIsSound  CopiesStayInside
  GrepIsRight LinesAreParsed CommandsEnd
PROPERTIES IoReturns 
CHECK_DEADLOCK FALSE
