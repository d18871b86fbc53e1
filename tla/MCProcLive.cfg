CONSTANTS
  NPROC = 3
  CPU = {c1}
  NoCpu = NoCpu
  Chan = {ch}
  MAXPID = 3
  KillPid = {2, 3}
  NicePid = {}
  NicePrio = {}
  NiceMayFault = FALSE
SPECIFICATION FairSpec
PROPERTIES RunnableRuns OrphansReaped
