CONSTANTS
  NPROC = 2
  CPU = {c1}
  NoCpu = NoCpu
  Chan = {ch}
  MAXPID = 3
  KillPid = {2, 3}
  NicePid = {2}
  NicePrio = {1}
  NiceMayFault = FALSE
SPECIFICATION FairSpec
PROPERTY YieldReturns
