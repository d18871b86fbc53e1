CONSTANTS
  NPROC = 3
  CPU = {c1, c2}
  NoCpu = NoCpu
  Chan = {ch}
  MAXPID = 3
  KillPid = {1, 2}
  NicePid = {2}
  NicePrio = {1}
  NiceMayFault = TRUE
SPECIFICATION Spec
SYMMETRY Symmetry
INVARIANTS
  TableMatchesCpus StackInUse FamilyIntact 
PROPERTIES ZombieOnlyReaped
CHECK_DEADLOCK FALSE
