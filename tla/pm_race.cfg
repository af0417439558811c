SPECIFICATION Spec
CONSTANTS
  Threads = {t1, t2}
  Keeper = t1
  Paths = {"base", "top"}
  Requires <- Chain
  Fault <- NoFault
  Libs = {1, 2, 3}
  MaxCalls = 2
  Discipline = "none"
  NoLib = NoLib
  NoThread = NoThread
  t1 = t1
  t2 = t2
INVARIANTS
  NoDangling
CHECK_DEADLOCK FALSE
