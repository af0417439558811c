SPECIFICATION Spec
CONSTANTS
  Threads = {t1, t2}
  Keeper = t1
  Paths = {"base", "top", "fork", "bad", "odd", "lost"}
  Requires <- Mixed
  Fault <- MixedFaults
  Libs = {1, 2, 3}
  MaxCalls = 2
  Discipline = "serial"
  NoLib = NoLib
  NoThread = NoThread
  t1 = t1
  t2 = t2
INVARIANTS
  TypeOK
  NothingLeft
PROPERTIES
  ServiceSpec
CHECK_DEADLOCK FALSE
