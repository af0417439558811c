SPECIFICATION FairSpec
CONSTANTS
  Threads = {t1, t2}
  Keeper = t1
  Paths = {"base", "top"}
  Requires <- Chain
  Fault <- NoFault
  Libs = {1, 2, 3}
  MaxCalls = 3
  Discipline = "kept"
  NoLib = NoLib
  NoThread = NoThread
  t1 = t1
  t2 = t2
INVARIANTS
  RefExact
  HandedOutReady
  LockReleased
PROPERTIES
  CallsReturn
CHECK_DEADLOCK FALSE
