SPECIFICATION Spec
CONSTANTS
  map = map
  base = base
  derived = derived
  Core = {map}
  Plugins = {base, derived}
  Parent <- MCParent
  Depth <- MCDepth
  MapClass = map
  Managers = {serialize, pm, vm}
  Threads = {t1, t2}
  Objects = {o1, o2}
  Orderly = TRUE
  MaxCount = 2
  MaxStarts = 3
  MaxUses = 1
  None = None
SYMMETRY Symmetry
INVARIANTS Started Stopped WholeObjects InfoLives
CHECK_DEADLOCK FALSE
