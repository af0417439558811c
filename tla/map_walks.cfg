SPECIFICATION Spec
CONSTANTS
  k1 = k1
  k2 = k2
  k3 = k3
  k4 = k4
  Keys = {k1, k2, k3, k4}
  Hash <- Hashes
  Objects = {o1, o2}
  InitLogsize = 1
  MaxLogsize = 3
  Overlap = FALSE
  Null = Null
  Freed = Freed
SYMMETRY Symmetry
INVARIANTS RefExact WalkExact
PROPERTIES MapSpec
