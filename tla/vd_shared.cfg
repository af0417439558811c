SPECIFICATION FairSpec
CONSTANTS
  v1 = v1
  v2 = v2
  k1 = k1
  k2 = k2
  p1 = p1
  p2 = p2
  Voices = {v1, v2}
  Keys = {k1, k2}
  Paths = {p1, p2}
  Null = Null
  Threads = {t1, t2}
  Objects = {o1, o2}
  Config <- OneFileConfig
  Uses = {}
INVARIANTS NoDangling
PROPERTIES LockReleased
