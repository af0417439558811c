SPECIFICATION Spec
CONSTANTS
  l1 = l1
  l2 = l2
  Lists = {l1, l2}
  Cells = {c1, c2, c3, c4, c5}
  Objects = {o1, o2}
  Threads = {t1, t2}
  Main = t1
  Builds = {TRUE, FALSE}
  Merges <- OneWay
  NthThreaded = FALSE
  Orderly = TRUE
  Null = Null
SYMMETRY Symmetry
INVARIANTS RefExact WalkExact MergeWhole NobodyStuck
PROPERTIES ListSpec
