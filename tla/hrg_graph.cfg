CONSTANTS
  Items = {i1, i2, i3, i4, i5}
  Contents = {c1, c2, c3}
  Relations = {r1, r2}
  Names = {m1, m2}
  Null = Null
  MaxId = 4
  ShareOnce = TRUE
  FreshNames = TRUE
SPECIFICATION Spec
SYMMETRY Symmetry
INVARIANTS Linked Ends Reached ContentAgrees
  DeletionsAgree WalksAgree
PROPERTIES IdKept ForestSpec
