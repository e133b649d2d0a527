SPECIFICATION Spec
CONSTANTS
  Sources = {l1, l2, l3}
  Casters = {k1, k2}
  Textures = {t1, t2}
  MaxRetains = 2
  MaxListed = 3
  NULL = NULL
SYMMETRY Symmetry
INVARIANTS
  TypeOK
  RefsCountUsers
  TexturesRetained
  DrawnAsMeasured
  ListedCastersLive
CHECK_DEADLOCK FALSE
