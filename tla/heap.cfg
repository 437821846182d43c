\* Three entries in one queue, two tokens, up to three picks.
CONSTANTS
  Entry = {e1, e2, e3}
  Gen = {g1}
  Token = {t1, t2}
  Profile <- TwoTiers
  PickLoads = {0, 1, 2}
  MaxMark = 3
  NoMeta = NoMeta
SPECIFICATION Spec
SYMMETRY Interchangeable
INVARIANTS HeapShape
PROPERTIES PoolSpec PassesOverAtMostOne
