SPECIFICATION Spec
CONSTANTS
  Plugins = {p1, p2, p3}
  Actors = {a1, a2}
  Threads = {t1, t2}
  None = None
INVARIANTS
  TypeOK
  HandlesOwned
  ExecutesLiveVM
  CurrentObjectExact
SYMMETRY Symmetry
