SPECIFICATION Spec
CONSTANTS
  t1 = t1
  t2 = t2
  o1 = o1
  o2 = o2
  Threads = {t1, t2}
  Objects = {o1, o2}
  Types = {y1}
  Data = {d1, d2}
  Fitting = {d1}
  Entries = {e1, e2, e3}
  None = None
  MayWrite <- EveryPair
  MayDestroy <- EveryPair
INVARIANT NoUseAfterFree
