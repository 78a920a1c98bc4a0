SPECIFICATION Spec
CONSTANTS
  t1 = t1
  t2 = t2
  o1 = o1
  o2 = o2
  Threads = {t1, t2}
  Objects = {o1}
  Deployments <- OwnOnly
  MaxVersion = 3
  MayFail = TRUE
  None = None
INVARIANT MigratesFromItsVersion
