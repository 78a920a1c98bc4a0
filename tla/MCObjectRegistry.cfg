SPECIFICATION FairSpec
CONSTANTS
  t1 = t1
  t2 = t2
  o1 = o1
  o2 = o2
  Threads = {t1, t2}
  Objects = {o1, o2}
  Deployments <- AllDeployments
  MaxVersion = 3
  MayFail = TRUE
  None = None
INVARIANTS
  TypeOK
  ShapeMatchesHeader
  NoOrphans
PROPERTIES
  MigrationExclusive
  MigrationReturns
