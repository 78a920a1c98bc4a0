SPECIFICATION Spec
CONSTANTS
  Configs <- AllConfigs
  Admins = {d1}
  IoThreads = {t1, t2}
  Builders = {b1}
  Scopes <- ManagedScope
  None = None
  MaxBuild = 2
  MaxSignals = 1
INVARIANT LoadedVersionTrue
