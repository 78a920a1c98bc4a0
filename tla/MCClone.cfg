SPECIFICATION FairSpec
CONSTANTS
  Configs <- AllConfigs
  Admins = {d1}
  IoThreads = {t1, t2}
  Builders = {b1}
  Scopes <- SignalledScope
  None = None
  MaxBuild = 2
  MaxSignals = 1
PROPERTY CloneIsCopy
CHECK_DEADLOCK FALSE
