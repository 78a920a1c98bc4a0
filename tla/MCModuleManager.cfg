SPECIFICATION FairSpec
CONSTANTS
  Configs <- AllConfigs
  Admins = {d1, d2}
  IoThreads = {t1, t2}
  Builders = {b1}
  Scopes <- AllScopes
  None = None
  MaxBuild = 2
  MaxSignals = 3
INVARIANTS
  TypeOK
  MapsAgree
  ServedMatchesConfig
PROPERTIES
  NeverReverts
  SighupServesBuild
CHECK_DEADLOCK FALSE
