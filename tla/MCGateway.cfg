SPECIFICATION FairSpec
CONSTANTS
  s1 = s1
  s2 = s2
  t1 = t1
  t2 = t2
  Sessions = {s1, s2}
  IoThreads = {t1, t2}
  Callers = {c1}
  MsgTypes = {m1}
  None = None
  MaxMessages = 3
  Scopes <- OneOrTwo
INVARIANTS
  TypeOK
  OneThreadWire
  NoDeadSessionInMap
  BodyStable
  AcceptLoopAlive
PROPERTY
  Delivered
CHECK_DEADLOCK FALSE
