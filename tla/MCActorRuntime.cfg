SPECIFICATION FairSpec
CONSTANTS
  Actors = {a1, a2}
  Ids = {i1}
  Callers = {c1}
  NoActor = NoActor
  ThreadNum = 2
  MaxSends = 2
  MaxBacklog = 1
  ActorId <- MCActorId
  Messages <- MCMessages
INVARIANTS
  NoLostWakeup
  FifoConservation
  TickSeesEarlierMessages
  SenderOrder
PROPERTIES
  KilledActorStops
  KeepsTicking
  KeepsPromise
