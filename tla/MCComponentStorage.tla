------------------------- MODULE MCComponentStorage -------------------------
(* o1 has two writers and is never destroyed, o2 is written and destroyed  *)
(* by one thread; everybody reads everything.                              *)
EXTENDS ComponentStorage, TLC

CONSTANTS t1, t2, o1, o2

Disciplined   == {<<t1, o1>>, <<t2, o1>>, <<t1, o2>>}
OneDestroyer  == {<<t1, o2>>}
EveryPair     == Threads \X Objects

ASSUME DisciplineHolds == MayDestroy = OneDestroyer => Discipline
=============================================================================
