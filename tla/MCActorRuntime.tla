--------------------------- MODULE MCActorRuntime ---------------------------
(* Two actor objects compete for one id, so Spawn replaces a live actor.   *)
EXTENDS ActorRuntime

MCActorId  == [a \in Actors |-> CHOOSE i \in Ids : TRUE]
MCMessages == Callers \X (1..MaxSends)
=============================================================================
