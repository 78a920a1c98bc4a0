-------------------------- MODULE MCObjectRegistry --------------------------
(* Two threads, each with an object of its own or both on one object.  The *)
(* plugins pass the id of the object they run for, or either id.           *)
EXTENDS ObjectRegistry

CONSTANTS t1, t2, o1, o2

OwnObjects   == {<<t1, o1>>, <<t2, o2>>}
SharedObject == {<<t1, o1>>, <<t2, o1>>}
OwnIds       == {<<o, o>> : o \in {o1, o2}}
AnyIds       == {o1, o2} \X {o1, o2}

Own    == [works |-> OwnObjects, passes |-> OwnIds, versions |-> {1, 2, 3}]
Shared == [works |-> SharedObject, passes |-> OwnIds, versions |-> {1, 2, 3}]
Across == [works |-> OwnObjects, passes |-> AnyIds, versions |-> {1, 2}]

AllDeployments == {Own, Shared, Across}
OwnOnly        == {Own}
=============================================================================
