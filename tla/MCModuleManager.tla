-------------------------- MODULE MCModuleManager ---------------------------
(* Two versions of one module and a second module, each file its own path. *)
EXTENDS ModuleManager

RoomV1 == [name |-> "room", path |-> "room_v1.wasm", schema_version |-> 1]
RoomV2 == [name |-> "room", path |-> "room_v2.wasm", schema_version |-> 2]
Chat   == [name |-> "chat", path |-> "chat.wasm", schema_version |-> 1]

AllConfigs == {RoomV1, RoomV2, Chat}

\* Two threads manage the two versions of a module ...
Managed ==
  [configs |-> {RoomV1, RoomV2}, preloaded |-> {}, admins |-> Admins, threads |-> {},
   builders |-> {}, signals |-> 0]

\* ... and one does while signals arrive.
Interrupted ==
  [configs |-> {RoomV1, RoomV2}, preloaded |-> {RoomV1}, admins |-> {CHOOSE d \in Admins : TRUE},
   threads |-> {CHOOSE t \in IoThreads : TRUE}, builders |-> {}, signals |-> 2]

\* Two modules are loaded at the start, and only signals reload them.
Signalled ==
  [configs |-> {RoomV1, Chat}, preloaded |-> {RoomV1, Chat}, admins |-> {},
   threads |-> IoThreads, builders |-> Builders, signals |-> MaxSignals]

AllScopes      == {Managed, Interrupted, Signalled}
ManagedScope   == {Managed}
SignalledScope == {Signalled}
=============================================================================
