--------------------------- MODULE SchemaManager ----------------------------
(***************************************************************************)
(* SchemaManager (src/src/core/schema_manager.cpp): schemas by object type *)
(* and version under a shared_mutex.  GetSchema hands out a pointer into   *)
(* the map that its caller uses after the lock is released; the nodes of   *)
(* an unordered_map do not move, so the pointer stays valid.               *)
(*                                                                         *)
(* The assignment of a schema is not atomic: its fields and its total_size *)
(* are written one after the other.  A schema is known by the number of    *)
(* the registration it comes from.                                         *)
(***************************************************************************)
EXTENDS Naturals

CONSTANTS Types,
          Versions,          \* of schemas; may include 0
          SchemaThreads,
          MaxRegistrations   \* bound: calls of RegisterSchema

ASSUME SchemaAssumption == Versions \subseteq Nat /\ MaxRegistrations \in Nat

VARIABLES schemas,         \* schemas_: per type and version the registrations that
                           \* fields and total_size come from, 0 if there is no entry
          task,            \* the call a thread is in
          registrations,   \* history: number of the last registration
          again            \* history: types and versions registered twice

schemaVars == <<schemas, task, registrations, again>>

NoEntry == [fields |-> 0, size |-> 0]
NoTask  == [op |-> "none", type |-> 0, version |-> 0, todo |-> {}, known |-> {}]

SchemasTypeOK ==
  /\ schemas \in [Types -> [Versions -> [fields : 0..MaxRegistrations,
                                         size : 0..MaxRegistrations]]]
  /\ task    \in [SchemaThreads ->
                    [op : {"none", "register", "use", "scan", "answered", "nullopt"},
                     type : Types \cup {0}, version : Nat,
                     todo : SUBSET Versions, known : SUBSET Versions]]
  /\ registrations \in 0..MaxRegistrations
  /\ again \subseteq Types \X Versions

SchemasInit ==
  /\ schemas = [y \in Types |-> [v \in Versions |-> NoEntry]]
  /\ task    = [t \in SchemaThreads |-> NoTask]
  /\ registrations = 0
  /\ again   = {}

Registered(y) == {v \in Versions : schemas[y][v] # NoEntry}
Done(t)       == task' = [task EXCEPT ![t] = NoTask]

\* Mutant: the readers take no lock.
NoLock == TRUE

\* A shared_lock can be had: no thread holds the unique_lock.
SharedLock == \A t \in SchemaThreads : task[t].op # "register"

\* A unique_lock can be had: no thread holds either.
UniqueLock == \A t \in SchemaThreads : task[t].op \notin {"register", "scan"}
-----------------------------------------------------------------------------
\* RegisterSchema takes the lock, finds or makes the entry, assigns the fields ...
RegisterSchema(t, y, v) ==
  /\ task[t] = NoTask /\ UniqueLock
  /\ registrations < MaxRegistrations
  /\ registrations' = registrations + 1
  /\ schemas' = [schemas EXCEPT ![y][v].fields = registrations + 1]
  /\ again'   = IF v \in Registered(y) THEN again \cup {<<y, v>>} ELSE again
  /\ task'    = [task EXCEPT ![t] = [NoTask EXCEPT !.op = "register", !.type = y,
                                                    !.version = v]]

\* ... then the size, and releases the lock.
RegisterEnds(t) ==
  LET y == task[t].type
      v == task[t].version
  IN
  /\ task[t].op = "register"
  /\ schemas' = [schemas EXCEPT ![y][v].size = schemas[y][v].fields]
  /\ Done(t)
  /\ UNCHANGED <<registrations, again>>

\* GetSchema: a pointer to the entry; nullptr, if there is none, ends the call.
GetSchema(t, y, v) ==
  /\ task[t] = NoTask /\ SharedLock
  /\ v \in Registered(y)
  /\ task' = [task EXCEPT ![t] = [NoTask EXCEPT !.op = "use", !.type = y, !.version = v]]
  /\ UNCHANGED <<schemas, registrations, again>>

\* GetLatestVersion takes the lock and begins to go through the versions ...
GetLatestVersion(t, y) ==
  /\ task[t] = NoTask /\ SharedLock
  /\ task' = [task EXCEPT ![t] = [NoTask EXCEPT !.op = "scan", !.type = y,
                                                 !.todo = Registered(y),
                                                 !.known = Registered(y)]]
  /\ UNCHANGED <<schemas, registrations, again>>

\* Mutant: the version the map happens to give last.
LatestSeen(v, latest) == v

Latest(v, latest) == IF v > latest THEN v ELSE latest

\* ... in the order of the map, which is any ...
ScanVersion(t, v) ==
  /\ task[t].op = "scan" /\ v \in task[t].todo
  /\ task' = [task EXCEPT ![t].todo = @ \ {v}, ![t].version = Latest(v, @)]
  /\ UNCHANGED <<schemas, registrations, again>>

\* ... and answers with the latest, or with nullopt if that is 0.
ScanEnds(t) ==
  /\ task[t].op = "scan" /\ task[t].todo = {}
  /\ task' = [task EXCEPT ![t].op = IF task[t].version > 0 THEN "answered" ELSE "nullopt"]
  /\ UNCHANGED <<schemas, registrations, again>>

\* The caller is done with the schema or the answer.
Finish(t) ==
  /\ task[t].op \in {"use", "answered", "nullopt"}
  /\ Done(t)
  /\ UNCHANGED <<schemas, registrations, again>>

SchemasNext ==
  \E t \in SchemaThreads :
    \/ RegisterEnds(t) \/ ScanEnds(t) \/ Finish(t)
    \/ \E v \in Versions : ScanVersion(t, v)
    \/ \E y \in Types :
         \/ GetLatestVersion(t, y)
         \/ \E v \in Versions : RegisterSchema(t, y, v) \/ GetSchema(t, y, v)
-----------------------------------------------------------------------------
(***************************************************************************)
(* A schema that GetSchema returned stays whole while it is used, without  *)
(* a lock, next to any registration of other versions and types.  Only a   *)
(* second registration of the very version may be seen half done.          *)
(***************************************************************************)
SchemaWhole ==
  \A t \in SchemaThreads : task[t].op = "use" =>
    \/ <<task[t].type, task[t].version>> \in again
    \/ LET e == schemas[task[t].type][task[t].version] IN e # NoEntry /\ e.fields = e.size

(***************************************************************************)
(* GetLatestVersion answers with a version that GetSchema finds and that   *)
(* is the highest of those registered when it was called; with nullopt     *)
(* only if nothing above 0 was, although version 0 may be.                 *)
(***************************************************************************)
LatestVersionExact ==
  \A t \in SchemaThreads :
    /\ task[t].op = "answered" => /\ task[t].version \in Registered(task[t].type)
                                 /\ \A v \in task[t].known : v <= task[t].version
    /\ task[t].op = "nullopt" => task[t].known \subseteq {0}
=============================================================================
