--------------------------- MODULE ObjectRegistry ---------------------------
(***************************************************************************)
(* ObjectRegistry and MigrationEngine (src/src/core/object_registry.cpp,   *)
(* migration_engine.cpp) with the path on which actors use them:           *)
(* InvokeModule -> Get -> Execute -> ApplyOutputDelta (actor.cpp,          *)
(* object.cpp, wasmedge_plugin.cpp).                                       *)
(*                                                                         *)
(* Get copies the header and lets go of every lock before the callback     *)
(* runs, so a view may outlive what it shows.  Migrate keeps map_mutex_    *)
(* (shared) and the entry's mutex over all its steps.  Create and Destroy  *)
(* take map_mutex_ exclusively; Destroy drops it before it removes the     *)
(* components.  The calls into ComponentStorage are single steps, which    *)
(* module ComponentStorage justifies.                                      *)
(*                                                                         *)
(* Of the component data only the shape matters: the schema version whose  *)
(* layout the bytes have.                                                  *)
(***************************************************************************)
EXTENDS Naturals

CONSTANTS Threads,
          Objects,
          Deployments,  \* the possible ways in which the objects are used:
                        \* works, the <<t, o>> where thread t works on object o;
                        \* passes, the <<o, p>> where the plugin run for o hands
                        \* the id of p to get_component and set_component;
                        \* versions, those it creates with and migrates to
          MaxVersion,   \* schema versions are 1..MaxVersion
          MayFail,      \* whether a registered MigrationFunc may return false
          None

Versions == 1..MaxVersion
Garbled  == 0           \* a migration was applied to data of another version
Shapes   == Versions \cup {Garbled}

ASSUME RegistryAssumption ==
  /\ MaxVersion \in Nat \ {0}
  /\ MayFail \in BOOLEAN
  /\ None \notin Nat

VARIABLES deployment,   \* one of Deployments
          objects,      \* objects_: schema_version of the header, None if absent
          components,   \* the shape of the object's components, None if it has none
          migrations,   \* migrations_: the registered <<from, to>>
          at,           \* where a thread is
          obj,          \* the object it works on
          view,         \* header.schema_version of its GameObject view
          target,       \* target_version of its Migrate
          read,         \* the shape Execute read
          history       \* of an object's data: "recreated" when Create found
                        \* components of an earlier object, "partial" when a
                        \* migration failed half-way, else "clean"

vars == <<deployment, objects, components, migrations, at, obj, view, target, read, history>>

Places == {"idle", "execute", "apply", "migrate", "removeAll"}

TypeOK ==
  /\ deployment \in Deployments
  /\ objects    \in [Objects -> Versions \cup {None}]
  /\ components \in [Objects -> Shapes \cup {None}]
  /\ migrations \subseteq Versions \X Versions
  /\ at         \in [Threads -> Places]
  /\ obj        \in [Threads -> Objects \cup {None}]
  /\ view       \in [Threads -> Versions]
  /\ target     \in [Threads -> Versions]
  /\ read       \in [Threads -> Shapes \cup {None}]
  /\ history    \in [Objects -> {"clean", "recreated", "partial"}]

Init ==
  /\ deployment \in Deployments
  /\ objects    = [o \in Objects |-> None]
  /\ components = [o \in Objects |-> None]
  /\ migrations = {}
  /\ at         = [t \in Threads |-> "idle"]
  /\ obj        = [t \in Threads |-> None]
  /\ view       = [t \in Threads |-> 1]
  /\ target     = [t \in Threads |-> 1]
  /\ read       = [t \in Threads |-> None]
  /\ history    = [o \in Objects |-> "clean"]

Works(t, o)  == <<t, o>> \in deployment.works
Passes(o, p) == <<o, p>> \in deployment.passes

\* Locals of a call that ended.
Done(t) ==
  /\ at'     = [at EXCEPT ![t] = "idle"]
  /\ obj'    = [obj EXCEPT ![t] = None]
  /\ view'   = [view EXCEPT ![t] = 1]
  /\ target' = [target EXCEPT ![t] = 1]
  /\ read'   = [read EXCEPT ![t] = None]

\* map_mutex_ can be taken exclusively: no migration holds it shared.
MapFree == \A t \in Threads : at[t] # "migrate"

\* The mutex of o's entry can be taken.
EntryFree(o) == \A t \in Threads : ~(at[t] = "migrate" /\ obj[t] = o)
-----------------------------------------------------------------------------
\* Create puts a new entry in place, whatever was there.
Create(t, o, v) ==
  /\ at[t] = "idle" /\ Works(t, o)
  /\ MapFree
  /\ objects' = [objects EXCEPT ![o] = v]
  /\ history' = [history EXCEPT ![o] = IF components[o] # None THEN "recreated" ELSE @]
  /\ UNCHANGED <<components, migrations, at, obj, view, target, read>>

\* Mutant: the map is locked shared, as in Get.
DestroyUnderSharedLock(t, o) ==
  /\ at[t] = "idle" /\ Works(t, o)
  /\ objects[o] # None
  /\ objects' = [objects EXCEPT ![o] = None]
  /\ at'      = [at EXCEPT ![t] = "removeAll"]
  /\ obj'     = [obj EXCEPT ![t] = o]
  /\ UNCHANGED <<components, migrations, view, target, read, history>>

\* Destroy up to the release of map_mutex_.  Whoever holds the entry's mutex
\* holds map_mutex_ too, so the lock on the entry never has to wait.
Destroy(t, o) ==
  /\ at[t] = "idle" /\ Works(t, o)
  /\ objects[o] # None
  /\ MapFree
  /\ objects' = [objects EXCEPT ![o] = None]
  /\ at'      = [at EXCEPT ![t] = "removeAll"]
  /\ obj'     = [obj EXCEPT ![t] = o]
  /\ UNCHANGED <<components, migrations, view, target, read, history>>

\* Mutant: Destroy leaves the components to somebody else.
RemoveNothing(t) ==
  /\ at[t] = "removeAll"
  /\ Done(t)
  /\ UNCHANGED <<objects, components, migrations, history>>

\* storage_->RemoveAll, after the lock was dropped.
RemoveAll(t) ==
  /\ at[t] = "removeAll"
  /\ components' = [components EXCEPT ![obj[t]] = None]
  /\ history'    = [history EXCEPT ![obj[t]] = "clean"]
  /\ Done(t)
  /\ UNCHANGED <<objects, migrations>>
-----------------------------------------------------------------------------
\* InvokeModule: Get copies the header under the locks and calls back without.
Get(t, o) ==
  /\ at[t] = "idle" /\ Works(t, o)
  /\ objects[o] # None
  /\ EntryFree(o)
  /\ view' = [view EXCEPT ![t] = objects[o]]
  /\ obj'  = [obj EXCEPT ![t] = o]
  /\ at'   = [at EXCEPT ![t] = "execute"]
  /\ UNCHANGED <<objects, components, migrations, target, read, history>>

\* The host function get_component for the object whose id the plugin passed,
\* with a buffer that is large enough.
HostGetComponent(p) == components[p]

\* Execute runs the plugin, which reads a component of object p.
Execute(t, p) ==
  /\ at[t] = "execute" /\ Passes(obj[t], p)
  /\ read' = [read EXCEPT ![t] = HostGetComponent(p)]
  /\ at'   = [at EXCEPT ![t] = "apply"]
  /\ UNCHANGED <<objects, components, migrations, obj, view, target, history>>

\* The shape of what a plugin writes: that of the data it read, or its view's.
OutputShape(t) == IF read[t] = None THEN view[t] ELSE read[t]

Written(t, p) == [components EXCEPT ![p] = OutputShape(t)]

\* A host call of set_component inside Execute: it writes the object whose id
\* the plugin passes, whether that object exists or not.
HostSetComponent(t, p) ==
  /\ at[t] = "apply" /\ Passes(obj[t], p)
  /\ components' = Written(t, p)
  /\ UNCHANGED <<objects, migrations, at, obj, view, target, read, history>>

\* ApplyOutputDelta of an output with the right magic, to the view's object.
ApplyOutputDelta(t) ==
  /\ at[t] = "apply"
  /\ components' = Written(t, obj[t])
  /\ Done(t)
  /\ UNCHANGED <<objects, migrations, history>>

\* Execute fails, or its output is not a delta.
InvokeFails(t) ==
  /\ at[t] \in {"execute", "apply"}
  /\ Done(t)
  /\ UNCHANGED <<objects, components, migrations, history>>
-----------------------------------------------------------------------------
\* MigrationEngine::Register, for neighbours: no other pair is ever looked up.
Register(from, to) ==
  /\ from = to + 1 \/ to = from + 1
  /\ <<from, to>> \notin migrations
  /\ migrations' = migrations \cup {<<from, to>>}
  /\ UNCHANGED <<objects, components, at, obj, view, target, read, history>>

\* Migrate takes both locks and makes its view.
MigrateBegin(t, o, v) ==
  /\ at[t] = "idle" /\ Works(t, o)
  /\ objects[o] # None
  /\ EntryFree(o)
  /\ at'     = [at EXCEPT ![t] = "migrate"]
  /\ obj'    = [obj EXCEPT ![t] = o]
  /\ view'   = [view EXCEPT ![t] = objects[o]]
  /\ target' = [target EXCEPT ![t] = v]
  /\ UNCHANGED <<objects, components, migrations, read, history>>

\* One version up or down, towards the target.
NextVersion(cur, goal) == IF cur < goal THEN cur + 1 ELSE cur - 1

\* Mutant: the function trusts the versions it is given.
RewrittenBlindly(s, from, to) == IF s = None THEN None ELSE (s + to) - from

\* What a MigrationFunc makes of data of shape s.
Rewritten(s, from, to) ==
  CASE s = None -> None
    [] s = from -> to
    [] OTHER    -> Garbled

\* Mutant: the loop does not advance current.
MigrateStepStuck(t) ==
  LET next == NextVersion(view[t], target[t]) IN
  /\ at[t] = "migrate"
  /\ view[t] # target[t]
  /\ <<view[t], next>> \in migrations
  /\ components' = [components EXCEPT ![obj[t]] = Rewritten(@, view[t], next)]
  /\ UNCHANGED <<objects, migrations, at, obj, view, target, read, history>>

\* MigrateStep succeeds: the data and the view move on, the header waits.
MigrateStep(t) ==
  LET next == NextVersion(view[t], target[t]) IN
  /\ at[t] = "migrate"
  /\ view[t] # target[t]
  /\ <<view[t], next>> \in migrations
  /\ components' = [components EXCEPT ![obj[t]] = Rewritten(@, view[t], next)]
  /\ view'       = [view EXCEPT ![t] = next]
  /\ UNCHANGED <<objects, migrations, at, obj, target, read, history>>

\* MigrateStep fails: no such function, or it returned false.  Migrate returns
\* false and the entry keeps the header it had.
MigrateFails(t) ==
  LET next == NextVersion(view[t], target[t]) IN
  /\ at[t] = "migrate"
  /\ view[t] # target[t]
  /\ <<view[t], next>> \in migrations => MayFail
  /\ history' = [history EXCEPT ![obj[t]] =
                   IF view[t] # objects[obj[t]] /\ @ = "clean" THEN "partial" ELSE @]
  /\ Done(t)
  /\ UNCHANGED <<objects, components, migrations>>

\* Mutant: a finished migration does not store the new header.
MigrateDropsHeader(t) ==
  /\ at[t] = "migrate"
  /\ view[t] = target[t]
  /\ Done(t)
  /\ UNCHANGED <<objects, components, migrations, history>>

\* All steps done: the entry gets the view's header and the locks are released.
MigrateEnds(t) ==
  /\ at[t] = "migrate"
  /\ view[t] = target[t]
  /\ objects' = [objects EXCEPT ![obj[t]] = view[t]]
  /\ Done(t)
  /\ UNCHANGED <<components, migrations, history>>

Continue(t) ==
  \/ RemoveAll(t)
  \/ \E p \in Objects : Execute(t, p) \/ HostSetComponent(t, p)
  \/ ApplyOutputDelta(t) \/ InvokeFails(t)
  \/ MigrateStep(t) \/ MigrateFails(t) \/ MigrateEnds(t)

Step ==
  \/ \E t \in Threads :
       \/ Continue(t)
       \/ \E o \in Objects :
            \/ Destroy(t, o) \/ Get(t, o)
            \/ \E v \in Versions \cap deployment.versions :
                 Create(t, o, v) \/ MigrateBegin(t, o, v)
  \/ \E from, to \in Versions : Register(from, to)

Next == Step /\ UNCHANGED deployment

Spec == Init /\ [][Next]_vars

\* A thread inside Migrate or Destroy keeps running.
FairSpec ==
  Spec /\ \A t \in Threads :
            WF_vars(/\ RemoveAll(t) \/ MigrateStep(t) \/ MigrateFails(t) \/ MigrateEnds(t)
                    /\ UNCHANGED deployment)
-----------------------------------------------------------------------------
(***************************************************************************)
(* One thread per object, as when only the object's actor, on its strand,  *)
(* creates, migrates, invokes and destroys it; and o's id is passed to the *)
(* host functions by the plugin run for o alone, which passes no other.    *)
(* Nothing in wasmedge_plugin.cpp enforces the second half.                *)
(***************************************************************************)
SingleOwner(o) ==
  /\ \A s, t \in Threads : Works(s, o) /\ Works(t, o) => s = t
  /\ \A p \in Objects : Passes(o, p) \/ Passes(p, o) => p = o

(***************************************************************************)
(* Data and header agree: the components of an object with a single owner  *)
(* have the layout of its schema_version, or of the version a running      *)
(* migration has reached, whatever other objects go through, unless it was *)
(* created over old data or a migration stopped half-way.                  *)
(***************************************************************************)
ShapeMatchesHeader ==
  \A o \in Objects : SingleOwner(o) /\ objects[o] # None /\ components[o] # None
                     /\ history[o] = "clean" =>
    /\ EntryFree(o) => components[o] = objects[o]
    /\ \A t \in Threads : at[t] = "migrate" /\ obj[t] = o => components[o] = view[t]

(***************************************************************************)
(* Once Destroy of an object with a single owner returned, nothing of it   *)
(* is left in the storage.                                                 *)
(***************************************************************************)
NoOrphans ==
  \A o \in Objects : SingleOwner(o) /\ objects[o] = None /\ components[o] # None =>
    \E t \in Threads : at[t] = "removeAll" /\ obj[t] = o

(***************************************************************************)
(* A migration has the header of its object to itself: while it runs, the  *)
(* header it started from stays in the registry, and only its own end      *)
(* changes it.  Its components are not part of this: a view taken before   *)
(* and a plugin that passes the object's id may write them meanwhile.      *)
(***************************************************************************)
MigrationExclusive ==
  [][\A t \in Threads : at[t] = "migrate" /\ at'[t] = "migrate" =>
       objects'[obj[t]] = objects[obj[t]]]_vars

(***************************************************************************)
(* Liveness: a migration up or down ends, with success or failure.         *)
(***************************************************************************)
MigrationReturns == \A t \in Threads : at[t] = "migrate" ~> at[t] = "idle"

(***************************************************************************)
(* "MigrationFunc rewrites a GameObject's components from one schema       *)
(* version to another" (migration_engine.h:12): it is called with          *)
(* components of the version it migrates from, on an object that was never *)
(* re-created.                                                             *)
(***************************************************************************)
MigratesFromItsVersion ==
  \A t \in Threads : at[t] = "migrate" /\ history[obj[t]] # "recreated" =>
    components[obj[t]] \in {view[t], None}
=============================================================================
