-------------------------- MODULE ComponentStorage --------------------------
(***************************************************************************)
(* ComponentStorage (src/src/core/component_storage.cpp) at the grain of   *)
(* its locks: map_mutex_ guards the map from object to entry, and the      *)
(* mutex of an entry guards the components in it.  Entries are heap cells: *)
(* RemoveAll frees one, a later Write may get the same cell again.         *)
(*                                                                         *)
(* An action is what a thread does from one blocking lock operation to the *)
(* next.  Write's path for a new object (CreateEntry) lets go of the map   *)
(* lock before it locks the entry; every other path keeps it.              *)
(***************************************************************************)
CONSTANTS Threads,
          Objects,     \* object ids
          Types,       \* component types
          Data,        \* component bytes
          Fitting,     \* the data whose size is the schema's total_size
          Entries,     \* addresses an ObjectComponents may have
          None,
          MayWrite,    \* <<t, o>>: thread t writes components of object o
          MayDestroy   \* <<t, o>>: thread t calls RemoveAll on object o

ASSUME StorageAssumption ==
  /\ None \notin Entries
  /\ None \notin Threads
  /\ Fitting \subseteq Data

VARIABLES store,       \* store_
          live,        \* entries that are allocated
          comps,       \* components of an entry
          readers,     \* threads that hold map_mutex_ shared
          writer,      \* thread that holds it exclusively
          holder,      \* thread that holds an entry's mutex
          call,        \* the call a thread is in
          at,          \* where it is
          it,          \* the entry its iterator leads to
          result       \* what its last call returned

vars == <<store, live, comps, readers, writer, holder, call, at, it, result>>

Flag(b) == IF b THEN "true" ELSE "false"

Requests ==
  [op : {"read", "remove"}, obj : Objects, type : Types]
    \cup [op : {"write", "writeChecked"}, obj : Objects, type : Types, data : Data]
    \cup [op : {"removeAll"}, obj : Objects]

ASSUME RequestAssumption == None \notin Requests

\* The requests a thread makes.
Asks(t, r) ==
  /\ r.op \in {"write", "writeChecked", "remove"} => <<t, r.obj>> \in MayWrite
  /\ r.op = "removeAll" => <<t, r.obj>> \in MayDestroy

NoComponents == [y \in Types |-> None]
Places == {"idle", "find", "create", "lock", "access", "drain", "erase"}

TypeOK ==
  /\ store   \in [Objects -> Entries \cup {None}]
  /\ live    \in SUBSET Entries
  /\ comps   \in [Entries -> [Types -> Data \cup {None}]]
  /\ readers \in SUBSET Threads
  /\ writer  \in Threads \cup {None}
  /\ holder  \in [Entries -> Threads \cup {None}]
  /\ call    \in [Threads -> Requests \cup {None}]
  /\ at      \in [Threads -> Places]
  /\ it      \in [Threads -> Entries \cup {None}]
  /\ result  \in [Threads -> Data \cup {"true", "false", "void", None}]

Init ==
  /\ store   = [o \in Objects |-> None]
  /\ live    = {}
  /\ comps   = [e \in Entries |-> NoComponents]
  /\ readers = {}
  /\ writer  = None
  /\ holder  = [e \in Entries |-> None]
  /\ call    = [t \in Threads |-> None]
  /\ at      = [t \in Threads |-> "idle"]
  /\ it      = [t \in Threads |-> None]
  /\ result  = [t \in Threads |-> None]
-----------------------------------------------------------------------------
\* A thread makes a call; nothing is locked yet.
Invoke(t, r) ==
  /\ at[t] = "idle"
  /\ Asks(t, r)
  /\ call'   = [call EXCEPT ![t] = r]
  /\ result' = [result EXCEPT ![t] = None]
  /\ at'     = [at EXCEPT ![t] = "find"]
  /\ UNCHANGED <<store, live, comps, readers, writer, holder, it>>

\* The call returns v.
Return(t, v) ==
  /\ call'   = [call EXCEPT ![t] = None]
  /\ result' = [result EXCEPT ![t] = v]
  /\ at'     = [at EXCEPT ![t] = "idle"]
  /\ it'     = [it EXCEPT ![t] = None]

\* Write with a schema refuses data of the wrong size before it locks.
Refuse(t) ==
  /\ at[t] = "find"
  /\ call[t].op = "writeChecked" /\ call[t].data \notin Fitting
  /\ Return(t, "false")
  /\ UNCHANGED <<store, live, comps, readers, writer, holder>>

\* Read, Write and Remove lock the map shared and look the object up.
FindShared(t) ==
  LET r == call[t] IN
  /\ at[t] = "find"
  /\ r.op # "removeAll"
  /\ r.op = "writeChecked" => r.data \in Fitting
  /\ writer = None
  /\ \/ /\ store[r.obj] # None
        /\ readers' = readers \cup {t}
        /\ it' = [it EXCEPT ![t] = store[r.obj]]
        /\ at' = [at EXCEPT ![t] = "lock"]
        /\ UNCHANGED <<call, result>>
     \/ /\ store[r.obj] = None
        /\ r.op \in {"write", "writeChecked"}
        /\ at' = [at EXCEPT ![t] = "create"]
        /\ UNCHANGED <<readers, it, call, result>>
     \/ /\ store[r.obj] = None
        /\ r.op \in {"read", "remove"}
        /\ Return(t, IF r.op = "read" THEN None ELSE "false")
        /\ UNCHANGED readers
  /\ UNCHANGED <<store, live, comps, writer, holder>>

\* Mutant: the slot is overwritten without looking whether it is taken.
SlotFor(o, e) == e

\* store_[object_id] under the unique lock: an entry another thread put there
\* since the lookup is kept.
SlotOrNew(o, e) == IF store[o] = None THEN e ELSE store[o]

\* Write's path for a missing object, from the unique lock to its release.
CreateEntry(t, e) ==
  LET o == call[t].obj IN
  /\ at[t] = "create"
  /\ writer = None /\ readers = {}
  /\ e \notin live
  /\ store' = [store EXCEPT ![o] = SlotOrNew(o, e)]
  /\ live'  = live \cup {SlotOrNew(o, e)}
  /\ comps' = IF SlotOrNew(o, e) = e THEN [comps EXCEPT ![e] = NoComponents] ELSE comps
  /\ it'    = [it EXCEPT ![t] = SlotOrNew(o, e)]
  /\ at'    = [at EXCEPT ![t] = "lock"]
  /\ UNCHANGED <<readers, writer, holder, call, result>>

\* obj_lock(it->second->mutex).
LockEntry(t) ==
  /\ at[t] = "lock"
  /\ holder[it[t]] = None
  /\ holder' = [holder EXCEPT ![it[t]] = t]
  /\ at'     = [at EXCEPT ![t] = "access"]
  /\ UNCHANGED <<store, live, comps, readers, writer, call, it, result>>

\* What the call does to the entry's components.
Updated(r, c) ==
  CASE r.op = "read"   -> c
    [] r.op = "remove" -> [c EXCEPT ![r.type] = None]
    [] OTHER           -> [c EXCEPT ![r.type] = r.data]

\* What it returns or hands to the callback.
Answer(r, c) ==
  CASE r.op = "read"         -> c[r.type]
    [] r.op = "remove"       -> Flag(c[r.type] # None)
    [] r.op = "writeChecked" -> "true"
    [] OTHER                 -> "void"

\* The callback, the assignment or the erase; then both locks are released.
Access(t) ==
  LET e == it[t] IN
  /\ at[t] = "access"
  /\ comps'   = [comps EXCEPT ![e] = Updated(call[t], @)]
  /\ Return(t, Answer(call[t], comps[e]))
  /\ holder'  = [holder EXCEPT ![e] = None]
  /\ readers' = readers \ {t}
  /\ UNCHANGED <<store, live, writer>>

\* Mutant: RemoveAll locks the map like a reader.
FindNotUnique(t) ==
  LET o == call[t].obj IN
  /\ at[t] = "find"
  /\ call[t].op = "removeAll"
  /\ writer = None
  /\ IF store[o] = None
     THEN Return(t, "void") /\ UNCHANGED writer
     ELSE /\ writer' = t
          /\ it' = [it EXCEPT ![t] = store[o]]
          /\ at' = [at EXCEPT ![t] = "drain"]
          /\ UNCHANGED <<call, result>>
  /\ UNCHANGED <<store, live, comps, readers, holder>>

\* RemoveAll locks the map exclusively; an unknown object ends the call.
FindUnique(t) ==
  LET o == call[t].obj IN
  /\ at[t] = "find"
  /\ call[t].op = "removeAll"
  /\ writer = None /\ readers = {}
  /\ IF store[o] = None
     THEN Return(t, "void") /\ UNCHANGED writer
     ELSE /\ writer' = t
          /\ it' = [it EXCEPT ![t] = store[o]]
          /\ at' = [at EXCEPT ![t] = "drain"]
          /\ UNCHANGED <<call, result>>
  /\ UNCHANGED <<store, live, comps, readers, holder>>

\* RemoveAll locks and unlocks the entry.
Drain(t) ==
  /\ at[t] = "drain"
  /\ holder[it[t]] = None
  /\ at' = [at EXCEPT ![t] = "erase"]
  /\ UNCHANGED <<store, live, comps, readers, writer, holder, call, it, result>>

\* Mutant: the entry is freed but its map node stays.
EraseEntryOnly(t) ==
  /\ at[t] = "erase"
  /\ live'   = live \ {it[t]}
  /\ writer' = None
  /\ Return(t, "void")
  /\ UNCHANGED <<store, comps, readers, holder>>

\* store_.erase(it) frees the entry; the map lock is released.
Erase(t) ==
  /\ at[t] = "erase"
  /\ store'  = [store EXCEPT ![call[t].obj] = None]
  /\ live'   = live \ {it[t]}
  /\ writer' = None
  /\ Return(t, "void")
  /\ UNCHANGED <<comps, readers, holder>>

Step(t) ==
  \/ Refuse(t) \/ FindShared(t) \/ LockEntry(t) \/ Access(t)
  \/ FindUnique(t) \/ Drain(t) \/ Erase(t)
  \/ \E e \in Entries : CreateEntry(t, e)

Next == \E t \in Threads : Step(t) \/ \E r \in Requests : Invoke(t, r)

Spec == Init /\ [][Next]_vars
-----------------------------------------------------------------------------
(***************************************************************************)
(* The callers' discipline under which the storage is correct: whoever     *)
(* destroys an object's components is the only one who writes them.  Reads *)
(* come from anywhere.                                                     *)
(***************************************************************************)
Discipline ==
  \A s, t \in Threads, o \in Objects :
    <<s, o>> \in MayDestroy /\ <<t, o>> \in MayWrite \cup MayDestroy => s = t

(***************************************************************************)
(* "Synchronize with any thread currently operating on this object's       *)
(* components before erasing the object" (component_storage.cpp:61): a     *)
(* thread on its way to an entry, or in it, has an entry that is alive.    *)
(***************************************************************************)
NoUseAfterFree ==
  \A t \in Threads : at[t] \in {"lock", "access", "drain", "erase"} => it[t] \in live

(***************************************************************************)
(* The entries in the map are alive, no two objects share one, and an      *)
(* entry outside the map has been freed: nothing dangles, nothing leaks.   *)
(***************************************************************************)
EntriesOwned ==
  /\ live = {store[o] : o \in Objects} \ {None}
  /\ \A o, p \in Objects : store[o] = store[p] /\ store[o] # None => o = p

(***************************************************************************)
(* Every call is linearizable: the table the map and its entries make up   *)
(* changes, and each call answers, as in ComponentStore.                   *)
(***************************************************************************)
Table == [o \in Objects |-> IF store[o] = None THEN NoComponents ELSE comps[store[o]]]

Atomic == INSTANCE ComponentStore WITH value <- Table

Linearizable == Atomic!Spec
=============================================================================
