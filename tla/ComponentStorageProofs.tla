----------------------- MODULE ComponentStorageProofs -----------------------
(***************************************************************************)
(* Under the callers' discipline ComponentStorage never touches a freed    *)
(* entry, for any number of threads, objects, types and heap cells.        *)
(***************************************************************************)
EXTENDS ComponentStorage, TLAPS

(***************************************************************************)
(* The strengthening.  Who holds which lock is a matter of where threads   *)
(* are; and a thread between the lookup and its access has the entry the   *)
(* map has for its object.  Readers of the map lock keep RemoveAll out;    *)
(* a writer on the path for a new object holds no lock at all, and only    *)
(* the discipline keeps RemoveAll out for it.                              *)
(***************************************************************************)
InCall ==
  \A t \in Threads : at[t] # "idle" => call[t] \in Requests /\ Asks(t, call[t])

MapLock ==
  /\ writer # None => readers = {} /\ at[writer] \in {"drain", "erase"}
  /\ \A t \in Threads : at[t] \in {"drain", "erase"} => writer = t /\ call[t].op = "removeAll"
  /\ \A t \in readers : at[t] \in {"lock", "access"}
  /\ \A t \in Threads : at[t] \in {"lock", "access"} => call[t].op # "removeAll"
  /\ \A t \in Threads : at[t] = "create" => call[t].op \in {"write", "writeChecked"}
  /\ \A t \in Threads \ readers :
       at[t] \in {"lock", "access"} => call[t].op \in {"write", "writeChecked"}

OnEntry ==
  \A t \in Threads : at[t] \in {"lock", "access", "drain", "erase"} =>
    it[t] = store[call[t].obj] /\ it[t] # None

StorageInv == TypeOK /\ InCall /\ MapLock /\ OnEntry /\ EntriesOwned
-----------------------------------------------------------------------------
(* The fields of a request.                                                *)
LEMMA RequestFields ==
  ASSUME NEW r \in Requests
  PROVE  /\ r.obj \in Objects
         /\ r.op # "removeAll" => r.type \in Types
         /\ r.op \in {"write", "writeChecked"} => r.data \in Data
         /\ r.op \in {"read", "remove", "write", "writeChecked", "removeAll"}
  BY DEF Requests

(* Every action keeps the variables in their types.                        *)
LEMMA StorageTypeStep ==
  TypeOK /\ InCall /\ MapLock /\ OnEntry /\ [Next]_vars => TypeOK'
<1> SUFFICES ASSUME TypeOK, InCall, MapLock, OnEntry, [Next]_vars PROVE TypeOK'
  OBVIOUS
<1> USE DEF TypeOK
<1>1. ASSUME NEW t \in Threads, NEW r \in Requests, Invoke(t, r) PROVE TypeOK'
  BY <1>1 DEF Invoke, Places
<1>2. ASSUME NEW t \in Threads, Refuse(t) PROVE TypeOK'
  BY <1>2 DEF Refuse, Return, Places
<1>3. ASSUME NEW t \in Threads, FindShared(t) PROVE TypeOK'
  <2>1. store[call[t].obj] \in Entries \cup {None}
    BY <1>3, RequestFields DEF FindShared, InCall
  <2> QED
    BY <1>3, <2>1 DEF FindShared, Return, Places
<1>4. ASSUME NEW t \in Threads, NEW e \in Entries, CreateEntry(t, e) PROVE TypeOK'
  <2>1. call[t].obj \in Objects
    BY <1>4, RequestFields DEF CreateEntry, InCall
  <2>2. SlotOrNew(call[t].obj, e) \in Entries
    BY <2>1 DEF SlotOrNew
  <2>3. NoComponents \in [Types -> Data \cup {None}]
    BY DEF NoComponents
  <2> QED
    BY <1>4, <2>1, <2>2, <2>3 DEF CreateEntry, Places
<1>5. ASSUME NEW t \in Threads, LockEntry(t) PROVE TypeOK'
  BY <1>5 DEF LockEntry, Places
<1>6. ASSUME NEW t \in Threads, Access(t) PROVE TypeOK'
  <2>1. call[t] \in Requests /\ it[t] \in Entries /\ call[t].op # "removeAll"
    BY <1>6 DEF Access, InCall, OnEntry, MapLock
  <2>2. comps[it[t]] \in [Types -> Data \cup {None}]
    BY <2>1
  <2>3. Updated(call[t], comps[it[t]]) \in [Types -> Data \cup {None}]
    BY <2>1, <2>2, RequestFields DEF Updated
  <2>4. Answer(call[t], comps[it[t]]) \in Data \cup {"true", "false", "void", None}
    BY <2>1, <2>2, RequestFields DEF Answer, Flag
  <2> QED
    BY <1>6, <2>1, <2>3, <2>4 DEF Access, Return, Places
<1>7. ASSUME NEW t \in Threads, FindUnique(t) PROVE TypeOK'
  <2>1. store[call[t].obj] \in Entries \cup {None}
    BY <1>7, RequestFields DEF FindUnique, InCall
  <2> QED
    BY <1>7, <2>1 DEF FindUnique, Return, Places
<1>8. ASSUME NEW t \in Threads, Drain(t) PROVE TypeOK'
  BY <1>8 DEF Drain, Places
<1>9. ASSUME NEW t \in Threads, Erase(t) PROVE TypeOK'
  BY <1>9 DEF Erase, Return, Places
<1>10. CASE UNCHANGED vars
  BY <1>10 DEF vars
<1> QED
  BY <1>1, <1>2, <1>3, <1>4, <1>5, <1>6, <1>7, <1>8, <1>9, <1>10 DEF Next, Step

(* Every action preserves the invariant, given the discipline.             *)
LEMMA StorageInvStep ==
  ASSUME Discipline
  PROVE  StorageInv /\ [Next]_vars => StorageInv'
<1> SUFFICES ASSUME StorageInv, [Next]_vars PROVE StorageInv'
  OBVIOUS
<1>ty. TypeOK /\ TypeOK'
  BY StorageTypeStep DEF StorageInv
<1>inv. InCall /\ MapLock /\ OnEntry /\ EntriesOwned
  BY DEF StorageInv
<1>obj. \A t \in Threads : at[t] # "idle" => call[t].obj \in Objects
  BY <1>inv, RequestFields DEF InCall
<1> USE StorageAssumption
<1>1. ASSUME NEW s \in Threads, NEW r \in Requests, Invoke(s, r) PROVE StorageInv'
  <2>1. InCall'
    BY <1>1, <1>ty, <1>inv DEF Invoke, InCall, TypeOK
  <2>2. MapLock'
    BY <1>1, <1>ty, <1>inv DEF Invoke, MapLock, TypeOK
  <2>3. OnEntry'
    BY <1>1, <1>ty, <1>inv DEF Invoke, OnEntry, TypeOK
  <2>4. EntriesOwned'
    BY <1>1, <1>inv DEF Invoke, EntriesOwned
  <2> QED
    BY <1>ty, <2>1, <2>2, <2>3, <2>4 DEF StorageInv
<1>2. ASSUME NEW s \in Threads, Refuse(s) PROVE StorageInv'
  <2>1. InCall'
    BY <1>2, <1>ty, <1>inv DEF Refuse, Return, InCall, TypeOK
  <2>2. MapLock'
    BY <1>2, <1>ty, <1>inv DEF Refuse, Return, MapLock, TypeOK
  <2>3. OnEntry'
    BY <1>2, <1>ty, <1>inv DEF Refuse, Return, OnEntry, TypeOK
  <2>4. EntriesOwned'
    BY <1>2, <1>inv DEF Refuse, EntriesOwned
  <2> QED
    BY <1>ty, <2>1, <2>2, <2>3, <2>4 DEF StorageInv
<1>3. ASSUME NEW s \in Threads, FindShared(s) PROVE StorageInv'
  <2>1. InCall'
    BY <1>3, <1>ty, <1>inv DEF FindShared, Return, InCall, TypeOK
  <2>2. MapLock'
    BY <1>3, <1>ty, <1>inv, RequestFields DEF FindShared, Return, MapLock, InCall, TypeOK
  <2>3. OnEntry'
    BY <1>3, <1>ty, <1>inv DEF FindShared, Return, OnEntry, TypeOK
  <2>4. EntriesOwned'
    BY <1>3, <1>inv DEF FindShared, EntriesOwned
  <2> QED
    BY <1>ty, <2>1, <2>2, <2>3, <2>4 DEF StorageInv
<1>4. ASSUME NEW s \in Threads, NEW e \in Entries, CreateEntry(s, e) PROVE StorageInv'
  <2> DEFINE o == call[s].obj
             n == SlotOrNew(o, e)
  <2>1. o \in Objects /\ call' = call
    BY <1>4, <1>obj DEF CreateEntry
  <2>2. n # None /\ (store[o] # None => n = store[o]) /\ (store[o] = None => n = e)
    BY <1>4 DEF SlotOrNew
  <2>3. /\ store'[o] = n /\ \A p \in Objects : p # o => store'[p] = store[p]
        /\ \A p \in Objects : store[p] # None => store'[p] = store[p]
        /\ live' = live \cup {n}
    BY <1>4, <1>ty, <2>1, <2>2 DEF CreateEntry, TypeOK
  <2>4. InCall'
    BY <1>4, <1>ty, <1>inv DEF CreateEntry, InCall, TypeOK
  <2>5. MapLock'
    BY <1>4, <1>ty, <1>inv DEF CreateEntry, MapLock, TypeOK
  <2>6. OnEntry'
    <3> SUFFICES ASSUME NEW t \in Threads, at'[t] \in {"lock", "access", "drain", "erase"}
                 PROVE  it'[t] = store'[call[t].obj] /\ it'[t] # None
      BY <2>1 DEF OnEntry
    <3>1. CASE t = s
      BY <1>4, <1>ty, <2>2, <2>3, <3>1 DEF CreateEntry, TypeOK
    <3>2. CASE t # s
      <4>1. at'[t] = at[t] /\ it'[t] = it[t]
        BY <1>4, <1>ty, <3>2 DEF CreateEntry, TypeOK
      <4>2. it[t] = store[call[t].obj] /\ it[t] # None /\ call[t].obj \in Objects
        BY <1>inv, <1>obj, <4>1 DEF OnEntry
      <4> QED
        BY <2>3, <4>1, <4>2
    <3> QED
      BY <3>1, <3>2
  <2>7. EntriesOwned'
    <3>1. \A p \in Objects : store[p] # None => store[p] \in live
      BY <1>inv DEF EntriesOwned
    <3>2. e \notin live
      BY <1>4 DEF CreateEntry
    <3> HIDE DEF o, n
    <3>3. live' = {store'[p] : p \in Objects} \ {None}
      BY <1>inv, <2>1, <2>2, <2>3 DEF EntriesOwned
    <3>4. \A p, q \in Objects : store'[p] = store'[q] /\ store'[p] # None => p = q
      BY <1>inv, <2>1, <2>2, <2>3, <3>1, <3>2 DEF EntriesOwned
    <3> QED
      BY <3>3, <3>4 DEF EntriesOwned
  <2> QED
    BY <1>ty, <2>4, <2>5, <2>6, <2>7 DEF StorageInv
<1>5. ASSUME NEW s \in Threads, LockEntry(s) \/ Drain(s) PROVE StorageInv'
  <2>1. InCall'
    BY <1>5, <1>ty, <1>inv DEF LockEntry, Drain, InCall, TypeOK
  <2>2. MapLock'
    BY <1>5, <1>ty, <1>inv DEF LockEntry, Drain, MapLock, TypeOK
  <2>3. OnEntry'
    BY <1>5, <1>ty, <1>inv DEF LockEntry, Drain, OnEntry, TypeOK
  <2>4. EntriesOwned'
    BY <1>5, <1>inv DEF LockEntry, Drain, EntriesOwned
  <2> QED
    BY <1>ty, <2>1, <2>2, <2>3, <2>4 DEF StorageInv
<1>6. ASSUME NEW s \in Threads, Access(s) PROVE StorageInv'
  <2>1. InCall'
    BY <1>6, <1>ty, <1>inv DEF Access, Return, InCall, TypeOK
  <2>2. MapLock'
    BY <1>6, <1>ty, <1>inv DEF Access, Return, MapLock, TypeOK
  <2>3. OnEntry'
    BY <1>6, <1>ty, <1>inv DEF Access, Return, OnEntry, TypeOK
  <2>4. EntriesOwned'
    BY <1>6, <1>inv DEF Access, EntriesOwned
  <2> QED
    BY <1>ty, <2>1, <2>2, <2>3, <2>4 DEF StorageInv
<1>7. ASSUME NEW s \in Threads, FindUnique(s) PROVE StorageInv'
  <2>1. InCall'
    BY <1>7, <1>ty, <1>inv DEF FindUnique, Return, InCall, TypeOK
  <2>2. MapLock'
    <3>1. /\ writer = None /\ readers' = {} /\ readers = {} /\ call[s].op = "removeAll"
          /\ \A t \in Threads : t # s => at'[t] = at[t] /\ call'[t] = call[t]
      BY <1>7, <1>ty DEF FindUnique, Return, TypeOK
    <3>2. \A t \in Threads : at[t] \notin {"drain", "erase"}
      BY <1>inv, <3>1 DEF MapLock
    <3>3. CASE at'[s] = "idle" /\ writer' = None
      BY <1>inv, <3>1, <3>2, <3>3 DEF MapLock
    <3>4. CASE at'[s] = "drain" /\ writer' = s /\ call' = call
      BY <1>inv, <3>1, <3>2, <3>4 DEF MapLock
    <3>5. \/ at'[s] = "idle" /\ writer' = None
          \/ at'[s] = "drain" /\ writer' = s /\ call' = call
      BY <1>7, <1>ty DEF FindUnique, Return, TypeOK
    <3> QED
      BY <3>3, <3>4, <3>5
  <2>3. OnEntry'
    BY <1>7, <1>ty, <1>inv DEF FindUnique, Return, OnEntry, TypeOK
  <2>4. EntriesOwned'
    BY <1>7, <1>inv DEF FindUnique, EntriesOwned
  <2> QED
    BY <1>ty, <2>1, <2>2, <2>3, <2>4 DEF StorageInv
<1>8. ASSUME NEW s \in Threads, Erase(s) PROVE StorageInv'
  <2> DEFINE o == call[s].obj
  <2>1. /\ o \in Objects /\ it[s] = store[o] /\ store[o] # None
        /\ writer = s /\ readers = {} /\ call[s].op = "removeAll"
    BY <1>8, <1>inv, <1>obj DEF Erase, OnEntry, MapLock
  <2>2. /\ store'[o] = None /\ \A p \in Objects : p # o => store'[p] = store[p]
        /\ live' = live \ {store[o]}
    BY <1>8, <1>ty, <2>1 DEF Erase, TypeOK
  <2>3. InCall'
    BY <1>8, <1>ty, <1>inv DEF Erase, Return, InCall, TypeOK
  <2>4. MapLock'
    <3>1. /\ writer' = None /\ readers' = {} /\ at'[s] = "idle"
          /\ \A t \in Threads : t # s => at'[t] = at[t] /\ call'[t] = call[t]
      BY <1>8, <1>ty, <2>1 DEF Erase, Return, TypeOK
    <3>2. \A t \in Threads : at[t] \in {"drain", "erase"} => t = s
      BY <1>inv, <2>1 DEF MapLock
    <3> QED
      BY <1>inv, <2>1, <3>1, <3>2 DEF MapLock
  <2>5. OnEntry'
    <3> SUFFICES ASSUME NEW t \in Threads, at'[t] \in {"lock", "access", "drain", "erase"}
                 PROVE  it'[t] = store'[call'[t].obj] /\ it'[t] # None
      BY DEF OnEntry
    <3>1. t # s /\ at'[t] = at[t] /\ it'[t] = it[t] /\ call'[t] = call[t]
      BY <1>8, <1>ty DEF Erase, Return, TypeOK
    <3>2. it[t] = store[call[t].obj] /\ it[t] # None /\ call[t].obj \in Objects
      BY <1>inv, <1>obj, <3>1 DEF OnEntry
    <3>3. call[t].op \in {"write", "writeChecked"}
      BY <1>inv, <2>1, <3>1 DEF MapLock
    <3>4. <<t, call[t].obj>> \in MayWrite /\ <<s, o>> \in MayDestroy
      BY <1>8, <1>inv, <2>1, <3>1, <3>3 DEF InCall, Asks, Erase
    <3>5. call[t].obj # o
      BY <2>1, <3>1, <3>2, <3>4 DEF Discipline
    <3> QED
      BY <2>2, <3>1, <3>2, <3>5
  <2>6. EntriesOwned'
    <3> HIDE DEF o
    <3>1. live' = {store'[p] : p \in Objects} \ {None}
      BY <1>inv, <2>1, <2>2 DEF EntriesOwned
    <3>2. \A p, q \in Objects : store'[p] = store'[q] /\ store'[p] # None => p = q
      BY <1>inv, <2>1, <2>2 DEF EntriesOwned
    <3> QED
      BY <3>1, <3>2 DEF EntriesOwned
  <2> QED
    BY <1>ty, <2>3, <2>4, <2>5, <2>6 DEF StorageInv
<1>9. CASE UNCHANGED vars
  BY <1>9, <1>ty, <1>inv DEF vars, StorageInv, InCall, MapLock, OnEntry, EntriesOwned
<1> QED
  BY <1>1, <1>2, <1>3, <1>4, <1>5, <1>6, <1>7, <1>8, <1>9 DEF Next, Step

(* The invariant holds initially.                                          *)
LEMMA StorageInvInit == Init => StorageInv
<1> SUFFICES ASSUME Init PROVE StorageInv
  OBVIOUS
<1>1. TypeOK
  BY DEF Init, TypeOK, NoComponents, Places
<1>2. InCall /\ MapLock /\ OnEntry
  BY DEF Init, InCall, MapLock, OnEntry
<1>3. EntriesOwned
  BY DEF Init, EntriesOwned
<1> QED
  BY <1>1, <1>2, <1>3 DEF StorageInv
-----------------------------------------------------------------------------
(* Given the discipline, no Read, Write, Remove or RemoveAll reaches an    *)
(* entry that was freed, the new-object path of Write included, and the    *)
(* map and the heap agree.                                                 *)
THEOREM StorageSafe ==
  ASSUME Discipline
  PROVE  Spec => [](TypeOK /\ NoUseAfterFree /\ EntriesOwned)
<1>1. Init => StorageInv
  BY StorageInvInit
<1>2. StorageInv /\ [Next]_vars => StorageInv'
  BY StorageInvStep
<1>3. ASSUME StorageInv PROVE TypeOK /\ NoUseAfterFree /\ EntriesOwned
  <2>1. TypeOK /\ OnEntry /\ EntriesOwned /\ InCall
    BY <1>3 DEF StorageInv
  <2>2. ASSUME NEW t \in Threads, at[t] \in {"lock", "access", "drain", "erase"}
        PROVE  it[t] \in live
    BY <2>1, <2>2, RequestFields DEF OnEntry, EntriesOwned, InCall
  <2> QED
    BY <2>1, <2>2 DEF NoUseAfterFree
<1> QED
  BY <1>1, <1>2, <1>3, PTL DEF Spec

(* The map and the heap agree: the entries in the map of component_storage *)
(* .cpp are alive and nobody's but their object's, and nothing leaks.      *)
THEOREM EntriesAlwaysOwned ==
  ASSUME Discipline
  PROVE  Spec => []EntriesOwned
BY StorageSafe, PTL
-----------------------------------------------------------------------------
(***************************************************************************)
(* Linearizability.  A call takes effect where its answer is made: in      *)
(* Refuse, in a lookup that finds nothing, in Access and in Erase.  All    *)
(* other steps leave the table as it is, CreateEntry too: a new entry has  *)
(* no components.  Besides the invariant above the argument needs that a   *)
(* thread at rest is in no call, and that data past the check fits.        *)
(***************************************************************************)
CallChecked ==
  \A t \in Threads :
    /\ at[t] = "idle" => call[t] = None
    /\ at[t] \notin {"idle", "find"} /\ call[t].op = "writeChecked" => call[t].data \in Fitting

(* Every action preserves it.                                              *)
LEMMA CallCheckedStep == TypeOK /\ CallChecked /\ [Next]_vars => CallChecked'
<1> SUFFICES ASSUME TypeOK, CallChecked, [Next]_vars PROVE CallChecked'
  OBVIOUS
<1> USE DEF TypeOK, CallChecked
<1>1. ASSUME NEW s \in Threads, NEW r \in Requests, Invoke(s, r) PROVE CallChecked'
  BY <1>1 DEF Invoke
<1>2. ASSUME NEW s \in Threads, Refuse(s) \/ Access(s) \/ Erase(s) PROVE CallChecked'
  BY <1>2 DEF Refuse, Access, Erase, Return
<1>3. ASSUME NEW s \in Threads, FindShared(s) PROVE CallChecked'
  BY <1>3 DEF FindShared, Return
<1>4. ASSUME NEW s \in Threads, NEW e \in Entries, CreateEntry(s, e) PROVE CallChecked'
  BY <1>4 DEF CreateEntry
<1>5. ASSUME NEW s \in Threads, LockEntry(s) \/ Drain(s) PROVE CallChecked'
  BY <1>5 DEF LockEntry, Drain
<1>6. ASSUME NEW s \in Threads, FindUnique(s) PROVE CallChecked'
  BY <1>6 DEF FindUnique, Return
<1>7. CASE UNCHANGED vars
  BY <1>7 DEF vars
<1> QED
  BY <1>1, <1>2, <1>3, <1>4, <1>5, <1>6, <1>7 DEF Next, Step

(* The row of the table that an object has.                                *)
LEMMA TableRows ==
  /\ Table = [o \in Objects |-> Table[o]]
  /\ \A o \in Objects : Table[o] = IF store[o] = None THEN NoComponents ELSE comps[store[o]]
BY DEF Table

(* A step that changes neither the map nor the components of an entry in   *)
(* the map leaves the table alone.                                         *)
LEMMA TableUnchanged ==
  ASSUME store' = store, comps' = comps
  PROVE  Table' = Table
BY DEF Table

(* Every step is a step of ComponentStore on the table, or none.           *)
LEMMA StepIsAtomic ==
  StorageInv /\ CallChecked /\ [Next]_vars => [Atomic!Next]_Atomic!vars
<1> SUFFICES ASSUME StorageInv, CallChecked, [Next]_vars PROVE [Atomic!Next]_Atomic!vars
  OBVIOUS
<1>inv. TypeOK /\ InCall /\ MapLock /\ OnEntry /\ EntriesOwned
  BY DEF StorageInv
<1>call. ASSUME NEW t \in Threads, at[t] # "idle"
         PROVE  call[t] \in Requests /\ call[t] # None /\ call[t].obj \in Objects
  BY <1>inv, <1>call, RequestFields, RequestAssumption DEF InCall
<1>stutter. UNCHANGED <<Table, call, result>> => [Atomic!Next]_Atomic!vars
  BY DEF Atomic!vars
<1>perform. ASSUME NEW t \in Threads, Atomic!Perform(t) PROVE Atomic!Next
  BY <1>perform DEF Atomic!Next
<1> USE StorageAssumption
<1>1. ASSUME NEW s \in Threads, NEW r \in Requests, Invoke(s, r) PROVE Atomic!Next
  <2>1. call[s] = None /\ Table' = Table
    BY <1>1, TableUnchanged DEF Invoke, CallChecked
  <2>2. Atomic!Invoke(s, r)
    BY <1>1, <2>1 DEF Invoke, Atomic!Invoke
  <2>3. r \in Atomic!Requests
    BY DEF Requests, Atomic!Requests
  <2> QED
    BY <2>2, <2>3 DEF Atomic!Next
<1>2. ASSUME NEW s \in Threads, Refuse(s) PROVE Atomic!Perform(s)
  <2>1. Table' = Table /\ call[s] # None
    BY <1>2, <1>call, TableUnchanged DEF Refuse
  <2>2. Atomic!Answer(call[s]) = "false" /\ Atomic!After(call[s]) = Table
    BY <1>2 DEF Refuse, Atomic!Answer, Atomic!After, Atomic!Flag
  <2> QED
    BY <1>2, <2>1, <2>2 DEF Refuse, Return, Atomic!Perform
<1>3. ASSUME NEW s \in Threads, FindShared(s) PROVE [Atomic!Next]_Atomic!vars
  <2>1. Table' = Table /\ call[s] # None /\ call[s].obj \in Objects /\ call[s] \in Requests
    BY <1>3, <1>call, TableUnchanged DEF FindShared
  <2>2. CASE UNCHANGED <<call, result>>
    BY <2>1, <2>2, <1>stutter
  <2>3. ASSUME store[call[s].obj] = None, call[s].op \in {"read", "remove"},
               Return(s, IF call[s].op = "read" THEN None ELSE "false")
        PROVE  Atomic!Perform(s)
    <3>1. Table[call[s].obj] = NoComponents /\ call[s].type \in Types
      BY <2>1, <2>3, TableRows, RequestFields
    <3>2. Table[call[s].obj][call[s].type] = None
      BY <3>1 DEF NoComponents
    <3>3. Atomic!Answer(call[s]) = IF call[s].op = "read" THEN None ELSE "false"
      BY <2>3, <3>2 DEF Atomic!Answer, Atomic!Flag
    <3>4. Atomic!After(call[s]) = Table
      <4>1. [NoComponents EXCEPT ![call[s].type] = None] = NoComponents
        BY <3>1 DEF NoComponents
      <4>2. [Table EXCEPT ![call[s].obj][call[s].type] = None] = Table
        BY <2>1, <3>1, <4>1, TableRows
      <4> QED
        BY <2>3, <4>2 DEF Atomic!After
    <3> QED
      BY <2>1, <2>3, <3>3, <3>4 DEF Return, Atomic!Perform
  <2> QED
    BY <1>3, <1>perform, <2>2, <2>3 DEF FindShared
<1>4. ASSUME NEW s \in Threads, NEW e \in Entries, CreateEntry(s, e)
      PROVE  UNCHANGED <<Table, call, result>>
  <2>1. call[s].obj \in Objects
    BY <1>4, <1>call DEF CreateEntry
  <2>2. ASSUME NEW p \in Objects PROVE Table'[p] = Table[p]
    <3>1. store[p] # None => store[p] # e
      BY <1>4, <1>inv DEF CreateEntry, EntriesOwned
    <3>2. CASE store[p] # None
      <4>1. store'[p] = store[p] /\ store[p] \in Entries
        BY <1>4, <1>inv, <2>1, <3>2 DEF CreateEntry, SlotOrNew, TypeOK
      <4>2. comps'[store[p]] = comps[store[p]]
        BY <1>4, <1>inv, <3>1, <3>2, <4>1 DEF CreateEntry, TypeOK
      <4> QED
        BY <3>2, <4>1, <4>2 DEF Table
    <3>3. CASE store[p] = None /\ p = call[s].obj
      <4>1. store'[p] = e /\ comps'[e] = NoComponents
        BY <1>4, <1>inv, <2>1, <3>3 DEF CreateEntry, SlotOrNew, TypeOK
      <4> QED
        BY <3>3, <4>1 DEF Table
    <3>4. CASE store[p] = None /\ p # call[s].obj
      <4>1. store'[p] = None
        BY <1>4, <1>inv, <2>1, <3>4 DEF CreateEntry, TypeOK
      <4> QED
        BY <3>4, <4>1 DEF Table
    <3> QED
      BY <3>2, <3>3, <3>4
  <2> QED
    BY <1>4, <2>2 DEF CreateEntry, Table
<1>5. ASSUME NEW s \in Threads, LockEntry(s) \/ Drain(s)
      PROVE  UNCHANGED <<Table, call, result>>
  BY <1>5, TableUnchanged DEF LockEntry, Drain
<1>6. ASSUME NEW s \in Threads, Access(s) PROVE Atomic!Perform(s)
  <2> DEFINE r == call[s]
             c == comps[it[s]]
  <2>1. /\ r \in Requests /\ r # None /\ r.obj \in Objects /\ r.op # "removeAll"
        /\ it[s] = store[r.obj] /\ it[s] # None /\ it[s] \in Entries
    BY <1>6, <1>call, <1>inv DEF Access, OnEntry, MapLock, TypeOK
  <2>2. /\ r.type \in Types /\ r.op \in {"read", "remove", "write", "writeChecked"}
        /\ r.op = "writeChecked" => r.data \in Fitting
    BY <1>6, <2>1, RequestFields DEF Access, CallChecked
  <2>3. Table[r.obj] = c
    BY <2>1, TableRows
  <2>4. /\ Table'[r.obj] = Updated(r, c)
        /\ \A p \in Objects : p # r.obj => Table'[p] = Table[p]
    <3>1. store' = store /\ comps' = [comps EXCEPT ![it[s]] = Updated(r, c)]
      BY <1>6 DEF Access
    <3>2. comps'[it[s]] = Updated(r, c) /\ \A e \in Entries : e # it[s] => comps'[e] = comps[e]
      BY <1>inv, <2>1, <3>1 DEF TypeOK
    <3>3. \A p \in Objects : p # r.obj /\ store[p] # None =>
            store[p] # it[s] /\ store[p] \in Entries
      BY <1>inv, <2>1 DEF EntriesOwned, TypeOK
    <3> QED
      BY <2>1, <3>1, <3>2, <3>3 DEF Table
  <2>5. Table' = [Table EXCEPT ![r.obj] = Updated(r, c)]
    BY <2>1, <2>4, TableRows DEF Table
  <2>6. Atomic!Answer(r) = Answer(r, c)
    BY <2>2, <2>3 DEF Atomic!Answer, Atomic!Flag, Answer, Flag
  <2>7. Atomic!After(r) = Table'
    <3>1. CASE r.op = "read"
      BY <2>1, <2>3, <2>5, <3>1, TableRows DEF Atomic!After, Updated
    <3>2. CASE r.op = "remove"
      BY <2>1, <2>3, <2>5, <3>2 DEF Atomic!After, Updated
    <3>3. CASE r.op \in {"write", "writeChecked"}
      BY <2>1, <2>2, <2>3, <2>5, <3>3 DEF Atomic!After, Updated
    <3> QED
      BY <2>2, <3>1, <3>2, <3>3
  <2> QED
    BY <1>6, <2>1, <2>6, <2>7 DEF Access, Return, Atomic!Perform
<1>7. ASSUME NEW s \in Threads, FindUnique(s) PROVE [Atomic!Next]_Atomic!vars
  <2>1. Table' = Table /\ call[s] # None /\ call[s].obj \in Objects /\ call[s].op = "removeAll"
    BY <1>7, <1>call, TableUnchanged DEF FindUnique
  <2>2. CASE UNCHANGED <<call, result>>
    BY <2>1, <2>2, <1>stutter
  <2>3. ASSUME store[call[s].obj] = None, Return(s, "void") PROVE Atomic!Perform(s)
    <3>1. Table[call[s].obj] = NoComponents
      BY <2>1, <2>3, TableRows
    <3>2. Atomic!After(call[s]) = Table
      BY <2>1, <3>1, TableRows DEF Atomic!After, NoComponents
    <3>3. Atomic!Answer(call[s]) = "void"
      BY <2>1 DEF Atomic!Answer
    <3> QED
      BY <2>1, <2>3, <3>2, <3>3 DEF Return, Atomic!Perform
  <2> QED
    BY <1>7, <1>perform, <2>2, <2>3 DEF FindUnique
<1>8. ASSUME NEW s \in Threads, Erase(s) PROVE Atomic!Perform(s)
  <2>1. /\ call[s] # None /\ call[s].obj \in Objects /\ call[s].op = "removeAll"
        /\ store' = [store EXCEPT ![call[s].obj] = None] /\ comps' = comps
    BY <1>8, <1>call, <1>inv DEF Erase, MapLock
  <2>2. /\ Table'[call[s].obj] = NoComponents
        /\ \A p \in Objects : p # call[s].obj => Table'[p] = Table[p]
    BY <1>inv, <2>1 DEF TypeOK, Table
  <2>3. Table' = [Table EXCEPT ![call[s].obj] = NoComponents]
    <3>1. Table' = [p \in Objects |-> Table'[p]]
      BY DEF Table
    <3> QED
      BY <2>1, <2>2, <3>1, TableRows
  <2>4. Atomic!After(call[s]) = Table' /\ Atomic!Answer(call[s]) = "void"
    BY <2>1, <2>3 DEF Atomic!After, Atomic!Answer, NoComponents
  <2> QED
    BY <1>8, <2>1, <2>4 DEF Erase, Return, Atomic!Perform
<1>9. CASE UNCHANGED vars
  BY <1>9, <1>stutter, TableUnchanged DEF vars
<1> QED
  BY <1>1, <1>2, <1>3, <1>4, <1>5, <1>6, <1>7, <1>8, <1>9, <1>perform, <1>stutter
     DEF Next, Step

(* ComponentStorage implements ComponentStore: with any threads, objects   *)
(* and entries every Read, Write, Remove and RemoveAll of                  *)
(* component_storage.cpp takes effect at one instant, under the callers'   *)
(* discipline.                                                             *)
THEOREM CallsLinearizable ==
  ASSUME Discipline
  PROVE  Spec => Linearizable
<1>1. Init => StorageInv /\ CallChecked
  BY StorageInvInit DEF Init, CallChecked
<1>2. Init => Atomic!Init
  BY DEF Init, Atomic!Init, Table, NoComponents
<1>3. StorageInv /\ CallChecked /\ [Next]_vars => (StorageInv /\ CallChecked)'
  BY StorageInvStep, CallCheckedStep DEF StorageInv
<1> QED
  BY <1>1, <1>2, <1>3, StepIsAtomic, PTL DEF Spec, Linearizable, Atomic!Spec
=============================================================================
