------------------------ MODULE ObjectRegistryProofs ------------------------
(***************************************************************************)
(* The registry keeps data and headers together for objects with a single  *)
(* owner, leaves nothing behind of them after Destroy, and lets any        *)
(* migration have the header of its object to itself, for any number of    *)
(* threads, objects and versions.                                          *)
(***************************************************************************)
EXTENDS ObjectRegistry, TLAPS

(***************************************************************************)
(* The strengthening.  A call works on an object of its thread; the        *)
(* mutexes keep two migrations apart and a migrated object in the map; and *)
(* what a view shows or Execute read is still true when it is used, if     *)
(* nobody else works on the object or passes its id.                       *)
(***************************************************************************)
InCall ==
  \A t \in Threads : at[t] # "idle" => obj[t] \in Objects /\ Works(t, obj[t])

OneMigration ==
  \A s, t \in Threads : at[s] = "migrate" /\ at[t] = "migrate" /\ obj[s] = obj[t] => s = t

MigratedExists == \A t \in Threads : at[t] = "migrate" => objects[obj[t]] # None

ViewsFresh ==
  \A t \in Threads : at[t] \in {"execute", "apply"} /\ SingleOwner(obj[t]) =>
    objects[obj[t]] # None /\ view[t] = objects[obj[t]]

ReadsFresh ==
  \A t \in Threads : at[t] = "apply" /\ SingleOwner(obj[t]) /\ read[t] # None =>
    components[obj[t]] = read[t]

RegistryInv ==
  /\ TypeOK
  /\ InCall /\ OneMigration /\ MigratedExists /\ ViewsFresh /\ ReadsFresh
  /\ ShapeMatchesHeader /\ NoOrphans
-----------------------------------------------------------------------------
(* A migration moves through the versions one by one and stays inside.     *)
LEMMA NextVersionType ==
  ASSUME NEW cur \in Versions, NEW goal \in Versions, cur # goal
  PROVE  NextVersion(cur, goal) \in Versions
  BY RegistryAssumption DEF NextVersion, Versions

(* The shapes of data are not the null value.                              *)
LEMMA NoneIsNoShape == None \notin Shapes /\ None \notin Versions /\ Versions \subseteq Shapes
  BY RegistryAssumption DEF Shapes, Versions, Garbled

(* The state before the first call.                                        *)
LEMMA RegistryInitInv == Init => RegistryInv
<1> SUFFICES ASSUME Init PROVE RegistryInv
  OBVIOUS
<1>1. TypeOK
  <2>1. 1 \in Versions
    BY RegistryAssumption DEF Versions
  <2> QED
    BY <2>1 DEF Init, TypeOK, Places
<1>2. \A t \in Threads : at[t] = "idle"
  BY DEF Init
<1>3. \A o \in Objects : components[o] = None
  BY DEF Init
<1> QED
  BY <1>1, <1>2, <1>3 DEF RegistryInv, InCall, OneMigration, MigratedExists, ViewsFresh,
     ReadsFresh, ShapeMatchesHeader, NoOrphans

(* Every action keeps the variables in their types.                        *)
LEMMA RegistryTypeStep == TypeOK /\ InCall /\ [Next]_vars => TypeOK'
<1> SUFFICES ASSUME TypeOK, InCall, [Next]_vars PROVE TypeOK'
  OBVIOUS
<1> USE DEF TypeOK, Places
<1>0. 1 \in Versions
  BY RegistryAssumption DEF Versions
<1>1. CASE UNCHANGED vars
  BY <1>1 DEF vars
<1> SUFFICES ASSUME Step, UNCHANGED deployment PROVE TypeOK'
  BY <1>1 DEF Next
<1>2. ASSUME NEW t \in Threads, RemoveAll(t) PROVE TypeOK'
  BY <1>0, <1>2 DEF RemoveAll, Done
<1>3. ASSUME NEW t \in Threads, NEW p \in Objects, Execute(t, p) PROVE TypeOK'
  BY <1>3 DEF Execute, HostGetComponent
<1>shape. \A t \in Threads : \A p : Written(t, p) \in [Objects -> Shapes \cup {None}]
  BY NoneIsNoShape DEF Written, OutputShape
<1>4. ASSUME NEW t \in Threads, NEW p \in Objects, HostSetComponent(t, p) PROVE TypeOK'
  BY <1>4, <1>shape DEF HostSetComponent
<1>11. ASSUME NEW t \in Threads, ApplyOutputDelta(t) PROVE TypeOK'
  BY <1>0, <1>11, <1>shape DEF ApplyOutputDelta, Done
<1>5. ASSUME NEW t \in Threads, InvokeFails(t) \/ MigrateEnds(t) PROVE TypeOK'
  BY <1>0, <1>5 DEF InvokeFails, MigrateEnds, Done
<1>6. ASSUME NEW t \in Threads, MigrateStep(t) PROVE TypeOK'
  <2>1. NextVersion(view[t], target[t]) \in Versions
    BY <1>6, NextVersionType DEF MigrateStep
  <2>2. Rewritten(components[obj[t]], view[t], NextVersion(view[t], target[t])) \in Shapes \cup {None}
    BY <2>1, NoneIsNoShape DEF Rewritten, Shapes
  <2> QED
    BY <1>6, <2>1, <2>2 DEF MigrateStep
<1>7. ASSUME NEW t \in Threads, MigrateFails(t) PROVE TypeOK'
  <2>1. history' \in [Objects -> {"clean", "recreated", "partial"}]
    BY <1>7 DEF MigrateFails
  <2> QED
    BY <1>0, <1>7, <2>1 DEF MigrateFails, Done
<1>8. ASSUME NEW t \in Threads, NEW o \in Objects, Destroy(t, o) \/ Get(t, o) PROVE TypeOK'
  BY <1>8 DEF Destroy, Get
<1>9. ASSUME NEW t \in Threads, NEW o \in Objects, NEW v \in Versions,
             Create(t, o, v) \/ MigrateBegin(t, o, v)
      PROVE  TypeOK'
  BY <1>9 DEF Create, MigrateBegin
<1>10. ASSUME NEW from \in Versions, NEW to \in Versions, Register(from, to) PROVE TypeOK'
  BY <1>10 DEF Register
<1> QED
  BY <1>2, <1>3, <1>4, <1>5, <1>6, <1>7, <1>8, <1>9, <1>10, <1>11 DEF Step, Continue

(* What the end of a call does to the locals of its thread.                *)
LEMMA DoneLocals ==
  ASSUME TypeOK, NEW t \in Threads, Done(t)
  PROVE  /\ at'[t] = "idle"
         /\ \A u \in Threads \ {t} : /\ at'[u] = at[u] /\ obj'[u] = obj[u]
                                     /\ view'[u] = view[u] /\ read'[u] = read[u]
  BY DEF TypeOK, Done

(* Every action preserves the invariant.                                   *)
LEMMA RegistryInvStep == RegistryInv /\ [Next]_vars => RegistryInv'
<1> SUFFICES ASSUME RegistryInv, [Next]_vars PROVE RegistryInv'
  OBVIOUS
<1> USE DEF Works, Passes
<1>ty. TypeOK /\ TypeOK'
  BY RegistryTypeStep DEF RegistryInv
<1>inv. /\ InCall /\ OneMigration /\ MigratedExists /\ ViewsFresh /\ ReadsFresh
        /\ ShapeMatchesHeader /\ NoOrphans
  BY DEF RegistryInv
<1>0. CASE UNCHANGED vars
  BY <1>0, <1>ty, <1>inv DEF vars, RegistryInv, InCall, OneMigration, MigratedExists,
     ViewsFresh,
     ReadsFresh, ShapeMatchesHeader, NoOrphans, SingleOwner, EntryFree
<1> SUFFICES ASSUME Step, UNCHANGED deployment PROVE RegistryInv'
  BY <1>0 DEF Next
<1>so. \A o : SingleOwner(o)' = SingleOwner(o)
  BY DEF SingleOwner
<1>alone. ASSUME NEW s \in Threads, NEW t \in Threads, s # t, at[s] # "idle", at[t] # "idle",
                 SingleOwner(obj[s])
          PROVE  obj[s] # obj[t]
  BY <1>inv, <1>alone DEF InCall, SingleOwner
<1>1. ASSUME NEW s \in Threads, RemoveAll(s) PROVE RegistryInv'
  <2>1. InCall'
    BY <1>1, <1>ty, <1>inv, <1>so, NoneIsNoShape, DoneLocals DEF RemoveAll, InCall, TypeOK
  <2>2. OneMigration'
    BY <1>1, <1>ty, <1>inv, <1>so, NoneIsNoShape, DoneLocals DEF RemoveAll, OneMigration,
       InCall, EntryFree, TypeOK
  <2>3. MigratedExists'
    BY <1>1, <1>ty, <1>inv, <1>so, NoneIsNoShape, DoneLocals DEF RemoveAll, MigratedExists,
       InCall, OneMigration, TypeOK
  <2>4. ViewsFresh'
    BY <1>1, <1>ty, <1>inv, <1>so, NoneIsNoShape, DoneLocals DEF RemoveAll, ViewsFresh,
       InCall, SingleOwner, TypeOK
  <2>5. ReadsFresh'
    <3> SUFFICES ASSUME NEW t \in Threads, at'[t] = "apply", SingleOwner(obj[t])', read'[t] # None
                 PROVE  components'[obj'[t]] = read'[t]
      BY <1>so DEF ReadsFresh
    <3>1. t # s /\ at[t] = "apply" /\ obj'[t] = obj[t] /\ read'[t] = read[t]
      BY <1>1, <1>ty, DoneLocals DEF RemoveAll
    <3>2. SingleOwner(obj[t]) /\ obj[t] # obj[s]
      BY <1>1, <3>1, <1>so, <1>alone DEF RemoveAll
    <3>3. components'[obj[t]] = components[obj[t]]
      BY <1>1, <1>ty, <1>inv, <3>1, <3>2 DEF RemoveAll, TypeOK, InCall
    <3> QED
      BY <1>inv, <3>1, <3>2, <3>3 DEF ReadsFresh
  <2>6. ShapeMatchesHeader'
    <3> SUFFICES ASSUME NEW o \in Objects, SingleOwner(o), objects[o] # None,
                        components'[o] # None, history'[o] = "clean"
                 PROVE  /\ EntryFree(o)' => components'[o] = objects[o]
                        /\ \A t \in Threads : at'[t] = "migrate" /\ obj'[t] = o =>
                             components'[o] = view'[t]
      BY <1>1, <1>so DEF RemoveAll, ShapeMatchesHeader
    <3>1. o # obj[s]
      BY <1>1, <1>ty DEF RemoveAll, TypeOK
    <3>2. components'[o] = components[o] /\ history'[o] = history[o]
      BY <1>1, <1>ty, <3>1 DEF RemoveAll, TypeOK
    <3>3. \A t \in Threads : at'[t] = "migrate" =>
            at[t] = "migrate" /\ obj'[t] = obj[t] /\ view'[t] = view[t]
      BY <1>1, <1>ty, DoneLocals DEF RemoveAll
    <3>4. EntryFree(o)' => EntryFree(o)
      BY <1>1, <1>ty, DoneLocals DEF RemoveAll, EntryFree
    <3> QED
      BY <1>inv, <3>2, <3>3, <3>4 DEF ShapeMatchesHeader
  <2>7. NoOrphans'
    BY <1>1, <1>ty, <1>inv, <1>so, NoneIsNoShape, DoneLocals DEF RemoveAll, NoOrphans,
       InCall, ViewsFresh, MigratedExists, SingleOwner, TypeOK
  <2> QED
    BY <1>ty, <2>1, <2>2, <2>3, <2>4, <2>5, <2>6, <2>7 DEF RegistryInv
<1>2. ASSUME NEW s \in Threads, NEW q \in Objects, Execute(s, q) PROVE RegistryInv'
  <2>1. InCall'
    BY <1>2, <1>ty, <1>inv, <1>so, NoneIsNoShape DEF Execute, HostGetComponent, InCall, TypeOK
  <2>2. OneMigration'
    BY <1>2, <1>ty, <1>inv, <1>so, NoneIsNoShape DEF Execute, HostGetComponent,
       OneMigration, InCall, EntryFree, TypeOK
  <2>3. MigratedExists'
    BY <1>2, <1>ty, <1>inv, <1>so, NoneIsNoShape DEF Execute, HostGetComponent,
       MigratedExists, InCall, OneMigration, TypeOK
  <2>4. ViewsFresh'
    BY <1>2, <1>ty, <1>inv, <1>so, NoneIsNoShape DEF Execute, HostGetComponent, ViewsFresh,
       InCall, SingleOwner, TypeOK
  <2>5. ReadsFresh'
    BY <1>2, <1>ty, <1>inv, <1>so, NoneIsNoShape DEF Execute, HostGetComponent, ReadsFresh,
       InCall, SingleOwner, TypeOK
  <2>6. ShapeMatchesHeader'
    BY <1>2, <1>ty, <1>inv, <1>so, NoneIsNoShape DEF Execute, HostGetComponent,
       ShapeMatchesHeader, InCall, OneMigration, ViewsFresh, ReadsFresh, EntryFree,
       SingleOwner, TypeOK
  <2>7. NoOrphans'
    BY <1>2, <1>ty, <1>inv, <1>so, NoneIsNoShape DEF Execute, HostGetComponent, NoOrphans,
       InCall, ViewsFresh, MigratedExists, SingleOwner, TypeOK
  <2> QED
    BY <1>ty, <2>1, <2>2, <2>3, <2>4, <2>5, <2>6, <2>7 DEF RegistryInv
<1>3. ASSUME NEW s \in Threads, NEW q \in Objects, HostSetComponent(s, q) PROVE RegistryInv'
  <2>1. InCall'
    BY <1>3, <1>ty, <1>inv, <1>so, NoneIsNoShape DEF HostSetComponent, Written, OutputShape,
       InCall, TypeOK
  <2>2. OneMigration'
    BY <1>3, <1>ty, <1>inv, <1>so, NoneIsNoShape DEF HostSetComponent, Written, OutputShape,
       OneMigration, InCall, EntryFree, TypeOK
  <2>3. MigratedExists'
    BY <1>3, <1>ty, <1>inv, <1>so, NoneIsNoShape DEF HostSetComponent, Written, OutputShape,
       MigratedExists, InCall, OneMigration, TypeOK
  <2>4. ViewsFresh'
    BY <1>3, <1>ty, <1>inv, <1>so, NoneIsNoShape DEF HostSetComponent, Written, OutputShape,
       ViewsFresh, InCall, SingleOwner, TypeOK
  <2>5. ReadsFresh'
    BY <1>3, <1>ty, <1>inv, <1>so, NoneIsNoShape DEF HostSetComponent, Written, OutputShape,
       ReadsFresh, InCall, SingleOwner, TypeOK
  <2>6. ShapeMatchesHeader'
    <3> SUFFICES ASSUME NEW o \in Objects, SingleOwner(o), objects[o] # None,
                        components'[o] # None, history[o] = "clean"
                 PROVE  /\ EntryFree(o)' => components'[o] = objects[o]
                        /\ \A t \in Threads : at'[t] = "migrate" /\ obj'[t] = o =>
                             components'[o] = view'[t]
      BY <1>3, <1>so DEF HostSetComponent, ShapeMatchesHeader
    <3>0. at[s] = "apply" /\ obj[s] \in Objects
      BY <1>3, <1>inv DEF HostSetComponent, InCall
    <3>1. \A t \in Threads : at'[t] = "migrate" =>
            at[t] = "migrate" /\ obj'[t] = obj[t] /\ view'[t] = view[t]
      BY <1>3, <1>ty DEF HostSetComponent
    <3>2. EntryFree(o)' => EntryFree(o)
      BY <1>3, <3>0, <1>ty DEF HostSetComponent, EntryFree
    <3>3. CASE o # q
      <4>1. components'[o] = components[o]
        BY <1>3, <1>ty, <3>3 DEF HostSetComponent, Written, TypeOK
      <4> QED
        BY <4>1, <3>1, <3>2, <1>inv DEF ShapeMatchesHeader
    <3>4. CASE o = q
      <4>0. o = obj[s]
        BY <1>3, <3>0, <3>4 DEF HostSetComponent, SingleOwner
      <4>1. \A t \in Threads : ~(at[t] = "migrate" /\ obj[t] = o)
        BY <3>0, <4>0, <1>alone
      <4>2. EntryFree(o)
        BY <4>1 DEF EntryFree
      <4>3. view[s] = objects[o]
        BY <3>0, <4>0, <1>inv DEF ViewsFresh
      <4>4. components'[o] = OutputShape(s)
        BY <1>3, <1>ty, <3>4 DEF HostSetComponent, Written, TypeOK
      <4>5. CASE read[s] = None
        BY <4>1, <4>3, <4>4, <4>5, <3>1 DEF OutputShape
      <4>6. CASE read[s] # None
        <5>1. components[o] = read[s]
          BY <3>0, <4>0, <4>6, <1>inv DEF ReadsFresh
        <5>2. components[o] = objects[o]
          BY <4>2, <4>6, <5>1, <1>inv DEF ShapeMatchesHeader
        <5> QED
          BY <4>1, <4>4, <4>6, <5>1, <5>2, <3>1 DEF OutputShape
      <4> QED
        BY <4>5, <4>6
    <3> QED
      BY <3>3, <3>4
  <2>7. NoOrphans'
    <3> SUFFICES ASSUME NEW o \in Objects, SingleOwner(o), objects[o] = None,
                        components'[o] # None
                 PROVE  components[o] # None
      BY <1>3, <1>so, <1>inv DEF HostSetComponent, NoOrphans
    <3>0. at[s] = "apply" /\ obj[s] \in Objects
      BY <1>3, <1>inv DEF HostSetComponent, InCall
    <3>1. o # q
      BY <1>3, <3>0, <1>inv DEF HostSetComponent, SingleOwner, ViewsFresh
    <3> QED
      BY <1>3, <1>ty, <3>1 DEF HostSetComponent, Written, TypeOK
  <2> QED
    BY <1>ty, <2>1, <2>2, <2>3, <2>4, <2>5, <2>6, <2>7 DEF RegistryInv
<1>4. ASSUME NEW s \in Threads, ApplyOutputDelta(s) PROVE RegistryInv'
  <2>1. InCall'
    BY <1>4, <1>ty, <1>inv, <1>so, NoneIsNoShape, DoneLocals DEF ApplyOutputDelta, Written,
       OutputShape, InCall, TypeOK
  <2>2. OneMigration'
    BY <1>4, <1>ty, <1>inv, <1>so, NoneIsNoShape, DoneLocals DEF ApplyOutputDelta, Written,
       OutputShape, OneMigration, InCall, EntryFree, TypeOK
  <2>3. MigratedExists'
    BY <1>4, <1>ty, <1>inv, <1>so, NoneIsNoShape, DoneLocals DEF ApplyOutputDelta, Written,
       OutputShape, MigratedExists, InCall, OneMigration, TypeOK
  <2>4. ViewsFresh'
    BY <1>4, <1>ty, <1>inv, <1>so, NoneIsNoShape, DoneLocals DEF ApplyOutputDelta, Written,
       OutputShape, ViewsFresh, InCall, SingleOwner, TypeOK
  <2>5. ReadsFresh'
    <3> SUFFICES ASSUME NEW t \in Threads, at'[t] = "apply", SingleOwner(obj[t])', read'[t] # None
                 PROVE  components'[obj'[t]] = read'[t]
      BY <1>so DEF ReadsFresh
    <3>1. t # s /\ at[t] = "apply" /\ obj'[t] = obj[t] /\ read'[t] = read[t]
      BY <1>4, <1>ty, DoneLocals DEF ApplyOutputDelta
    <3>2. SingleOwner(obj[t]) /\ obj[t] # obj[s]
      BY <1>4, <3>1, <1>so, <1>alone DEF ApplyOutputDelta
    <3>3. components'[obj[t]] = components[obj[t]]
      BY <1>4, <1>ty, <1>inv, <3>1, <3>2 DEF ApplyOutputDelta, Written, TypeOK, InCall
    <3> QED
      BY <1>inv, <3>1, <3>2, <3>3 DEF ReadsFresh
  <2>6. ShapeMatchesHeader'
    <3> SUFFICES ASSUME NEW o \in Objects, SingleOwner(o), objects[o] # None,
                        components'[o] # None, history[o] = "clean"
                 PROVE  /\ EntryFree(o)' => components'[o] = objects[o]
                        /\ \A t \in Threads : at'[t] = "migrate" /\ obj'[t] = o =>
                             components'[o] = view'[t]
      BY <1>4, <1>so DEF ApplyOutputDelta, ShapeMatchesHeader
    <3>0. at[s] = "apply" /\ obj[s] \in Objects
      BY <1>4, <1>inv DEF ApplyOutputDelta, InCall
    <3>1. \A t \in Threads : at'[t] = "migrate" =>
            at[t] = "migrate" /\ obj'[t] = obj[t] /\ view'[t] = view[t]
      BY <1>4, <1>ty, DoneLocals DEF ApplyOutputDelta
    <3>2. EntryFree(o)' => EntryFree(o)
      BY <1>4, <3>0, <1>ty, DoneLocals DEF ApplyOutputDelta, EntryFree
    <3>3. CASE o # obj[s]
      <4>1. components'[o] = components[o]
        BY <1>4, <1>ty, <3>3 DEF ApplyOutputDelta, Written, TypeOK
      <4> QED
        BY <4>1, <3>1, <3>2, <1>inv DEF ShapeMatchesHeader
    <3>4. CASE o = obj[s]
      <4>1. \A t \in Threads : ~(at[t] = "migrate" /\ obj[t] = o)
        BY <3>0, <3>4, <1>alone
      <4>2. EntryFree(o)
        BY <4>1 DEF EntryFree
      <4>3. view[s] = objects[o]
        BY <3>0, <3>4, <1>inv DEF ViewsFresh
      <4>4. components'[o] = OutputShape(s)
        BY <1>4, <1>ty, <3>4 DEF ApplyOutputDelta, Written, TypeOK
      <4>5. CASE read[s] = None
        BY <4>1, <4>3, <4>4, <4>5, <3>1 DEF OutputShape
      <4>6. CASE read[s] # None
        <5>1. components[o] = read[s]
          BY <3>0, <3>4, <4>6, <1>inv DEF ReadsFresh
        <5>2. components[o] = objects[o]
          BY <4>2, <4>6, <5>1, <1>inv DEF ShapeMatchesHeader
        <5> QED
          BY <4>1, <4>4, <4>6, <5>1, <5>2, <3>1 DEF OutputShape
      <4> QED
        BY <4>5, <4>6
    <3> QED
      BY <3>3, <3>4
  <2>7. NoOrphans'
    <3> SUFFICES ASSUME NEW o \in Objects, SingleOwner(o), objects[o] = None,
                        components'[o] # None
                 PROVE  \E t \in Threads : at'[t] = "removeAll" /\ obj'[t] = o
      BY <1>4, <1>so DEF ApplyOutputDelta, NoOrphans
    <3>1. at[s] = "apply" /\ o # obj[s]
      BY <1>4, <1>inv DEF ApplyOutputDelta, ViewsFresh
    <3>2. components[o] # None
      BY <1>4, <1>ty, <3>1 DEF ApplyOutputDelta, Written, TypeOK
    <3>3. PICK t \in Threads : at[t] = "removeAll" /\ obj[t] = o
      BY <3>2, <1>inv DEF NoOrphans
    <3> QED
      BY <1>4, <1>ty, <3>1, <3>3, DoneLocals DEF ApplyOutputDelta
  <2> QED
    BY <1>ty, <2>1, <2>2, <2>3, <2>4, <2>5, <2>6, <2>7 DEF RegistryInv
<1>5. ASSUME NEW s \in Threads, InvokeFails(s) PROVE RegistryInv'
  <2>1. InCall'
    BY <1>5, <1>ty, <1>inv, <1>so, NoneIsNoShape, DoneLocals DEF InvokeFails, InCall, TypeOK
  <2>2. OneMigration'
    BY <1>5, <1>ty, <1>inv, <1>so, NoneIsNoShape, DoneLocals DEF InvokeFails, OneMigration,
       InCall, EntryFree, TypeOK
  <2>3. MigratedExists'
    BY <1>5, <1>ty, <1>inv, <1>so, NoneIsNoShape, DoneLocals DEF InvokeFails,
       MigratedExists, InCall, OneMigration, TypeOK
  <2>4. ViewsFresh'
    BY <1>5, <1>ty, <1>inv, <1>so, NoneIsNoShape, DoneLocals DEF InvokeFails, ViewsFresh,
       InCall, SingleOwner, TypeOK
  <2>5. ReadsFresh'
    BY <1>5, <1>ty, <1>inv, <1>so, NoneIsNoShape, DoneLocals DEF InvokeFails, ReadsFresh,
       InCall, SingleOwner, TypeOK
  <2>6. ShapeMatchesHeader'
    BY <1>5, <1>ty, <1>inv, <1>so, NoneIsNoShape, DoneLocals DEF InvokeFails,
       ShapeMatchesHeader, InCall, OneMigration, ViewsFresh, ReadsFresh, EntryFree,
       SingleOwner, TypeOK
  <2>7. NoOrphans'
    <3> SUFFICES ASSUME NEW o \in Objects, SingleOwner(o), objects'[o] = None,
                        components'[o] # None
                 PROVE  \E t \in Threads : at'[t] = "removeAll" /\ obj'[t] = o
      BY <1>so DEF NoOrphans
    <3>1. objects[o] = None /\ components[o] # None
      BY <1>5 DEF InvokeFails
    <3>2. PICK t \in Threads : at[t] = "removeAll" /\ obj[t] = o
      BY <3>1, <1>inv DEF NoOrphans
    <3> QED
      BY <1>5, <1>ty, <3>2, DoneLocals DEF InvokeFails
  <2> QED
    BY <1>ty, <2>1, <2>2, <2>3, <2>4, <2>5, <2>6, <2>7 DEF RegistryInv
<1>6. ASSUME NEW s \in Threads, MigrateStep(s) PROVE RegistryInv'
  <2>1. InCall'
    BY <1>6, <1>ty, <1>inv, <1>so, NoneIsNoShape DEF MigrateStep, InCall, TypeOK
  <2>2. OneMigration'
    BY <1>6, <1>ty, <1>inv, <1>so, NoneIsNoShape DEF MigrateStep, OneMigration, InCall,
       EntryFree, TypeOK
  <2>3. MigratedExists'
    BY <1>6, <1>ty, <1>inv, <1>so, NoneIsNoShape DEF MigrateStep, MigratedExists, InCall,
       OneMigration, TypeOK
  <2>4. ViewsFresh'
    BY <1>6, <1>ty, <1>inv, <1>so, NoneIsNoShape DEF MigrateStep, ViewsFresh, InCall,
       SingleOwner, TypeOK
  <2>5. ReadsFresh'
    BY <1>6, <1>ty, <1>inv, <1>so, NoneIsNoShape DEF MigrateStep, ReadsFresh, InCall,
       SingleOwner, TypeOK
  <2>6. ShapeMatchesHeader'
    <3> DEFINE next == NextVersion(view[s], target[s])
    <3>0. /\ at[s] = "migrate" /\ obj[s] \in Objects /\ view'[s] = next
          /\ \A t \in Threads \ {s} : view'[t] = view[t]
          /\ UNCHANGED <<objects, at, obj, history>>
          /\ components' = [components EXCEPT ![obj[s]] = Rewritten(@, view[s], next)]
      BY <1>6, <1>ty, <1>inv DEF MigrateStep, InCall, TypeOK
    <3> HIDE DEF next
    <3> SUFFICES ASSUME NEW o \in Objects, SingleOwner(o), objects[o] # None,
                        components'[o] # None, history[o] = "clean"
                 PROVE  /\ EntryFree(o) => components'[o] = objects[o]
                        /\ \A t \in Threads : at[t] = "migrate" /\ obj[t] = o =>
                             components'[o] = view'[t]
      BY <3>0, <1>so DEF ShapeMatchesHeader, EntryFree
    <3>1. CASE o # obj[s]
      <4>1. components'[o] = components[o]
        BY <3>0, <3>1, <1>ty DEF TypeOK
      <4> QED
        BY <3>0, <3>1, <4>1, <1>inv DEF ShapeMatchesHeader
    <3>2. CASE o = obj[s]
      <4>1. components'[o] = Rewritten(components[o], view[s], next)
        BY <3>0, <3>2, <1>ty DEF TypeOK
      <4>2. components[o] # None
        BY <4>1, <1>ty, NoneIsNoShape DEF Rewritten, TypeOK
      <4>3. components[o] = view[s]
        BY <3>0, <3>2, <4>2, <1>inv DEF ShapeMatchesHeader
      <4>4. components'[o] = next
        BY <4>1, <4>2, <4>3 DEF Rewritten
      <4>5. ~EntryFree(o)
        BY <3>0, <3>2 DEF EntryFree
      <4>6. \A t \in Threads : at[t] = "migrate" /\ obj[t] = o => t = s
        BY <3>0, <3>2, <1>inv DEF OneMigration
      <4> QED
        BY <3>0, <4>4, <4>5, <4>6
    <3> QED
      BY <3>1, <3>2
  <2>7. NoOrphans'
    BY <1>6, <1>ty, <1>inv, <1>so, NoneIsNoShape DEF MigrateStep, NoOrphans, InCall,
       ViewsFresh, MigratedExists, SingleOwner, TypeOK
  <2> QED
    BY <1>ty, <2>1, <2>2, <2>3, <2>4, <2>5, <2>6, <2>7 DEF RegistryInv
<1>7. ASSUME NEW s \in Threads, MigrateFails(s) PROVE RegistryInv'
  <2>1. InCall'
    BY <1>7, <1>ty, <1>inv, <1>so, NoneIsNoShape, DoneLocals DEF MigrateFails, InCall, TypeOK
  <2>2. OneMigration'
    BY <1>7, <1>ty, <1>inv, <1>so, NoneIsNoShape, DoneLocals DEF MigrateFails, OneMigration,
       InCall, EntryFree, TypeOK
  <2>3. MigratedExists'
    BY <1>7, <1>ty, <1>inv, <1>so, NoneIsNoShape, DoneLocals DEF MigrateFails,
       MigratedExists, InCall, OneMigration, TypeOK
  <2>4. ViewsFresh'
    BY <1>7, <1>ty, <1>inv, <1>so, NoneIsNoShape, DoneLocals DEF MigrateFails, ViewsFresh,
       InCall, SingleOwner, TypeOK
  <2>5. ReadsFresh'
    BY <1>7, <1>ty, <1>inv, <1>so, NoneIsNoShape, DoneLocals DEF MigrateFails, ReadsFresh,
       InCall, SingleOwner, TypeOK
  <2>6. ShapeMatchesHeader'
    <3>0. /\ at[s] = "migrate" /\ obj[s] \in Objects /\ at'[s] = "idle"
          /\ \A t \in Threads \ {s} : at'[t] = at[t] /\ obj'[t] = obj[t] /\ view'[t] = view[t]
      BY <1>7, <1>ty, <1>inv, DoneLocals DEF MigrateFails, InCall
    <3> SUFFICES ASSUME NEW o \in Objects, SingleOwner(o), objects'[o] # None,
                        components[o] # None, history'[o] = "clean"
                 PROVE  /\ EntryFree(o)' => components[o] = objects'[o]
                        /\ \A t \in Threads : at'[t] = "migrate" /\ obj'[t] = o =>
                             components[o] = view'[t]
      BY <1>7, <1>so DEF MigrateFails, ShapeMatchesHeader
    <3>1. CASE o # obj[s]
      <4>1. objects'[o] = objects[o] /\ history'[o] = history[o]
        BY <1>7, <3>1, <1>ty DEF MigrateFails, TypeOK
      <4>2. EntryFree(o)' => EntryFree(o)
        BY <3>0, <3>1 DEF EntryFree
      <4> QED
        BY <3>0, <4>1, <4>2, <1>inv DEF ShapeMatchesHeader
    <3>2. CASE o = obj[s]
      <4>1. \A t \in Threads : at'[t] = "migrate" /\ obj'[t] = o => FALSE
        BY <3>0, <3>2, <1>inv DEF OneMigration
      <4>2. history[o] = "clean" /\ objects[o] # None
        BY <1>7, <3>0, <3>2, <1>ty, <1>inv DEF MigrateFails, MigratedExists, TypeOK
      <4>3. components[o] = view[s]
        BY <3>0, <3>2, <4>2, <1>inv DEF ShapeMatchesHeader
      <4>4. view[s] = objects'[o]
        BY <1>7, <3>2, <4>2, <1>ty DEF MigrateFails, TypeOK
      <4> QED
        BY <4>1, <4>3, <4>4
    <3> QED
      BY <3>1, <3>2
  <2>7. NoOrphans'
    <3> SUFFICES ASSUME NEW o \in Objects, SingleOwner(o), objects'[o] = None,
                        components'[o] # None
                 PROVE  \E t \in Threads : at'[t] = "removeAll" /\ obj'[t] = o
      BY <1>so DEF NoOrphans
    <3>1. objects[o] = None /\ components[o] # None
      BY <1>7 DEF MigrateFails
    <3>2. PICK t \in Threads : at[t] = "removeAll" /\ obj[t] = o
      BY <3>1, <1>inv DEF NoOrphans
    <3> QED
      BY <1>7, <1>ty, <3>2, DoneLocals DEF MigrateFails
  <2> QED
    BY <1>ty, <2>1, <2>2, <2>3, <2>4, <2>5, <2>6, <2>7 DEF RegistryInv
<1>8. ASSUME NEW s \in Threads, MigrateEnds(s) PROVE RegistryInv'
  <2>1. InCall'
    BY <1>8, <1>ty, <1>inv, <1>so, NoneIsNoShape, DoneLocals DEF MigrateEnds, InCall, TypeOK
  <2>2. OneMigration'
    BY <1>8, <1>ty, <1>inv, <1>so, NoneIsNoShape, DoneLocals DEF MigrateEnds, OneMigration,
       InCall, EntryFree, TypeOK
  <2>3. MigratedExists'
    BY <1>8, <1>ty, <1>inv, <1>so, NoneIsNoShape, DoneLocals DEF MigrateEnds,
       MigratedExists, InCall, OneMigration, TypeOK
  <2>4. ViewsFresh'
    <3> SUFFICES ASSUME NEW t \in Threads, at'[t] \in {"execute", "apply"}, SingleOwner(obj[t])'
                 PROVE  objects'[obj'[t]] # None /\ view'[t] = objects'[obj'[t]]
      BY <1>so DEF ViewsFresh
    <3>1. t # s /\ at[t] = at'[t] /\ obj'[t] = obj[t] /\ view'[t] = view[t]
      BY <1>8, <1>ty, DoneLocals DEF MigrateEnds
    <3>2. SingleOwner(obj[t]) /\ obj[t] # obj[s]
      BY <1>8, <3>1, <1>so, <1>alone DEF MigrateEnds
    <3>3. objects'[obj[t]] = objects[obj[t]]
      BY <1>8, <1>ty, <1>inv, <3>1, <3>2 DEF MigrateEnds, TypeOK, InCall
    <3> QED
      BY <1>inv, <3>1, <3>2, <3>3 DEF ViewsFresh
  <2>5. ReadsFresh'
    BY <1>8, <1>ty, <1>inv, <1>so, NoneIsNoShape, DoneLocals DEF MigrateEnds, ReadsFresh,
       InCall, SingleOwner, TypeOK
  <2>6. ShapeMatchesHeader'
    <3>0. /\ at[s] = "migrate" /\ obj[s] \in Objects /\ at'[s] = "idle"
          /\ \A t \in Threads \ {s} : at'[t] = at[t] /\ obj'[t] = obj[t] /\ view'[t] = view[t]
      BY <1>8, <1>ty, <1>inv, DoneLocals DEF MigrateEnds, InCall
    <3> SUFFICES ASSUME NEW o \in Objects, SingleOwner(o), objects'[o] # None,
                        components[o] # None, history'[o] = "clean"
                 PROVE  /\ EntryFree(o)' => components[o] = objects'[o]
                        /\ \A t \in Threads : at'[t] = "migrate" /\ obj'[t] = o =>
                             components[o] = view'[t]
      BY <1>8, <1>so DEF MigrateEnds, ShapeMatchesHeader
    <3>1. CASE o # obj[s]
      <4>1. objects'[o] = objects[o] /\ history'[o] = history[o]
        BY <1>8, <3>1, <1>ty DEF MigrateEnds, TypeOK
      <4>2. EntryFree(o)' => EntryFree(o)
        BY <3>0, <3>1 DEF EntryFree
      <4> QED
        BY <3>0, <4>1, <4>2, <1>inv DEF ShapeMatchesHeader
    <3>2. CASE o = obj[s]
      <4>1. \A t \in Threads : at'[t] = "migrate" /\ obj'[t] = o => FALSE
        BY <3>0, <3>2, <1>inv DEF OneMigration
      <4>2. history[o] = "clean" /\ objects[o] # None
        BY <1>8, <3>0, <3>2, <1>ty, <1>inv DEF MigrateEnds, MigratedExists, TypeOK
      <4>3. components[o] = view[s]
        BY <3>0, <3>2, <4>2, <1>inv DEF ShapeMatchesHeader
      <4>4. view[s] = objects'[o]
        BY <1>8, <3>2, <4>2, <1>ty DEF MigrateEnds, TypeOK
      <4> QED
        BY <4>1, <4>3, <4>4
    <3> QED
      BY <3>1, <3>2
  <2>7. NoOrphans'
    BY <1>8, <1>ty, <1>inv, <1>so, NoneIsNoShape, DoneLocals DEF MigrateEnds, NoOrphans,
       InCall, ViewsFresh, MigratedExists, SingleOwner, TypeOK
  <2> QED
    BY <1>ty, <2>1, <2>2, <2>3, <2>4, <2>5, <2>6, <2>7 DEF RegistryInv
<1>9. ASSUME NEW s \in Threads, NEW p \in Objects, Destroy(s, p) PROVE RegistryInv'
  <2>1. InCall'
    BY <1>9, <1>ty, <1>inv, <1>so, NoneIsNoShape DEF Destroy, MapFree, InCall, TypeOK
  <2>2. OneMigration'
    BY <1>9, <1>ty, <1>inv, <1>so, NoneIsNoShape DEF Destroy, MapFree, OneMigration, InCall,
       EntryFree, TypeOK
  <2>3. MigratedExists'
    BY <1>9, <1>ty, <1>inv, <1>so, NoneIsNoShape DEF Destroy, MapFree, MigratedExists,
       InCall, OneMigration, TypeOK
  <2>4. ViewsFresh'
    BY <1>9, <1>ty, <1>inv, <1>so, NoneIsNoShape DEF Destroy, MapFree, ViewsFresh, InCall,
       SingleOwner, TypeOK
  <2>5. ReadsFresh'
    BY <1>9, <1>ty, <1>inv, <1>so, NoneIsNoShape DEF Destroy, MapFree, ReadsFresh, InCall,
       SingleOwner, TypeOK
  <2>6. ShapeMatchesHeader'
    BY <1>9, <1>ty, <1>inv, <1>so, NoneIsNoShape DEF Destroy, MapFree, ShapeMatchesHeader,
       InCall, OneMigration, ViewsFresh, ReadsFresh, EntryFree, SingleOwner, TypeOK
  <2>7. NoOrphans'
    BY <1>9, <1>ty, <1>inv, <1>so, NoneIsNoShape DEF Destroy, MapFree, NoOrphans, InCall,
       ViewsFresh, MigratedExists, SingleOwner, TypeOK
  <2> QED
    BY <1>ty, <2>1, <2>2, <2>3, <2>4, <2>5, <2>6, <2>7 DEF RegistryInv
<1>10. ASSUME NEW s \in Threads, NEW p \in Objects, Get(s, p) PROVE RegistryInv'
  <2>1. InCall'
    BY <1>10, <1>ty, <1>inv, <1>so, NoneIsNoShape DEF Get, InCall, TypeOK
  <2>2. OneMigration'
    BY <1>10, <1>ty, <1>inv, <1>so, NoneIsNoShape DEF Get, OneMigration, InCall, EntryFree,
       TypeOK
  <2>3. MigratedExists'
    BY <1>10, <1>ty, <1>inv, <1>so, NoneIsNoShape DEF Get, MigratedExists, InCall,
       OneMigration, TypeOK
  <2>4. ViewsFresh'
    BY <1>10, <1>ty, <1>inv, <1>so, NoneIsNoShape DEF Get, ViewsFresh, InCall, SingleOwner,
       TypeOK
  <2>5. ReadsFresh'
    BY <1>10, <1>ty, <1>inv, <1>so, NoneIsNoShape DEF Get, ReadsFresh, InCall, SingleOwner,
       TypeOK
  <2>6. ShapeMatchesHeader'
    BY <1>10, <1>ty, <1>inv, <1>so, NoneIsNoShape DEF Get, ShapeMatchesHeader, InCall,
       OneMigration, ViewsFresh, ReadsFresh, EntryFree, SingleOwner, TypeOK
  <2>7. NoOrphans'
    BY <1>10, <1>ty, <1>inv, <1>so, NoneIsNoShape DEF Get, NoOrphans, InCall, ViewsFresh,
       MigratedExists, SingleOwner, TypeOK
  <2> QED
    BY <1>ty, <2>1, <2>2, <2>3, <2>4, <2>5, <2>6, <2>7 DEF RegistryInv
<1>11. ASSUME NEW s \in Threads, NEW p \in Objects, NEW v \in Versions, Create(s, p, v) PROVE RegistryInv'
  <2>1. InCall'
    BY <1>11, <1>ty, <1>inv, <1>so, NoneIsNoShape DEF Create, MapFree, InCall, TypeOK
  <2>2. OneMigration'
    BY <1>11, <1>ty, <1>inv, <1>so, NoneIsNoShape DEF Create, MapFree, OneMigration, InCall,
       EntryFree, TypeOK
  <2>3. MigratedExists'
    BY <1>11, <1>ty, <1>inv, <1>so, NoneIsNoShape DEF Create, MapFree, MigratedExists,
       InCall, OneMigration, TypeOK
  <2>4. ViewsFresh'
    BY <1>11, <1>ty, <1>inv, <1>so, NoneIsNoShape DEF Create, MapFree, ViewsFresh, InCall,
       SingleOwner, TypeOK
  <2>5. ReadsFresh'
    BY <1>11, <1>ty, <1>inv, <1>so, NoneIsNoShape DEF Create, MapFree, ReadsFresh, InCall,
       SingleOwner, TypeOK
  <2>6. ShapeMatchesHeader'
    BY <1>11, <1>ty, <1>inv, <1>so, NoneIsNoShape DEF Create, MapFree, ShapeMatchesHeader,
       InCall, OneMigration, ViewsFresh, ReadsFresh, EntryFree, SingleOwner, TypeOK
  <2>7. NoOrphans'
    BY <1>11, <1>ty, <1>inv, <1>so, NoneIsNoShape DEF Create, MapFree, NoOrphans, InCall,
       ViewsFresh, MigratedExists, SingleOwner, TypeOK
  <2> QED
    BY <1>ty, <2>1, <2>2, <2>3, <2>4, <2>5, <2>6, <2>7 DEF RegistryInv
<1>12. ASSUME NEW s \in Threads, NEW p \in Objects, NEW v \in Versions, MigrateBegin(s, p, v) PROVE RegistryInv'
  <2>1. InCall'
    BY <1>12, <1>ty, <1>inv, <1>so, NoneIsNoShape DEF MigrateBegin, InCall, TypeOK
  <2>2. OneMigration'
    BY <1>12, <1>ty, <1>inv, <1>so, NoneIsNoShape DEF MigrateBegin, OneMigration, InCall,
       EntryFree, TypeOK
  <2>3. MigratedExists'
    BY <1>12, <1>ty, <1>inv, <1>so, NoneIsNoShape DEF MigrateBegin, MigratedExists, InCall,
       OneMigration, TypeOK
  <2>4. ViewsFresh'
    BY <1>12, <1>ty, <1>inv, <1>so, NoneIsNoShape DEF MigrateBegin, ViewsFresh, InCall,
       SingleOwner, TypeOK
  <2>5. ReadsFresh'
    BY <1>12, <1>ty, <1>inv, <1>so, NoneIsNoShape DEF MigrateBegin, ReadsFresh, InCall,
       SingleOwner, TypeOK
  <2>6. ShapeMatchesHeader'
    BY <1>12, <1>ty, <1>inv, <1>so, NoneIsNoShape DEF MigrateBegin, ShapeMatchesHeader,
       InCall, OneMigration, ViewsFresh, ReadsFresh, EntryFree, SingleOwner, TypeOK
  <2>7. NoOrphans'
    BY <1>12, <1>ty, <1>inv, <1>so, NoneIsNoShape DEF MigrateBegin, NoOrphans, InCall,
       ViewsFresh, MigratedExists, SingleOwner, TypeOK
  <2> QED
    BY <1>ty, <2>1, <2>2, <2>3, <2>4, <2>5, <2>6, <2>7 DEF RegistryInv
<1>13. ASSUME NEW from \in Versions, NEW to \in Versions, Register(from, to) PROVE RegistryInv'
  <2>1. InCall'
    BY <1>13, <1>ty, <1>inv, <1>so, NoneIsNoShape DEF Register, InCall, TypeOK
  <2>2. OneMigration'
    BY <1>13, <1>ty, <1>inv, <1>so, NoneIsNoShape DEF Register, OneMigration, InCall,
       EntryFree, TypeOK
  <2>3. MigratedExists'
    BY <1>13, <1>ty, <1>inv, <1>so, NoneIsNoShape DEF Register, MigratedExists, InCall,
       OneMigration, TypeOK
  <2>4. ViewsFresh'
    BY <1>13, <1>ty, <1>inv, <1>so, NoneIsNoShape DEF Register, ViewsFresh, InCall,
       SingleOwner, TypeOK
  <2>5. ReadsFresh'
    BY <1>13, <1>ty, <1>inv, <1>so, NoneIsNoShape DEF Register, ReadsFresh, InCall,
       SingleOwner, TypeOK
  <2>6. ShapeMatchesHeader'
    BY <1>13, <1>ty, <1>inv, <1>so, NoneIsNoShape DEF Register, ShapeMatchesHeader, InCall,
       OneMigration, ViewsFresh, ReadsFresh, EntryFree, SingleOwner, TypeOK
  <2>7. NoOrphans'
    BY <1>13, <1>ty, <1>inv, <1>so, NoneIsNoShape DEF Register, NoOrphans, InCall,
       ViewsFresh, MigratedExists, SingleOwner, TypeOK
  <2> QED
    BY <1>ty, <2>1, <2>2, <2>3, <2>4, <2>5, <2>6, <2>7 DEF RegistryInv
<1> QED
  BY <1>1, <1>2, <1>3, <1>4, <1>5, <1>6, <1>7, <1>8, <1>9, <1>10, <1>11, <1>12, <1>13
     DEF Step, Continue

(***************************************************************************)
(* Type correctness of registry and migration engine.                      *)
(***************************************************************************)
THEOREM RegistryTypeCorrect == Spec => []TypeOK
<1>1. RegistryInv => TypeOK
  BY DEF RegistryInv
<1> QED
  BY <1>1, RegistryInitInv, RegistryInvStep, PTL DEF Spec

(***************************************************************************)
(* Components have the layout of the header's version, or of the version a *)
(* running Migrate has reached, for every object that only one thread      *)
(* works on (Create, Destroy, Get, Execute, ApplyOutputDelta and Migrate   *)
(* in object_registry.cpp and migration_engine.cpp) and whose id only its  *)
(* own plugin passes to the host functions, unless it was created over old *)
(* data or a migration stopped half-way.                                   *)
(***************************************************************************)
THEOREM DataMatchesHeader == Spec => []ShapeMatchesHeader
<1>1. RegistryInv => ShapeMatchesHeader
  BY DEF RegistryInv
<1> QED
  BY <1>1, RegistryInitInv, RegistryInvStep, PTL DEF Spec

(***************************************************************************)
(* Destroy, which removes the components after it let go of map_mutex_,    *)
(* leaves nothing of the object in the storage once it has returned, if    *)
(* one thread works on the object and no other plugin passes its id.       *)
(***************************************************************************)
THEOREM NothingLeftBehind == Spec => []NoOrphans
<1>1. RegistryInv => NoOrphans
  BY DEF RegistryInv
<1> QED
  BY <1>1, RegistryInitInv, RegistryInvStep, PTL DEF Spec

(* No step of another thread changes the header of an object that is being *)
(* migrated.                                                               *)
LEMMA MigrationStepExclusive ==
  ASSUME RegistryInv, [Next]_vars, NEW t \in Threads, at[t] = "migrate", at'[t] = "migrate"
  PROVE  objects'[obj[t]] = objects[obj[t]]
<1>1. ~MapFree
  BY DEF MapFree
<1>2. ASSUME NEW s \in Threads, MigrateEnds(s) PROVE objects'[obj[t]] = objects[obj[t]]
  <2>1. s # t
    BY <1>2, DoneLocals DEF MigrateEnds, RegistryInv
  <2>2. obj[s] # obj[t] /\ obj[t] \in Objects
    BY <1>2, <2>1 DEF MigrateEnds, RegistryInv, OneMigration, InCall
  <2> QED
    BY <1>2, <2>2 DEF MigrateEnds, RegistryInv, TypeOK
<1>3. ASSUME NEW s \in Threads, Continue(s), ~MigrateEnds(s) PROVE UNCHANGED objects
  BY <1>3 DEF Continue, RemoveAll, Execute, HostSetComponent, ApplyOutputDelta, InvokeFails,
     MigrateStep, MigrateFails
<1>4. ASSUME NEW s \in Threads, NEW o \in Objects, NEW v \in Versions,
             Destroy(s, o) \/ Get(s, o) \/ Create(s, o, v) \/ MigrateBegin(s, o, v)
      PROVE  UNCHANGED objects
  BY <1>1, <1>4 DEF Destroy, Get, Create, MigrateBegin
<1>5. ASSUME NEW from \in Versions, NEW to \in Versions, Register(from, to)
      PROVE  UNCHANGED objects
  BY <1>5 DEF Register
<1>6. 1 \in Versions
  BY RegistryAssumption DEF Versions
<1> QED
  BY <1>2, <1>3, <1>4, <1>5, <1>6 DEF Next, Step, vars

(***************************************************************************)
(* A migration has the header of its object to itself: map_mutex_ held     *)
(* shared keeps out Create and Destroy, and the entry's mutex other        *)
(* migrations, so that the header it started from stays in the registry    *)
(* until its own end.  No assumption on who uses the object; nothing is    *)
(* said of its components.                                                 *)
(***************************************************************************)
THEOREM MigrationsExclusive == Spec => MigrationExclusive
<1>1. RegistryInv /\ [Next]_vars =>
        [\A t \in Threads : at[t] = "migrate" /\ at'[t] = "migrate" =>
           objects'[obj[t]] = objects[obj[t]]]_vars
  BY MigrationStepExclusive
<1> QED
  BY <1>1, RegistryInitInv, RegistryInvStep, PTL DEF Spec, MigrationExclusive
=============================================================================
