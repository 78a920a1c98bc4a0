------------------------ MODULE WasmEdgePluginProofs ------------------------
(***************************************************************************)
(* Plugins own their VMs and host modules, actors run live ones, and host  *)
(* calls act for the right object, for any number of plugins, actors and   *)
(* threads.                                                                *)
(***************************************************************************)
EXTENDS WasmEdgePlugin, TLAPS

\* Thread t has a plugin of its own under construction, or ready to hand over.
Building(t) == call[t].op \in Ladder \cup {"initialized"}

\* A plugin exists while it has a state_, and whatever is referred to exists.
AliveHaveState == \A p \in Plugins : p \in alive <=> state[p] # None

RefersToAlive ==
  /\ master # None => master \in alive
  /\ previous # None => previous \in alive
  /\ \A t \in Threads : call[t].source # None => call[t].source \in alive

\* p is neither served, nor kept, nor held by a constructor that asked for it.
NotServed(p) == p # master /\ p # previous /\ \A t \in Threads : p # call[t].source

\* An actor's clone is initialized and its own.
ClonesOwned ==
  \A a \in Actors : clone[a] # None =>
    /\ clone[a] \in alive /\ initialized[clone[a]] /\ NotServed(clone[a])
    /\ \A b \in Actors \ {a} : clone[b] # clone[a]

\* A plugin under construction is known to its thread only ...
BuildsPrivate ==
  \A t \in Threads : Building(t) =>
    /\ call[t].plugin \in alive /\ NotServed(call[t].plugin)
    /\ \A a \in Actors : clone[a] # call[t].plugin
    /\ \A u \in Threads \ {t} : Building(u) => call[u].plugin # call[t].plugin

\* ... and has of its handles those that its calls so far have made.
Made(t) ==
  LET s == state[call[t].plugin] IN
  /\ call[t].op = "VMCreate" => s = Empty
  /\ call[t].op = "CreateHostModule" => s # None /\ s.vm \in Plugins /\ s.host = None
  /\ call[t].op \in (Ladder \cup {"initialized"}) \ {"VMCreate", "CreateHostModule"} =>
       s \in [vm : Plugins, host : Plugins]
  /\ call[t].op = "initialized" => initialized[call[t].plugin]

BuildsMade == \A t \in Threads : Made(t)

\* The actor a call is for: one constructor per actor, and no run before its end.
CallsForActor ==
  /\ \A t \in Threads : call[t].actor # None /\ (Building(t) \/ call[t].op = "clone") =>
       /\ life[call[t].actor] = "building"
       /\ \A u \in Threads \ {t} :
            Building(u) \/ call[u].op = "clone" => call[u].actor # call[t].actor
  /\ \A t \in Threads : call[t].op = "clone" => call[t].actor # None
  /\ \A t \in Threads : call[t].op = "run" =>
       /\ call[t].actor \in Actors /\ life[call[t].actor] \in {"registered", "killed"}
       /\ call[t].plugin = clone[call[t].actor] /\ call[t].plugin # None

PluginInv ==
  /\ TypeOK /\ HandlesOwned /\ CurrentObjectExact
  /\ AliveHaveState /\ RefersToAlive /\ ClonesOwned
  /\ BuildsPrivate /\ BuildsMade /\ CallsForActor
-----------------------------------------------------------------------------
(* The calls of Initialize and their order.                                *)
LEMMA LadderFacts ==
  /\ Ladder = {"VMCreate", "CreateHostModule", "LoadWasm", "Validate", "RegisterModule",
               "Instantiate"}
  /\ After("VMCreate") = "CreateHostModule" /\ After("CreateHostModule") = "LoadWasm"
  /\ \A s \in Ladder \ {"VMCreate", "CreateHostModule"} :
       After(s) \in (Ladder \cup {"initialized"}) \ {"VMCreate", "CreateHostModule"}
<1>1. /\ Stages[1] = "VMCreate" /\ Stages[2] = "CreateHostModule" /\ Stages[3] = "LoadWasm"
      /\ Stages[4] = "Validate" /\ Stages[5] = "RegisterModule" /\ Stages[6] = "Instantiate"
  BY DEF Stages
<1>2. \A i \in 1..6 : i = 1 \/ i = 2 \/ i = 3 \/ i = 4 \/ i = 5 \/ i = 6
  OBVIOUS
<1>3. Ladder = {"VMCreate", "CreateHostModule", "LoadWasm", "Validate", "RegisterModule",
                "Instantiate"}
  BY <1>1, <1>2 DEF Ladder
<1>4. \A i \in 1..6 : (CHOOSE j \in 1..6 : Stages[j] = Stages[i]) = i
  <2> SUFFICES ASSUME NEW i \in 1..6, NEW j \in 1..6, Stages[j] = Stages[i] PROVE j = i
    OBVIOUS
  <2> QED
    BY <1>1, <1>2
<1>5. /\ After("VMCreate") = "CreateHostModule" /\ After("CreateHostModule") = "LoadWasm"
      /\ After("LoadWasm") = "Validate" /\ After("Validate") = "RegisterModule"
      /\ After("RegisterModule") = "Instantiate" /\ After("Instantiate") = "initialized"
  <2>1. \A i \in 1..6 : After(Stages[i]) = IF i = 6 THEN "initialized" ELSE Stages[i + 1]
    <3> SUFFICES ASSUME NEW k \in 1..6
                 PROVE  After(Stages[k]) = IF k = 6 THEN "initialized" ELSE Stages[k + 1]
      OBVIOUS
    <3>1. (CHOOSE i \in 1..6 : Stages[i] = Stages[k]) = k
      BY <1>4
    <3> QED
      BY <3>1, Zenon DEF After
  <2> HIDE DEF After
  <2> QED
    BY <1>1, <2>1
<1> QED
  BY <1>3, <1>5

(***************************************************************************)
(* ShutdownImpl deletes the handles of its plugins and nobody else's.      *)
(***************************************************************************)
HeapTypes ==
  /\ alive       \subseteq Plugins
  /\ state       \in [Plugins -> [vm : Plugins \cup {None}, host : Plugins \cup {None}]
                                 \cup {None}]
  /\ initialized \in [Plugins -> BOOLEAN]
  /\ vms \subseteq Plugins /\ hosts \subseteq Plugins
  /\ \A p \in Plugins : initialized[p] => state[p] \in [vm : Plugins, host : Plugins]

(* Shutdown of some plugins and destruction of others leave every handle   *)
(* with one owner.                                                         *)
LEMMA ShutdownKeepsHeap ==
  ASSUME TypeOK, HandlesOwned, AliveHaveState,
         NEW shut \in SUBSET Plugins, NEW gone \in SUBSET Plugins, ShutdownImpl(shut, gone)
  PROVE  /\ alive' = alive \ gone
         /\ \A p \in Plugins \ (shut \cup gone) :
              state'[p] = state[p] /\ initialized'[p] = initialized[p]
         /\ HeapTypes' /\ HandlesOwned' /\ AliveHaveState'
<1> USE PluginAssumption
<1>0. Empty \in [vm : Plugins \cup {None}, host : Plugins \cup {None}] /\ Empty # None
      /\ Empty.vm = None /\ Empty.host = None
  BY DEF Empty
<1>1. alive' = alive \ gone
  BY DEF ShutdownImpl
<1>2. \A p \in Plugins :
        /\ p \in gone => state'[p] = None
        /\ p \in shut \ gone /\ state[p] # None => state'[p] = Empty
        /\ p \notin gone /\ state[p] = None => state'[p] = None
        /\ p \notin shut \cup gone => state'[p] = state[p]
  BY DEF ShutdownImpl
<1>3. \A p \in Plugins : initialized'[p] = (initialized[p] /\ p \notin shut \cup gone)
  BY DEF ShutdownImpl
<1>4. state' \in [Plugins -> [vm : Plugins \cup {None}, host : Plugins \cup {None}] \cup {None}]
  <2>1. state' = [p \in Plugins |-> state'[p]]
    BY DEF ShutdownImpl
  <2>2. \A p \in Plugins : state'[p] \in [vm : Plugins \cup {None}, host : Plugins \cup {None}] \cup {None}
    BY <1>0, <1>2 DEF TypeOK
  <2> QED
    BY <2>1, <2>2
<1>5. HeapTypes'
  BY <1>1, <1>2, <1>3, <1>4 DEF HeapTypes, TypeOK, ShutdownImpl
<1>6. AliveHaveState'
  BY <1>0, <1>1, <1>2 DEF AliveHaveState
<1>7. \A p, q \in Plugins : p # q /\ state'[p] # None /\ state'[q] # None =>
       /\ state'[p].vm   = state'[q].vm   => state'[p].vm = None
       /\ state'[p].host = state'[q].host => state'[p].host = None
  BY <1>0, <1>2 DEF HandlesOwned
<1>8. vms' = {state'[p].vm : p \in {q \in Plugins : state'[q] # None}} \ {None}
  <2>1. ASSUME NEW h \in vms' PROVE \E p \in Plugins : state'[p] # None /\ state'[p].vm = h
    <3>1. h \in vms /\ h \notin {state[p].vm : p \in {q \in shut \cup gone : state[q] # None}}
      BY <2>1 DEF ShutdownImpl
    <3>2. PICK p \in Plugins : state[p] # None /\ state[p].vm = h
      BY <3>1 DEF HandlesOwned
    <3>3. p \notin shut \cup gone
      BY <3>1, <3>2
    <3> QED
      BY <3>2, <3>3, <1>2
  <2>2. ASSUME NEW p \in Plugins, state'[p] # None, state'[p].vm # None PROVE state'[p].vm \in vms'
    <3>1. p \notin shut \cup gone /\ state'[p] = state[p]
      BY <2>2, <1>0, <1>2
    <3>2. state[p].vm \in vms
      BY <2>2, <3>1 DEF HandlesOwned
    <3>3. state[p].vm \notin {state[r].vm : r \in {q \in shut \cup gone : state[q] # None}}
      BY <2>2, <3>1 DEF HandlesOwned
    <3> QED
      BY <3>1, <3>2, <3>3 DEF ShutdownImpl
  <2>3. None \notin vms'
    BY <1>5 DEF HeapTypes
  <2> QED
    BY <2>1, <2>2, <2>3
<1>9. hosts' = {state'[p].host : p \in {q \in Plugins : state'[q] # None}} \ {None}
  <2>1. ASSUME NEW h \in hosts' PROVE \E p \in Plugins : state'[p] # None /\ state'[p].host = h
    <3>1. h \in hosts /\ h \notin {state[p].host : p \in {q \in shut \cup gone : state[q] # None}}
      BY <2>1 DEF ShutdownImpl
    <3>2. PICK p \in Plugins : state[p] # None /\ state[p].host = h
      BY <3>1 DEF HandlesOwned
    <3>3. p \notin shut \cup gone
      BY <3>1, <3>2
    <3> QED
      BY <3>2, <3>3, <1>2
  <2>2. ASSUME NEW p \in Plugins, state'[p] # None, state'[p].host # None
        PROVE  state'[p].host \in hosts'
    <3>1. p \notin shut \cup gone /\ state'[p] = state[p]
      BY <2>2, <1>0, <1>2
    <3>2. state[p].host \in hosts
      BY <2>2, <3>1 DEF HandlesOwned
    <3>3. state[p].host \notin {state[r].host : r \in {q \in shut \cup gone : state[q] # None}}
      BY <2>2, <3>1 DEF HandlesOwned
    <3> QED
      BY <3>1, <3>2, <3>3 DEF ShutdownImpl
  <2>3. None \notin hosts'
    BY <1>5 DEF HeapTypes
  <2> QED
    BY <2>1, <2>2, <2>3
<1>10. HandlesOwned'
  BY <1>7, <1>8, <1>9 DEF HandlesOwned
<1>11. \A p \in Plugins \ (shut \cup gone) : initialized'[p] = initialized[p]
  BY <1>3 DEF TypeOK
<1> QED
  BY <1>1, <1>2, <1>5, <1>6, <1>10, <1>11

(* TypeOK, apart from the heap.                                            *)
RestTypes ==
  /\ master \in Plugins \cup {None} /\ previous \in Plugins \cup {None}
  /\ life  \in [Actors -> {"none", "building", "registered", "killed"}]
  /\ clone \in [Actors -> Plugins \cup {None}]
  /\ call  \in [Threads -> [op : Ladder \cup {"idle", "clone", "initialized", "run"},
                            plugin : Plugins \cup {None}, actor : Actors \cup {None},
                            source : Plugins \cup {None}]]
  /\ ctx   \in [Threads -> Actors \cup {None}]

(* A plugin is constructed: it is nobody else's and has no handles.        *)
LEMMA ConstructInv ==
  ASSUME PluginInv, NEW t \in Threads, NEW p \in Plugins,
         NEW a, NEW src, Construct(t, p, a, src), UNCHANGED <<manager, actors, ctx>>,
         \/ call[t] = Idle /\ a = None /\ src = None
         \/ call[t].op = "clone" /\ a = call[t].actor /\ src = call[t].source
  PROVE  PluginInv'
<1> USE PluginAssumption
<1>inv. /\ TypeOK /\ HandlesOwned /\ CurrentObjectExact /\ AliveHaveState /\ RefersToAlive
        /\ ClonesOwned /\ BuildsPrivate /\ BuildsMade /\ CallsForActor
  BY DEF PluginInv
<1>un. UNCHANGED <<initialized, vms, hosts, master, previous, life, clone, ctx>>
  BY DEF Construct, manager, actors
<1>1. p \notin alive /\ alive' = alive \cup {p} /\ state[p] = None
  BY <1>inv DEF Construct, AliveHaveState
<1>2. /\ Empty \in [vm : Plugins \cup {None}, host : Plugins \cup {None}] /\ Empty # None
      /\ Empty.vm = None /\ Empty.host = None
  BY DEF Empty
<1>3. /\ state' = [state EXCEPT ![p] = Empty] /\ state'[p] = Empty
      /\ \A q \in Plugins \ {p} : state'[q] = state[q]
  BY <1>inv DEF Construct, TypeOK
<1>4. a \in Actors \cup {None} /\ src \in Plugins \cup {None} /\ call[t].op \in {"idle", "clone"}
  BY <1>inv DEF TypeOK, Idle
<1>5. /\ call'[t] = [op |-> "VMCreate", plugin |-> p, actor |-> a, source |-> src]
      /\ \A u \in Threads \ {t} : call'[u] = call[u]
  BY <1>inv DEF Construct, TypeOK
<1>6. src = call[t].source
  BY DEF Idle
<1>7. ~initialized[p]
  BY <1>1, <1>inv DEF TypeOK
<1>8. HeapTypes'
  BY <1>un, <1>1, <1>2, <1>3, <1>7, <1>inv DEF HeapTypes, TypeOK
<1>9. RestTypes'
  BY <1>un, <1>4, <1>inv, LadderFacts DEF RestTypes, TypeOK, Construct
<1>10. HandlesOwned'
  <2>1. \A q \in Plugins : state'[q] # None /\ state'[q].vm # None <=> state[q] # None /\ state[q].vm # None
    BY <1>1, <1>2, <1>3
  <2>2. \A q \in Plugins : state'[q] # None /\ state'[q].host # None <=> state[q] # None /\ state[q].host # None
    BY <1>1, <1>2, <1>3
  <2>3. vms = {state'[q].vm : q \in {r \in Plugins : state'[r] # None}} \ {None}
    BY <2>1, <1>2, <1>3, <1>1, <1>inv DEF HandlesOwned
  <2>4. hosts = {state'[q].host : q \in {r \in Plugins : state'[r] # None}} \ {None}
    BY <2>2, <1>2, <1>3, <1>1, <1>inv DEF HandlesOwned
  <2>5. \A q, r \in Plugins : q # r /\ state'[q] # None /\ state'[r] # None =>
          /\ state'[q].vm   = state'[r].vm   => state'[q].vm = None
          /\ state'[q].host = state'[r].host => state'[q].host = None
    BY <1>2, <1>3, <1>inv DEF HandlesOwned
  <2> QED
    BY <2>3, <2>4, <2>5, <1>un DEF HandlesOwned
<1>11. AliveHaveState'
  BY <1>1, <1>2, <1>3, <1>inv DEF AliveHaveState
<1>12. RefersToAlive'
  BY <1>un, <1>1, <1>5, <1>6, <1>inv DEF RefersToAlive
<1>13. \A u \in Threads : call'[u].source = call[u].source
  BY <1>5, <1>6
<1>14. \A q \in Plugins : NotServed(q)' = NotServed(q)
  BY <1>un, <1>13 DEF NotServed
<1>15. ClonesOwned'
  BY <1>un, <1>1, <1>14, <1>inv DEF ClonesOwned, TypeOK
<1>16. \A u \in Threads \ {t} : Building(u)' = Building(u)
  BY <1>5 DEF Building
<1>17. NotServed(p) /\ \A b \in Actors : clone[b] # p
  BY <1>1, <1>inv DEF NotServed, RefersToAlive, ClonesOwned
<1>18. BuildsPrivate'
  BY <1>un, <1>1, <1>5, <1>14, <1>16, <1>17, <1>inv DEF BuildsPrivate, TypeOK
<1>19. BuildsMade'
  <2>1. ASSUME NEW u \in Threads \ {t}, Building(u)
        PROVE  call[u].plugin \in Plugins /\ call[u].plugin # p
    BY <2>1, <1>1, <1>inv DEF BuildsPrivate, TypeOK
  <2>2. ASSUME NEW u \in Threads \ {t}, Building(u)
        PROVE  state'[call[u].plugin] = state[call[u].plugin]
    BY <2>1, <2>2, <1>3
  <2>3. \A u \in Threads \ {t} : call[u].op \in Ladder \cup {"initialized"} => Building(u)
    BY DEF Building
  <2> QED
    BY <2>2, <2>3, <1>un, <1>3, <1>5, <1>inv, LadderFacts DEF BuildsMade, Made
<1>20. CallsForActor'
  BY <1>un, <1>5, <1>16, <1>inv, LadderFacts DEF CallsForActor, Idle, Building
<1>21. CurrentObjectExact'
  BY <1>un, <1>5, <1>inv DEF CurrentObjectExact, HostGetCurrentObjectId
<1>22. TypeOK'
  BY <1>8, <1>9 DEF TypeOK, HeapTypes, RestTypes
<1> QED
  BY <1>10, <1>11, <1>12, <1>15, <1>18, <1>19, <1>20, <1>21, <1>22 DEF PluginInv

(* A call of Initialize succeeds: a handle that is made is a new one.      *)
LEMMA InitializeStepInv ==
  ASSUME PluginInv, NEW t \in Threads, InitializeStep(t)
  PROVE  PluginInv'
<1> USE PluginAssumption
<1> DEFINE p == call[t].plugin
           n == After(call[t].op)
<1>inv. /\ TypeOK /\ HandlesOwned /\ CurrentObjectExact /\ AliveHaveState /\ RefersToAlive
        /\ ClonesOwned /\ BuildsPrivate /\ BuildsMade /\ CallsForActor
  BY DEF PluginInv
<1>un. UNCHANGED <<alive, master, previous, life, clone, ctx>>
  BY DEF InitializeStep, manager, actors
<1>op. call[t].op \in Ladder /\ n \in Ladder \cup {"initialized"} /\ n # "VMCreate"
  <2>1. call[t].op \in Ladder
    BY DEF InitializeStep
  <2> QED
    BY <2>1, LadderFacts
<1>p. Building(t) /\ p \in Plugins /\ p \in alive /\ NotServed(p) /\ \A a \in Actors : clone[a] # p
  BY <1>op, <1>inv DEF Building, BuildsPrivate, TypeOK
<1>call. /\ call'[t].op = n /\ call'[t].plugin = p
         /\ call'[t].actor = call[t].actor /\ call'[t].source = call[t].source
         /\ \A u \in Threads \ {t} : call'[u] = call[u]
         /\ call' \in [Threads -> [op : Ladder \cup {"idle", "clone", "initialized", "run"},
                                   plugin : Plugins \cup {None}, actor : Actors \cup {None},
                                   source : Plugins \cup {None}]]
  BY <1>op, <1>inv DEF InitializeStep, TypeOK
<1>ini. /\ initialized'[p] = (n = "initialized") /\ initialized' \in [Plugins -> BOOLEAN]
        /\ \A q \in Plugins \ {p} : initialized'[q] = initialized[q]
  BY <1>p, <1>inv DEF InitializeStep, TypeOK
<1>oth. \A u \in Threads \ {t} : Building(u) => call[u].plugin \in Plugins \ {p}
  BY <1>p, <1>inv DEF BuildsPrivate, TypeOK
<1>b. Building(t)' /\ \A u \in Threads \ {t} : Building(u)' = Building(u)
  BY <1>call, <1>op DEF Building
<1>heap. /\ \A q \in Plugins \ {p} : state'[q] = state[q]
         /\ state' \in [Plugins -> [vm : Plugins \cup {None}, host : Plugins \cup {None}] \cup {None}]
         /\ state'[p] # None /\ vms' \subseteq Plugins /\ hosts' \subseteq Plugins
         /\ n = "CreateHostModule" => state'[p].vm \in Plugins /\ state'[p].host = None
         /\ n # "CreateHostModule" => state'[p] \in [vm : Plugins, host : Plugins]
         /\ HandlesOwned'
  <2>1. CASE call[t].op = "VMCreate"
    <3>1. n = "CreateHostModule"
      BY <2>1, LadderFacts
    <3>2. state[p] = Empty /\ state[p] # None /\ state[p].vm = None /\ state[p].host = None
      BY <2>1, <1>inv DEF BuildsMade, Made, Empty
    <3>3. PICK vm \in Plugins \ vms :
            vms' = vms \cup {vm} /\ state' = [state EXCEPT ![p].vm = vm] /\ hosts' = hosts
      BY <2>1 DEF InitializeStep
    <3>4. /\ state'[p] \in [vm : Plugins \cup {None}, host : Plugins \cup {None}]
          /\ state'[p].vm = vm /\ state'[p].host = None
          /\ \A q \in Plugins \ {p} : state'[q] = state[q]
          /\ state' \in [Plugins -> [vm : Plugins \cup {None}, host : Plugins \cup {None}] \cup {None}]
      BY <3>2, <3>3, <1>p, <1>inv DEF TypeOK, Empty
    <3>n. state'[p] # None
      BY <3>4
    <3>5. \A q \in Plugins : state[q] # None => state[q].vm # vm
      BY <3>3, <1>inv DEF HandlesOwned
    <3>6. vms' = {state'[q].vm : q \in {r \in Plugins : state'[r] # None}} \ {None}
      BY <3>2, <3>3, <3>4, <1>p, <1>inv DEF HandlesOwned
    <3>7. hosts' = {state'[q].host : q \in {r \in Plugins : state'[r] # None}} \ {None}
      BY <3>2, <3>3, <3>4, <1>p, <1>inv DEF HandlesOwned
    <3>8. HandlesOwned'
      BY <3>4, <3>5, <3>6, <3>7, <1>p, <1>inv DEF HandlesOwned
    <3>9. vms' \subseteq Plugins /\ hosts' \subseteq Plugins
      BY <3>3, <1>inv DEF TypeOK
    <3> QED
      BY <3>1, <3>4, <3>n, <3>8, <3>9, <3>3
  <2>2. CASE call[t].op = "CreateHostModule"
    <3>1. n = "LoadWasm"
      BY <2>2, LadderFacts
    <3>2. state[p] # None /\ state[p].vm \in Plugins /\ state[p].host = None
      BY <2>2, <1>inv DEF BuildsMade, Made
    <3>3. PICK host \in Plugins \ hosts :
            hosts' = hosts \cup {host} /\ state' = [state EXCEPT ![p].host = host] /\ vms' = vms
      BY <2>2 DEF InitializeStep
    <3>4. /\ state'[p] \in [vm : Plugins, host : Plugins]
          /\ state'[p].vm = state[p].vm /\ state'[p].host = host
          /\ \A q \in Plugins \ {p} : state'[q] = state[q]
          /\ state' \in [Plugins -> [vm : Plugins \cup {None}, host : Plugins \cup {None}] \cup {None}]
      BY <3>2, <3>3, <1>p, <1>inv DEF TypeOK
    <3>n. state'[p] # None
      <4>1. state'[p] \in [vm : Plugins \cup {None}, host : Plugins \cup {None}]
        BY <3>4
      <4> QED
        BY <4>1
    <3>5. \A q \in Plugins : state[q] # None => state[q].host # host
      BY <3>3, <1>inv DEF HandlesOwned
    <3>6. vms' = {state'[q].vm : q \in {r \in Plugins : state'[r] # None}} \ {None}
      BY <3>2, <3>3, <3>4, <1>p, <1>inv DEF HandlesOwned
    <3>7. hosts' = {state'[q].host : q \in {r \in Plugins : state'[r] # None}} \ {None}
      <4>1. ASSUME NEW h \in hosts' PROVE \E q \in Plugins : state'[q] # None /\ state'[q].host = h
        <5>1. CASE h = host
          BY <5>1, <3>4, <3>n, <1>p
        <5>2. CASE h \in hosts
          <6>1. PICK q \in Plugins : state[q] # None /\ state[q].host = h /\ h # None
            BY <5>2, <1>inv DEF HandlesOwned
          <6>2. q # p
            BY <6>1, <3>2
          <6> QED
            BY <6>1, <6>2, <3>4
        <5> QED
          BY <4>1, <5>1, <5>2, <3>3
      <4>2. ASSUME NEW q \in Plugins, state'[q] # None, state'[q].host # None
            PROVE  state'[q].host \in hosts'
        BY <4>2, <3>3, <3>4, <1>inv DEF HandlesOwned
      <4>3. None \notin hosts'
        BY <3>3, <1>inv DEF TypeOK
      <4> QED
        BY <4>1, <4>2, <4>3
    <3>8. HandlesOwned'
      BY <3>2, <3>4, <3>5, <3>6, <3>7, <1>p, <1>inv DEF HandlesOwned
    <3>9. vms' \subseteq Plugins /\ hosts' \subseteq Plugins
      BY <3>3, <1>inv DEF TypeOK
    <3> QED
      BY <3>1, <3>4, <3>n, <3>8, <3>9
  <2>3. CASE call[t].op \notin {"VMCreate", "CreateHostModule"}
    <3>1. UNCHANGED <<vms, hosts, state>>
      BY <2>3 DEF InitializeStep
    <3>2. n # "CreateHostModule"
      BY <2>3, <1>op, LadderFacts
    <3>3. state[p] \in [vm : Plugins, host : Plugins]
      BY <2>3, <1>op, <1>inv DEF BuildsMade, Made
    <3>4. HandlesOwned'
      BY <3>1, <1>inv DEF HandlesOwned
    <3> QED
      BY <3>1, <3>2, <3>3, <3>4, <1>inv DEF TypeOK
  <2> QED
    BY <2>1, <2>2, <2>3
<1> HIDE DEF p, n
<1>1. TypeOK'
  <2>1. HeapTypes'
    BY <1>un, <1>p, <1>ini, <1>heap, <1>inv DEF HeapTypes, TypeOK
  <2>2. RestTypes'
    BY <1>un, <1>call, <1>inv DEF RestTypes, TypeOK
  <2> QED
    BY <2>1, <2>2 DEF TypeOK, HeapTypes, RestTypes
<1>2. AliveHaveState'
  BY <1>un, <1>p, <1>heap, <1>inv DEF AliveHaveState
<1>3. RefersToAlive'
  BY <1>un, <1>call, <1>inv DEF RefersToAlive
<1>4. \A q : NotServed(q)' = NotServed(q)
  BY <1>un, <1>call DEF NotServed
<1>5. ClonesOwned'
  BY <1>un, <1>p, <1>ini, <1>4, <1>inv DEF ClonesOwned, TypeOK
<1>6. BuildsPrivate'
  BY <1>un, <1>p, <1>call, <1>oth, <1>b, <1>4, <1>inv DEF BuildsPrivate, p
<1>7. BuildsMade'
  <2>1. ASSUME NEW u \in Threads \ {t}, Building(u)
        PROVE  /\ state'[call[u].plugin] = state[call[u].plugin]
               /\ initialized'[call[u].plugin] = initialized[call[u].plugin]
    BY <2>1, <1>oth, <1>heap, <1>ini
  <2>2. \A u \in Threads \ {t} : call[u].op \in Ladder \cup {"initialized"} => Building(u)
    BY DEF Building
  <2>3. Made(t)'
    <3>1. /\ n = "CreateHostModule" => state'[p] # None /\ state'[p].vm \in Plugins /\ state'[p].host = None
          /\ n # "CreateHostModule" => state'[p] \in [vm : Plugins, host : Plugins]
          /\ n # "VMCreate" /\ n = "initialized" => initialized'[p]
      BY <1>heap, <1>ini
    <3>2. call'[t].op = n /\ call'[t].plugin = p /\ n # "VMCreate"
      BY <1>call, <1>op
    <3> QED
      BY <3>1, <3>2 DEF Made
  <2>4. ASSUME NEW u \in Threads \ {t} PROVE Made(u)'
    <3>0. call'[u] = call[u] /\ Made(u)
      BY <1>call, <1>inv DEF BuildsMade
    <3>1. CASE Building(u)
      BY <3>0, <3>1, <2>1 DEF Made
    <3>2. CASE ~Building(u)
      BY <3>0, <3>2, LadderFacts DEF Building, Made
    <3> QED
      BY <3>1, <3>2
  <2> QED
    BY <2>3, <2>4 DEF BuildsMade
<1>8. CallsForActor'
  BY <1>un, <1>call, <1>b, <1>op, <1>p, <1>inv, LadderFacts DEF CallsForActor
<1>9. CurrentObjectExact'
  BY <1>un, <1>call, <1>op, <1>inv, LadderFacts DEF CurrentObjectExact, HostGetCurrentObjectId
<1> QED
  BY <1>1, <1>2, <1>3, <1>5, <1>6, <1>7, <1>8, <1>9, <1>heap DEF PluginInv

(***************************************************************************)
(* A step that starts no plugin and advances none: the heap loses the      *)
(* plugins in gone, and the handles of those in lost.  The invariant is    *)
(* kept if nothing that is referred to afterwards, nothing that runs and   *)
(* nothing that is under construction is among them.                       *)
(***************************************************************************)
HeapLoses(lost, gone) ==
  /\ alive' = alive \ gone
  /\ \A p \in Plugins \ (lost \cup gone) :
       state'[p] = state[p] /\ initialized'[p] = initialized[p]
  /\ HeapTypes' /\ HandlesOwned' /\ AliveHaveState'

(* A step that loses plugins nobody refers to afterwards preserves the     *)
(* invariant.                                                              *)
LEMMA ReferencesInv ==
  ASSUME PluginInv, NEW lost, NEW gone, HeapLoses(lost, gone),
         RestTypes', CallsForActor', CurrentObjectExact',
         \A t \in Threads : Building(t)' =>
           /\ Building(t) /\ call'[t] = call[t] /\ call[t].plugin \notin lost \cup gone
           /\ NotServed(call[t].plugin)' /\ \A a \in Actors : clone'[a] # call[t].plugin,
         \A a \in Actors : clone'[a] # None =>
           /\ clone'[a] \in alive \ (lost \cup gone) /\ initialized[clone'[a]]
           /\ NotServed(clone[a])' /\ \A b \in Actors \ {a} : clone'[b] # clone'[a],
         master' # None => master' \in alive \ gone,
         previous' # None => previous' \in alive \ gone,
         \A t \in Threads : call'[t].source # None => call'[t].source \in alive \ gone
  PROVE  PluginInv'
<1> USE PluginAssumption
<1>inv. TypeOK /\ BuildsPrivate /\ BuildsMade
  BY DEF PluginInv
<1>1. TypeOK'
  BY DEF HeapLoses, TypeOK, HeapTypes, RestTypes
<1>2. RefersToAlive'
  BY DEF HeapLoses, RefersToAlive
<1>3. ClonesOwned'
  <2>1. \A a \in Actors : clone'[a] # None => clone'[a] \in Plugins
    BY DEF RestTypes
  <2> QED
    BY <2>1 DEF HeapLoses, ClonesOwned
<1>4. BuildsPrivate'
  BY <1>inv DEF HeapLoses, BuildsPrivate
<1>5. BuildsMade'
  <2>1. ASSUME NEW t \in Threads, Building(t)' PROVE Made(t)'
    <3>1. call[t].plugin \in Plugins \ (lost \cup gone) /\ call'[t] = call[t] /\ Made(t)
      BY <2>1, <1>inv DEF BuildsPrivate, BuildsMade, TypeOK
    <3>2. /\ state'[call[t].plugin] = state[call[t].plugin]
          /\ initialized'[call[t].plugin] = initialized[call[t].plugin]
      BY <3>1 DEF HeapLoses
    <3> QED
      BY <3>1, <3>2 DEF Made
  <2>2. ASSUME NEW t \in Threads, ~Building(t)' PROVE Made(t)'
    BY <2>2, LadderFacts DEF Made, Building
  <2> QED
    BY <2>1, <2>2 DEF BuildsMade
<1> QED
  BY <1>1, <1>2, <1>3, <1>4, <1>5 DEF PluginInv, HeapLoses

(* ShutdownImpl is such a change of the heap, and so is none at all.       *)
LEMMA ShutdownLoses ==
  ASSUME PluginInv, NEW shut \in SUBSET Plugins, NEW gone \in SUBSET Plugins,
         ShutdownImpl(shut, gone)
  PROVE  HeapLoses(shut, gone)
BY ShutdownKeepsHeap DEF PluginInv, HeapLoses

(* A step that leaves the heap alone loses nothing.                        *)
LEMMA UnchangedHeapLoses ==
  ASSUME PluginInv, UNCHANGED heap
  PROVE  HeapLoses({}, {})
BY DEF PluginInv, heap, HeapLoses, TypeOK, HeapTypes, HandlesOwned, AliveHaveState

(* Only what a step lets go of can be destroyed by it, and nothing that is *)
(* still referred to.                                                      *)
LEMMA UnreferencedFacts ==
  ASSUME NEW ps
  PROVE  /\ Unreferenced(ps) \subseteq ps \ {None}
         /\ master' \notin Unreferenced(ps) /\ previous' \notin Unreferenced(ps)
         /\ \A t \in Threads : call'[t].source \notin Unreferenced(ps)
         /\ \A a \in Actors : clone'[a] \notin Unreferenced(ps)
BY DEF Unreferenced

(* A thread's call ends, and others go on as they were.                    *)
LEMMA CallEnds ==
  ASSUME TypeOK, NEW t \in Threads, call' = [call EXCEPT ![t] = Idle]
  PROVE  /\ call'[t] = Idle /\ \A u \in Threads \ {t} : call'[u] = call[u]
         /\ call' \in [Threads -> [op : Ladder \cup {"idle", "clone", "initialized", "run"},
                                   plugin : Plugins \cup {None}, actor : Actors \cup {None},
                                   source : Plugins \cup {None}]]
         /\ ~Building(t)' /\ \A u \in Threads \ {t} : Building(u)' = Building(u)
         /\ \A u \in Threads : call'[u].source \in {None, call[u].source}
BY LadderFacts DEF TypeOK, Idle, Building

(* The end of a constructor disturbs no other call.                        *)
LEMMA ConstructorEnds ==
  ASSUME PluginInv, NEW t \in Threads, Building(t), call' = [call EXCEPT ![t] = Idle],
         \A b \in Actors \ {call[t].actor} : life'[b] = life[b] /\ clone'[b] = clone[b]
  PROVE  CallsForActor'
<1> USE PluginAssumption
<1> DEFINE a == call[t].actor
<1>inv. TypeOK /\ CallsForActor
  BY DEF PluginInv
<1>call. /\ call'[t] = Idle /\ \A u \in Threads \ {t} : call'[u] = call[u]
         /\ ~Building(t)' /\ \A u \in Threads \ {t} : Building(u)' = Building(u)
  BY <1>inv, CallEnds
<1>idle. Idle.op = "idle" /\ Idle.actor = None
  BY DEF Idle
<1>actor. a \in Actors \cup {None} /\ (a # None => life[a] = "building")
  BY <1>inv DEF TypeOK, CallsForActor
<1>1. ASSUME NEW u \in Threads \ {t}, call[u].actor # None, Building(u) \/ call[u].op = "clone"
      PROVE  call[u].actor \in Actors \ {a}
  BY <1>1, <1>actor, <1>inv DEF CallsForActor, TypeOK
<1>2. ASSUME NEW u \in Threads \ {t}, call[u].op = "run" PROVE call[u].actor \in Actors \ {a}
  BY <1>2, <1>actor, <1>inv DEF CallsForActor
<1> HIDE DEF a
<1>3. ASSUME NEW u \in Threads, call'[u].actor # None, Building(u)' \/ call'[u].op = "clone"
      PROVE  /\ life'[call'[u].actor] = "building"
             /\ \A v \in Threads \ {u} :
                  Building(v)' \/ call'[v].op = "clone" => call'[v].actor # call'[u].actor
  <2>1. u # t /\ call'[u] = call[u] /\ (Building(u) \/ call[u].op = "clone")
    BY <1>3, <1>call, <1>idle
  <2>2. call[u].actor \in Actors \ {a}
    BY <2>1, <1>1, <1>3
  <2> QED
    BY <2>1, <2>2, <1>3, <1>call, <1>idle, <1>inv DEF CallsForActor, a
<1>4. \A u \in Threads : call'[u].op = "clone" => call'[u].actor # None
  BY <1>call, <1>idle, <1>inv DEF CallsForActor
<1>5. ASSUME NEW u \in Threads, call'[u].op = "run"
      PROVE  /\ call'[u].actor \in Actors /\ life'[call'[u].actor] \in {"registered", "killed"}
             /\ call'[u].plugin = clone'[call'[u].actor] /\ call'[u].plugin # None
  <2>1. u # t /\ call'[u] = call[u]
    BY <1>5, <1>call, <1>idle
  <2> QED
    BY <2>1, <1>2, <1>5, <1>inv DEF CallsForActor, a
<1> QED
  BY <1>3, <1>4, <1>5 DEF CallsForActor

(* Each rung of the ladder deletes what was made before it: its clean-up   *)
(* is worth the ShutdownImpl of the plugin.                                *)
LEMMA CleanUpIsShutdown ==
  ASSUME PluginInv, NEW t \in Threads, InitializeFails(t)
  PROVE  ShutdownImpl({}, {call[t].plugin} \cup Unreferenced({call[t].source}))
<1> USE PluginAssumption
<1> DEFINE p        == call[t].plugin
           dropped  == Unreferenced({call[t].source})
           shutDown == {q \in dropped : state[q] # None}
           gone     == {p} \cup dropped
<1>1. /\ call[t].op \in Ladder /\ p \in alive /\ p \in Plugins /\ state[p] # None
      /\ vms \subseteq Plugins /\ hosts \subseteq Plugins
  BY DEF PluginInv, InitializeFails, BuildsPrivate, Building, AliveHaveState, TypeOK
<1>2. {q \in {} \cup gone : state[q] # None} = shutDown \cup {p}
  BY <1>1
<1>3. CASE call[t].op = "VMCreate"
  <2>1. CleanUp(call[t].op) = {} /\ state[p].vm = None /\ state[p].host = None
    BY <1>3 DEF CleanUp, PluginInv, BuildsMade, Made, Empty
  <2>2. vms' = vms \ {state[q].vm : q \in shutDown}
    BY <2>1 DEF InitializeFails
  <2>3. hosts' = hosts \ {state[q].host : q \in shutDown}
    BY <2>1 DEF InitializeFails
  <2>4. vms' = vms \ {state[q].vm : q \in shutDown \cup {p}}
    BY <1>1, <2>1, <2>2
  <2>5. hosts' = hosts \ {state[q].host : q \in shutDown \cup {p}}
    BY <1>1, <2>1, <2>3
  <2> QED
    BY <1>2, <2>4, <2>5 DEF InitializeFails, ShutdownImpl
<1>4. CASE call[t].op = "CreateHostModule"
  <2>1. CleanUp(call[t].op) = {"vm"} /\ state[p].host = None
    BY <1>4 DEF CleanUp, PluginInv, BuildsMade, Made
  <2>2. vms' = vms \ {state[q].vm : q \in shutDown \cup {p}}
    BY <2>1 DEF InitializeFails
  <2>3. hosts' = hosts \ {state[q].host : q \in shutDown}
    BY <2>1 DEF InitializeFails
  <2>4. hosts' = hosts \ {state[q].host : q \in shutDown \cup {p}}
    BY <1>1, <2>1, <2>3
  <2> QED
    BY <1>2, <2>2, <2>4 DEF InitializeFails, ShutdownImpl
<1>5. CASE call[t].op \notin {"VMCreate", "CreateHostModule"}
  <2>1. CleanUp(call[t].op) = {"host", "vm"}
    BY <1>1, <1>5, LadderFacts DEF CleanUp
  <2>2. vms' = vms \ {state[q].vm : q \in shutDown \cup {p}}
    BY <2>1 DEF InitializeFails
  <2>3. hosts' = hosts \ {state[q].host : q \in shutDown \cup {p}}
    BY <2>1 DEF InitializeFails
  <2> QED
    BY <1>2, <2>2, <2>3 DEF InitializeFails, ShutdownImpl
<1> QED
  BY <1>3, <1>4, <1>5

(* Initialize fails: the plugin and, if it is the last to hold it, the     *)
(* plugin it was cloned from are destroyed.                                *)
LEMMA InitializeFailsInv ==
  ASSUME PluginInv, NEW t \in Threads, InitializeFails(t)
  PROVE  PluginInv'
<1> USE PluginAssumption
<1> DEFINE p == call[t].plugin
           a == call[t].actor
           gone == {p} \cup Unreferenced({call[t].source})
<1>inv. /\ TypeOK /\ CurrentObjectExact /\ RefersToAlive /\ ClonesOwned /\ BuildsPrivate
        /\ BuildsMade /\ CallsForActor
  BY DEF PluginInv
<1>act. /\ call[t].op \in Ladder /\ call' = [call EXCEPT ![t] = Idle] /\ Built(a, None)
        /\ UNCHANGED <<master, previous, ctx>> /\ ShutdownImpl({}, gone)
  BY CleanUpIsShutdown DEF InitializeFails, manager
<1>p. Building(t) /\ p \in Plugins /\ NotServed(p) /\ \A b \in Actors : clone[b] # p
  BY <1>act, <1>inv DEF Building, BuildsPrivate, TypeOK
<1>call. /\ call'[t] = Idle /\ \A u \in Threads \ {t} : call'[u] = call[u]
         /\ ~Building(t)' /\ \A u \in Threads \ {t} : Building(u)' = Building(u)
         /\ \A u \in Threads : call'[u].source \in {None, call[u].source}
  BY <1>act, <1>inv, CallEnds
<1>gone. /\ gone \in SUBSET Plugins /\ gone \subseteq {p, call[t].source}
         /\ master' \notin gone /\ previous' \notin gone
         /\ \A u \in Threads : call'[u].source \notin gone
         /\ \A b \in Actors : clone'[b] \notin gone
  <2>1. call[t].source \in Plugins \cup {None}
    BY <1>inv DEF TypeOK
  <2>2. \A b \in Actors : clone'[b] \in {None, clone[b]}
    BY <1>act, <1>inv DEF Built, TypeOK
  <2> QED
    BY <2>1, <2>2, <1>act, <1>p, <1>call, UnreferencedFacts DEF NotServed
<1> HIDE DEF p, gone
<1>heap. HeapLoses({}, gone)
  BY <1>act, <1>gone, ShutdownLoses
<1>actor. a \in Actors \cup {None} /\ (a # None => life[a] = "building")
  BY <1>p, <1>inv DEF TypeOK, CallsForActor
<1>life. /\ life' \in [Actors -> {"none", "building", "registered", "killed"}]
         /\ clone' \in [Actors -> Plugins \cup {None}]
         /\ \A b \in Actors \ {a} : life'[b] = life[b] /\ clone'[b] = clone[b]
         /\ \A b \in Actors : clone'[b] \in {None, clone[b]}
  BY <1>act, <1>actor, <1>inv DEF Built, TypeOK
<1> HIDE DEF a
<1>1. RestTypes'
  BY <1>act, <1>life, <1>inv, CallEnds DEF RestTypes, TypeOK
<1>2. CallsForActor'
  BY <1>act, <1>p, <1>life, ConstructorEnds DEF a
<1>3. CurrentObjectExact'
  BY <1>act, <1>call, <1>inv DEF CurrentObjectExact, HostGetCurrentObjectId, Idle
<1>4. \A q \in Plugins : NotServed(q) => NotServed(q)'
  BY <1>act, <1>call DEF NotServed
<1>5. ASSUME NEW u \in Threads, Building(u)'
      PROVE  /\ Building(u) /\ call'[u] = call[u] /\ call[u].plugin \notin {} \cup gone
             /\ NotServed(call[u].plugin)' /\ \A b \in Actors : clone'[b] # call[u].plugin
  <2>1. u # t /\ Building(u) /\ call'[u] = call[u]
    BY <1>5, <1>call
  <2>2. /\ call[u].plugin \in Plugins /\ NotServed(call[u].plugin) /\ call[u].plugin # p
        /\ \A b \in Actors : clone[b] # call[u].plugin
    BY <2>1, <1>p, <1>inv DEF BuildsPrivate, TypeOK, p
  <2>3. call[u].plugin \notin gone
    BY <2>2, <1>gone DEF NotServed
  <2>4. NotServed(call[u].plugin)'
    BY <2>1, <2>2, <1>4
  <2> QED
    BY <2>1, <2>2, <2>3, <2>4, <1>life
<1>6. ASSUME NEW b \in Actors, clone'[b] # None
      PROVE  /\ clone'[b] \in alive \ ({} \cup gone) /\ initialized[clone'[b]]
             /\ NotServed(clone[b])' /\ \A c \in Actors \ {b} : clone'[c] # clone'[b]
  <2>1. clone'[b] = clone[b] /\ clone[b] \in Plugins
    BY <1>6, <1>life, <1>inv DEF TypeOK
  <2>2. NotServed(clone[b])'
    BY <2>1, <1>6, <1>4, <1>inv DEF ClonesOwned
  <2> QED
    BY <2>1, <2>2, <1>6, <1>life, <1>gone, <1>inv DEF ClonesOwned
<1>7. /\ master' # None => master' \in alive \ gone
      /\ previous' # None => previous' \in alive \ gone
      /\ \A u \in Threads : call'[u].source # None => call'[u].source \in alive \ gone
  BY <1>act, <1>call, <1>gone, <1>inv DEF RefersToAlive
<1> QED
  BY <1>heap, <1>1, <1>2, <1>3, <1>5, <1>6, <1>7, ReferencesInv

(***************************************************************************)
(* The steps of the manager: what was served or kept may go, but no clone  *)
(* and no plugin under construction is among it.                           *)
(***************************************************************************)
LEMMA ManagerStepInv ==
  ASSUME PluginInv, NEW shut \in SUBSET Plugins, NEW gone, ShutdownImpl(shut, gone),
         gone \in {Unreferenced({master}), Unreferenced({master, previous})},
         shut \subseteq {master}, UNCHANGED <<life, clone, ctx>>,
         RestTypes', CallsForActor', CurrentObjectExact',
         \A t \in Threads : Building(t)' => Building(t) /\ call'[t] = call[t],
         \A t \in Threads : call'[t].source \in {None, call[t].source},
         \A x \in {master', previous'} \ {master, previous, None} :
           \E t \in Threads : Building(t) /\ ~Building(t)' /\ x = call[t].plugin
  PROVE  PluginInv'
<1> USE PluginAssumption
<1>inv. /\ TypeOK /\ CurrentObjectExact /\ RefersToAlive /\ ClonesOwned /\ BuildsPrivate
        /\ BuildsMade /\ CallsForActor
  BY DEF PluginInv
<1>gone. /\ gone \in SUBSET Plugins /\ gone \subseteq {master, previous}
         /\ master' \notin gone /\ previous' \notin gone
         /\ \A u \in Threads : call'[u].source \notin gone
  <2>1. {master, previous} \ {None} \subseteq Plugins
    BY <1>inv DEF TypeOK
  <2> QED
    BY <2>1, UnreferencedFacts
<1>heap. HeapLoses(shut, gone)
  BY <1>gone, ShutdownLoses
<1>clone. ASSUME NEW q \in Plugins, NotServed(q),
                 \A t \in Threads : Building(t) /\ ~Building(t)' => q # call[t].plugin
          PROVE  NotServed(q)' /\ q \notin shut \cup gone
  BY <1>clone, <1>gone DEF NotServed
<1>1. ASSUME NEW t \in Threads, Building(t)'
      PROVE  /\ Building(t) /\ call'[t] = call[t] /\ call[t].plugin \notin shut \cup gone
             /\ NotServed(call[t].plugin)' /\ \A a \in Actors : clone'[a] # call[t].plugin
  <2>1. Building(t) /\ call'[t] = call[t] /\ call[t].plugin \in Plugins
    BY <1>1, <1>inv DEF BuildsPrivate, TypeOK
  <2>2. \A u \in Threads : Building(u) /\ ~Building(u)' => call[t].plugin # call[u].plugin
    BY <2>1, <1>1, <1>inv DEF BuildsPrivate
  <2>3. NotServed(call[t].plugin) /\ \A a \in Actors : clone[a] # call[t].plugin
    BY <2>1, <1>inv DEF BuildsPrivate
  <2> DEFINE q == call[t].plugin
  <2>4. q \notin shut \cup gone /\ q # master' /\ q # previous' /\ \A u \in Threads : q # call'[u].source
    <3> HIDE DEF q
    <3> QED
      BY <2>1, <2>2, <2>3, <1>clone DEF q, NotServed
  <2> QED
    BY <2>1, <2>3, <2>4 DEF NotServed
<1>2. ASSUME NEW a \in Actors, clone'[a] # None
      PROVE  /\ clone'[a] \in alive \ (shut \cup gone) /\ initialized[clone'[a]]
             /\ NotServed(clone[a])' /\ \A b \in Actors \ {a} : clone'[b] # clone'[a]
  <2>1. clone[a] \in Plugins /\ NotServed(clone[a]) /\ clone' = clone
    BY <1>2, <1>inv DEF ClonesOwned, TypeOK
  <2>2. \A u \in Threads : Building(u) /\ ~Building(u)' => clone[a] # call[u].plugin
    BY <1>inv DEF BuildsPrivate
  <2>3. NotServed(clone[a])' /\ clone[a] \notin shut \cup gone
    BY <2>1, <2>2, <1>clone DEF NotServed
  <2> QED
    BY <2>1, <2>3, <1>2, <1>inv DEF ClonesOwned
<1>3. /\ master' # None => master' \in alive \ gone
      /\ previous' # None => previous' \in alive \ gone
      /\ \A t \in Threads : call'[t].source # None => call'[t].source \in alive \ gone
  <2>1. \A t \in Threads : Building(t) => call[t].plugin \in alive
    BY <1>inv DEF BuildsPrivate
  <2> QED
    BY <2>1, <1>gone, <1>inv DEF RefersToAlive
<1> QED
  BY <1>heap, <1>1, <1>2, <1>3, ReferencesInv

(* The manager publishes the plugin it built.                              *)
LEMMA PublishInv ==
  ASSUME PluginInv, NEW t \in Threads, NEW keep \in BOOLEAN, Publish(t, keep)
  PROVE  PluginInv'
<1> USE PluginAssumption
<1>inv. /\ TypeOK /\ CurrentObjectExact /\ RefersToAlive /\ ClonesOwned /\ BuildsPrivate
        /\ BuildsMade /\ CallsForActor
  BY DEF PluginInv
<1>act. /\ call[t].op = "initialized" /\ call[t].actor = None /\ call' = [call EXCEPT ![t] = Idle]
        /\ master' = call[t].plugin /\ previous' \in {master, previous}
        /\ UNCHANGED <<life, clone, ctx>> /\ ShutdownImpl({}, Unreferenced({master, previous}))
  BY DEF Publish, actors
<1>p. Building(t) /\ call[t].plugin \in Plugins
  BY <1>act, <1>inv DEF Building, BuildsPrivate, TypeOK
<1>call. /\ call'[t] = Idle /\ \A u \in Threads \ {t} : call'[u] = call[u]
         /\ ~Building(t)' /\ \A u \in Threads \ {t} : Building(u)' = Building(u)
         /\ \A u \in Threads : call'[u].source \in {None, call[u].source}
  BY <1>act, <1>inv, CallEnds
<1>1. RestTypes'
  BY <1>act, <1>p, <1>inv, CallEnds DEF RestTypes, TypeOK
<1>2. CallsForActor'
  BY <1>act, <1>p, ConstructorEnds
<1>3. CurrentObjectExact'
  BY <1>act, <1>call, <1>inv DEF CurrentObjectExact, HostGetCurrentObjectId, Idle
<1>4. \A x \in {master', previous'} \ {master, previous, None} :
        \E u \in Threads : Building(u) /\ ~Building(u)' /\ x = call[u].plugin
  BY <1>act, <1>p, <1>call
<1>5. \A u \in Threads : Building(u)' => Building(u) /\ call'[u] = call[u]
  BY <1>call
<1> QED
  BY <1>act, <1>call, <1>1, <1>2, <1>3, <1>4, <1>5, ManagerStepInv

(* The manager goes back to the previous plugin.                           *)
LEMMA RollbackInv ==
  ASSUME PluginInv, Rollback
  PROVE  PluginInv'
<1> USE PluginAssumption
<1>inv. /\ TypeOK /\ CurrentObjectExact /\ RefersToAlive /\ ClonesOwned /\ BuildsPrivate
        /\ BuildsMade /\ CallsForActor
  BY DEF PluginInv
<1>act. /\ master' = previous /\ previous' = None
        /\ UNCHANGED <<call, life, clone, ctx>> /\ ShutdownImpl({}, Unreferenced({master}))
  BY DEF Rollback, actors
<1>1. RestTypes'
  BY <1>act, <1>inv DEF RestTypes, TypeOK
<1>2. CallsForActor' /\ CurrentObjectExact'
  BY <1>act, <1>inv DEF CallsForActor, Building, CurrentObjectExact, HostGetCurrentObjectId
<1>3. \A t \in Threads : Building(t)' = Building(t)
  BY <1>act DEF Building
<1> QED
  BY <1>act, <1>1, <1>2, <1>3, ManagerStepInv

(* The manager lets go of the plugin.                                      *)
LEMMA UnloadInv ==
  ASSUME PluginInv, Unload
  PROVE  PluginInv'
<1> USE PluginAssumption
<1>inv. /\ TypeOK /\ CurrentObjectExact /\ RefersToAlive /\ ClonesOwned /\ BuildsPrivate
        /\ BuildsMade /\ CallsForActor
  BY DEF PluginInv
<1>act. /\ master' = None /\ previous' = None /\ {master} \in SUBSET Plugins
        /\ UNCHANGED <<call, life, clone, ctx>>
        /\ ShutdownImpl({master}, Unreferenced({master, previous}))
  BY <1>inv DEF Unload, actors, TypeOK
<1>1. RestTypes'
  BY <1>act, <1>inv DEF RestTypes, TypeOK
<1>2. CallsForActor' /\ CurrentObjectExact'
  BY <1>act, <1>inv DEF CallsForActor, Building, CurrentObjectExact, HostGetCurrentObjectId
<1>3. \A t \in Threads : Building(t)' = Building(t)
  BY <1>act DEF Building
<1> QED
  BY <1>act, <1>1, <1>2, <1>3, ManagerStepInv

(* A constructor ends with its clone, which becomes the actor's own.       *)
LEMMA ClonedInv ==
  ASSUME PluginInv, NEW t \in Threads, Cloned(t)
  PROVE  PluginInv'
<1> USE PluginAssumption
<1> DEFINE p == call[t].plugin
           a == call[t].actor
           gone == Unreferenced({call[t].source})
<1>inv. /\ TypeOK /\ CurrentObjectExact /\ RefersToAlive /\ ClonesOwned /\ BuildsPrivate
        /\ BuildsMade /\ CallsForActor
  BY DEF PluginInv
<1>act. /\ call[t].op = "initialized" /\ a # None /\ call' = [call EXCEPT ![t] = Idle]
        /\ Built(a, p) /\ UNCHANGED <<master, previous, ctx>> /\ ShutdownImpl({}, gone)
  BY DEF Cloned, manager
<1>p. /\ Building(t) /\ p \in Plugins /\ p \in alive /\ initialized[p] /\ NotServed(p)
      /\ \A b \in Actors : clone[b] # p
  BY <1>act, <1>inv DEF Building, BuildsPrivate, BuildsMade, Made, TypeOK
<1>call. /\ call'[t] = Idle /\ \A u \in Threads \ {t} : call'[u] = call[u]
         /\ ~Building(t)' /\ \A u \in Threads \ {t} : Building(u)' = Building(u)
         /\ \A u \in Threads : call'[u].source \in {None, call[u].source}
  BY <1>act, <1>inv, CallEnds
<1>gone. /\ gone \in SUBSET Plugins /\ gone \subseteq {call[t].source}
         /\ master' \notin gone /\ previous' \notin gone
         /\ \A u \in Threads : call'[u].source \notin gone
         /\ \A b \in Actors : clone'[b] \notin gone
  <2>1. call[t].source \in Plugins \cup {None}
    BY <1>inv DEF TypeOK
  <2> QED
    BY <2>1, UnreferencedFacts
<1>actor. a \in Actors
  BY <1>act, <1>inv DEF TypeOK
<1> HIDE DEF p, gone
<1>heap. HeapLoses({}, gone)
  BY <1>act, <1>gone, ShutdownLoses
<1>life. /\ life' \in [Actors -> {"none", "building", "registered", "killed"}]
         /\ clone' \in [Actors -> Plugins \cup {None}] /\ clone'[a] = p
         /\ \A b \in Actors \ {a} : life'[b] = life[b] /\ clone'[b] = clone[b]
  BY <1>act, <1>actor, <1>p, <1>inv DEF Built, TypeOK
<1> HIDE DEF a
<1>1. RestTypes'
  BY <1>act, <1>life, <1>inv, CallEnds DEF RestTypes, TypeOK
<1>2. CallsForActor'
  BY <1>act, <1>p, <1>life, ConstructorEnds DEF a
<1>3. CurrentObjectExact'
  BY <1>act, <1>call, <1>inv DEF CurrentObjectExact, HostGetCurrentObjectId, Idle
<1>4. \A q \in Plugins : NotServed(q) => NotServed(q)'
  BY <1>act, <1>call DEF NotServed
<1>5. ASSUME NEW u \in Threads, Building(u)'
      PROVE  /\ Building(u) /\ call'[u] = call[u] /\ call[u].plugin \notin {} \cup gone
             /\ NotServed(call[u].plugin)' /\ \A b \in Actors : clone'[b] # call[u].plugin
  <2>1. u # t /\ Building(u) /\ call'[u] = call[u]
    BY <1>5, <1>call
  <2>2. /\ call[u].plugin \in Plugins /\ NotServed(call[u].plugin) /\ call[u].plugin # p
        /\ \A b \in Actors : clone[b] # call[u].plugin
    BY <2>1, <1>p, <1>inv DEF BuildsPrivate, TypeOK, p
  <2>3. call[u].plugin \notin gone
    BY <2>2, <1>gone DEF NotServed
  <2>4. NotServed(call[u].plugin)'
    BY <2>1, <2>2, <1>4
  <2> QED
    BY <2>1, <2>2, <2>3, <2>4, <1>life
<1>6. ASSUME NEW b \in Actors, clone'[b] # None
      PROVE  /\ clone'[b] \in alive \ ({} \cup gone) /\ initialized[clone'[b]]
             /\ NotServed(clone[b])' /\ \A c \in Actors \ {b} : clone'[c] # clone'[b]
  <2>1. CASE b = a
    <3>1. clone'[b] = p
      BY <2>1, <1>life
    <3>2. NotServed(clone[b])'
      BY <3>1, <1>act, <1>call, <1>p DEF NotServed
    <3> QED
      BY <2>1, <3>1, <3>2, <1>life, <1>gone, <1>p
  <2>2. CASE b # a
    <3>1. clone'[b] = clone[b] /\ clone[b] \in Plugins
      BY <2>2, <1>6, <1>life, <1>inv DEF TypeOK
    <3>2. NotServed(clone[b])'
      BY <3>1, <1>6, <1>4, <1>inv DEF ClonesOwned
    <3> QED
      BY <3>1, <3>2, <2>2, <1>6, <1>life, <1>p, <1>gone, <1>actor, <1>inv DEF ClonesOwned
  <2> QED
    BY <2>1, <2>2
<1>7. /\ master' # None => master' \in alive \ gone
      /\ previous' # None => previous' \in alive \ gone
      /\ \A u \in Threads : call'[u].source # None => call'[u].source \in alive \ gone
  BY <1>act, <1>call, <1>gone, <1>inv DEF RefersToAlive
<1> QED
  BY <1>heap, <1>1, <1>2, <1>3, <1>5, <1>6, <1>7, ReferencesInv

(* The end of an actor takes its clone along, which nobody else has.       *)
LEMMA DestroyActorInv ==
  ASSUME PluginInv, NEW a \in Actors, DestroyActor(a)
  PROVE  PluginInv'
<1> USE PluginAssumption
<1> DEFINE gone == Unreferenced({clone[a]})
<1>inv. /\ TypeOK /\ CurrentObjectExact /\ RefersToAlive /\ ClonesOwned /\ BuildsPrivate
        /\ BuildsMade /\ CallsForActor
  BY DEF PluginInv
<1>act. /\ life[a] = "killed" /\ \A t \in Threads : call[t].actor # a
        /\ UNCHANGED <<master, previous, call, ctx>> /\ ShutdownImpl({}, gone)
  BY DEF DestroyActor, manager
<1>life. /\ life' \in [Actors -> {"none", "building", "registered", "killed"}]
         /\ clone' \in [Actors -> Plugins \cup {None}] /\ clone'[a] = None
         /\ \A b \in Actors \ {a} : life'[b] = life[b] /\ clone'[b] = clone[b]
  BY <1>inv DEF DestroyActor, TypeOK
<1>gone. /\ gone \in SUBSET Plugins /\ gone \subseteq {clone[a]} \ {None}
         /\ master' \notin gone /\ previous' \notin gone
         /\ \A u \in Threads : call'[u].source \notin gone
         /\ \A b \in Actors : clone'[b] \notin gone
  <2>1. clone[a] \in Plugins \cup {None}
    BY <1>inv DEF TypeOK
  <2> QED
    BY <2>1, UnreferencedFacts
<1> HIDE DEF gone
<1>heap. HeapLoses({}, gone)
  BY <1>act, <1>gone, ShutdownLoses
<1>1. RestTypes'
  BY <1>act, <1>life, <1>inv DEF RestTypes, TypeOK
<1>2. CallsForActor'
  <2>1. \A t \in Threads : call[t].actor # None =>
          /\ call[t].actor \in Actors \ {a} /\ life'[call[t].actor] = life[call[t].actor]
          /\ clone'[call[t].actor] = clone[call[t].actor]
    BY <1>act, <1>life, <1>inv DEF TypeOK
  <2> QED
    BY <2>1, <1>act, <1>inv DEF CallsForActor, Building
<1>3. CurrentObjectExact'
  BY <1>act, <1>inv DEF CurrentObjectExact, HostGetCurrentObjectId
<1>4. ASSUME NEW u \in Threads, Building(u)'
      PROVE  /\ Building(u) /\ call'[u] = call[u] /\ call[u].plugin \notin {} \cup gone
             /\ NotServed(call[u].plugin)' /\ \A b \in Actors : clone'[b] # call[u].plugin
  <2>1. Building(u) /\ call' = call
    BY <1>4, <1>act DEF Building
  <2>2. NotServed(call[u].plugin)'
    BY <2>1, <1>act, <1>inv DEF BuildsPrivate, NotServed
  <2>3. call[u].plugin \in Plugins
    BY <2>1, <1>inv DEF BuildsPrivate, TypeOK
  <2> QED
    BY <2>1, <2>2, <2>3, <1>life, <1>gone, <1>inv DEF BuildsPrivate
<1>5. ASSUME NEW b \in Actors, clone'[b] # None
      PROVE  /\ clone'[b] \in alive \ ({} \cup gone) /\ initialized[clone'[b]]
             /\ NotServed(clone[b])' /\ \A c \in Actors \ {b} : clone'[c] # clone'[b]
  <2>1. b # a /\ clone'[b] = clone[b]
    BY <1>5, <1>life
  <2>2. NotServed(clone[b])'
    BY <2>1, <1>5, <1>act, <1>inv DEF ClonesOwned, NotServed
  <2> QED
    BY <2>1, <2>2, <1>5, <1>life, <1>gone, <1>inv DEF ClonesOwned
<1>6. /\ master' # None => master' \in alive \ gone
      /\ previous' # None => previous' \in alive \ gone
      /\ \A u \in Threads : call'[u].source # None => call'[u].source \in alive \ gone
  BY <1>act, <1>gone, <1>inv DEF RefersToAlive
<1> QED
  BY <1>heap, <1>1, <1>2, <1>3, <1>4, <1>5, <1>6, ReferencesInv

(***************************************************************************)
(* The steps that leave the heap alone.  Whatever is referred to           *)
(* afterwards was served or referred to before, and clones stay.           *)
(***************************************************************************)
LEMMA QuietStepInv ==
  ASSUME PluginInv, UNCHANGED <<heap, manager>>,
         RestTypes', CallsForActor', CurrentObjectExact',
         \A t \in Threads : Building(t)' => Building(t) /\ call'[t] = call[t],
         \A t \in Threads : call'[t].source \in {None, master, call[t].source},
         \A a \in Actors : clone'[a] \in {None, clone[a]}
  PROVE  PluginInv'
<1> USE PluginAssumption
<1>inv. TypeOK /\ RefersToAlive /\ ClonesOwned /\ BuildsPrivate
  BY DEF PluginInv
<1>un. UNCHANGED <<master, previous>>
  BY DEF manager
<1>heap. HeapLoses({}, {})
  BY UnchangedHeapLoses
<1>1. ASSUME NEW t \in Threads, Building(t)'
      PROVE  /\ Building(t) /\ call'[t] = call[t] /\ call[t].plugin \notin {} \cup {}
             /\ NotServed(call[t].plugin)' /\ \A a \in Actors : clone'[a] # call[t].plugin
  <2>1. Building(t) /\ call'[t] = call[t] /\ call[t].plugin \in Plugins
    BY <1>1, <1>inv DEF BuildsPrivate, TypeOK
  <2>2. NotServed(call[t].plugin)'
    BY <2>1, <1>un, <1>inv DEF BuildsPrivate, NotServed
  <2> QED
    BY <2>1, <2>2, <1>inv DEF BuildsPrivate
<1>2. ASSUME NEW a \in Actors, clone'[a] # None
      PROVE  /\ clone'[a] \in alive \ ({} \cup {}) /\ initialized[clone'[a]]
             /\ NotServed(clone[a])' /\ \A b \in Actors \ {a} : clone'[b] # clone'[a]
  <2>1. clone'[a] = clone[a] /\ clone[a] # None
    BY <1>2
  <2>2. NotServed(clone[a])'
    BY <2>1, <1>un, <1>inv DEF ClonesOwned, NotServed, TypeOK
  <2> QED
    BY <2>1, <2>2, <1>inv DEF ClonesOwned
<1>3. /\ master' # None => master' \in alive \ {}
      /\ previous' # None => previous' \in alive \ {}
      /\ \A t \in Threads : call'[t].source # None => call'[t].source \in alive \ {}
  BY <1>un, <1>inv DEF RefersToAlive
<1> QED
  BY <1>heap, <1>1, <1>2, <1>3, ReferencesInv

(* An actor gets the served plugin to clone it.                            *)
LEMMA GetInv ==
  ASSUME PluginInv, NEW t \in Threads, NEW a \in Actors, Get(t, a)
  PROVE  PluginInv'
<1> USE PluginAssumption
<1>inv. /\ TypeOK /\ CurrentObjectExact /\ RefersToAlive /\ ClonesOwned /\ BuildsPrivate
        /\ BuildsMade /\ CallsForActor
  BY DEF PluginInv
<1>act. call[t] = Idle /\ life[a] = "none" /\ UNCHANGED <<heap, manager, ctx>>
        /\ UNCHANGED <<master, previous>>
  BY DEF Get, manager
<1>idle. /\ Idle.op = "idle" /\ Idle.actor = None /\ Idle.source = None
         /\ call[t].op \notin Ladder \cup {"initialized", "clone", "run"}
  BY <1>act, LadderFacts DEF Idle
<1>oth. \A u \in Threads : call[u].actor = a =>
          ~Building(u) /\ call[u].op # "clone" /\ call[u].op # "run"
  BY <1>act, <1>inv DEF CallsForActor
<1>1. CASE master = None
  <2>1. /\ call' = call /\ life' = [life EXCEPT ![a] = "registered"]
        /\ clone' = [clone EXCEPT ![a] = None]
    BY <1>1 DEF Get, Built
  <2>2. RestTypes'
    BY <2>1, <1>act, <1>inv DEF RestTypes, TypeOK
  <2>3. \A b \in Actors \ {a} : life'[b] = life[b] /\ clone'[b] = clone[b]
    BY <2>1, <1>inv DEF TypeOK
  <2>4. CallsForActor'
    <3>1. ASSUME NEW u \in Threads, call[u].actor # None,
                 Building(u) \/ call[u].op = "clone" \/ call[u].op = "run"
          PROVE  /\ life'[call[u].actor] = life[call[u].actor]
                 /\ clone'[call[u].actor] = clone[call[u].actor]
      BY <3>1, <2>3, <1>oth, <1>inv DEF TypeOK
    <3> QED
      BY <3>1, <2>1, <1>inv DEF CallsForActor, Building
  <2>5. CurrentObjectExact'
    BY <2>1, <1>act, <1>inv DEF CurrentObjectExact, HostGetCurrentObjectId
  <2>6. \A u \in Threads : Building(u)' = Building(u)
    BY <2>1 DEF Building
  <2>7. \A b \in Actors : clone'[b] \in {None, clone[b]}
    BY <2>1, <1>inv DEF TypeOK
  <2> QED
    BY <2>1, <2>2, <2>4, <2>5, <2>6, <2>7, <1>act, QuietStepInv
<1>2. CASE master # None
  <2>1. /\ call' = [call EXCEPT ![t] = [op |-> "clone", plugin |-> None, actor |-> a,
                                        source |-> master]]
        /\ life' = [life EXCEPT ![a] = "building"] /\ clone' = clone
    BY <1>2 DEF Get
  <2>2. RestTypes'
    BY <2>1, <1>act, <1>inv DEF RestTypes, TypeOK
  <2>3. /\ call'[t].op = "clone" /\ call'[t].actor = a /\ call'[t].source = master
        /\ \A u \in Threads \ {t} : call'[u] = call[u]
        /\ life'[a] = "building" /\ \A b \in Actors \ {a} : life'[b] = life[b]
    BY <2>1, <1>inv DEF TypeOK
  <2>4. ~Building(t)' /\ \A u \in Threads \ {t} : Building(u)' = Building(u)
    BY <2>3, LadderFacts DEF Building
  <2>5. CallsForActor'
    <3>1. ASSUME NEW u \in Threads \ {t}, call[u].actor # None,
                 Building(u) \/ call[u].op = "clone" \/ call[u].op = "run"
          PROVE  life'[call[u].actor] = life[call[u].actor] /\ call[u].actor # a
      BY <3>1, <2>3, <1>oth, <1>inv DEF TypeOK
    <3> QED
      BY <3>1, <2>1, <2>3, <2>4, <1>oth, <1>inv DEF CallsForActor
  <2>6. CurrentObjectExact'
    BY <2>3, <1>act, <1>inv DEF CurrentObjectExact, HostGetCurrentObjectId
  <2> QED
    BY <2>1, <2>2, <2>3, <2>4, <2>5, <2>6, <1>act, QuietStepInv
<1> QED
  BY <1>1, <1>2

(* Execute begins on the clone of the actor, or is refused.                *)
LEMMA ExecuteInv ==
  ASSUME PluginInv, NEW t \in Threads, NEW a \in Actors,
         Execute(t, a) \/ ExecuteRejects(t, a)
  PROVE  PluginInv'
<1> USE PluginAssumption
<1>inv. /\ TypeOK /\ CurrentObjectExact /\ RefersToAlive /\ ClonesOwned /\ BuildsPrivate
        /\ BuildsMade /\ CallsForActor
  BY DEF PluginInv
<1>act. /\ call[t] = Idle /\ life[a] \in {"registered", "killed"} /\ clone[a] # None
        /\ ctx' = [ctx EXCEPT ![t] = a] /\ UNCHANGED <<heap, manager>>
        /\ UNCHANGED <<master, previous, life, clone>>
  BY DEF Execute, ExecuteRejects, CanExecute, SetHostContext, manager, actors
<1>ctx. /\ ctx' \in [Threads -> Actors \cup {None}] /\ ctx'[t] = a
        /\ \A u \in Threads \ {t} : ctx'[u] = ctx[u]
  BY <1>act, <1>inv DEF TypeOK
<1>call. /\ call'[t] = Idle \/ call'[t] = [op |-> "run", plugin |-> clone[a], actor |-> a,
                                           source |-> None]
         /\ \A u \in Threads \ {t} : call'[u] = call[u]
         /\ call' \in [Threads -> [op : Ladder \cup {"idle", "clone", "initialized", "run"},
                                   plugin : Plugins \cup {None}, actor : Actors \cup {None},
                                   source : Plugins \cup {None}]]
  BY <1>act, <1>inv DEF TypeOK, Execute, ExecuteRejects
<1>idle. /\ Idle.op = "idle" /\ Idle.actor = None /\ Idle.source = None
         /\ call'[t].op \in {"idle", "run"} /\ call'[t].source = None
         /\ call'[t].op = "run" => call'[t].actor = a /\ call'[t].plugin = clone[a]
  BY <1>call DEF Idle
<1>1. RestTypes'
  BY <1>act, <1>ctx, <1>call, <1>inv DEF RestTypes, TypeOK
<1>2. ~Building(t)' /\ \A u \in Threads \ {t} : Building(u)' = Building(u)
  BY <1>call, <1>idle, LadderFacts DEF Building
<1>3. CallsForActor'
  BY <1>act, <1>call, <1>idle, <1>2, <1>inv DEF CallsForActor
<1>4. CurrentObjectExact'
  BY <1>ctx, <1>call, <1>idle, <1>inv DEF CurrentObjectExact, HostGetCurrentObjectId
<1> QED
  BY <1>act, <1>call, <1>idle, <1>1, <1>2, <1>3, <1>4, QuietStepInv

(* Execute returns.                                                        *)
LEMMA ExecuteReturnsInv ==
  ASSUME PluginInv, NEW t \in Threads, ExecuteReturns(t)
  PROVE  PluginInv'
<1> USE PluginAssumption
<1>inv. /\ TypeOK /\ CurrentObjectExact /\ RefersToAlive /\ ClonesOwned /\ BuildsPrivate
        /\ BuildsMade /\ CallsForActor
  BY DEF PluginInv
<1>act. call' = [call EXCEPT ![t] = Idle] /\ UNCHANGED <<heap, manager>>
        /\ UNCHANGED <<master, previous, life, clone, ctx>>
  BY DEF ExecuteReturns, manager, actors
<1>call. /\ call'[t] = Idle /\ \A u \in Threads \ {t} : call'[u] = call[u]
         /\ ~Building(t)' /\ \A u \in Threads \ {t} : Building(u)' = Building(u)
         /\ \A u \in Threads : call'[u].source \in {None, call[u].source}
  BY <1>act, <1>inv, CallEnds
<1>idle. Idle.op = "idle" /\ Idle.actor = None
  BY DEF Idle
<1>1. RestTypes'
  BY <1>act, <1>inv, CallEnds DEF RestTypes, TypeOK
<1>2. CallsForActor'
  BY <1>act, <1>call, <1>idle, <1>inv DEF CallsForActor
<1>3. CurrentObjectExact'
  BY <1>act, <1>call, <1>idle, <1>inv DEF CurrentObjectExact, HostGetCurrentObjectId
<1> QED
  BY <1>act, <1>call, <1>1, <1>2, <1>3, QuietStepInv

(* An actor is destroyed with its clone.                                   *)
LEMMA KillInv ==
  ASSUME PluginInv, NEW a \in Actors, Kill(a)
  PROVE  PluginInv'
<1> USE PluginAssumption
<1>inv. /\ TypeOK /\ CurrentObjectExact /\ RefersToAlive /\ ClonesOwned /\ BuildsPrivate
        /\ BuildsMade /\ CallsForActor
  BY DEF PluginInv
<1>act. /\ life[a] = "registered" /\ life' = [life EXCEPT ![a] = "killed"]
        /\ UNCHANGED <<heap, manager>> /\ UNCHANGED <<master, previous, clone, call, ctx>>
  BY DEF Kill, manager
<1>1. RestTypes'
  BY <1>act, <1>inv DEF RestTypes, TypeOK
<1>2. life'[a] = "killed" /\ \A b \in Actors \ {a} : life'[b] = life[b]
  BY <1>act, <1>inv DEF TypeOK
<1>3. CallsForActor'
  <2>1. \A t \in Threads : call[t].actor # None => call[t].actor \in Actors
    BY <1>inv DEF TypeOK
  <2> QED
    BY <2>1, <1>act, <1>2, <1>inv DEF CallsForActor, Building
<1>4. CurrentObjectExact'
  BY <1>act, <1>inv DEF CurrentObjectExact, HostGetCurrentObjectId
<1>5. \A t \in Threads : Building(t)' = Building(t)
  BY <1>act DEF Building
<1> QED
  BY <1>act, <1>1, <1>3, <1>4, <1>5, QuietStepInv
-----------------------------------------------------------------------------
(* Before the first plugin is built there is nothing to own.               *)
LEMMA PluginInitInv == Init => PluginInv
<1> USE PluginAssumption
<1> SUFFICES ASSUME Init PROVE PluginInv
  OBVIOUS
<1>1. \A t \in Threads : call[t] = Idle /\ call[t].op = "idle" /\ call[t].source = None
                          /\ call[t].actor = None
  BY DEF Init, Idle
<1>2. \A t \in Threads : ~Building(t)
  BY <1>1, LadderFacts DEF Building
<1>3. TypeOK
  BY LadderFacts DEF Init, TypeOK, Idle
<1>4. HandlesOwned /\ AliveHaveState /\ ClonesOwned
  BY DEF Init, HandlesOwned, AliveHaveState, ClonesOwned
<1>5. CurrentObjectExact /\ RefersToAlive /\ BuildsPrivate /\ CallsForActor
  BY <1>1, <1>2 DEF Init, CurrentObjectExact, RefersToAlive, BuildsPrivate, CallsForActor
<1>6. BuildsMade
  BY <1>1, <1>2 DEF BuildsMade, Made, Building
<1> QED
  BY <1>3, <1>4, <1>5, <1>6 DEF PluginInv

(* Every step preserves the invariant.                                     *)
LEMMA PluginInvStep == PluginInv /\ [Next]_vars => PluginInv'
<1> SUFFICES ASSUME PluginInv, [Next]_vars PROVE PluginInv'
  OBVIOUS
<1>1. ASSUME NEW t \in Threads, ThreadStep(t) PROVE PluginInv'
  <2>1. ASSUME NEW p \in Plugins, Clone(t, p) PROVE PluginInv'
    BY <2>1, ConstructInv DEF Clone
  <2> QED
    BY <1>1, <2>1, InitializeStepInv, InitializeFailsInv, ClonedInv, ExecuteReturnsInv,
       PublishInv
       DEF ThreadStep
<1>2. ASSUME NEW t \in Threads, NEW p \in Plugins, Create(t, p) PROVE PluginInv'
  BY <1>2, ConstructInv DEF Create
<1>3. ASSUME NEW t \in Threads, NEW a \in Actors,
             Get(t, a) \/ Execute(t, a) \/ ExecuteRejects(t, a)
      PROVE  PluginInv'
  BY <1>3, GetInv, ExecuteInv
<1>4. CASE Rollback \/ Unload
  BY <1>4, RollbackInv, UnloadInv
<1>5. ASSUME NEW a \in Actors, Kill(a) \/ DestroyActor(a) PROVE PluginInv'
  BY <1>5, KillInv, DestroyActorInv
<1>6. CASE UNCHANGED vars
  BY <1>6 DEF vars, heap, manager, actors, PluginInv, TypeOK, HandlesOwned, CurrentObjectExact,
              HostGetCurrentObjectId, AliveHaveState, RefersToAlive, ClonesOwned, NotServed,
              BuildsPrivate, BuildsMade, Made, CallsForActor, Building
<1> QED
  BY <1>1, <1>2, <1>3, <1>4, <1>5, <1>6 DEF Next

(* The ownership in wasmedge_plugin.cpp and its users: handles belong to   *)
(* one living plugin each, clones to one actor, and what is being built is *)
(* nobody else's.                                                          *)
THEOREM PluginInvariant == Spec => []PluginInv
BY PluginInitInv, PluginInvStep, PTL DEF Spec

(* What runs is an actor's clone, and a clone has its handles.             *)
LEMMA RunsOwnClone == PluginInv => ExecutesLiveVM
<1> USE PluginAssumption
<1> SUFFICES ASSUME PluginInv, NEW t \in Threads, call[t].op = "run"
             PROVE  LET p == call[t].plugin
                    IN  p \in alive /\ initialized[p] /\ state[p].vm \in vms /\ state[p].host \in hosts
  BY DEF ExecutesLiveVM
<1> DEFINE p == call[t].plugin
<1>1. p \in Plugins /\ p \in alive /\ initialized[p]
  BY DEF PluginInv, TypeOK, CallsForActor, ClonesOwned
<1>2. state[p] \in [vm : Plugins, host : Plugins] /\ state[p] # None
  BY <1>1 DEF PluginInv, TypeOK, AliveHaveState
<1>3. state[p].vm \in vms /\ state[p].host \in hosts
  BY <1>1, <1>2 DEF PluginInv, HandlesOwned
<1> QED
  BY <1>1, <1>3

(***************************************************************************)
(* The variables keep their types, and a plugin with initialized_ set has  *)
(* both its VM and its host module (wasmedge_plugin.cpp, Initialize and    *)
(* ShutdownImpl).                                                          *)
(***************************************************************************)
THEOREM PluginTypeCorrect == Spec => []TypeOK
BY PluginInvariant, PTL DEF PluginInv

(***************************************************************************)
(* However failures of Initialize, reloads, rollbacks, unloads, clones and *)
(* ends of actors are ordered, the VMs and host modules that exist are     *)
(* exactly those some state_ points to, each from one plugin: ShutdownImpl *)
(* neither leaks nor deletes twice.                                        *)
(***************************************************************************)
THEOREM HandlesAlwaysOwned == Spec => []HandlesOwned
BY PluginInvariant, PTL DEF PluginInv

(***************************************************************************)
(* From the beginning of VMExecute to its end the plugin is alive and      *)
(* initialized and its VM and host module exist.                           *)
(***************************************************************************)
THEOREM RunsOnLiveVM == Spec => []ExecutesLiveVM
BY PluginInvariant, RunsOwnClone, PTL

(***************************************************************************)
(* Inside Execute, get_current_object_id (wasmedge_plugin.cpp:19-23)       *)
(* answers with the object of that Execute: the thread-local g_host_ctx    *)
(* names it, though it is never reset and actors change threads.           *)
(***************************************************************************)
THEOREM CurrentObjectAlwaysExact == Spec => []CurrentObjectExact
BY PluginInvariant, PTL DEF PluginInv
=============================================================================
