------------------------ MODULE ModuleManagerProofs -------------------------
(***************************************************************************)
(* The maps of ModuleManager stay together, and signals alone never bring  *)
(* an older build back, for any number of modules, threads, actors, builds *)
(* and signals, and any set-up of them.                                    *)
(***************************************************************************)
EXTENDS ModuleManager, TLAPS

\* No more signals are queued than were raised: the queue stays within its type.
QueuedWereRaised == sighups <= raised

ManagerInv == TypeOK /\ QueuedWereRaised /\ MapsAgree /\ ServedMatchesConfig

\* What was initialised from a file is no newer than the file is now.
OnDisk(plugin) == plugin.build <= disk[plugin.config.path].build

BuildsOnDisk ==
  /\ \A n \in Names : modules[n] # None => OnDisk(modules[n])
  /\ \A n \in Names : previous[n] # None => OnDisk(previous[n])
  /\ \A w \in Workers : job[w].plugin # None => OnDisk(job[w].plugin)
  /\ \A a \in Builders : held[a] # None => OnDisk(held[a])

FreshInv == ManagerInv /\ BuildsOnDisk

(***************************************************************************)
(* When signals are all there is, one handler runs at a time, it reloads   *)
(* what configs_ holds, and what it is about to commit is no older than    *)
(* what is served: it was read from the file after that.                   *)
(***************************************************************************)
OneHandler ==
  /\ armed => \A w \in Workers : job[w] = Idle
  /\ \A v, w \in Workers : job[v] # Idle /\ job[w] # Idle => v = w

ReloadsItsConfig ==
  /\ \A n \in Names : configs[n] # None => configs[n].name = n
  /\ \A n \in Names : modules[n] # None => modules[n].config = configs[n]
  /\ \A w \in Workers : \A c \in job[w].todo : configs[c.name] = c

NewerThanServed ==
  \A w \in Workers : job[w].plugin # None =>
    LET n == job[w].plugin.config.name IN
    /\ configs[n] = job[w].plugin.config
    /\ modules[n] # None => modules[n].build <= job[w].plugin.build

SignalInv == FreshInv /\ OneHandler /\ ReloadsItsConfig /\ NewerThanServed
-----------------------------------------------------------------------------
(* The fields of a plugin and of a config.                                 *)
LEMMA PluginFields ==
  /\ \A p \in Plugins : /\ p.config \in Configs /\ p.config.name \in Names
                        /\ p.config.path \in Paths /\ p.build \in 1..MaxBuild
                        /\ p.config.schema_version \in Nat
                        /\ p # None /\ p.config # None
  /\ \A c \in Configs : c.name \in Names /\ c.path \in Paths /\ c.schema_version \in Nat
  BY ModuleAssumption DEF Plugins, Names, Paths

(* The config of a module that is loaded at the start.                     *)
LEMMA PreloadedConfig ==
  ASSUME scope \in Scopes, NEW n \in Names, PreloadedAs(n) # {}
  PROVE  LET c == CHOOSE c \in PreloadedAs(n) : TRUE IN c \in Configs /\ c.name = n
  BY ModuleAssumption DEF PreloadedAs

(* The state in which the io threads start.                                *)
LEMMA ManagerInitInv == Init => ManagerInv
<1> SUFFICES ASSUME Init PROVE ManagerInv
  OBVIOUS
<1>1. configs \in [Names -> Configs \cup {None}]
  BY PreloadedConfig DEF Init
<1>2. modules \in [Names -> Plugins \cup {None}]
  <2>1. \A n \in Names : configs[n] # None => [config |-> configs[n], build |-> 1] \in Plugins
    BY <1>1, ModuleAssumption DEF Plugins
  <2> QED
    BY <2>1 DEF Init
<1>3. versions \in [Names -> {c.schema_version : c \in Configs} \cup {None}]
  BY <1>1 DEF Init
<1>4. TypeOK
  <2>1. disk \in [Paths -> Files]
    BY ModuleAssumption DEF Init, Files
  <2>2. job \in [Workers -> [op : Ops, todo : SUBSET Configs, plugin : Plugins \cup {None}]]
    BY DEF Init, Idle, Ops
  <2>3. asked \in [Paths -> 0..MaxBuild] /\ sighups \in 0..MaxSignals /\ raised \in 0..MaxSignals
    BY ModuleAssumption DEF Init
  <2> QED
    BY <1>1, <1>2, <1>3, <2>1, <2>2, <2>3 DEF Init, TypeOK
<1>5. MapsAgree
  <2> SUFFICES ASSUME NEW n \in Names
               PROVE  /\ (modules[n] = None) = (configs[n] = None)
                      /\ (modules[n] = None) = (versions[n] = None)
                      /\ previous[n] # None => modules[n] # None
    BY DEF MapsAgree
  <2>1. CASE configs[n] = None
    BY <2>1 DEF Init
  <2>2. CASE configs[n] # None
    <3>1. /\ modules[n] = [config |-> configs[n], build |-> 1]
          /\ versions[n] = configs[n].schema_version /\ configs[n] \in Configs
      BY <1>1, <2>2 DEF Init
    <3>2. modules[n] \in Plugins
      BY <3>1, ModuleAssumption DEF Plugins
    <3> QED
      BY <2>2, <3>1, <3>2, PluginFields, ModuleAssumption
  <2> QED
    BY <2>1, <2>2
<1>6. ServedMatchesConfig
  BY <1>1, <1>2 DEF Init, ServedMatchesConfig
<1>7. QueuedWereRaised
  BY DEF Init, QueuedWereRaised
<1> QED
  BY <1>4, <1>5, <1>6, <1>7 DEF ManagerInv

(* The steps of any set-up.                                                *)
LEMMA Steps ==
  ASSUME TypeOK, [Next]_vars
  PROVE  /\ scope' = scope
         /\ \/ \E p \in Paths, ok \in BOOLEAN : Deploy(p, ok)
            \/ \E w \in Workers, op \in {"load", "reload"}, c \in Configs :
                 w \in scope.admins /\ Call(w, op, c)
            \/ \E w \in Workers : WorkerStep(w)
            \/ scope.admins # {} /\ \E n \in Names : Rollback(n) \/ Unload(n)
            \/ RaiseSighup
            \/ \E w \in Workers : HandleSighup(w) \/ HandleSigusr1(w)
            \/ \E a \in Builders : Clone(a) \/ \E n \in Names : Get(a, n)
            \/ UNCHANGED vars
<1>1. /\ scope.configs \subseteq Configs /\ scope.admins \subseteq Workers
      /\ scope.threads \subseteq Workers /\ scope.builders \subseteq Builders
  BY ModuleAssumption DEF TypeOK, Workers
<1>2. \A c \in scope.configs : c.path \in Paths
  BY <1>1 DEF Paths
<1>3. scope' = scope
  BY DEF Next, vars
<1> QED
  BY <1>1, <1>2, <1>3 DEF Next

(* Every action keeps the variables in their types.                        *)
LEMMA ManagerTypeStep == TypeOK /\ QueuedWereRaised /\ [Next]_vars => TypeOK'
<1> SUFFICES ASSUME TypeOK, QueuedWereRaised, [Next]_vars PROVE TypeOK'
  OBVIOUS
<1> DEFINE Jobs == [op : Ops, todo : SUBSET Configs, plugin : Plugins \cup {None}]
<1>0. scope' = scope
  BY Steps
<1> USE <1>0 DEF TypeOK
<1>1. ASSUME NEW p \in Paths, NEW ok \in BOOLEAN, Deploy(p, ok) PROVE TypeOK'
  <2>1. [build |-> disk[p].build + 1, ok |-> ok] \in Files
    BY <1>1, ModuleAssumption DEF Deploy, Files
  <2> QED
    BY <1>1, <2>1 DEF Deploy, maps, loop, users
<1>2. ASSUME NEW w \in Workers, NEW op \in {"load", "reload"}, NEW c \in Configs, Call(w, op, c)
      PROVE  TypeOK'
  <2>1. [op |-> op, todo |-> {c}, plugin |-> None] \in Jobs
    BY DEF Ops
  <2> QED
    BY <1>2, <2>1 DEF Call, maps, loop, users
<1>3. ASSUME NEW w \in Workers, NEW c \in Configs, Create(w, c) PROVE TypeOK'
  <2>1. [config |-> c, build |-> disk[c.path].build] \in Plugins
    BY PluginFields DEF Plugins, Files
  <2>2. CASE disk[c.path].ok
    <3>1. job' = [job EXCEPT ![w].plugin = [config |-> c, build |-> disk[c.path].build]]
      BY <1>3, <2>2 DEF Create
    <3>2. job' \in [Workers -> Jobs]
      BY <2>1, <3>1
    <3> QED
      BY <1>3, <3>2 DEF Create, maps, loop, users
  <2>3. CASE ~disk[c.path].ok
    <3>1. job[w].todo \ {c} \in SUBSET Configs
      OBVIOUS
    <3> QED
      BY <1>3, <2>3, <3>1 DEF Create, maps, loop, users
  <2> QED
    BY <2>2, <2>3
<1>4. ASSUME NEW w \in Workers, Commit(w) PROVE TypeOK'
  <2>1. job[w].plugin \in Plugins
    BY <1>4 DEF Commit
  <2>2. job' \in [Workers -> Jobs]
    BY <1>4 DEF Commit
  <2>3. /\ modules' \in [Names -> Plugins \cup {None}] /\ previous' \in [Names -> Plugins \cup {None}]
        /\ configs' \in [Names -> Configs \cup {None}] /\ rolled' \in [Names -> BOOLEAN]
    BY <1>4, <2>1, PluginFields DEF Commit, Record
  <2>4. versions' \in [Names -> {c.schema_version : c \in Configs} \cup {None}]
    BY <1>4, <2>1, PluginFields DEF Commit, Record
  <2> QED
    BY <1>4, <2>2, <2>3, <2>4 DEF Commit, loop, users
<1>5. ASSUME NEW w \in Workers, Return(w) PROVE TypeOK'
  <2>1. Idle \in Jobs
    BY DEF Idle, Ops
  <2> QED
    BY <1>5, <2>1 DEF Return, maps, users
<1>6. ASSUME NEW n \in Names, Rollback(n) PROVE TypeOK'
  BY <1>6 DEF Rollback, loop, users
<1>7. ASSUME NEW n \in Names, Unload(n) PROVE TypeOK'
  BY <1>7 DEF Unload, loop, users
<1>8. CASE RaiseSighup
  <2>1. asked' \in [Paths -> 0..MaxBuild]
    BY <1>8, ModuleAssumption DEF RaiseSighup, Files
  <2>2. raised' \in 0..MaxSignals /\ sighups' \in 0..MaxSignals
    BY <1>8, ModuleAssumption DEF RaiseSighup, QueuedWereRaised
  <2> QED
    BY <1>8, <2>1, <2>2 DEF RaiseSighup, maps, users
<1>s. scope.signals \in 0..MaxSignals
  BY ModuleAssumption
<1>9. ASSUME NEW w \in Workers, HandleSighup(w) \/ HandleSigusr1(w) PROVE TypeOK'
  <2>1. [op |-> "all", todo |-> {configs[n] : n \in Names} \ {None}, plugin |-> None] \in Jobs
    BY DEF Ops
  <2>2. [op |-> "dump", todo |-> {}, plugin |-> None] \in Jobs
    BY DEF Ops
  <2>3. sighups' \in 0..MaxSignals /\ raised' \in 0..MaxSignals
    BY <1>9, ModuleAssumption DEF HandleSighup, HandleSigusr1
  <2> QED
    BY <1>9, <2>1, <2>2, <2>3 DEF HandleSighup, HandleSigusr1, maps, users
<1>10. ASSUME NEW a \in Builders, NEW n \in Names, Get(a, n) PROVE TypeOK'
  BY <1>10 DEF Get, maps, loop
<1>11. ASSUME NEW a \in Builders, Clone(a) PROVE TypeOK'
  <2>1. held[a] \in Plugins
    BY <1>11 DEF Clone
  <2>2. [config |-> held[a].config, build |-> disk[held[a].config.path].build] \in Plugins
    BY <2>1, PluginFields DEF Plugins, Files
  <2> QED
    BY <1>11, <2>2 DEF Clone, maps, loop
<1>12. CASE UNCHANGED vars
  BY <1>12 DEF vars, maps, loop, users
<1> QED
  BY <1>1, <1>2, <1>3, <1>4, <1>5, <1>6, <1>7, <1>8, <1>9, <1>10, <1>11, <1>12, Steps
  DEF WorkerStep

(* Every action preserves the invariant.                                   *)
LEMMA ManagerInvStep == ManagerInv /\ [Next]_vars => ManagerInv'
<1> SUFFICES ASSUME ManagerInv, [Next]_vars PROVE ManagerInv'
  OBVIOUS
<1>ty. TypeOK /\ TypeOK'
  BY ManagerTypeStep DEF ManagerInv
<1>inv. QueuedWereRaised /\ MapsAgree /\ ServedMatchesConfig
  BY DEF ManagerInv
<1>1. QueuedWereRaised'
  <2>1. sighups \in Nat /\ raised \in Nat
    BY <1>ty DEF TypeOK
  <2>2. CASE RaiseSighup
    BY <2>1, <2>2, <1>inv DEF RaiseSighup, QueuedWereRaised
  <2>3. ASSUME NEW w \in Workers, HandleSighup(w) \/ HandleSigusr1(w) PROVE QueuedWereRaised'
    BY <2>1, <2>3, <1>inv DEF HandleSighup, HandleSigusr1, QueuedWereRaised
  <2>4. CASE UNCHANGED <<sighups, raised>>
    BY <2>4, <1>inv DEF QueuedWereRaised
  <2> QED
    BY <1>ty, <2>2, <2>3, <2>4, Steps DEF WorkerStep, Deploy, Call, Create, Commit, Return, Rollback,
       Unload, Get, Clone, vars, loop
<1>2. ASSUME NEW w \in Workers, Commit(w) PROVE MapsAgree' /\ ServedMatchesConfig'
  <2> DEFINE plugin == job[w].plugin
             m == plugin.config.name
  <2>1. plugin \in Plugins
    BY <1>2, <1>ty DEF Commit, TypeOK
  <2>2. /\ m \in Names /\ plugin # None /\ plugin.config # None
        /\ plugin.config.schema_version # None
    BY <2>1, PluginFields, ModuleAssumption
  <2>3. /\ modules'[m] = plugin /\ configs'[m] = plugin.config
        /\ versions'[m] = plugin.config.schema_version
    BY <1>2, <1>ty, <2>2 DEF Commit, Record, TypeOK
  <2>4. \A n \in Names \ {m} : /\ modules'[n] = modules[n] /\ configs'[n] = configs[n]
                               /\ versions'[n] = versions[n] /\ previous'[n] = previous[n]
                               /\ rolled'[n] = rolled[n]
    BY <1>2, <1>ty DEF Commit, Record, TypeOK
  <2> HIDE DEF plugin, m
  <2>5. MapsAgree'
    BY <1>inv, <2>2, <2>3, <2>4 DEF MapsAgree
  <2>6. ServedMatchesConfig'
    BY <1>inv, <2>3, <2>4 DEF ServedMatchesConfig
  <2> QED
    BY <2>5, <2>6
<1>3. ASSUME NEW m \in Names, Rollback(m) PROVE MapsAgree' /\ ServedMatchesConfig'
  <2>1. modules[m] # None /\ configs[m] # None /\ configs[m] \in Configs
    BY <1>3, <1>ty, <1>inv DEF Rollback, MapsAgree, TypeOK
  <2>2. configs[m].schema_version # None
    BY <2>1, ModuleAssumption
  <2>3. MapsAgree'
    BY <1>3, <1>ty, <1>inv, <2>1, <2>2 DEF Rollback, MapsAgree, TypeOK
  <2>4. ServedMatchesConfig'
    BY <1>3, <1>ty, <1>inv DEF Rollback, ServedMatchesConfig, TypeOK
  <2> QED
    BY <2>3, <2>4
<1>4. ASSUME NEW m \in Names, Unload(m) PROVE MapsAgree' /\ ServedMatchesConfig'
  BY <1>4, <1>ty, <1>inv DEF Unload, MapsAgree, ServedMatchesConfig, TypeOK
<1>5. ASSUME UNCHANGED <<modules, previous, configs, versions, rolled>>
      PROVE  MapsAgree' /\ ServedMatchesConfig'
  <2>1. MapsAgree'
    BY <1>5, <1>inv DEF MapsAgree
  <2>2. ServedMatchesConfig'
    BY <1>5, <1>inv DEF ServedMatchesConfig
  <2> QED
    BY <2>1, <2>2
<1>6. MapsAgree' /\ ServedMatchesConfig'
  <2>1. ASSUME NEW w \in Workers, WorkerStep(w), ~Commit(w)
        PROVE  UNCHANGED <<modules, previous, configs, versions, rolled>>
    BY <2>1 DEF WorkerStep, Create, Return, maps
  <2>2. ASSUME NEW p \in Paths, NEW ok \in BOOLEAN, Deploy(p, ok)
        PROVE  UNCHANGED <<modules, previous, configs, versions, rolled>>
    BY <2>2 DEF Deploy, maps
  <2>3. ASSUME NEW w, NEW op, NEW c, Call(w, op, c)
        PROVE  UNCHANGED <<modules, previous, configs, versions, rolled>>
    BY <2>3 DEF Call, maps
  <2>4. ASSUME NEW w, RaiseSighup \/ HandleSighup(w) \/ HandleSigusr1(w)
        PROVE  UNCHANGED <<modules, previous, configs, versions, rolled>>
    BY <2>4 DEF RaiseSighup, HandleSighup, HandleSigusr1, maps
  <2>5. ASSUME NEW a, NEW n, Clone(a) \/ Get(a, n)
        PROVE  UNCHANGED <<modules, previous, configs, versions, rolled>>
    BY <2>5 DEF Get, Clone, maps
  <2>6. CASE UNCHANGED vars
    BY <2>6, <1>5 DEF vars, maps
  <2> QED
    BY <1>ty, <1>2, <1>3, <1>4, <1>5, <2>1, <2>2, <2>3, <2>4, <2>5, <2>6, Steps
<1> QED
  BY <1>ty, <1>1, <1>6 DEF ManagerInv

(***************************************************************************)
(* Type correctness of the module manager and the signal loop.             *)
(***************************************************************************)
THEOREM ManagerTypeCorrect == Spec => []TypeOK
<1>1. ManagerInv => TypeOK
  BY DEF ManagerInv
<1> QED
  BY <1>1, ManagerInitInv, ManagerInvStep, PTL DEF Spec

(***************************************************************************)
(* modules_, previous_modules_, configs_ and schema_versions_ agree on     *)
(* which modules exist, whatever Load, HotReload, Rollback and Unload      *)
(* (module_manager.cpp:15-92) overlap.                                     *)
(***************************************************************************)
THEOREM MapsAlwaysAgree == Spec => []MapsAgree
<1>1. ManagerInv => MapsAgree
  BY DEF ManagerInv
<1> QED
  BY <1>1, ManagerInitInv, ManagerInvStep, PTL DEF Spec

(***************************************************************************)
(* Plugin, config and version of a name come from one and the same Load or *)
(* HotReload until a Rollback (module_manager.cpp:68-80).                  *)
(***************************************************************************)
THEOREM ServedAlwaysMatches == Spec => []ServedMatchesConfig
<1>1. ManagerInv => ServedMatchesConfig
  BY DEF ManagerInv
<1> QED
  BY <1>1, ManagerInitInv, ManagerInvStep, PTL DEF Spec
-----------------------------------------------------------------------------
(* Nothing was initialised yet but what is served, which is on disk.       *)
LEMMA FreshInitInv == Init => FreshInv
<1> SUFFICES ASSUME Init PROVE FreshInv
  OBVIOUS
<1>1. ManagerInv
  BY ManagerInitInv
<1>2. \A n \in Names : modules[n] # None => OnDisk(modules[n])
  <2> SUFFICES ASSUME NEW n \in Names, modules[n] # None PROVE OnDisk(modules[n])
    OBVIOUS
  <2>1. modules[n] \in Plugins /\ modules[n].build = 1
    BY <1>1 DEF Init, ManagerInv, TypeOK
  <2>2. disk[modules[n].config.path].build = 1
    BY <2>1, PluginFields DEF Init
  <2> QED
    BY <2>1, <2>2 DEF OnDisk
<1> QED
  BY <1>1, <1>2 DEF Init, Idle, FreshInv, BuildsOnDisk

(* Files are only replaced by later builds.                                *)
LEMMA StaysOnDisk ==
  ASSUME TypeOK, [Next]_vars, NEW p \in Plugins, OnDisk(p)
  PROVE  OnDisk(p)'
<1>1. CASE UNCHANGED disk
  BY <1>1 DEF OnDisk
<1>2. ASSUME NEW q \in Paths, NEW ok \in BOOLEAN, Deploy(q, ok) PROVE OnDisk(p)'
  <2>1. p.config.path \in Paths /\ p.build \in Nat
    BY PluginFields, ModuleAssumption
  <2>2. \A r \in Paths : disk[r].build \in Nat /\ disk'[r].build >= disk[r].build /\ disk'[r].build \in Nat
    BY <1>2 DEF Deploy, TypeOK, Files
  <2> QED
    BY <2>1, <2>2 DEF OnDisk
<1>3. ASSUME NEW w \in Workers, WorkerStep(w) PROVE UNCHANGED disk
  BY <1>3 DEF WorkerStep, Commit, Return, Create
<1>4. ASSUME NEW w, NEW op, NEW c, Call(w, op, c) PROVE UNCHANGED disk
  BY <1>4 DEF Call
<1>5. ASSUME NEW n \in Names, Rollback(n) \/ Unload(n) PROVE UNCHANGED disk
  BY <1>5 DEF Rollback, Unload
<1>6. ASSUME NEW w, RaiseSighup \/ HandleSighup(w) \/ HandleSigusr1(w) PROVE UNCHANGED disk
  BY <1>6 DEF RaiseSighup, HandleSighup, HandleSigusr1
<1>7. ASSUME NEW a, NEW n, Clone(a) \/ Get(a, n) PROVE UNCHANGED disk
  BY <1>7 DEF Clone, Get
<1>8. CASE UNCHANGED vars
  BY <1>8, <1>1 DEF vars
<1> QED
  BY <1>1, <1>2, <1>3, <1>4, <1>5, <1>6, <1>7, <1>8, Steps

(* Every action preserves the invariant about builds.                      *)
LEMMA FreshInvStep == FreshInv /\ [Next]_vars => FreshInv'
<1> SUFFICES ASSUME FreshInv, [Next]_vars PROVE FreshInv'
  OBVIOUS
<1>ty. TypeOK /\ ManagerInv' /\ TypeOK'
  BY ManagerInvStep DEF FreshInv, ManagerInv
<1>inv. BuildsOnDisk
  BY DEF FreshInv
<1> DEFINE Fits(p) == p.build <= disk'[p.config.path].build
<1>fits. \A p \in Plugins : OnDisk(p) => Fits(p)
  BY <1>ty, StaysOnDisk DEF OnDisk
<1>old. /\ \A n \in Names : modules[n] # None => Fits(modules[n])
        /\ \A n \in Names : previous[n] # None => Fits(previous[n])
        /\ \A w \in Workers : job[w].plugin # None => Fits(job[w].plugin)
        /\ \A a \in Builders : held[a] # None => Fits(held[a])
  BY <1>ty, <1>inv, <1>fits DEF BuildsOnDisk, TypeOK
<1>new. ASSUME /\ \A n \in Names : modules'[n] # None => Fits(modules'[n])
               /\ \A n \in Names : previous'[n] # None => Fits(previous'[n])
               /\ \A w \in Workers : job'[w].plugin # None => Fits(job'[w].plugin)
               /\ \A a \in Builders : held'[a] # None => Fits(held'[a])
        PROVE  BuildsOnDisk'
  BY <1>new DEF BuildsOnDisk, OnDisk
<1> HIDE DEF Fits
<1>1. ASSUME NEW w \in Workers, NEW c \in Configs, Create(w, c) PROVE BuildsOnDisk'
  <2>1. UNCHANGED <<disk, modules, previous, held, clone>>
    BY <1>1 DEF Create, maps, users
  <2>2. job'[w].plugin # None => job'[w].plugin = [config |-> c, build |-> disk[c.path].build]
    BY <1>1, <1>ty DEF Create, TypeOK
  <2>3. \A v \in Workers \ {w} : job'[v] = job[v]
    BY <1>1, <1>ty DEF Create, TypeOK
  <2>4. job'[w].plugin # None => Fits(job'[w].plugin)
    <3>1. disk[c.path].build \in Nat
      BY <1>ty, PluginFields DEF TypeOK, Files
    <3> QED
      BY <2>1, <2>2, <3>1 DEF Fits
  <2>5. BuildsOnDisk'
    BY <1>new, <1>old, <2>1, <2>3, <2>4
  <2> QED
    BY <2>5
<1>2. ASSUME NEW w \in Workers, Commit(w) PROVE BuildsOnDisk'
  <2>1. UNCHANGED <<disk, held, clone>>
    BY <1>2 DEF Commit, users
  <2>2. \A v \in Workers : job'[v].plugin # None => job'[v] = job[v]
    BY <1>2, <1>ty DEF Commit, TypeOK
  <2>3. \A n \in Names : modules'[n] = modules[n] \/ modules'[n] = job[w].plugin
    BY <1>2, <1>ty DEF Commit, Record, TypeOK
  <2>4. \A n \in Names : previous'[n] = previous[n]
                          \/ (previous'[n] = modules[n] /\ modules[n] # None)
    BY <1>2, <1>ty DEF Commit, TypeOK
  <2>5. job[w].plugin # None
    BY <1>2 DEF Commit
  <2>6. BuildsOnDisk'
    BY <1>new, <1>old, <2>1, <2>2, <2>3, <2>4, <2>5
  <2> QED
    BY <2>6
<1>3. ASSUME NEW m \in Names, Rollback(m) \/ Unload(m) PROVE BuildsOnDisk'
  <2>1. UNCHANGED <<disk, job, held, clone>>
    BY <1>3 DEF Rollback, Unload, users
  <2>2. \A n \in Names : modules'[n] = modules[n] \/ modules'[n] = previous[n] \/ modules'[n] = None
    BY <1>3, <1>ty DEF Rollback, Unload, TypeOK
  <2>3. \A n \in Names : previous'[n] = previous[n] \/ previous'[n] = None
    BY <1>3, <1>ty DEF Rollback, Unload, TypeOK
  <2>4. BuildsOnDisk'
    BY <1>new, <1>old, <2>1, <2>2, <2>3
  <2> QED
    BY <2>4
<1>4. ASSUME NEW a \in Builders, Clone(a) \/ \E n \in Names : Get(a, n)
      PROVE  BuildsOnDisk'
  <2>1. UNCHANGED <<disk, modules, previous, job>>
    BY <1>4 DEF Clone, Get, maps
  <2>2. \A b \in Builders : \/ held'[b] = held[b] \/ held'[b] = None
                            \/ \E n \in Names : held'[b] = modules[n]
    BY <1>4, <1>ty DEF Clone, Get, TypeOK
  <2>3. BuildsOnDisk'
    BY <1>new, <1>old, <2>1, <2>2
  <2> QED
    BY <2>3
<1>5. ASSUME UNCHANGED <<modules, previous, held, clone>>,
             \A w \in Workers : job'[w].plugin = job[w].plugin \/ job'[w].plugin = None
      PROVE  BuildsOnDisk'
  BY <1>5, <1>new, <1>old
<1>6. ASSUME NEW p \in Paths, NEW ok \in BOOLEAN, Deploy(p, ok) PROVE BuildsOnDisk'
  BY <1>5, <1>6 DEF Deploy, maps, users
<1>7. ASSUME NEW w \in Workers, NEW op, NEW c,
             Call(w, op, c) \/ Return(w) \/ HandleSighup(w) \/ HandleSigusr1(w)
      PROVE  BuildsOnDisk'
  <2>1. UNCHANGED <<modules, previous, held, clone>>
    BY <1>7 DEF Call, Return, HandleSighup, HandleSigusr1, maps, users
  <2>2. \A v \in Workers : job'[v].plugin = job[v].plugin \/ job'[v].plugin = None
    BY <1>7, <1>ty DEF Call, Return, HandleSighup, HandleSigusr1, Idle, TypeOK
  <2> QED
    BY <2>1, <2>2, <1>5
<1>8. ASSUME RaiseSighup \/ UNCHANGED vars PROVE BuildsOnDisk'
  BY <1>5, <1>8 DEF RaiseSighup, maps, users, vars
<1>9. BuildsOnDisk'
  BY <1>ty, <1>1, <1>2, <1>3, <1>4, <1>6, <1>7, <1>8, Steps DEF WorkerStep
<1> QED
  BY <1>ty, <1>9 DEF FreshInv

-----------------------------------------------------------------------------
(* The wait is armed and nothing is reloaded when the io threads start.    *)
LEMMA SignalInitInv == Init => SignalInv
<1> SUFFICES ASSUME Init PROVE SignalInv
  OBVIOUS
<1>1. FreshInv
  BY FreshInitInv
<1>2. \A w \in Workers : job[w] = Idle /\ job[w].todo = {} /\ job[w].plugin = None
  BY DEF Init, Idle
<1>3. \A n \in Names : configs[n] # None => configs[n].name = n
  BY PreloadedConfig DEF Init
<1>4. \A n \in Names : modules[n] # None => modules[n].config = configs[n]
  BY DEF Init
<1> QED
  BY <1>1, <1>2, <1>3, <1>4 DEF SignalInv, OneHandler, ReloadsItsConfig, NewerThanServed

(* Every step preserves it, if nobody but the signal handler writes.       *)
LEMMA SignalInvStep ==
  ASSUME scope.admins = {}, SignalInv, [Next]_vars
  PROVE  SignalInv'
<1>ty. TypeOK /\ FreshInv' /\ TypeOK' /\ BuildsOnDisk
  BY FreshInvStep DEF SignalInv, FreshInv, ManagerInv
<1>inv. OneHandler /\ ReloadsItsConfig /\ NewerThanServed
  BY DEF SignalInv
<1> DEFINE Goal == (OneHandler /\ ReloadsItsConfig /\ NewerThanServed)'
<1>1. ASSUME NEW w \in Workers, NEW c \in Configs, Create(w, c) PROVE Goal
  <2>1. /\ UNCHANGED <<disk, modules, configs, armed>> /\ c \in job[w].todo
        /\ \A v \in Workers \ {w} : job'[v] = job[v]
        /\ job'[w].todo \subseteq job[w].todo
    BY <1>1, <1>ty DEF Create, maps, loop, TypeOK
  <2>2. job[w] # Idle
    BY <2>1 DEF Idle
  <2>3. ~armed /\ \A v \in Workers \ {w} : job[v] = Idle
    BY <2>2, <1>inv DEF OneHandler
  <2>4. OneHandler'
    BY <2>1, <2>3 DEF OneHandler
  <2>5. ReloadsItsConfig'
    BY <2>1, <1>inv DEF ReloadsItsConfig
  <2>6. ASSUME job'[w].plugin # None
        PROVE  LET n == job'[w].plugin.config.name IN
               /\ configs[n] = job'[w].plugin.config
               /\ modules[n] # None => modules[n].build <= job'[w].plugin.build
    <3>1. job'[w].plugin = [config |-> c, build |-> disk[c.path].build]
      BY <2>6, <1>1, <1>ty DEF Create, TypeOK
    <3>2. configs[c.name] = c
      BY <2>1, <1>inv DEF ReloadsItsConfig
    <3>3. ASSUME modules[c.name] # None PROVE modules[c.name].build <= disk[c.path].build
      <4>1. c.name \in Names
        BY PluginFields
      <4> QED
        BY <3>2, <3>3, <4>1, <1>ty, <1>inv DEF BuildsOnDisk, OnDisk, ReloadsItsConfig
    <3> QED
      BY <3>1, <3>2, <3>3
  <2>7. \A v \in Workers \ {w} : job'[v].plugin = None
    BY <2>1, <2>3 DEF Idle
  <2>8. NewerThanServed'
    BY <2>1, <2>6, <2>7 DEF NewerThanServed
  <2> QED
    BY <2>4, <2>5, <2>8
<1>2. ASSUME NEW w \in Workers, Commit(w) PROVE Goal
  <2> DEFINE plugin == job[w].plugin
             m == plugin.config.name
  <2>1. plugin # None /\ job[w] # Idle
    BY <1>2 DEF Commit, Idle
  <2>2. ~armed /\ \A v \in Workers \ {w} : job[v] = Idle
    BY <2>1, <1>inv DEF OneHandler
  <2>3. plugin \in Plugins /\ m \in Names
    BY <2>1, <1>ty, PluginFields DEF TypeOK
  <2>4. configs[m] = plugin.config
    BY <2>1, <1>inv DEF NewerThanServed
  <2>5. UNCHANGED <<armed, configs>>
    BY <1>2, <1>ty, <2>3, <2>4 DEF Commit, Record, loop, TypeOK
  <2>6. /\ job'[w].plugin = None /\ job'[w].todo \subseteq job[w].todo
        /\ \A v \in Workers \ {w} : job'[v] = job[v]
    BY <1>2, <1>ty DEF Commit, TypeOK
  <2>7. modules' = [modules EXCEPT ![m] = plugin]
    BY <1>2 DEF Commit, Record
  <2>8. OneHandler'
    BY <2>2, <2>5, <2>6 DEF OneHandler
  <2>9. ReloadsItsConfig'
    BY <2>3, <2>4, <2>5, <2>6, <2>7, <1>ty, <1>inv DEF ReloadsItsConfig, TypeOK
  <2>10. \A v \in Workers : job'[v].plugin = None
    BY <2>2, <2>6 DEF Idle
  <2>11. NewerThanServed'
    BY <2>10 DEF NewerThanServed
  <2> QED
    BY <2>8, <2>9, <2>11
<1>3. ASSUME NEW w \in Workers, Return(w) PROVE Goal
  <2>1. /\ job[w] # Idle /\ job'[w] = Idle /\ \A v \in Workers \ {w} : job'[v] = job[v]
        /\ UNCHANGED <<modules, configs>>
    BY <1>3, <1>ty DEF Return, maps, TypeOK
  <2>2. \A v \in Workers : job'[v] = Idle
    BY <2>1, <1>inv DEF OneHandler
  <2>3. \A v \in Workers : job'[v].todo = {} /\ job'[v].plugin = None
    BY <2>2 DEF Idle
  <2> QED
    BY <2>1, <2>2, <2>3, <1>inv DEF OneHandler, ReloadsItsConfig, NewerThanServed
<1>4. ASSUME NEW w \in Workers, HandleSighup(w) \/ HandleSigusr1(w) PROVE Goal
  <2>1. /\ armed /\ ~armed' /\ UNCHANGED <<modules, configs>>
        /\ job'[w].plugin = None /\ job'[w].todo \subseteq {configs[n] : n \in Names} \ {None}
        /\ \A v \in Workers \ {w} : job'[v] = job[v]
    BY <1>4, <1>ty DEF HandleSighup, HandleSigusr1, maps, TypeOK
  <2>2. \A v \in Workers \ {w} : job'[v] = Idle
    BY <2>1, <1>inv DEF OneHandler
  <2>3. \A v \in Workers \ {w} : job'[v].todo = {} /\ job'[v].plugin = None
    BY <2>2 DEF Idle
  <2>4. \A c \in job'[w].todo : configs[c.name] = c
    BY <2>1, <1>inv DEF ReloadsItsConfig
  <2>5. OneHandler'
    BY <2>1, <2>2 DEF OneHandler
  <2>6. ReloadsItsConfig'
    BY <2>1, <2>3, <2>4, <1>inv DEF ReloadsItsConfig
  <2>7. NewerThanServed'
    BY <2>1, <2>3 DEF NewerThanServed
  <2> QED
    BY <2>5, <2>6, <2>7
<1>5. ASSUME UNCHANGED <<modules, configs, job, armed>> PROVE Goal
  BY <1>5, <1>inv DEF OneHandler, ReloadsItsConfig, NewerThanServed
<1>6. ASSUME NEW p, NEW ok, Deploy(p, ok) PROVE Goal
  BY <1>5, <1>6 DEF Deploy, maps, loop
<1>7. ASSUME RaiseSighup \/ UNCHANGED vars PROVE Goal
  BY <1>5, <1>7 DEF RaiseSighup, maps, loop, vars
<1>8. ASSUME NEW a, NEW n, Clone(a) \/ Get(a, n) PROVE Goal
  BY <1>5, <1>8 DEF Clone, Get, maps, loop
<1>9. Goal
  BY <1>ty, <1>1, <1>2, <1>3, <1>4, <1>6, <1>7, <1>8, Steps DEF WorkerStep
<1> QED
  BY <1>ty, <1>9 DEF SignalInv

(* A step that changes what is served commits a build no older.            *)
LEMMA CommitsNewer ==
  ASSUME scope.admins = {}, SignalInv, [Next]_vars,
         NEW n \in Names, modules[n] # None, modules'[n] # None
  PROVE  modules'[n].build >= modules[n].build
<1>ty. TypeOK
  BY DEF SignalInv, FreshInv, ManagerInv
<1>nat. modules[n].build \in Nat
  BY <1>ty, PluginFields DEF TypeOK
<1>1. CASE modules'[n] = modules[n]
  BY <1>1, <1>nat
<1>2. ASSUME NEW w \in Workers, Commit(w) PROVE modules'[n].build >= modules[n].build
  <2>1. job[w].plugin # None /\ job[w].plugin \in Plugins
    BY <1>2, <1>ty DEF Commit, TypeOK
  <2>2. CASE n = job[w].plugin.config.name
    <3>1. modules'[n] = job[w].plugin
      BY <2>2, <1>2, <1>ty DEF Commit, Record, TypeOK
    <3>2. modules[n].build <= job[w].plugin.build
      BY <2>1, <2>2 DEF SignalInv, NewerThanServed
    <3>3. job[w].plugin.build \in Nat
      BY <2>1, PluginFields
    <3> QED
      BY <3>1, <3>2, <3>3, <1>nat
  <2>3. CASE n # job[w].plugin.config.name
    BY <2>3, <1>2, <1>ty, <1>1 DEF Commit, Record, TypeOK
  <2> QED
    BY <2>2, <2>3
<1>3. ASSUME NEW w \in Workers, WorkerStep(w), ~Commit(w) PROVE UNCHANGED modules
  BY <1>3 DEF WorkerStep, Create, Return, maps
<1>4. ASSUME NEW p, NEW ok, Deploy(p, ok) PROVE UNCHANGED modules
  BY <1>4 DEF Deploy, maps
<1>5. ASSUME NEW w, RaiseSighup \/ HandleSighup(w) \/ HandleSigusr1(w) PROVE UNCHANGED modules
  BY <1>5 DEF RaiseSighup, HandleSighup, HandleSigusr1, maps
<1>6. ASSUME NEW a, NEW m, Clone(a) \/ Get(a, m) PROVE UNCHANGED modules
  BY <1>6 DEF Clone, Get, maps
<1>7. UNCHANGED vars => UNCHANGED modules
  BY DEF vars, maps
<1> QED
  BY <1>ty, <1>1, <1>2, <1>3, <1>4, <1>5, <1>6, <1>7, Steps

(***************************************************************************)
(* Signals alone never put an older build back in service: HotReload reads *)
(* the file before it takes the lock, but StartSignalWait (main.cpp)       *)
(* re-arms the wait only after HotReloadAll returned.  This is for set-ups *)
(* in which no thread calls Load, HotReload, Rollback or Unload itself, as *)
(* in main.cpp after start-up.                                             *)
(***************************************************************************)
THEOREM SignalsNeverRevert == Spec => NeverReverts
<1> DEFINE Alone == scope.admins = {} => SignalInv
<1>1. Alone /\ [Next]_vars =>
        [scope.admins = {} =>
           \A n \in Names : modules[n] # None /\ modules'[n] # None =>
             modules'[n].build >= modules[n].build]_vars
  BY CommitsNewer
<1>2. Alone /\ [Next]_vars => Alone'
  <2> SUFFICES ASSUME Alone, [Next]_vars, scope'.admins = {} PROVE SignalInv'
    OBVIOUS
  <2>1. scope' = scope
    BY DEF Next, vars
  <2> QED
    BY <2>1, SignalInvStep
<1>3. Init => Alone
  BY SignalInitInv
<1> HIDE DEF Alone
<1> QED
  BY <1>1, <1>2, <1>3, PTL DEF Spec, NeverReverts
=============================================================================
