--------------------------- MODULE ModuleManager ----------------------------
(***************************************************************************)
(* ModuleManager (src/src/core/module_manager.cpp), the signal loop that   *)
(* calls HotReloadAll (src/src/main.cpp) and the actor constructors that   *)
(* clone its plugins (src/src/actor/actor.cpp).                            *)
(*                                                                         *)
(* Load and HotReload build and initialise the plugin without the lock and *)
(* commit it under the lock, so the file they read and the maps they write *)
(* may change in between.  A critical section of mutex_ is one step, and   *)
(* so is factory_->Create followed by Initialize, which reads the file.    *)
(***************************************************************************)
EXTENDS Integers, FiniteSets

CONSTANTS Configs,     \* ModuleConfigs: name, path, schema_version
          Admins,      \* threads that call Load, HotReload, Rollback, Unload
          IoThreads,   \* io threads, on which the signal handler runs
          Builders,    \* actors under construction
          Scopes,      \* set-ups: the configs, those that are loaded before the
                       \* io threads start, the threads and actors, and how
                       \* many signals are raised
          None,        \* a missing map entry, a null pointer
          MaxBuild,    \* bound: builds deployed per path
          MaxSignals   \* bound: signals raised

Names   == {c.name : c \in Configs}
Paths   == {c.path : c \in Configs}
Workers == Admins \cup IoThreads
Files   == [build : 1..MaxBuild, ok : BOOLEAN]
Plugins == [config : Configs, build : 1..MaxBuild]

ASSUME ModuleAssumption ==
  /\ Scopes \subseteq [configs : SUBSET Configs, preloaded : SUBSET Configs,
                       admins : SUBSET Admins, threads : SUBSET IoThreads,
                       builders : SUBSET Builders, signals : 0..MaxSignals]
  /\ \A s \in Scopes : \A c, d \in s.preloaded : c.name = d.name => c = d
  /\ Admins \cap IoThreads = {}
  /\ MaxBuild \in Nat \ {0}
  /\ MaxSignals \in Nat
  /\ \A c \in Configs : c.schema_version \in Nat
  /\ None \notin Nat /\ None \notin Configs /\ None \notin Plugins

VARIABLES scope,       \* the set-up that is followed
          disk,        \* the file at every path: its build, whether it initialises
          modules,     \* modules_
          previous,    \* previous_modules_
          configs,     \* configs_
          versions,    \* schema_versions_
          job,         \* the call a worker is in
          armed,       \* whether signals->async_wait is outstanding
          sighups,     \* SIGHUPs queued by the signal_set
          raised,      \* signals raised so far
          held,        \* the plugin an actor's constructor got
          clone,       \* plugins_ of an actor
          rolled,      \* history: the name was rolled back since its last commit
          asked        \* history: the good build on disk at the last SIGHUP

maps  == <<modules, previous, configs, versions, rolled>>
loop  == <<armed, sighups, raised, asked>>
users == <<held, clone>>
vars  == <<scope, disk, maps, job, loop, users>>

(***************************************************************************)
(* A job: the operation, the configs still to do, and the plugin that was  *)
(* initialised and not yet committed.  HotReload and Load do one config,   *)
(* HotReloadAll calls HotReload for every config of its copy of configs_.  *)
(***************************************************************************)
Ops  == {"idle", "load", "reload", "all", "dump"}
Idle == [op |-> "idle", todo |-> {}, plugin |-> None]

TypeOK ==
  /\ scope    \in Scopes
  /\ disk     \in [Paths -> Files]
  /\ modules  \in [Names -> Plugins \cup {None}]
  /\ previous \in [Names -> Plugins \cup {None}]
  /\ configs  \in [Names -> Configs \cup {None}]
  /\ versions \in [Names -> {c.schema_version : c \in Configs} \cup {None}]
  /\ job      \in [Workers -> [op : Ops, todo : SUBSET Configs, plugin : Plugins \cup {None}]]
  /\ armed    \in BOOLEAN
  /\ sighups  \in 0..MaxSignals
  /\ raised   \in 0..MaxSignals
  /\ held     \in [Builders -> Plugins \cup {None}]
  /\ clone    \in [Builders -> Plugins \cup {None}]
  /\ rolled   \in [Names -> BOOLEAN]
  /\ asked    \in [Paths -> 0..MaxBuild]

PreloadedAs(n) == {c \in scope.preloaded : c.name = n}

Init ==
  /\ scope    \in Scopes
  /\ disk     = [p \in Paths |-> [build |-> 1, ok |-> TRUE]]
  /\ configs  = [n \in Names |-> IF PreloadedAs(n) = {} THEN None
                                 ELSE CHOOSE c \in PreloadedAs(n) : TRUE]
  /\ modules  = [n \in Names |-> IF configs[n] = None THEN None
                                 ELSE [config |-> configs[n], build |-> 1]]
  /\ versions = [n \in Names |-> IF configs[n] = None THEN None ELSE configs[n].schema_version]
  /\ previous = [n \in Names |-> None]
  /\ job      = [w \in Workers |-> Idle]
  /\ armed    = TRUE
  /\ sighups  = 0
  /\ raised   = 0
  /\ held     = [a \in Builders |-> None]
  /\ clone    = [a \in Builders |-> None]
  /\ rolled   = [n \in Names |-> FALSE]
  /\ asked    = [p \in Paths |-> 0]
-----------------------------------------------------------------------------
\* The operator replaces a file; the new one may fail to initialise.
Deploy(p, ok) ==
  /\ disk[p].build < MaxBuild
  /\ disk' = [disk EXCEPT ![p] = [build |-> @.build + 1, ok |-> ok]]
  /\ UNCHANGED <<maps, job, loop, users>>

\* A thread calls Load or HotReload.
Call(w, op, c) ==
  /\ job[w] = Idle
  /\ job' = [job EXCEPT ![w] = [op |-> op, todo |-> {c}, plugin |-> None]]
  /\ UNCHANGED <<disk, maps, loop, users>>

\* Mutant: HotReloadAll gives up at the first module that fails.
CreateOrStop(w, c) ==
  /\ c \in job[w].todo
  /\ job[w].plugin = None
  /\ IF disk[c.path].ok
     THEN job' = [job EXCEPT ![w].plugin = [config |-> c, build |-> disk[c.path].build]]
     ELSE job' = [job EXCEPT ![w].todo = {}]
  /\ UNCHANGED <<disk, maps, loop, users>>

\* factory_->Create and Initialize; a failure leaves the maps alone.
Create(w, c) ==
  /\ c \in job[w].todo
  /\ job[w].plugin = None
  /\ IF disk[c.path].ok
     THEN job' = [job EXCEPT ![w].plugin = [config |-> c, build |-> disk[c.path].build]]
     ELSE job' = [job EXCEPT ![w].todo = @ \ {c}]
  /\ UNCHANGED <<disk, maps, loop, users>>

\* Mutant: the new version is put in service but its config is not recorded.
RecordPluginOnly(n, plugin) ==
  /\ modules' = [modules EXCEPT ![n] = plugin]
  /\ rolled'  = [rolled EXCEPT ![n] = FALSE]
  /\ UNCHANGED <<configs, versions>>

\* The three assignments that end Load and HotReload.
Record(n, plugin) ==
  /\ modules'  = [modules EXCEPT ![n] = plugin]
  /\ configs'  = [configs EXCEPT ![n] = plugin.config]
  /\ versions' = [versions EXCEPT ![n] = plugin.config.schema_version]
  /\ rolled'   = [rolled EXCEPT ![n] = FALSE]

\* The critical section of Load and of HotReload, which keeps what it replaces.
Commit(w) ==
  LET plugin == job[w].plugin
      n      == plugin.config.name
  IN
  /\ plugin # None
  /\ Record(n, plugin)
  /\ previous' = IF job[w].op # "load" /\ modules[n] # None
                 THEN [previous EXCEPT ![n] = modules[n]] ELSE previous
  /\ job' = [job EXCEPT ![w].todo = @ \ {plugin.config}, ![w].plugin = None]
  /\ UNCHANGED <<disk, loop, users>>

\* The call returns.  When it is the signal handler's, StartSignalWait re-arms.
Return(w) ==
  /\ job[w] # Idle /\ job[w].todo = {}
  /\ armed' = (armed \/ w \in IoThreads)
  /\ job'   = [job EXCEPT ![w] = Idle]
  /\ UNCHANGED <<disk, maps, sighups, raised, asked, users>>

\* Mutant: the previous version is taken to be one less.
RollbackCountsDown(n) ==
  /\ previous[n] # None
  /\ modules'  = [modules EXCEPT ![n] = previous[n]]
  /\ previous' = [previous EXCEPT ![n] = None]
  /\ versions' = [versions EXCEPT ![n] = @ - 1]
  /\ rolled'   = [rolled EXCEPT ![n] = TRUE]
  /\ UNCHANGED <<disk, configs, job, loop, users>>

\* Brings the previous plugin back; the version is re-read from configs_.
Rollback(n) ==
  /\ previous[n] # None
  /\ modules'  = [modules EXCEPT ![n] = previous[n]]
  /\ previous' = [previous EXCEPT ![n] = None]
  /\ versions' = IF configs[n] # None
                 THEN [versions EXCEPT ![n] = configs[n].schema_version] ELSE versions
  /\ rolled'   = [rolled EXCEPT ![n] = TRUE]
  /\ UNCHANGED <<disk, configs, job, loop, users>>

\* Mutant: the previous plugin is not dropped.
UnloadKeepingPrevious(n) ==
  /\ modules'  = [modules EXCEPT ![n] = None]
  /\ configs'  = [configs EXCEPT ![n] = None]
  /\ versions' = [versions EXCEPT ![n] = None]
  /\ rolled'   = [rolled EXCEPT ![n] = FALSE]
  /\ UNCHANGED <<disk, previous, job, loop, users>>

\* Erases the name everywhere.  The Shutdown of the plugin is invisible here:
\* actors run clones, and Clone works on a plugin that was shut down.
Unload(n) ==
  /\ modules'  = [modules EXCEPT ![n] = None]
  /\ previous' = [previous EXCEPT ![n] = None]
  /\ configs'  = [configs EXCEPT ![n] = None]
  /\ versions' = [versions EXCEPT ![n] = None]
  /\ rolled'   = [rolled EXCEPT ![n] = FALSE]
  /\ UNCHANGED <<disk, job, loop, users>>
-----------------------------------------------------------------------------
\* The operator signals; the signal_set queues what arrives during a handler.
RaiseSighup ==
  /\ raised < scope.signals
  /\ raised'  = raised + 1
  /\ sighups' = sighups + 1
  /\ asked'   = [p \in Paths |-> IF disk[p].ok THEN disk[p].build ELSE asked[p]]
  /\ UNCHANGED <<disk, maps, job, armed, users>>

\* Mutant: the wait is started again before the signal is handled.
HandleSighupRearmed(w) ==
  /\ armed /\ sighups > 0
  /\ job[w] = Idle
  /\ sighups' = sighups - 1
  /\ job'     = [job EXCEPT ![w] = [op |-> "all", todo |-> {configs[n] : n \in Names} \ {None},
                                    plugin |-> None]]
  /\ UNCHANGED <<disk, maps, armed, raised, asked, users>>

\* The handler runs HotReloadAll up to its copy of configs_.
HandleSighup(w) ==
  /\ armed /\ sighups > 0
  /\ job[w] = Idle
  /\ armed'   = FALSE
  /\ sighups' = sighups - 1
  /\ job'     = [job EXCEPT ![w] = [op |-> "all", todo |-> {configs[n] : n \in Names} \ {None},
                                    plugin |-> None]]
  /\ UNCHANGED <<disk, maps, raised, asked, users>>

\* SIGUSR1: the handler dumps the heap, which only keeps the loop busy.
HandleSigusr1(w) ==
  /\ armed /\ raised < scope.signals
  /\ job[w] = Idle
  /\ armed'  = FALSE
  /\ raised' = raised + 1
  /\ job'    = [job EXCEPT ![w] = [op |-> "dump", todo |-> {}, plugin |-> None]]
  /\ UNCHANGED <<disk, maps, sighups, asked, users>>

\* The constructor of an actor asks for a plugin ...
Get(a, n) ==
  /\ held[a] = None /\ clone[a] = None
  /\ modules[n] # None
  /\ held' = [held EXCEPT ![a] = modules[n]]
  /\ UNCHANGED <<disk, maps, job, loop, clone>>

\* ... and clones it: a second plugin made from the same path, None on failure.
Clone(a) ==
  /\ held[a] # None
  /\ clone' = [clone EXCEPT ![a] =
                 IF disk[held[a].config.path].ok
                 THEN [config |-> held[a].config, build |-> disk[held[a].config.path].build]
                 ELSE None]
  /\ held'  = [held EXCEPT ![a] = None]
  /\ UNCHANGED <<disk, maps, job, loop>>

WorkerStep(w) == Commit(w) \/ Return(w) \/ \E c \in Configs : Create(w, c)

Next ==
  /\ \/ \E c \in scope.configs, ok \in BOOLEAN : Deploy(c.path, ok)
     \/ \E w \in scope.admins, op \in {"load", "reload"}, c \in scope.configs : Call(w, op, c)
     \/ \E w \in Workers : WorkerStep(w)
     \/ scope.admins # {} /\ \E n \in Names : Rollback(n) \/ Unload(n)
     \/ RaiseSighup
     \/ \E w \in scope.threads : HandleSighup(w) \/ HandleSigusr1(w)
     \/ \E a \in scope.builders : Clone(a) \/ \E n \in Names : Get(a, n)
  /\ UNCHANGED scope

Spec == Init /\ [][Next]_vars

(***************************************************************************)
(* Fairness: a call that was started goes on, and the io_context delivers  *)
(* a queued signal when a wait is outstanding (FIFO, hence strong: SIGUSR1 *)
(* may use up the wait again and again).                                   *)
(***************************************************************************)
Fairness ==
  /\ \A w \in Workers : WF_vars(WorkerStep(w) /\ UNCHANGED scope)
  /\ SF_vars(\E w \in scope.threads : HandleSighup(w) /\ UNCHANGED scope)

FairSpec == Spec /\ Fairness
-----------------------------------------------------------------------------
(***************************************************************************)
(* The four maps, written by four operations from several threads, never   *)
(* disagree on which modules exist: a served module has a config and a     *)
(* version, and a plugin to roll back to exists only behind a served one,  *)
(* so Rollback cannot bring back a module that Unload removed.             *)
(***************************************************************************)
MapsAgree ==
  \A n \in Names :
    /\ (modules[n] = None) = (configs[n] = None)
    /\ (modules[n] = None) = (versions[n] = None)
    /\ previous[n] # None => modules[n] # None

(***************************************************************************)
(* Plugin, config and schema version of a name come from the same Load or  *)
(* HotReload, however calls overlap, until a Rollback takes them apart.    *)
(***************************************************************************)
ServedMatchesConfig ==
  \A n \in Names : modules[n] # None /\ ~rolled[n] =>
    modules[n].config = configs[n] /\ versions[n] = configs[n].schema_version

(***************************************************************************)
(* Signals alone never put an older build back in service, although        *)
(* HotReload reads the file before it takes the lock: the wait is re-armed *)
(* only after HotReloadAll returned, so two reloads never overlap.         *)
(***************************************************************************)
NeverReverts ==
  [][scope.admins = {} =>
       \A n \in Names : modules[n] # None /\ modules'[n] # None =>
         modules'[n].build >= modules[n].build]_vars

(***************************************************************************)
(* Liveness: a SIGHUP puts a good build that was on disk in service, also  *)
(* when it arrives during another handler and when the reload of another   *)
(* module fails.  (A broken file deployed meanwhile is an excuse.)         *)
(***************************************************************************)
SighupServesBuild ==
  \A c \in Configs, b \in 1..MaxBuild :
    (scope.admins = {} /\ c \in scope.preloaded /\ asked[c.path] = b)
      ~> \/ modules[c.name] # None /\ modules[c.name].build >= b
         \/ ~disk[c.path].ok

(***************************************************************************)
(* Clone makes an "independent, initialized copy of this plugin instance"  *)
(* (plugin_interface.h:22): the clone an actor's constructor makes runs    *)
(* the build of the plugin it got.                                         *)
(***************************************************************************)
CloneIsCopy ==
  [][\A a \in Builders : held[a] # None /\ clone'[a] # None => clone'[a] = held[a]]_vars

(***************************************************************************)
(* What GetLoadedSchemaVersion says is the version of the plugin that is   *)
(* in service (module_manager.h:32).                                       *)
(***************************************************************************)
LoadedVersionTrue ==
  \A n \in Names : modules[n] # None => versions[n] = modules[n].config.schema_version
=============================================================================
