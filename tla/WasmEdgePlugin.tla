--------------------------- MODULE WasmEdgePlugin ---------------------------
(***************************************************************************)
(* The life of WasmEdgePlugin instances (src/src/plugin/wasmedge_plugin.   *)
(* cpp): Initialize with its ladder of failures, Shutdown, Clone, Execute  *)
(* and the thread-local g_host_ctx, between the ModuleManager that serves  *)
(* one module name and the actors that run clones of what it serves.       *)
(*                                                                         *)
(* A plugin lives as long as a shared_ptr leads to it: modules_ or         *)
(* previous_modules_, the local of a constructor that called Get, or the   *)
(* plugins_ of an actor.  An actor lives as long as it is registered or a  *)
(* closure on its strand holds it.  VMs and host modules are WasmEdge's    *)
(* (external) and known by their handles, which are reused once deleted.   *)
(***************************************************************************)
EXTENDS Naturals

CONSTANTS Plugins,   \* addresses of plugins; as many handles of each kind
          Actors,    \* addresses of actors; also the ids of their objects
          Threads,   \* io threads
          None

ASSUME PluginAssumption ==
  /\ None \notin Plugins /\ None \notin Actors
  /\ Plugins # {} /\ Actors # {}
  /\ None \notin [vm : Plugins \cup {None}, host : Plugins \cup {None}]

VARIABLES alive,        \* plugins that are constructed
          state,        \* state_: handles of VM and host module, None when null
          initialized,  \* initialized_
          vms,          \* VMs that exist
          hosts,        \* host modules that exist
          master,       \* modules_["room"]
          previous,     \* previous_modules_["room"]
          life,         \* of an actor
          clone,        \* plugins_["room"] of an actor
          call,         \* what a thread does, to which plugin, for which actor,
                        \* and the plugin that Get gave it
          ctx           \* g_host_ctx: the object of a thread's last Execute

heap    == <<alive, state, initialized, vms, hosts>>
manager == <<master, previous>>
actors  == <<life, clone>>
vars    == <<heap, manager, actors, call, ctx>>

\* The calls of Initialize that can fail, in their order.
Stages == <<"VMCreate", "CreateHostModule", "LoadWasm", "Validate", "RegisterModule",
            "Instantiate">>
Ladder == {Stages[i] : i \in 1..6}
After(stage) ==
  LET i == CHOOSE i \in 1..6 : Stages[i] = stage
  IN  IF i = 6 THEN "initialized" ELSE Stages[i + 1]

Idle  == [op |-> "idle", plugin |-> None, actor |-> None, source |-> None]
Empty == [vm |-> None, host |-> None]

(***************************************************************************)
(* Type correctness; an initialized plugin has a VM and a host module.     *)
(***************************************************************************)
TypeOK ==
  /\ alive       \subseteq Plugins
  /\ state       \in [Plugins -> [vm : Plugins \cup {None}, host : Plugins \cup {None}]
                                 \cup {None}]
  /\ initialized \in [Plugins -> BOOLEAN]
  /\ vms \subseteq Plugins /\ hosts \subseteq Plugins
  /\ master \in Plugins \cup {None} /\ previous \in Plugins \cup {None}
  /\ life  \in [Actors -> {"none", "building", "registered", "killed"}]
  /\ clone \in [Actors -> Plugins \cup {None}]
  /\ call  \in [Threads -> [op : Ladder \cup {"idle", "clone", "initialized", "run"},
                            plugin : Plugins \cup {None}, actor : Actors \cup {None},
                            source : Plugins \cup {None}]]
  /\ ctx   \in [Threads -> Actors \cup {None}]
  /\ \A p \in Plugins : initialized[p] => state[p] \in [vm : Plugins, host : Plugins]

Init ==
  /\ alive = {} /\ vms = {} /\ hosts = {}
  /\ state       = [p \in Plugins |-> None]
  /\ initialized = [p \in Plugins |-> FALSE]
  /\ master = None /\ previous = None
  /\ life  = [a \in Actors |-> "none"]
  /\ clone = [a \in Actors |-> None]
  /\ call  = [t \in Threads |-> Idle]
  /\ ctx   = [t \in Threads |-> None]
-----------------------------------------------------------------------------
\* Mutant: initialized_ is not reset.
ShutdownKeepsFlag(shut, gone) ==
  /\ vms'   = vms \ {state[p].vm : p \in {q \in shut \cup gone : state[q] # None}}
  /\ hosts' = hosts \ {state[p].host : p \in {q \in shut \cup gone : state[q] # None}}
  /\ state' = [p \in Plugins |-> CASE p \in gone -> None
                                   [] p \in shut \ gone /\ state[p] # None -> Empty
                                   [] OTHER -> state[p]]
  /\ initialized' = [p \in Plugins |-> initialized[p] /\ p \notin gone]
  /\ alive' = alive \ gone

(***************************************************************************)
(* ShutdownImpl for the plugins in shut and for those in gone, which are   *)
(* destroyed: VM and host module are deleted if they are there.  After a   *)
(* Shutdown state_ stays, with null pointers.                              *)
(***************************************************************************)
ShutdownImpl(shut, gone) ==
  /\ vms'   = vms \ {state[p].vm : p \in {q \in shut \cup gone : state[q] # None}}
  /\ hosts' = hosts \ {state[p].host : p \in {q \in shut \cup gone : state[q] # None}}
  /\ state' = [p \in Plugins |-> CASE p \in gone -> None
                                   [] p \in shut \ gone /\ state[p] # None -> Empty
                                   [] OTHER -> state[p]]
  /\ initialized' = [p \in Plugins |-> initialized[p] /\ p \notin shut \cup gone]
  /\ alive' = alive \ gone

\* The plugins among ps to which no shared_ptr leads after this step: they are
\* destroyed by it.
Unreferenced(ps) ==
  {p \in ps \ {None} : /\ p # master' /\ p # previous'
                       /\ \A t \in Threads : p # call'[t].source
                       /\ \A a \in Actors : p # clone'[a]}

\* make_unique<WasmEdgePlugin>, and Initialize up to its first call.
Construct(t, p, actor, source) ==
  /\ p \notin alive
  /\ alive' = alive \cup {p}
  /\ state' = [state EXCEPT ![p] = Empty]
  /\ call'  = [call EXCEPT ![t] = [op |-> "VMCreate", plugin |-> p, actor |-> actor,
                                   source |-> source]]
  /\ UNCHANGED <<initialized, vms, hosts>>

\* Load or HotReload asks the factory for a plugin.
Create(t, p) ==
  /\ call[t] = Idle
  /\ Construct(t, p, None, None)
  /\ UNCHANGED <<manager, actors, ctx>>

\* A call of the ladder succeeds.
InitializeStep(t) ==
  LET p == call[t].plugin
      n == After(call[t].op)
  IN
  /\ call[t].op \in Ladder
  /\ CASE call[t].op = "VMCreate" ->
            \E vm \in Plugins \ vms :
              /\ vms'   = vms \cup {vm}
              /\ state' = [state EXCEPT ![p].vm = vm]
              /\ UNCHANGED hosts
       [] call[t].op = "CreateHostModule" ->
            \E host \in Plugins \ hosts :
              /\ hosts' = hosts \cup {host}
              /\ state' = [state EXCEPT ![p].host = host]
              /\ UNCHANGED vms
       [] OTHER -> UNCHANGED <<vms, hosts, state>>
  /\ initialized' = [initialized EXCEPT ![p] = (n = "initialized")]
  /\ call'        = [call EXCEPT ![t].op = n]
  /\ UNCHANGED <<alive, manager, actors, ctx>>

\* The end of an actor's constructor; Spawn registers it.
Built(a, plugin) ==
  /\ life'  = IF a = None THEN life ELSE [life EXCEPT ![a] = "registered"]
  /\ clone' = IF a = None THEN clone ELSE [clone EXCEPT ![a] = plugin]

\* Mutant: the clean-up after a failed validation forgets the host module.
CleanUpForgetting(stage) ==
  CASE stage = "VMCreate" -> {}
    [] stage = "CreateHostModule" -> {"vm"}
    [] stage = "LoadWasm" -> {"host", "vm"}
    [] stage = "Validate" -> {"vm"}
    [] stage = "RegisterModule" -> {"host", "vm"}
    [] stage = "Instantiate" -> {"host", "vm"}

\* What each rung of the ladder deletes when its call fails.
CleanUp(stage) ==
  CASE stage = "VMCreate" -> {}
    [] stage = "CreateHostModule" -> {"vm"}
    [] stage = "LoadWasm" -> {"host", "vm"}
    [] stage = "Validate" -> {"host", "vm"}
    [] stage = "RegisterModule" -> {"host", "vm"}
    [] stage = "Instantiate" -> {"host", "vm"}

(***************************************************************************)
(* A call of the ladder fails: its rung cleans up and resets state_, so    *)
(* that nothing is left to delete when the caller destroys the plugin.     *)
(* Load and HotReload return false; a constructor goes on without the      *)
(* module and drops the plugin it got, which may be destroyed then.        *)
(***************************************************************************)
InitializeFails(t) ==
  LET p        == call[t].plugin
      cleaned  == CleanUp(call[t].op)
      dropped  == Unreferenced({call[t].source})
      shutDown == {q \in dropped : state[q] # None}
  IN
  /\ call[t].op \in Ladder
  /\ call' = [call EXCEPT ![t] = Idle]
  /\ Built(call[t].actor, None)
  /\ UNCHANGED <<manager, ctx>>
  /\ vms'   = vms \ {state[q].vm : q \in shutDown \cup IF "vm" \in cleaned THEN {p} ELSE {}}
  /\ hosts' = hosts \ {state[q].host : q \in shutDown \cup IF "host" \in cleaned THEN {p} ELSE {}}
  /\ state' = [q \in Plugins |-> IF q \in {p} \cup dropped THEN None ELSE state[q]]
  /\ initialized' = [q \in Plugins |-> initialized[q] /\ q \notin {p} \cup dropped]
  /\ alive' = alive \ ({p} \cup dropped)
-----------------------------------------------------------------------------
\* Load and HotReload put the plugin in service; HotReload keeps the old one.
Publish(t, keep) ==
  /\ call[t].op = "initialized" /\ call[t].actor = None
  /\ master'   = call[t].plugin
  /\ previous' = IF keep /\ master # None THEN master ELSE previous
  /\ call'     = [call EXCEPT ![t] = Idle]
  /\ UNCHANGED <<actors, ctx>>
  /\ ShutdownImpl({}, Unreferenced({master, previous}))

\* Rollback puts the kept plugin back.
Rollback ==
  /\ previous # None
  /\ master' = previous
  /\ previous' = None
  /\ UNCHANGED <<call, actors, ctx>>
  /\ ShutdownImpl({}, Unreferenced({master}))

\* Unload shuts the served plugin down, whoever got it from Get, and drops both.
Unload ==
  /\ master # None
  /\ master' = None /\ previous' = None
  /\ UNCHANGED <<call, actors, ctx>>
  /\ ShutdownImpl({master}, Unreferenced({master, previous}))
-----------------------------------------------------------------------------
\* An actor's constructor asks for its module; there may be none.
Get(t, a) ==
  /\ call[t] = Idle /\ life[a] = "none"
  /\ IF master = None
     THEN Built(a, None) /\ UNCHANGED call
     ELSE /\ call' = [call EXCEPT ![t] = [op |-> "clone", plugin |-> None, actor |-> a,
                                          source |-> master]]
          /\ life' = [life EXCEPT ![a] = "building"]
          /\ UNCHANGED clone
  /\ UNCHANGED <<heap, manager, ctx>>

\* Mutant: the clone takes over the handles of the plugin it copies.
CloneSharing(t, p) ==
  /\ call[t].op = "clone" /\ p \notin alive
  /\ alive' = alive \cup {p}
  /\ state' = [state EXCEPT ![p] = state[call[t].source]]
  /\ initialized' = [initialized EXCEPT ![p] = initialized[call[t].source]]
  /\ call' = [call EXCEPT ![t].op = "initialized", ![t].plugin = p]
  /\ UNCHANGED <<vms, hosts, manager, actors, ctx>>

\* Clone: a new plugin for the same path, which is initialized like any other.
\* It reads only path_ and schema_version_, so it works after a Shutdown too.
Clone(t, p) ==
  /\ call[t].op = "clone"
  /\ Construct(t, p, call[t].actor, call[t].source)
  /\ UNCHANGED <<manager, actors, ctx>>

\* The constructor stores the clone and drops the plugin it got.
Cloned(t) ==
  /\ call[t].op = "initialized" /\ call[t].actor # None
  /\ Built(call[t].actor, call[t].plugin)
  /\ call' = [call EXCEPT ![t] = Idle]
  /\ UNCHANGED <<manager, ctx>>
  /\ ShutdownImpl({}, Unreferenced({call[t].source}))

\* Mutant: g_host_ctx is one variable for all threads.
SetSharedContext(t, a) == ctx' = [u \in Threads |-> a]

\* g_host_ctx is set for the thread and stays.
SetHostContext(t, a) == ctx' = [ctx EXCEPT ![t] = a]

\* A closure on a's strand calls InvokeModule with a clone to run.
CanExecute(t, a) ==
  /\ call[t] = Idle
  /\ life[a] \in {"registered", "killed"} /\ clone[a] # None
  /\ \A u \in Threads : call[u].op = "run" => call[u].actor # a

\* Execute up to VMExecute, inside which the module makes host calls.
Execute(t, a) ==
  /\ CanExecute(t, a)
  /\ SetHostContext(t, a)
  /\ call' = [call EXCEPT ![t] = [op |-> "run", plugin |-> clone[a], actor |-> a,
                                  source |-> None]]
  /\ UNCHANGED <<heap, manager, actors>>

\* The input does not fit below the output area, or cannot be copied.
ExecuteRejects(t, a) ==
  /\ CanExecute(t, a)
  /\ SetHostContext(t, a)
  /\ UNCHANGED <<heap, manager, actors, call>>

\* What get_current_object_id answers.  get_component and set_component do not use
\* it: they take the id that the module passes.
HostGetCurrentObjectId(t) == ctx[t]

\* VMExecute returned; an output, if any, is copied out, or the call failed.
ExecuteReturns(t) ==
  /\ call[t].op = "run"
  /\ call' = [call EXCEPT ![t] = Idle]
  /\ UNCHANGED <<heap, manager, actors, ctx>>

\* Kill drops the registry's reference ...
Kill(a) ==
  /\ life[a] = "registered"
  /\ life' = [life EXCEPT ![a] = "killed"]
  /\ UNCHANGED <<heap, manager, clone, call, ctx>>

\* ... and the last closure on the strand destroys the actor with its clone.
DestroyActor(a) ==
  /\ life[a] = "killed"
  /\ \A t \in Threads : call[t].actor # a
  /\ life'  = [life EXCEPT ![a] = "none"]
  /\ clone' = [clone EXCEPT ![a] = None]
  /\ UNCHANGED <<manager, call, ctx>>
  /\ ShutdownImpl({}, Unreferenced({clone[a]}))

ThreadStep(t) ==
  \/ InitializeStep(t) \/ InitializeFails(t) \/ Cloned(t) \/ ExecuteReturns(t)
  \/ \E keep \in BOOLEAN : Publish(t, keep)
  \/ \E p \in Plugins : Clone(t, p)

Next ==
  \/ \E t \in Threads :
       \/ ThreadStep(t)
       \/ \E p \in Plugins : Create(t, p)
       \/ \E a \in Actors : Get(t, a) \/ Execute(t, a) \/ ExecuteRejects(t, a)
  \/ Rollback \/ Unload
  \/ \E a \in Actors : Kill(a) \/ DestroyActor(a)

Spec == Init /\ [][Next]_vars
-----------------------------------------------------------------------------
(***************************************************************************)
(* No leak, no double delete, nothing shared: the VMs and host modules     *)
(* that exist are exactly those that a state_ points to, each from one     *)
(* plugin only, wherever Initialize fails and however Unload, Rollback,    *)
(* reloads, clones and the ends of actors are ordered ("no runtime state   *)
(* is shared", plugin_interface.h:23).                                     *)
(***************************************************************************)
HandlesOwned ==
  /\ vms   = {state[p].vm : p \in {q \in Plugins : state[q] # None}} \ {None}
  /\ hosts = {state[p].host : p \in {q \in Plugins : state[q] # None}} \ {None}
  /\ \A p, q \in Plugins : p # q /\ state[p] # None /\ state[q] # None =>
       /\ state[p].vm   = state[q].vm   => state[p].vm = None
       /\ state[p].host = state[q].host => state[p].host = None

(***************************************************************************)
(* VMExecute runs on a VM that exists, of a plugin that is initialized,    *)
(* from the beginning of the call to its end: neither Unload's Shutdown    *)
(* nor the end of the actor reaches a clone that runs, and the test at the *)
(* top of Execute never fails for an actor.                                *)
(***************************************************************************)
ExecutesLiveVM ==
  \A t \in Threads : call[t].op = "run" =>
    LET p == call[t].plugin
    IN  p \in alive /\ initialized[p] /\ state[p].vm \in vms /\ state[p].host \in hosts

(***************************************************************************)
(* While a module runs, get_current_object_id answers with the object of   *)
(* that Execute, although g_host_ctx is never reset and actors change      *)
(* threads.  It says nothing of the ids that the module then passes to     *)
(* get_component and set_component, nor of host calls outside Execute.     *)
(***************************************************************************)
CurrentObjectExact ==
  \A t \in Threads : call[t].op = "run" => HostGetCurrentObjectId(t) = call[t].actor
=============================================================================
