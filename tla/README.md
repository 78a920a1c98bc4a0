# WasmHot in TLA+

WasmHot is a game-server runtime in C++: actors on asio strands, game objects
whose component bytes live in a shared store, logic in WASM modules that are
replaced while the server runs, and a small TCP gateway.  This directory models
its concurrent core, checks it with TLC on small instances and proves the
central results with TLAPS for every size.

Paths below are relative to `src/src/`.

## Inventory

| Component | State | Operations | Correct when |
|---|---|---|---|
| Actor (`actor/actor.cpp`) | `mailbox_` under `mailbox_mutex_`, `strand_` | EnqueueMessage, ProcessMessages, ScheduleTick | every accepted message is handled once, in order; a tick comes after the messages before it |
| ActorRuntime (`actor/actor_runtime.cpp`, timer in `main.cpp`) | `actors_` under `actors_mutex_`, the timer | Spawn, Kill, SendMessage, Tick | messages of a sender stay in order; killed actors come to rest; live ones keep ticking |
| ActorWithObject, RoomActor (`actor/`) | `plugins_`, `object_id_` | constructor (clones plugins), InvokeModule | a clone is a copy of the plugin; results go to the object's components |
| ComponentStorage (`core/component_storage.cpp`) | `store_` under `map_mutex_`, entries with a mutex each | Read, Write (plain, with schema), Remove, RemoveAll | calls are atomic; a freed entry is never reached |
| ObjectRegistry, GameObject (`core/object_registry.cpp`, `object.cpp`) | `objects_` under `map_mutex_`, entries with a mutex each | Create, Get, Destroy, Migrate; views write components | header version and data layout agree; Destroy leaves nothing |
| MigrationEngine (`core/migration_engine.cpp`) | `migrations_` | Register, Migrate step by step | it terminates; each step gets data of its version |
| ModuleManager (`core/module_manager.cpp`) | `modules_`, `previous_modules_`, `configs_`, `schema_versions_` under `mutex_` | Load, HotReload, HotReloadAll, Rollback, Unload, Get, GetLoadedSchemaVersion | the maps agree; a reload takes effect and never goes backwards |
| Signal loop (`main.cpp`) | one outstanding `async_wait` | SIGHUP reloads all, SIGUSR1 dumps the heap | no signal is lost |
| Gateway (`core/gateway.cpp`) | `sessions_`, `handlers_`; per session `send_queue_`, `send_in_progress_`, read loop | Initialize, accept, read, RegisterHandler, OnReceive, Send, write, close | frames stay whole and in order; messages are not stuck; dead sessions leave the map; a message is not overwritten while it is handled; accepting never stops |
| WasmEdgePlugin (`plugin/wasmedge_plugin.cpp`) | `state_` (VM, memory, host module), `initialized_`, `g_host_ctx` | Initialize, Shutdown, Execute, Clone, host functions | failures clean up; no VM leaks, is shared or is deleted while it runs; get_current_object_id names the object that runs |
| SchemaManager (`core/schema_manager.cpp`) | `schemas_` | RegisterSchema, GetSchema, GetLatestVersion | what it hands out stays whole; the latest version is the latest |
| Logging (`core/logging.cpp`, `.h`) | current file, size, counters | rotation by size and date, rate limits | files keep to their size and hold the newest of the messages that reached a file, also after crashes and failed operations; only a failure silences the sink, until the date changes or a restart; limits hold for racing threads |
| Start-up, Singleton (`main.cpp`, `common/`) | configuration | read YAML, start threads | sequential |

How they interact.  All handlers run on `thread_num` threads in `io.run()`.
The timer calls `ActorRuntime::Tick`, which posts a closure to each actor's
strand; senders call `SendMessage`, which may post one too.  An actor's
handlers call InvokeModule: `ObjectRegistry::Get` copies a header, the plugin
clone runs and reads or writes components through host functions, of whatever
object id it passes, and `ApplyOutputDelta` writes the result to the object.
SIGHUP makes the ModuleManager reload
every module; actors keep the clones made in their constructor.  The gateway's
handlers and writes run on the same threads without a strand.

What is hard: every component locks for a short section, copies something out
(an actor, a view, a list of configs, an iterator, a plugin built from a file)
and goes on without the lock.  `PROJECT.json` lists these places under
`hazards`, each at its line and with the properties that watch it.

At this commit `main.cpp` spawns no actor, loads no module (the `modules`
section of `config.yaml` is not read) and registers no message handler; these
are library calls that the modules below make from an arbitrary environment.

## Modules

- `ActorPromise`: what an actor promises, as pending and handled sequences.
- `Actor`: the Actor class in an arbitrary environment.  `mailbox` is
  `mailbox_`, `strand` the closures posted and not yet run, `task`/`pc`/`local`
  the closure that runs.  `accepted`, `handled` and a closure's `mark` are
  history.  `Promise` maps `local \o mailbox` to `pending`.
- `ActorRuntime` EXTENDS `Actor` and closes it: the registry, senders between
  lookup and enqueue, Tick between snapshot and scheduling, the timer and the
  number of io threads.
- `ComponentStore`: an atomic table with calls and answers.
- `ComponentStorage`: the two lock levels.  Entries are addresses that are
  freed and reused; `Atomic` maps map and entries to the table.  (Iterators are
  node pointers, as in the standard library the build uses: an insertion that
  rehashes does not move an entry.)
- `ObjectRegistry`: registry, migration engine and the InvokeModule path.
  Component bytes are abstracted to the schema version whose layout they have;
  a migration function given another version's data yields `Garbled`.  A call
  into ComponentStorage is one step, which the `storage` run justifies.  A plugin
  is external: it writes in the layout of what it read, or of its view's
  version if there was nothing to read.  `get_component` and `set_component` act
  on the id that the plugin passes, which nothing checks; a deployment says which
  ids a plugin passes, next to which thread works on which object.  That a
  migration function may fail half-way through its own writes is left out.
- `ModuleManager`: the maps, the calls of several threads between building a
  plugin and committing it, the signal loop, and actors that clone.  A plugin
  is its config and the build of the file it was made from.  A set-up (`Scopes`)
  says which modules, threads and actors there are and how many signals come.
- `Gateway`: start-up, the accept loop, sessions with their read loop and the
  dispatch to a handler, and the handlers on io threads at the grain of their
  accesses to the send state; the wire is parts of frames.  A `std::deque` raced
  by two threads is undefined; the model only shows the interleavings of whole
  deque operations, which is enough for the run that reports the race.  The
  build requires clang, so the buffer of a frame is named before the frame is
  moved (`gateway.cpp:80`).
- `WasmEdgePlugin`: one module name served by the ModuleManager, the plugins it
  builds and the actors that clone them.  Each call of `Initialize` is a step
  that may fail, with the clean-up of its own rung (`CleanUp`);
  `state` holds the handles of VM and host module, `vms` and
  `hosts` are those that exist.  A plugin is destroyed by the step that drops the
  last shared_ptr to it (`Unreferenced`), and addresses and handles are reused.
  `ctx` is the thread-local `g_host_ctx`; of the host functions only
  `get_current_object_id` uses its object.
- `LogSink`: `DateRotatingFileSink`, with the files as the state that survives a
  restart; a file is the numbers of its messages, its size and how many of its
  bytes failed writes left.  A rotation is one step per file operation; the process
  may die between any two.  Opening, flushing, writing (after any part of the
  message) and each operation of a rotation may throw; spdlog catches it and the
  message is lost.  Left out: that the size of a file that is open cannot be read,
  and a failure of the flush that follows each message.
- `LogLimits`: the three kinds of limits of `logging.h` as steps of racing
  threads.  `last` is `log_every_ms_last`; `admitted` and `silenced` are history.
- `SchemaManager`: registrations in two writes under the unique lock, pointers
  used without a lock, the scan for the latest version under the shared lock, which
  ends with an answer or with nullopt.
- `Services` composes the last three.  They share no state, so a behaviour
  follows one of them, chosen at the start.

The ModuleManager appears twice: `ModuleManager` has its maps, versions and
builds, `WasmEdgePlugin` the lifetime of what the maps point to.

`MC*` modules give constants their values.  Definitions whose comment begins
with "Mutant:" are faulty variants of the definition that follows them, used to
show that the properties can fail.

## Runs

| Run | Result | What it shows |
|---|---|---|
| `actor` | pass | NoLostWakeup, FifoConservation, TickSeesEarlierMessages, SenderOrder; KilledActorStops, KeepsTicking and the refinement of ActorPromise with its fairness (KeepsPromise: every message is handled) |
| `modules` | pass | MapsAgree, ServedMatchesConfig with overlapping Load, HotReload, Rollback, Unload and signals; NeverReverts, SighupServesBuild where only signals deploy |
| `clone_copy` | violation | Clone makes a plugin of the build on disk, which may not be that of the plugin it copies |
| `rollback_version` | violation | GetLoadedSchemaVersion is wrong after Rollback |
| `storage` | pass | NoUseAfterFree, EntriesOwned, Linearizable, no deadlock |
| `storage_race` | violation | Write to a new object races RemoveAll |
| `registry` | pass | ShapeMatchesHeader and NoOrphans for objects with one owner; MigrationExclusive (of the header; nothing is said of the components) and MigrationReturns for all |
| `migration_retry` | violation | a retried migration repeats a step that was done |
| `gateway` | pass | OneThreadWire, Delivered with one io thread; NoDeadSessionInMap, BodyStable, AcceptLoopAlive with one and with two |
| `gateway_threads` | violation | frames interleave with two io threads |
| `plugin` | pass | HandlesOwned, ExecutesLiveVM, CurrentObjectExact, no deadlock |
| `services` | pass | SizeBounded, NewestKept, OnlyOldestDropped, ClosedOnlyByFault (log files); Spaced, SilenceCovered, QuotaExact (limits); SchemaWhole, LatestVersionExact (schemas) |

The type invariants of the runtime and of the storage are proved and not checked
again; the other runs check theirs.

The five violations are described under `findings` in `PROJECT.json`, with the
line of the code and the comment or declaration it contradicts.

### Bounds

- Actors: two actor objects that share one id, so that Spawn replaces a live
  actor while senders and a tick still hold the old one; one sender with two
  messages, which is what order and lost wake-ups need (the invariants are
  proved for any number of senders); two io threads; `MaxBacklog` 1 closure waiting when the
  timer fires (a process closure may still join it).
- Storage: three entries for two objects and two threads, so an address is
  freed and reused while a thread holds it; one component type, two values of
  which one has the schema's size.  In the passing run o1 has two writers and
  is never destroyed, o2 is written and destroyed by one thread
  (`Discipline`); everybody reads both.
- Registry: three versions, so a migration has a middle; two threads that have an
  object each or share one (`Deployments`); in a third deployment, with objects
  created with and migrated to two of the versions, each plugin passes both ids.
  ShapeMatchesHeader and NoOrphans are stated for objects with a single owner: one
  thread works on the object (an actor's strand), its plugin passes no other id and
  no other plugin passes its id.
- Modules, three set-ups: two versions of one module and two admin threads; one
  admin thread, one io thread and two signals; or two preloaded modules, two builds
  each, two io threads, three signals and an actor under construction.  A missing entry of
  `schema_versions_`, for which GetLoadedSchemaVersion returns 0, is `None`.
- Gateway: two sessions and three messages on one io thread; one session and two
  messages on two io threads (`Scopes`).  Frames have two parts, enough to be
  cut.  One message type, which has a handler or not.
- Plugin: three plugins (served, kept for Rollback or under construction, and a
  clone), two actors, two threads; handles are reused as soon as they are free.
- Log sink: limits of two and three bytes, none, one or two rotated files (three
  configured, to be clamped), messages smaller and larger than the limit, two
  dates between which the clock moves both ways, five messages, one failure and
  any number of crashes.  The configuration does not change between restarts.
- Log limits: two threads, an interval of 2 ms on a clock of 5, so a reading can
  be more than two intervals old at the exchange; n = 2, three calls.
- Schemas: three threads, versions 0, 1 and 2, four registrations.

Deadlock is checked except in the gateway, `modules`, `clone_copy` and `services`
runs, where the bounded peers, operators and callers may simply have nothing left to do.

### Fairness

Weak fairness for a thread inside a call or a handler: it keeps running.
Strong fairness for what waits for a thread of the io_context (a strand's next
closure, the expired timer, a queued signal, a send handler): asio serves ready
handlers in FIFO order, so one that is ready again and again is served although
others compete.  Nobody is obliged to send, spawn, kill, deploy or signal.  The
socket accepts or refuses what is written.

## Proofs

Checked by TLAPS, for every value of the constants: any number of threads,
actors, objects, modules, plugins, sessions, messages, versions and files.  Every
invariant of the passing runs, every action property and the refinement of the
storage are proved; of the actors' refinement, its safety part.  The assumptions
on the constants keep `None` apart from real values and numbers within Nat, and
state what the bounds and set-ups of the model mean; those about the code are
named below.

- `ActorProofs`.  The inductive invariant `ActorInv` has six parts: the types,
  NoLostWakeup, FifoConservation, and three that make them inductive.
  `LocalOnlyInLoop`: the batch is empty outside the loop, else the swap would
  overwrite messages.  `MarksAreAccepted`: no closure's mark exceeds what was
  accepted.  `BatchCoversMark`: once a tick closure has swapped, handled messages
  and its batch reach its mark, so when the batch is empty the tick comes late
  enough.  Results: ActorTypeCorrect, WakeupNeverLost, FifoConserved,
  TickAfterEarlierMessages and ActorKeepsPromise (the safety part of the
  refinement; a swap is a stutter, a turn of the loop is a Deliver).
- `ActorRuntimeProofs`.  Every step of the runtime is a step of `Actor` or leaves
  the actors alone (RuntimeImplementsActors), so those results carry over
  (RuntimeKeepsActorSafety).  SendersInOrder needs more: `RuntimeInv` adds that a
  sender in the call has numbered its message (`InCall`), that accepted messages
  were sent (`AcceptedWereSent`) and that the numbers of one sender increase in
  `accepted` (`AcceptedOrder`); by FifoConservation `handled` is a prefix of it.
- `ComponentStorageProofs`, under `Discipline` (the callers' rule that whoever
  destroys an object's components is the only one who writes them); `storage_race` shows
  that without it the theorems are false.  StorageSafe and EntriesAlwaysOwned:
  `StorageInv` adds what a thread holds at each place (`MapLock`: a thread that
  works on a found entry holds the map lock in the mode of its call, except on
  Write's path for a new object) and where its iterator leads (`OnEntry`).
  CallsLinearizable: a call takes effect at its access to the entry, or where
  `find` misses or the size check refuses it, or, for RemoveAll, at the erase under the exclusive lock; every
  other step leaves table and answers as they are (`StepIsAtomic`).  It needs that
  a thread past the size check of Write carries data that fit (`CallChecked`).
- `ObjectRegistryProofs`.  DataMatchesHeader and NothingLeftBehind for objects
  with a single owner, MigrationsExclusive for the headers of all.  `RegistryInv` adds what makes a
  header copied out of the locks safe to use: a view and what Execute read still
  hold when ApplyOutputDelta writes (`ViewsFresh`, `ReadsFresh`), which is where
  single ownership is needed; and what the mutexes give to everybody: two
  migrations of an object exclude each other and a migrated object stays in the
  map (`OneMigration`, `MigratedExists`).
- `ModuleManagerProofs`.  MapsAlwaysAgree and ServedAlwaysMatches are nearly
  inductive, because each commit writes its maps under one lock (`ManagerInv`
  adds the length of the signal queue).  SignalsNeverRevert is about set-ups where
  nobody but signals deploys, as in `main.cpp`.  Nothing in memory is newer than its
  file (`BuildsOnDisk`), and with `OneHandler` (the wait is re-armed after
  HotReloadAll returned) a plugin that was built and not yet committed is never older
  than what is served (`NewerThanServed`).
- `WasmEdgePluginProofs`.  HandlesAlwaysOwned, RunsOnLiveVM, CurrentObjectAlwaysExact.
  `PluginInv` says who may know a plugin: one under construction is known to its
  thread only (`BuildsPrivate`) and has the handles that its calls so far have made
  (`BuildsMade`), so each rung of Initialize deletes what was made before it
  (`CleanUpIsShutdown`); a
  clone belongs to its actor only (`ClonesOwned`), so Unload's Shutdown never
  meets it; a call belongs to an actor in the right phase of its life
  (`CallsForActor`); and what is referred to exists (`RefersToAlive`).
- `GatewayProofs`.  For any number of io threads `ReadInv` says that a session's
  read is with exactly one handler when none is pending (`ReadsOwned`) and that
  one handler owes the next accept or it is outstanding (`AcceptOwned`):
  NoDeadSessions, BodyBelongsToHandler and NeverStopsAccepting follow.  For one
  thread, `WireInv` follows a message through its five stages (lambda posted,
  lambda running, queue, write in flight, wire), which it passes in order
  (`InOrder`); `OneWrite` ties send_in_progress_ to the one write, and `Frames`
  says where a frame may be cut.  OneThreadWireWhole follows; `gateway_threads`
  shows that it fails with two threads.
- `ServicesProofs`.  A step of `Services` is a step of one service and leaves the
  other two alone (`ServiceSteps`), so each has its own invariant.
  - Limits: MessagesSpaced and SilenceIsCovered.  `LimitsInv` adds that `last` is
    the newest stamp (`LastIsNewest`), so an exchange that finds the loaded value
    is ms past every earlier message; that what a thread loaded is a stamp or 0
    (`SeenIsStamp`) and a message is logged no earlier than its reading
    (`LoggedAfterReading`), so a call that is not due has a message to blame; and
    that whenever `last` moved after a load, a message was logged at or after that
    thread's reading (`Overtaken`, from `ReadingsPast`).  QuotaAlwaysExact:
    QuotaExact is inductive; its steps rest on two lemmas, how rounding up a
    quotient grows with the counter and how the number of waiting threads changes
    with one of them.
  - Schemas: SchemasStayWhole and LatestIsExact.  `SchemaInv` adds that a writer is
    alone (`WriterAlone`), that an entry is half written only under its writer
    (`EntriesWhole`), and what a scan has seen so far
    (`ScansExact`).
  - Files: OnlyOldestIsDropped, SizesBounded, NewestAreKept (of the messages that
    reached a file) and SilentOnlyByFault.  `SinkInv` says that
    the files of a date form a chain (`Chain`: older files hold older messages, and
    the next message is always there), that a rotation meets a free slot
    (`SlotFree`), and that the open file is no larger than the size the sink tracks
    and what failed writes left (`SizeTracked`).  Crash and failure are steps like any other, so the chain is
    kept by each single remove and rename.

Left to TLC: liveness under fairness, for which the prover has no ENABLED
(KilledActorStops, KeepsTicking, the fairness part of KeepsPromise,
SighupServesBuild, MigrationReturns, Delivered), and freedom from deadlock.

Comments of the code that the models contradict without a run of their own:
a view outlives the locks of `Get` (`core/object_registry.cpp:31`), so `Destroy`
does not "synchronize with any thread currently using this object view" (line 45).
And `HotReload`
migrates nothing, although `core/module_manager.h:19` lists it as a step of the
update: running actors keep their clones and their objects' versions.
LOG_EVERY_MS keeps its interval between clock readings (Spaced); a thread delayed
after its reading may log later than that.

## Not modelled

WasmEdge itself (VM, linear memory, Execute's 4096-byte areas beyond accepting or
rejecting an input) and asio (strand, timer, signal_set, socket as external FIFO
or nondeterministic steps); spdlog's buffering (the shipped configuration flushes
every message it logs) and formatting; the CHECK_WITH_* macros, which only log
and return; YAML and command line, which run once and sequentially before the
threads start; the heap dump's content; Singleton (`std::call_once`);
`CMakeLists.txt` and `build.sh`.  Exceptions other than the log sink's
(`bad_alloc`, a throwing handler) end `io.run()` in the code and are left out.

## Plan

Done: actors and runtime, storage, registry, modules and signals, gateway, plugin
lifecycle, logging and schemas are modelled and checked, and their safety
properties proved.  What could follow:

1. `ObjectRegistry` takes a call into the storage as one step.  CallsLinearizable
   justifies that step by step; a composition of both modules would say it in one
   theorem.
2. `WasmEdgePlugin` and `ModuleManager` describe the same maps; a refinement of the
   maps of the second by the first would tie them together.
3. The code comments that the models contradict (above) as runs of their own.
