---------------------------- MODULE ActorRuntime ----------------------------
(***************************************************************************)
(* ActorRuntime (src/src/actor/actor_runtime.cpp) and the timer that       *)
(* drives it (StartActorTickLoop in src/src/main.cpp), closing the actors  *)
(* of module Actor.                                                        *)
(*                                                                         *)
(* A critical section of actors_mutex_ is one step.  SendMessage looks the *)
(* actor up under the lock and enqueues after releasing it; Tick copies    *)
(* the registry under the lock and schedules actor by actor after          *)
(* releasing it.  Spawn and Kill may fall between.  shared_ptr keeps an    *)
(* actor alive while a sender, the snapshot or a closure refers to it.     *)
(***************************************************************************)
EXTENDS Actor, FiniteSets

CONSTANTS Ids,         \* actor ids
          ActorId,     \* actor->actor_id, for every actor object
          Callers,     \* threads that call SendMessage
          NoActor,     \* the null shared_ptr
          ThreadNum,   \* thread_num: threads that run io.run()
          MaxSends,    \* bound: SendMessage calls per caller
          MaxBacklog   \* bound: closures waiting in a strand when the timer fires

ASSUME RuntimeAssumption ==
  /\ ActorId \in [Actors -> Ids]
  /\ NoActor \notin Actors
  /\ ThreadNum \in Nat \ {0}
  /\ MaxSends \in Nat
  /\ MaxBacklog \in Nat \ {0}
  /\ Callers \X (1..MaxSends) \subseteq Messages

VARIABLES actors,      \* actors_: the actor registered under an id
          fresh,       \* actor objects built and not yet spawned
          target,      \* SendMessage's local `actor`, NoActor outside the call
          sends,       \* SendMessage calls made so far; numbers the messages
          snapshot,    \* Tick's snapshot, less the actors scheduled already
          timer        \* "armed": waiting to expire; "ticking": in the handler

runtimeVars == <<actors, fresh, target, sends, snapshot, timer>>
vars == <<actorVars, runtimeVars>>

TypeOK ==
  /\ ActorTypeOK
  /\ actors   \in [Ids -> Actors \cup {NoActor}]
  /\ fresh    \in SUBSET Actors
  /\ target   \in [Callers -> Actors \cup {NoActor}]
  /\ sends    \in [Callers -> 0..MaxSends]
  /\ snapshot \in SUBSET Actors
  /\ timer    \in {"armed", "ticking"}

Init ==
  /\ ActorInit
  /\ actors   = [i \in Ids |-> NoActor]
  /\ fresh    = Actors
  /\ target   = [c \in Callers |-> NoActor]
  /\ sends    = [c \in Callers |-> 0]
  /\ snapshot = {}
  /\ timer    = "armed"
-----------------------------------------------------------------------------
\* The actors that an id leads to.
Registered == {actors[i] : i \in Ids} \ {NoActor}

\* Registers the actor under its id, in place of whatever was there.
Spawn(a) ==
  /\ a \in fresh
  /\ actors' = [actors EXCEPT ![ActorId[a]] = a]
  /\ fresh'  = fresh \ {a}
  /\ UNCHANGED <<actorVars, target, sends, snapshot, timer>>

\* Unregisters the id; closures and senders keep the object alive.
Kill(i) ==
  /\ actors[i] # NoActor
  /\ actors' = [actors EXCEPT ![i] = NoActor]
  /\ UNCHANGED <<actorVars, fresh, target, sends, snapshot, timer>>

\* The message a caller is sending: its own running number makes it unique.
Outgoing(c) == <<c, sends[c]>>

\* SendMessage up to the release of actors_mutex_: an unknown id drops it.
SendLookup(c, i) ==
  /\ target[c] = NoActor
  /\ sends[c] < MaxSends
  /\ sends'  = [sends EXCEPT ![c] = @ + 1]
  /\ target' = [target EXCEPT ![c] = actors[i]]
  /\ UNCHANGED <<actorVars, actors, fresh, snapshot, timer>>

\* SendMessage from there on, with the shared_ptr it copied.
SendEnqueue(c) ==
  /\ target[c] # NoActor
  /\ EnqueueMessage(target[c], Outgoing(c))
  /\ target' = [target EXCEPT ![c] = NoActor]
  /\ UNCHANGED <<actors, fresh, sends, snapshot, timer>>
-----------------------------------------------------------------------------
\* Threads of the io_context that are inside a handler.
BusyThreads ==
  Cardinality({a \in Actors : pc[a] # "idle"}) + (IF timer = "ticking" THEN 1 ELSE 0)

\* The timer expires and its handler enters ActorRuntime::Tick, which copies
\* the registry.  MaxBacklog bounds the model only: the code posts ticks
\* however many are still waiting.
TickSnapshot ==
  /\ timer = "armed"
  /\ BusyThreads < ThreadNum
  /\ \A a \in Registered : Len(strand[a]) < MaxBacklog
  /\ timer'    = "ticking"
  /\ snapshot' = Registered
  /\ UNCHANGED <<actorVars, actors, fresh, target, sends>>

\* One turn of the loop over the snapshot.
TickActor(a) ==
  /\ timer = "ticking"
  /\ a \in snapshot
  /\ ScheduleTick(a)
  /\ snapshot' = snapshot \ {a}
  /\ UNCHANGED <<actors, fresh, target, sends, timer>>

\* Tick returns and the handler arms the timer again.
RearmTimer ==
  /\ timer = "ticking"
  /\ snapshot = {}
  /\ timer' = "armed"
  /\ UNCHANGED <<actorVars, actors, fresh, target, sends, snapshot>>

\* A free io thread takes a closure of the actor's strand.
StartTask(a) ==
  /\ BusyThreads < ThreadNum
  /\ RunNext(a)
  /\ UNCHANGED runtimeVars

ContinueTask(a) == TaskStep(a) /\ UNCHANGED runtimeVars

Next ==
  \/ \E a \in Actors : Spawn(a) \/ TickActor(a) \/ StartTask(a) \/ ContinueTask(a)
  \/ \E i \in Ids : Kill(i)
  \/ \E c \in Callers : SendEnqueue(c) \/ \E i \in Ids : SendLookup(c, i)
  \/ TickSnapshot
  \/ RearmTimer

Spec == Init /\ [][Next]_vars

(***************************************************************************)
(* Fairness.  A thread inside a call or a handler keeps running (weak).    *)
(* The io_context hands out ready handlers in FIFO order, so a closure or  *)
(* an expired timer that is ready again and again gets a thread (strong).  *)
(* Nobody is obliged to spawn, kill or send.                               *)
(***************************************************************************)
Fairness ==
  /\ \A a \in Actors : SF_vars(StartTask(a)) /\ WF_vars(ContinueTask(a)) /\ WF_vars(TickActor(a))
  /\ \A c \in Callers : WF_vars(SendEnqueue(c))
  /\ SF_vars(TickSnapshot)
  /\ WF_vars(RearmTimer)

FairSpec == Spec /\ Fairness
-----------------------------------------------------------------------------
(***************************************************************************)
(* Per-sender order and at-most-once: the messages one caller got into one *)
(* actor are handled in the order it sent them and none is handled twice,  *)
(* however lookups, enqueues, ticks, kills and replacements interleave.    *)
(***************************************************************************)
SenderOrder ==
  \A a \in Actors : \A j, k \in DOMAIN handled[a] :
    j < k /\ handled[a][j][1] = handled[a][k][1] => handled[a][j][2] < handled[a][k][2]

(***************************************************************************)
(* Liveness: an actor that left the registry stops.  The closures it still *)
(* has run out and, as nothing leads to it any more, no new one comes, so  *)
(* the last shared_ptr is dropped and the object freed.                    *)
(***************************************************************************)
Quiescent(a) ==
  /\ mailbox[a] = <<>> /\ local[a] = <<>> /\ strand[a] = <<>> /\ pc[a] = "idle"
  /\ a \notin snapshot
  /\ \A c \in Callers : target[c] # a

KilledActorStops ==
  \A a \in Actors : (a \notin fresh /\ a \notin Registered) ~> [](Quiescent(a))

(***************************************************************************)
(* Liveness: the timer keeps firing, so a registered actor keeps ticking.  *)
(***************************************************************************)
KeepsTicking ==
  \A a \in Actors : []<>(a \in Registered => pc[a] = "tick")

(***************************************************************************)
(* The runtime's actors keep the promise of ActorPromise, liveness         *)
(* included: every accepted message is handled, once and in order, also    *)
(* when its actor is killed or replaced before the strand gets to it.      *)
(***************************************************************************)
KeepsPromise == Promise!Spec
=============================================================================
