------------------------------- MODULE Actor --------------------------------
(***************************************************************************)
(* The Actor base class (src/src/actor/actor.cpp): a private mailbox under *)
(* mailbox_mutex_ and a strand that runs the closures posted to it one at  *)
(* a time.  EnqueueMessage posts a closure only when the mailbox was       *)
(* empty, so every message relies on somebody else's closure being still   *)
(* ahead of its swap.                                                      *)
(*                                                                         *)
(* A critical section of mailbox_mutex_ is one step.  The strand is asio's *)
(* (external): a FIFO of closures of which at most one runs.  The steps of *)
(* a closure are separate, because senders run between them.               *)
(*                                                                         *)
(* ActorSpec is the actor in an arbitrary environment: any message may be  *)
(* enqueued and any tick scheduled at any time.  ActorRuntime closes it.   *)
(***************************************************************************)
EXTENDS Naturals, Sequences

CONSTANTS Actors,     \* the Actor objects
          Messages    \* the payloads, told apart by identity only

VARIABLES mailbox,    \* mailbox_
          strand,     \* closures waiting in strand_, oldest first
          task,       \* the closure the strand runs, NoTask when it runs none
          pc,         \* where that closure is
          local,      \* local_messages still to be handled
          accepted,   \* history: messages in the order they were enqueued
          handled     \* history: messages in the order they were handled

actorVars == <<mailbox, strand, task, pc, local, accepted, handled>>

(***************************************************************************)
(* A closure is a "process" closure (EnqueueMessage) or a "tick" closure   *)
(* (ScheduleTick).  The field mark is history: how many messages the actor *)
(* had accepted when the closure was posted.                               *)
(***************************************************************************)
Task   == [kind : {"process", "tick"}, mark : Nat]
NoTask == [kind |-> "none", mark |-> 0]
Phases == {"idle", "swap", "handle", "tick"}

ActorTypeOK ==
  /\ mailbox  \in [Actors -> Seq(Messages)]
  /\ strand   \in [Actors -> Seq(Task)]
  /\ task     \in [Actors -> Task \cup {NoTask}]
  /\ pc       \in [Actors -> Phases]
  /\ local    \in [Actors -> Seq(Messages)]
  /\ accepted \in [Actors -> Seq(Messages)]
  /\ handled  \in [Actors -> Seq(Messages)]

ActorInit ==
  /\ mailbox  = [a \in Actors |-> <<>>]
  /\ strand   = [a \in Actors |-> <<>>]
  /\ task     = [a \in Actors |-> NoTask]
  /\ pc       = [a \in Actors |-> "idle"]
  /\ local    = [a \in Actors |-> <<>>]
  /\ accepted = [a \in Actors |-> <<>>]
  /\ handled  = [a \in Actors |-> <<>>]
-----------------------------------------------------------------------------
\* Mutant: a running closure is trusted to pick the message up.
WasEmptyAndIdle(a) == mailbox[a] = <<>> /\ pc[a] = "idle"

\* was_empty of EnqueueMessage.
WasEmpty(a) == mailbox[a] = <<>>

\* Mutant: the message is put at the front of the deque.
PushFront(q, m) == <<m>> \o q

PushBack(q, m) == Append(q, m)

\* The message joins the mailbox; a closure is posted if there was none waiting
\* for this batch.
EnqueueMessage(a, m) ==
  /\ mailbox'  = [mailbox EXCEPT ![a] = PushBack(@, m)]
  /\ accepted' = [accepted EXCEPT ![a] = Append(@, m)]
  /\ strand'   = IF WasEmpty(a)
                 THEN [strand EXCEPT ![a] =
                         Append(@, [kind |-> "process", mark |-> Len(accepted[a]) + 1])]
                 ELSE strand
  /\ UNCHANGED <<task, pc, local, handled>>

\* Posts the closure that processes the mailbox and then ticks.
ScheduleTick(a) ==
  /\ strand' = [strand EXCEPT ![a] = Append(@, [kind |-> "tick", mark |-> Len(accepted[a])])]
  /\ UNCHANGED <<mailbox, task, pc, local, accepted, handled>>

\* An io thread takes the next closure of the strand; both kinds start with
\* ProcessMessages.
RunNext(a) ==
  /\ pc[a] = "idle"
  /\ strand[a] # <<>>
  /\ task'   = [task EXCEPT ![a] = Head(strand[a])]
  /\ strand' = [strand EXCEPT ![a] = Tail(@)]
  /\ pc'     = [pc EXCEPT ![a] = "swap"]
  /\ UNCHANGED <<mailbox, local, accepted, handled>>

\* Mutant: the mailbox is copied and not emptied.
AfterCopy(q) == q

\* The mailbox after the swap with the empty local deque.
AfterSwap(q) == <<>>

\* ProcessMessages takes the whole mailbox under the mutex.
SwapMailbox(a) ==
  /\ pc[a] = "swap"
  /\ local'   = [local EXCEPT ![a] = mailbox[a]]
  /\ mailbox' = [mailbox EXCEPT ![a] = AfterSwap(@)]
  /\ pc'      = [pc EXCEPT ![a] = "handle"]
  /\ UNCHANGED <<strand, task, accepted, handled>>

\* One turn of the loop over local_messages.
HandleMessage(a) ==
  /\ pc[a] = "handle"
  /\ local[a] # <<>>
  /\ handled' = [handled EXCEPT ![a] = Append(@, Head(local[a]))]
  /\ local'   = [local EXCEPT ![a] = Tail(@)]
  /\ UNCHANGED <<mailbox, strand, task, pc, accepted>>

\* Mutant: the tick closure ends with ProcessMessages.
EndWithoutTick(a) ==
  /\ pc[a] = "handle"
  /\ local[a] = <<>>
  /\ pc'   = [pc EXCEPT ![a] = "idle"]
  /\ task' = [task EXCEPT ![a] = NoTask]
  /\ UNCHANGED <<mailbox, strand, local, accepted, handled>>

\* Mutant: the loop over local_messages may be left early.
EndEarly(a) ==
  /\ pc[a] = "handle"
  /\ IF task[a].kind = "tick"
     THEN pc' = [pc EXCEPT ![a] = "tick"] /\ UNCHANGED task
     ELSE pc' = [pc EXCEPT ![a] = "idle"] /\ task' = [task EXCEPT ![a] = NoTask]
  /\ UNCHANGED <<mailbox, strand, local, accepted, handled>>

\* ProcessMessages returns; a tick closure goes on to Tick.
EndProcessMessages(a) ==
  /\ pc[a] = "handle"
  /\ local[a] = <<>>
  /\ IF task[a].kind = "tick"
     THEN pc' = [pc EXCEPT ![a] = "tick"] /\ UNCHANGED task
     ELSE pc' = [pc EXCEPT ![a] = "idle"] /\ task' = [task EXCEPT ![a] = NoTask]
  /\ UNCHANGED <<mailbox, strand, local, accepted, handled>>

\* Mutant: the actor schedules its own next tick.
TickAndReschedule(a) ==
  /\ pc[a] = "tick"
  /\ pc'     = [pc EXCEPT ![a] = "idle"]
  /\ task'   = [task EXCEPT ![a] = NoTask]
  /\ strand' = [strand EXCEPT ![a] = Append(@, [kind |-> "tick", mark |-> Len(accepted[a])])]
  /\ UNCHANGED <<mailbox, local, accepted, handled>>

\* The virtual Tick; what it does to the actor's object is ObjectRegistry's.
Tick(a) ==
  /\ pc[a] = "tick"
  /\ pc'   = [pc EXCEPT ![a] = "idle"]
  /\ task' = [task EXCEPT ![a] = NoTask]
  /\ UNCHANGED <<mailbox, strand, local, accepted, handled>>

\* The steps of a closure once it runs.
TaskStep(a) ==
  SwapMailbox(a) \/ HandleMessage(a) \/ EndProcessMessages(a) \/ Tick(a)

ActorNext ==
  \E a \in Actors :
    \/ \E m \in Messages : EnqueueMessage(a, m)
    \/ ScheduleTick(a)
    \/ RunNext(a)
    \/ TaskStep(a)

ActorSpec == ActorInit /\ [][ActorNext]_actorVars
-----------------------------------------------------------------------------
(***************************************************************************)
(* No lost wake-up: a message in the mailbox always has a closure that has *)
(* not swapped yet, although EnqueueMessage posts none when the mailbox    *)
(* was not empty.                                                          *)
(***************************************************************************)
NoLostWakeup ==
  \A a \in Actors : mailbox[a] # <<>> => strand[a] # <<>> \/ pc[a] = "swap"

(***************************************************************************)
(* Nothing is lost, duplicated or reordered between push_back and          *)
(* HandleMessage: what was accepted is what was handled, then the batch in *)
(* hand, then the mailbox.                                                 *)
(***************************************************************************)
FifoConservation ==
  \A a \in Actors : accepted[a] = handled[a] \o (local[a] \o mailbox[a])

(***************************************************************************)
(* "each actor schedules its pending messages (in order) followed by its   *)
(* periodic Tick" (actor_runtime.h:23): when a tick runs, every message    *)
(* accepted before that tick was scheduled has been handled.               *)
(***************************************************************************)
TickSeesEarlierMessages ==
  \A a \in Actors : pc[a] = "tick" => Len(handled[a]) >= task[a].mark
-----------------------------------------------------------------------------
\* The promise an actor makes, with the batch in hand counted as pending.
Promise == INSTANCE ActorPromise
             WITH pending <- [a \in Actors |-> local[a] \o mailbox[a]]
=============================================================================
