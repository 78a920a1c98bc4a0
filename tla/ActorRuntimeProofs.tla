------------------------- MODULE ActorRuntimeProofs -------------------------
(***************************************************************************)
(* Proofs about ActorRuntime for any number of actors, ids, callers and io *)
(* threads.  The runtime is shown to be one of the environments Actor      *)
(* allows, so the actors' theorems carry over; per-sender order needs the  *)
(* callers and is proved here.                                             *)
(***************************************************************************)
EXTENDS ActorRuntime, ActorProofs

(***************************************************************************)
(* The strengthening for SenderOrder.  A caller inside SendMessage has     *)
(* numbered its message; every accepted message was numbered by its caller *)
(* before the one it is sending now; and the order already holds of what   *)
(* was accepted, of which the handled messages are a prefix.               *)
(***************************************************************************)
InCall == \A c \in Callers : target[c] # NoActor => sends[c] \in 1..MaxSends

AcceptedWereSent ==
  \A a \in Actors : \A j \in 1..Len(accepted[a]) :
    /\ accepted[a][j] \in Callers \X Nat
    /\ accepted[a][j][2] <= sends[accepted[a][j][1]]
    /\ target[accepted[a][j][1]] # NoActor =>
         accepted[a][j][2] < sends[accepted[a][j][1]]

AcceptedOrder ==
  \A a \in Actors : \A j, k \in 1..Len(accepted[a]) :
    j < k /\ accepted[a][j][1] = accepted[a][k][1] => accepted[a][j][2] < accepted[a][k][2]

RuntimeInv ==
  /\ TypeOK
  /\ InCall
  /\ AcceptedWereSent
  /\ AcceptedOrder
-----------------------------------------------------------------------------
(* What a sender enqueues is one of the messages.                          *)
LEMMA OutgoingIsMessage ==
  ASSUME TypeOK, InCall, NEW c \in Callers, target[c] # NoActor
  PROVE  Outgoing(c) \in Messages /\ target[c] \in Actors
<1>1. sends[c] \in 1..MaxSends
  BY DEF InCall
<1>2. <<c, sends[c]>> \in Callers \X (1..MaxSends)
  BY <1>1
<1> QED
  BY <1>2, RuntimeAssumption DEF Outgoing, TypeOK

(* Every step of the runtime is, for the actors, one of their own steps or *)
(* no step at all.                                                         *)
LEMMA RuntimeStepIsActorStep ==
  TypeOK /\ InCall /\ [Next]_vars => [ActorNext]_actorVars
<1> SUFFICES ASSUME TypeOK, InCall, [Next]_vars PROVE [ActorNext]_actorVars
  OBVIOUS
<1>1. ASSUME NEW c \in Callers, SendEnqueue(c) PROVE ActorNext
  BY <1>1, OutgoingIsMessage DEF SendEnqueue, ActorNext
<1>2. ASSUME NEW a \in Actors, TickActor(a) \/ StartTask(a) \/ ContinueTask(a)
      PROVE  ActorNext
  BY <1>2 DEF TickActor, StartTask, ContinueTask, ActorNext
<1>3. ASSUME NEW a \in Actors, Spawn(a) PROVE UNCHANGED actorVars
  BY <1>3 DEF Spawn
<1>4. ASSUME NEW i \in Ids, Kill(i) PROVE UNCHANGED actorVars
  BY <1>4 DEF Kill
<1>5. ASSUME NEW c \in Callers, NEW i \in Ids, SendLookup(c, i) PROVE UNCHANGED actorVars
  BY <1>5 DEF SendLookup
<1>6. ASSUME TickSnapshot \/ RearmTimer \/ UNCHANGED vars PROVE UNCHANGED actorVars
  BY <1>6 DEF TickSnapshot, RearmTimer, vars
<1> QED
  BY <1>1, <1>2, <1>3, <1>4, <1>5, <1>6 DEF Next

(* The registry, the callers and the timer keep their types.               *)
LEMMA RuntimeTypeStep == TypeOK /\ InCall /\ [Next]_vars => TypeOK' /\ InCall'
<1> SUFFICES ASSUME TypeOK, InCall, [Next]_vars PROVE TypeOK' /\ InCall'
  OBVIOUS
<1>ty. ActorTypeOK'
  BY RuntimeStepIsActorStep, ActorTypeStep DEF TypeOK
<1> USE DEF TypeOK, InCall
<1>1. ASSUME NEW a \in Actors, Spawn(a) PROVE TypeOK' /\ InCall'
  BY <1>1, <1>ty, RuntimeAssumption DEF Spawn
<1>2. ASSUME NEW i \in Ids, Kill(i) PROVE TypeOK' /\ InCall'
  BY <1>2, <1>ty DEF Kill
<1>3. ASSUME NEW c \in Callers, NEW i \in Ids, SendLookup(c, i) PROVE TypeOK' /\ InCall'
  <2>1. sends[c] + 1 \in 1..MaxSends /\ actors[i] \in Actors \cup {NoActor}
    BY <1>3, RuntimeAssumption DEF SendLookup
  <2>2. TypeOK'
    BY <1>3, <1>ty, <2>1 DEF SendLookup
  <2>3. InCall'
    BY <1>3, <2>1 DEF SendLookup
  <2> QED
    BY <2>2, <2>3
<1>4. ASSUME NEW c \in Callers, SendEnqueue(c) PROVE TypeOK' /\ InCall'
  BY <1>4, <1>ty DEF SendEnqueue
<1>5. ASSUME NEW a \in Actors, TickActor(a) \/ StartTask(a) \/ ContinueTask(a)
      PROVE  TypeOK' /\ InCall'
  BY <1>5, <1>ty DEF TickActor, StartTask, ContinueTask, runtimeVars
<1>6. ASSUME TickSnapshot \/ RearmTimer PROVE TypeOK' /\ InCall'
  BY <1>6, <1>ty DEF TickSnapshot, RearmTimer, Registered
<1>7. CASE UNCHANGED vars
  BY <1>7, <1>ty DEF vars, runtimeVars
<1> QED
  BY <1>1, <1>2, <1>3, <1>4, <1>5, <1>6, <1>7 DEF Next

(* The numbering of the messages and their order survive every step.       *)
LEMMA RuntimeOrderStep == RuntimeInv /\ [Next]_vars => AcceptedWereSent' /\ AcceptedOrder'
<1> SUFFICES ASSUME RuntimeInv, [Next]_vars PROVE AcceptedWereSent' /\ AcceptedOrder'
  OBVIOUS
<1>ty. TypeOK /\ InCall /\ AcceptedWereSent /\ AcceptedOrder
  BY DEF RuntimeInv
<1>1. ASSUME UNCHANGED <<accepted, target, sends>>
      PROVE  AcceptedWereSent' /\ AcceptedOrder'
  BY <1>1, <1>ty DEF AcceptedWereSent, AcceptedOrder
<1>2. ASSUME NEW c \in Callers, NEW i \in Ids, SendLookup(c, i)
      PROVE  AcceptedWereSent' /\ AcceptedOrder'
  <2>1. accepted' = accepted
    BY <1>2 DEF SendLookup, actorVars
  <2>2. /\ sends[c] \in Nat /\ sends'[c] = sends[c] + 1 /\ target[c] = NoActor
        /\ \A d \in Callers : d # c => sends'[d] = sends[d] /\ target'[d] = target[d]
    BY <1>2, <1>ty, RuntimeAssumption DEF SendLookup, TypeOK
  <2>3. ASSUME NEW a \in Actors, NEW j \in 1..Len(accepted[a])
        PROVE  /\ accepted[a][j] \in Callers \X Nat
               /\ accepted[a][j][2] <= sends'[accepted[a][j][1]]
               /\ target'[accepted[a][j][1]] # NoActor =>
                    accepted[a][j][2] < sends'[accepted[a][j][1]]
    <3>1. /\ accepted[a][j] \in Callers \X Nat
          /\ accepted[a][j][2] <= sends[accepted[a][j][1]]
          /\ target[accepted[a][j][1]] # NoActor =>
               accepted[a][j][2] < sends[accepted[a][j][1]]
      BY <1>ty DEF AcceptedWereSent
    <3>2. accepted[a][j][1] \in Callers /\ accepted[a][j][2] \in Nat
      BY <3>1
    <3> QED
      BY <2>2, <3>1, <3>2
  <2> QED
    BY <1>ty, <2>1, <2>3 DEF AcceptedWereSent, AcceptedOrder
<1>3. ASSUME NEW c \in Callers, SendEnqueue(c)
      PROVE  AcceptedWereSent' /\ AcceptedOrder'
  <2> DEFINE b == target[c]
             m == <<c, sends[c]>>
             n == Len(accepted[b])
  <2>1. b \in Actors /\ m \in Messages /\ target[c] # NoActor
    BY <1>3, <1>ty, OutgoingIsMessage DEF SendEnqueue, Outgoing
  <2>2. /\ sends' = sends /\ target'[c] = NoActor /\ sends[c] \in Nat
        /\ \A d \in Callers : d # c => target'[d] = target[d]
    BY <1>3, <1>ty, RuntimeAssumption DEF SendEnqueue, TypeOK
  <2>3. /\ \A a \in Actors : a # b => accepted'[a] = accepted[a]
        /\ accepted'[b] = Append(accepted[b], m)
    BY <1>3, <1>ty, <2>1 DEF SendEnqueue, EnqueueMessage, Outgoing, TypeOK, ActorTypeOK
  <2>4. /\ n \in Nat /\ Len(accepted'[b]) = n + 1
        /\ accepted'[b][n + 1] = m
        /\ \A j \in 1..n : accepted'[b][j] = accepted[b][j]
    <3>1. accepted[b] \in Seq(Messages)
      BY <1>ty, <2>1 DEF TypeOK, ActorTypeOK
    <3> QED
      BY <2>1, <2>3, <3>1, LenProperties, AppendProperties
  <2>5. ASSUME NEW a \in Actors, NEW j \in 1..Len(accepted[a])
        PROVE  /\ accepted[a][j] \in Callers \X Nat
               /\ accepted[a][j][1] \in Callers /\ accepted[a][j][2] \in Nat
               /\ accepted[a][j][2] <= sends[accepted[a][j][1]]
               /\ target'[accepted[a][j][1]] # NoActor =>
                    accepted[a][j][2] < sends[accepted[a][j][1]]
               /\ accepted[a][j][1] = c => accepted[a][j][2] < sends[c]
    <3>1. /\ accepted[a][j] \in Callers \X Nat
          /\ accepted[a][j][2] <= sends[accepted[a][j][1]]
          /\ target[accepted[a][j][1]] # NoActor =>
               accepted[a][j][2] < sends[accepted[a][j][1]]
      BY <1>ty DEF AcceptedWereSent
    <3>2. accepted[a][j][1] \in Callers /\ accepted[a][j][2] \in Nat
      BY <3>1
    <3> QED
      BY <2>1, <2>2, <3>1, <3>2
  <2>6. AcceptedWereSent'
    <3> SUFFICES ASSUME NEW a \in Actors, NEW j \in 1..Len(accepted'[a])
                 PROVE  /\ accepted'[a][j] \in Callers \X Nat
                        /\ accepted'[a][j][2] <= sends'[accepted'[a][j][1]]
                        /\ target'[accepted'[a][j][1]] # NoActor =>
                             accepted'[a][j][2] < sends'[accepted'[a][j][1]]
      BY DEF AcceptedWereSent
    <3>1. CASE a = b /\ j = n + 1
      <4>1. accepted'[a][j] = <<c, sends[c]>>
        BY <2>4, <3>1
      <4> QED
        BY <2>2, <4>1
    <3>2. CASE ~(a = b /\ j = n + 1)
      <4>1. j \in 1..Len(accepted[a]) /\ accepted'[a][j] = accepted[a][j]
        <5>1. CASE a # b
          BY <2>3, <5>1
        <5>2. CASE a = b
          <6>1. j \in 1..n
            BY <2>4, <3>2, <5>2
          <6> QED
            BY <2>4, <5>2, <6>1
        <5> QED
          BY <5>1, <5>2
      <4> QED
        BY <2>2, <2>5, <4>1
    <3> QED
      BY <3>1, <3>2
  <2>7. AcceptedOrder'
    <3> SUFFICES ASSUME NEW a \in Actors, NEW j \in 1..Len(accepted'[a]),
                        NEW k \in 1..Len(accepted'[a]),
                        j < k, accepted'[a][j][1] = accepted'[a][k][1]
                 PROVE  accepted'[a][j][2] < accepted'[a][k][2]
      BY DEF AcceptedOrder
    <3>1. CASE a # b
      BY <1>ty, <2>3, <3>1 DEF AcceptedOrder
    <3>2. CASE a = b /\ k = n + 1
      <4>1. j \in 1..n /\ accepted'[a][j] = accepted[b][j] /\ accepted'[a][k] = <<c, sends[c]>>
        BY <2>4, <3>2
      <4> QED
        BY <2>1, <2>5, <3>2, <4>1
    <3>3. CASE a = b /\ k # n + 1
      <4>1. /\ j \in 1..n /\ k \in 1..n
            /\ accepted'[a][j] = accepted[b][j] /\ accepted'[a][k] = accepted[b][k]
        BY <2>4, <3>3
      <4> QED
        BY <1>ty, <2>1, <4>1 DEF AcceptedOrder
    <3> QED
      BY <3>1, <3>2, <3>3
  <2> QED
    BY <2>6, <2>7
<1>4. ASSUME NEW a \in Actors, Spawn(a) \/ TickActor(a) \/ StartTask(a) \/ ContinueTask(a)
      PROVE  UNCHANGED <<accepted, target, sends>>
  BY <1>4 DEF Spawn, TickActor, ScheduleTick, StartTask, RunNext, ContinueTask, TaskStep,
              SwapMailbox, HandleMessage, EndProcessMessages, Tick, actorVars, runtimeVars
<1>5. ASSUME NEW i \in Ids, Kill(i) PROVE UNCHANGED <<accepted, target, sends>>
  BY <1>5 DEF Kill, actorVars
<1>6. ASSUME TickSnapshot \/ RearmTimer \/ UNCHANGED vars
      PROVE  UNCHANGED <<accepted, target, sends>>
  BY <1>6 DEF TickSnapshot, RearmTimer, vars, actorVars, runtimeVars
<1> QED
  BY <1>1, <1>2, <1>3, <1>4, <1>5, <1>6 DEF Next
-----------------------------------------------------------------------------
(* The runtime's invariant holds throughout every behaviour.               *)
THEOREM RuntimeInvariance == Spec => []RuntimeInv
<1>1. Init => RuntimeInv
  <2> SUFFICES ASSUME Init PROVE RuntimeInv
    OBVIOUS
  <2>1. ActorTypeOK
    BY ActorInvInit DEF Init, ActorInv
  <2>2. TypeOK
    BY <2>1, RuntimeAssumption DEF Init, TypeOK
  <2>3. \A a \in Actors : Len(accepted[a]) = 0
    BY EmptySeq DEF Init, ActorInit
  <2> QED
    BY <2>2, <2>3 DEF Init, RuntimeInv, InCall, AcceptedWereSent, AcceptedOrder
<1>2. RuntimeInv /\ [Next]_vars => RuntimeInv'
  BY RuntimeTypeStep, RuntimeOrderStep DEF RuntimeInv
<1> QED
  BY <1>1, <1>2, PTL DEF Spec

(* Type correctness of the registry, the senders, the snapshot and the     *)
(* actors: in particular SendMessage and Tick only ever schedule on real   *)
(* actors, however Kill interleaves.                                       *)
THEOREM RuntimeTypeCorrect == Spec => []TypeOK
<1>1. RuntimeInv => TypeOK
  BY DEF RuntimeInv
<1> QED
  BY <1>1, RuntimeInvariance, PTL

(* The runtime drives its actors only as module Actor allows.              *)
THEOREM RuntimeImplementsActors == Spec => ActorSpec
<1>1. Init => ActorInit
  BY DEF Init
<1>2. RuntimeInv /\ [Next]_vars => [ActorNext]_actorVars
  BY RuntimeStepIsActorStep DEF RuntimeInv
<1> QED
  BY <1>1, <1>2, RuntimeInvariance, PTL DEF Spec, ActorSpec

(* Under Spawn, Kill, SendMessage and Tick in any interleaving no wake-up  *)
(* is lost, messages stay in order and ticks come after earlier messages.  *)
THEOREM RuntimeKeepsActorSafety ==
  Spec => /\ []NoLostWakeup
          /\ []FifoConservation
          /\ []TickSeesEarlierMessages
          /\ Promise!SafeSpec
  BY RuntimeImplementsActors, WakeupNeverLost, FifoConserved, TickAfterEarlierMessages,
     ActorKeepsPromise, PTL

(* The messages one caller got into one actor are handled in the order it  *)
(* sent them and none is handled twice.                                    *)
THEOREM SendersInOrder == Spec => []SenderOrder
<1>1. ASSUME RuntimeInv, ActorInv PROVE SenderOrder
  <2> SUFFICES ASSUME NEW a \in Actors, NEW j \in DOMAIN handled[a], NEW k \in DOMAIN handled[a],
                      j < k, handled[a][j][1] = handled[a][k][1]
               PROVE  handled[a][j][2] < handled[a][k][2]
    BY DEF SenderOrder
  <2>1. /\ handled[a] \in Seq(Messages) /\ local[a] \in Seq(Messages)
        /\ mailbox[a] \in Seq(Messages)
    BY <1>1 DEF ActorInv, ActorTypeOK
  <2> DEFINE rest == local[a] \o mailbox[a]
  <2>2. rest \in Seq(Messages) /\ accepted[a] = handled[a] \o rest
    BY <1>1, <2>1, ConcatProperties DEF ActorInv, FifoConservation
  <2> HIDE DEF rest
  <2>3. /\ Len(handled[a]) \in Nat /\ Len(rest) \in Nat
        /\ DOMAIN handled[a] = 1..Len(handled[a])
    BY <2>1, <2>2, LenProperties
  <2>4. /\ Len(accepted[a]) = Len(handled[a]) + Len(rest)
        /\ \A i \in 1..Len(handled[a]) + Len(rest) :
             accepted[a][i] = IF i <= Len(handled[a]) THEN handled[a][i]
                                                      ELSE rest[i - Len(handled[a])]
    BY <2>1, <2>2, ConcatProperties
  <2>5. /\ j \in 1..Len(accepted[a]) /\ k \in 1..Len(accepted[a])
        /\ accepted[a][j] = handled[a][j] /\ accepted[a][k] = handled[a][k]
    BY <2>3, <2>4
  <2> QED
    BY <1>1, <2>5 DEF RuntimeInv, AcceptedOrder
<1> QED
  BY <1>1, RuntimeInvariance, RuntimeImplementsActors, ActorInvariance, PTL
=============================================================================
