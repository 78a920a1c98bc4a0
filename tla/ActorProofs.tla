---------------------------- MODULE ActorProofs -----------------------------
(***************************************************************************)
(* Proofs about module Actor for any set of actors and messages, in any    *)
(* environment that enqueues and schedules ticks as it likes.              *)
(***************************************************************************)
EXTENDS Actor, SequenceTheorems, TLAPS

(***************************************************************************)
(* The strengthening.  Outside the loop of ProcessMessages the local deque *)
(* is empty, otherwise the next swap would lose its rest; a closure's mark *)
(* is a count of messages already accepted; and once a closure swapped,    *)
(* the messages its mark counts are handled or in its hand.                *)
(***************************************************************************)
LocalOnlyInLoop == \A a \in Actors : pc[a] # "handle" => local[a] = <<>>

MarksAreAccepted ==
  \A a \in Actors :
    /\ \A j \in 1..Len(strand[a]) : strand[a][j].mark <= Len(accepted[a])
    /\ task[a].mark <= Len(accepted[a])

BatchCoversMark ==
  \A a \in Actors :
    pc[a] \in {"handle", "tick"} => Len(handled[a]) + Len(local[a]) >= task[a].mark

ActorInv ==
  /\ ActorTypeOK
  /\ NoLostWakeup
  /\ FifoConservation
  /\ LocalOnlyInLoop
  /\ MarksAreAccepted
  /\ BatchCoversMark
-----------------------------------------------------------------------------
(* Appending to the last of two concatenated sequences appends to both.    *)
LEMMA AppendToConcat ==
  ASSUME NEW l \in Seq(Messages), NEW q \in Seq(Messages), NEW m \in Messages
  PROVE  Append(l \o q, m) = l \o Append(q, m)
<1>1. l \o q \in Seq(Messages) /\ <<m>> \in Seq(Messages)
  BY ConcatProperties
<1>2. Append(l \o q, m) = (l \o q) \o <<m>> /\ Append(q, m) = q \o <<m>>
  BY <1>1, AppendIsConcat
<1>3. (l \o q) \o <<m>> = l \o (q \o <<m>>)
  BY <1>1, ConcatAssociative
<1> QED
  BY <1>2, <1>3

(* Moving the head of the middle sequence to the end of the first one      *)
(* leaves the concatenation as it was.                                     *)
LEMMA MoveHead ==
  ASSUME NEW h \in Seq(Messages), NEW l \in Seq(Messages), NEW q \in Seq(Messages), l # <<>>
  PROVE  /\ Head(l) \in Messages /\ Tail(l) \in Seq(Messages)
         /\ l = <<Head(l)>> \o Tail(l)
         /\ Append(h, Head(l)) \o (Tail(l) \o q) = h \o (l \o q)
<1>1. Head(l) \in Messages /\ Tail(l) \in Seq(Messages)
  BY HeadTailProperties
<1>2. l = <<Head(l)>> \o Tail(l)
  <2>1. <<Head(l)>> \in Seq(Messages) /\ Len(<<Head(l)>>) = 1
    BY <1>1
  <2>2. Len(l) \in Nat \ {0} /\ Len(Tail(l)) = Len(l) - 1
    BY EmptySeq, HeadTailProperties
  <2> DEFINE r == <<Head(l)>> \o Tail(l)
  <2>3. r \in Seq(Messages) /\ Len(r) = Len(l)
    BY <1>1, <2>1, <2>2, ConcatProperties
  <2>4. ASSUME NEW i \in 1..Len(l) PROVE l[i] = r[i]
    <3>1. CASE i = 1
      BY <1>1, <2>1, <2>2, <3>1, ConcatProperties
    <3>2. CASE i # 1
      <4>1. r[i] = Tail(l)[i - 1]
        BY <1>1, <2>1, <2>2, <3>2, ConcatProperties
      <4>2. i - 1 \in 1..Len(Tail(l))
        BY <2>2, <3>2
      <4> QED
        BY <4>1, <4>2, HeadTailProperties
    <3> QED
      BY <3>1, <3>2
  <2> QED
    BY <2>3, <2>4, SeqEqual
<1>3. <<Head(l)>> \in Seq(Messages) /\ Tail(l) \o q \in Seq(Messages)
  BY <1>1, ConcatProperties
<1>4. Append(h, Head(l)) = h \o <<Head(l)>>
  BY <1>1, AppendIsConcat
<1>5. (h \o <<Head(l)>>) \o (Tail(l) \o q) = h \o (<<Head(l)>> \o (Tail(l) \o q))
  BY <1>3, ConcatAssociative, SMTT(60)
<1>6. <<Head(l)>> \o (Tail(l) \o q) = l \o q
  BY <1>1, <1>2, <1>3, ConcatAssociative, SMTT(60)
<1> QED
  BY <1>1, <1>2, <1>4, <1>5, <1>6

(* The head and the tail of a concatenation are those of its first part.   *)
LEMMA HeadTailOfConcat ==
  ASSUME NEW l \in Seq(Messages), NEW q \in Seq(Messages), l # <<>>
  PROVE  /\ l \o q # <<>>
         /\ Head(l \o q) = Head(l)
         /\ Tail(l \o q) = Tail(l) \o q
<1>1. Len(l) \in Nat \ {0} /\ Len(q) \in Nat
  BY EmptySeq, LenProperties
<1>2. /\ l \o q \in Seq(Messages) /\ Len(l \o q) = Len(l) + Len(q)
      /\ \A i \in 1..Len(l) + Len(q) :
           (l \o q)[i] = IF i <= Len(l) THEN l[i] ELSE q[i - Len(l)]
  BY ConcatProperties
<1>3. l \o q # <<>>
  BY <1>1, <1>2
<1>4. Head(l \o q) = Head(l)
  BY <1>1, <1>2, <1>3
<1>5. /\ Tail(l) \in Seq(Messages) /\ Len(Tail(l)) = Len(l) - 1
      /\ \A i \in 1..Len(l) - 1 : Tail(l)[i] = l[i + 1]
  BY HeadTailProperties
<1>6. /\ Tail(l \o q) \in Seq(Messages) /\ Len(Tail(l \o q)) = Len(l) + Len(q) - 1
      /\ \A i \in 1..Len(l) + Len(q) - 1 : Tail(l \o q)[i] = (l \o q)[i + 1]
  BY <1>2, <1>3, HeadTailProperties
<1>7. /\ Tail(l) \o q \in Seq(Messages) /\ Len(Tail(l) \o q) = Len(l) + Len(q) - 1
      /\ \A i \in 1..Len(l) + Len(q) - 1 :
           (Tail(l) \o q)[i] = IF i <= Len(l) - 1 THEN Tail(l)[i] ELSE q[i - (Len(l) - 1)]
  BY <1>1, <1>5, ConcatProperties
<1>8. ASSUME NEW i \in 1..Len(l) + Len(q) - 1
      PROVE  Tail(l \o q)[i] = (Tail(l) \o q)[i]
  <2>1. CASE i <= Len(l) - 1
    BY <1>1, <1>2, <1>5, <1>6, <1>7, <2>1
  <2>2. CASE i > Len(l) - 1
    BY <1>1, <1>2, <1>6, <1>7, <2>2
  <2> QED
    BY <1>1, <2>1, <2>2
<1>9. Tail(l \o q) = Tail(l) \o q
  BY <1>6, <1>7, <1>8, SeqEqual
<1> QED
  BY <1>3, <1>4, <1>9

(* What Append does to a strand.                                           *)
LEMMA AppendTask ==
  \A s \in Seq(Task), t \in Task :
    /\ Append(s, t) # <<>> /\ Len(Append(s, t)) = Len(s) + 1
    /\ Append(s, t)[Len(s) + 1] = t
    /\ \A j \in 1..Len(s) : Append(s, t)[j] = s[j]
  BY AppendProperties
-----------------------------------------------------------------------------
(* The invariant holds of the actors as they are constructed.              *)
LEMMA ActorInvInit == ActorInit => ActorInv
<1> SUFFICES ASSUME ActorInit PROVE ActorInv
  OBVIOUS
<1>1. <<>> \in Seq(Messages) /\ <<>> \in Seq(Task) /\ Len(<<>>) = 0
  BY EmptySeq
<1>2. ActorTypeOK
  BY <1>1 DEF ActorInit, ActorTypeOK, Phases
<1>3. <<>> = <<>> \o (<<>> \o <<>>)
  BY <1>1, ConcatEmptySeq
<1>4. FifoConservation
  BY <1>3 DEF ActorInit, FifoConservation
<1>5. NoLostWakeup /\ LocalOnlyInLoop
  BY DEF ActorInit, NoLostWakeup, LocalOnlyInLoop
<1>6. MarksAreAccepted /\ BatchCoversMark
  BY <1>1 DEF ActorInit, MarksAreAccepted, BatchCoversMark, NoTask
<1> QED
  BY <1>2, <1>4, <1>5, <1>6 DEF ActorInv

(* Every action of an actor keeps its variables in their types.            *)
LEMMA ActorTypeStep == ActorTypeOK /\ [ActorNext]_actorVars => ActorTypeOK'
<1> SUFFICES ASSUME ActorTypeOK, [ActorNext]_actorVars PROVE ActorTypeOK'
  OBVIOUS
<1> USE DEF ActorTypeOK
<1>1. ASSUME NEW a \in Actors, NEW m \in Messages, EnqueueMessage(a, m)
      PROVE  ActorTypeOK'
  <2>1. Len(accepted[a]) + 1 \in Nat
    BY LenProperties
  <2>2. [kind |-> "process", mark |-> Len(accepted[a]) + 1] \in Task
    BY <2>1 DEF Task
  <2>3. Append(strand[a], [kind |-> "process", mark |-> Len(accepted[a]) + 1]) \in Seq(Task)
    BY <2>2, AppendProperties
  <2>4. Append(mailbox[a], m) \in Seq(Messages) /\ Append(accepted[a], m) \in Seq(Messages)
    BY AppendProperties
  <2> QED
    BY <1>1, <2>3, <2>4 DEF EnqueueMessage, PushBack
<1>2. ASSUME NEW a \in Actors, ScheduleTick(a) PROVE ActorTypeOK'
  <2>1. Len(accepted[a]) \in Nat
    BY LenProperties
  <2>2. [kind |-> "tick", mark |-> Len(accepted[a])] \in Task
    BY <2>1 DEF Task
  <2>3. Append(strand[a], [kind |-> "tick", mark |-> Len(accepted[a])]) \in Seq(Task)
    BY <2>2, AppendProperties
  <2> QED
    BY <1>2, <2>3 DEF ScheduleTick
<1>3. ASSUME NEW a \in Actors, RunNext(a) PROVE ActorTypeOK'
  <2>1. Head(strand[a]) \in Task /\ Tail(strand[a]) \in Seq(Task)
    BY <1>3, HeadTailProperties DEF RunNext
  <2> QED
    BY <1>3, <2>1 DEF RunNext, Phases
<1>4. ASSUME NEW a \in Actors, SwapMailbox(a) PROVE ActorTypeOK'
  BY <1>4, EmptySeq DEF SwapMailbox, AfterSwap, Phases
<1>5. ASSUME NEW a \in Actors, HandleMessage(a) PROVE ActorTypeOK'
  <2>1. Head(local[a]) \in Messages /\ Tail(local[a]) \in Seq(Messages)
    BY <1>5, HeadTailProperties DEF HandleMessage
  <2>2. Append(handled[a], Head(local[a])) \in Seq(Messages)
    BY <2>1, AppendProperties
  <2> QED
    BY <1>5, <2>1, <2>2 DEF HandleMessage
<1>6. ASSUME NEW a \in Actors, EndProcessMessages(a) PROVE ActorTypeOK'
  BY <1>6 DEF EndProcessMessages, Phases
<1>7. ASSUME NEW a \in Actors, Tick(a) PROVE ActorTypeOK'
  BY <1>7 DEF Tick, Phases
<1>8. CASE UNCHANGED actorVars
  BY <1>8 DEF actorVars
<1> QED
  BY <1>1, <1>2, <1>3, <1>4, <1>5, <1>6, <1>7, <1>8 DEF ActorNext, TaskStep

(* Every action of an actor preserves the invariant.                       *)
LEMMA ActorInvStep == ActorInv /\ [ActorNext]_actorVars => ActorInv'
<1> SUFFICES ASSUME ActorInv, [ActorNext]_actorVars PROVE ActorInv'
  OBVIOUS
<1>ty. ActorTypeOK /\ ActorTypeOK'
  BY ActorTypeStep DEF ActorInv
<1>len. \A a \in Actors : /\ Len(handled[a]) \in Nat /\ Len(local[a]) \in Nat
                          /\ Len(mailbox[a]) \in Nat /\ Len(accepted[a]) \in Nat
                          /\ Len(strand[a]) \in Nat /\ task[a].mark \in Nat
  <2>1. \A a \in Actors : task[a].mark \in Nat
    BY <1>ty DEF ActorTypeOK, Task, NoTask
  <2> QED
    BY <1>ty, <2>1, LenProperties DEF ActorTypeOK
<1> USE DEF ActorInv
<1>1. ASSUME NEW b \in Actors, NEW m \in Messages, EnqueueMessage(b, m)
      PROVE  ActorInv'
  <2> DEFINE t == [kind |-> "process", mark |-> Len(accepted[b]) + 1]
  <2>1. t \in Task
    BY <1>len DEF Task
  <2>2. /\ Append(strand[b], t) # <<>> /\ Len(Append(strand[b], t)) = Len(strand[b]) + 1
        /\ Append(strand[b], t)[Len(strand[b]) + 1] = t
        /\ \A j \in 1..Len(strand[b]) : Append(strand[b], t)[j] = strand[b][j]
    <3> HIDE DEF t
    <3>1. strand[b] \in Seq(Task)
      BY <1>ty DEF ActorTypeOK
    <3> QED
      BY <2>1, <3>1, AppendTask, Zenon
  <2>3. Len(Append(accepted[b], m)) = Len(accepted[b]) + 1
    BY <1>ty, AppendProperties DEF ActorTypeOK
  <2>4. NoLostWakeup'
    BY <1>1, <1>ty, <2>2 DEF NoLostWakeup, EnqueueMessage, WasEmpty, ActorTypeOK
  <2>5. FifoConservation'
    <3>1. Append(handled[b] \o (local[b] \o mailbox[b]), m)
            = handled[b] \o (local[b] \o Append(mailbox[b], m))
      <4>1. /\ handled[b] \in Seq(Messages) /\ local[b] \in Seq(Messages)
            /\ mailbox[b] \in Seq(Messages)
        BY <1>ty DEF ActorTypeOK
      <4>2. local[b] \o mailbox[b] \in Seq(Messages)
        BY <4>1, ConcatProperties
      <4>3. Append(local[b] \o mailbox[b], m) = local[b] \o Append(mailbox[b], m)
        BY <4>1, AppendToConcat
      <4>4. Append(handled[b] \o (local[b] \o mailbox[b]), m)
              = handled[b] \o Append(local[b] \o mailbox[b], m)
        BY <4>1, <4>2, AppendToConcat
      <4> QED
        BY <4>3, <4>4
    <3> QED
      BY <1>1, <1>ty, <3>1 DEF FifoConservation, EnqueueMessage, PushBack, ActorTypeOK
  <2>6. MarksAreAccepted'
    <3> SUFFICES ASSUME NEW a \in Actors
                 PROVE  /\ \A j \in 1..Len(strand'[a]) : strand'[a][j].mark <= Len(accepted'[a])
                        /\ task'[a].mark <= Len(accepted'[a])
      BY DEF MarksAreAccepted
    <3>1. CASE a # b
      BY <1>1, <1>ty, <3>1 DEF MarksAreAccepted, EnqueueMessage, ActorTypeOK
    <3>2. CASE a = b
      <4>1. Len(accepted'[b]) = Len(accepted[b]) + 1 /\ task' = task
        BY <1>1, <1>ty, <2>3 DEF EnqueueMessage, ActorTypeOK
      <4>2. \A j \in 1..Len(strand[b]) : strand[b][j].mark \in Nat
        <5>1. strand[b] \in Seq(Task)
          BY <1>ty DEF ActorTypeOK
        <5>2. \A j \in 1..Len(strand[b]) : strand[b][j] \in Task
          BY <5>1, ElementOfSeq, Zenon
        <5> QED
          BY <5>2 DEF Task
      <4>3. CASE strand' = strand
        BY <1>len, <3>2, <4>1, <4>2, <4>3 DEF MarksAreAccepted
      <4>4. CASE strand'[b] = Append(strand[b], t)
        <5>1. ASSUME NEW j \in 1..Len(strand'[b])
              PROVE  strand'[b][j].mark <= Len(accepted[b]) + 1
          BY <1>len, <2>2, <4>2, <4>4 DEF MarksAreAccepted
        <5> QED
          BY <1>len, <3>2, <4>1, <5>1 DEF MarksAreAccepted
      <4> QED
        BY <1>1, <1>ty, <4>3, <4>4 DEF EnqueueMessage, ActorTypeOK
    <3> QED
      BY <3>1, <3>2
  <2>7. LocalOnlyInLoop' /\ BatchCoversMark'
    BY <1>1 DEF LocalOnlyInLoop, BatchCoversMark, EnqueueMessage
  <2> QED
    BY <1>ty, <2>4, <2>5, <2>6, <2>7
<1>2. ASSUME NEW b \in Actors, ScheduleTick(b) PROVE ActorInv'
  <2> DEFINE t == [kind |-> "tick", mark |-> Len(accepted[b])]
  <2>1. t \in Task
    BY <1>len DEF Task
  <2>2. /\ Append(strand[b], t) # <<>> /\ Len(Append(strand[b], t)) = Len(strand[b]) + 1
        /\ Append(strand[b], t)[Len(strand[b]) + 1] = t
        /\ \A j \in 1..Len(strand[b]) : Append(strand[b], t)[j] = strand[b][j]
    <3> HIDE DEF t
    <3>1. strand[b] \in Seq(Task)
      BY <1>ty DEF ActorTypeOK
    <3> QED
      BY <2>1, <3>1, AppendTask, Zenon
  <2>3. NoLostWakeup'
    BY <1>2, <1>ty, <2>2 DEF NoLostWakeup, ScheduleTick, ActorTypeOK
  <2>4. MarksAreAccepted'
    BY <1>2, <1>ty, <1>len, <2>2 DEF MarksAreAccepted, ScheduleTick, ActorTypeOK
  <2>5. FifoConservation' /\ LocalOnlyInLoop' /\ BatchCoversMark'
    BY <1>2 DEF FifoConservation, LocalOnlyInLoop, BatchCoversMark, ScheduleTick
  <2> QED
    BY <1>ty, <2>3, <2>4, <2>5
<1>3. ASSUME NEW b \in Actors, RunNext(b) PROVE ActorInv'
  <2>1. /\ Len(strand[b]) \in Nat \ {0} /\ Len(Tail(strand[b])) = Len(strand[b]) - 1
        /\ \A j \in 1..Len(Tail(strand[b])) : Tail(strand[b])[j] = strand[b][j + 1]
    BY <1>3, <1>ty, HeadTailProperties, EmptySeq DEF RunNext, ActorTypeOK
  <2>2. Head(strand[b]) = strand[b][1]
    BY <1>3, <1>ty DEF RunNext, ActorTypeOK
  <2>3. NoLostWakeup'
    BY <1>3, <1>ty DEF NoLostWakeup, RunNext, ActorTypeOK
  <2>4. MarksAreAccepted'
    BY <1>3, <1>ty, <1>len, <2>1, <2>2 DEF MarksAreAccepted, RunNext, ActorTypeOK
  <2>5. FifoConservation'
    BY <1>3 DEF FifoConservation, RunNext
  <2>6. LocalOnlyInLoop' /\ BatchCoversMark'
    BY <1>3, <1>ty DEF LocalOnlyInLoop, BatchCoversMark, RunNext, ActorTypeOK
  <2> QED
    BY <1>ty, <2>3, <2>4, <2>5, <2>6
<1>4. ASSUME NEW b \in Actors, SwapMailbox(b) PROVE ActorInv'
  <2>1. local[b] = <<>>
    BY <1>4 DEF LocalOnlyInLoop, SwapMailbox
  <2>2. <<>> \o mailbox[b] = mailbox[b] /\ mailbox[b] \o <<>> = mailbox[b]
    BY <1>ty, ConcatEmptySeq DEF ActorTypeOK
  <2>3. accepted[b] = handled[b] \o mailbox[b]
    BY <2>1, <2>2 DEF FifoConservation
  <2>4. Len(accepted[b]) = Len(handled[b]) + Len(mailbox[b])
    BY <1>ty, <2>3, ConcatProperties DEF ActorTypeOK
  <2>5. NoLostWakeup'
    BY <1>4, <1>ty DEF NoLostWakeup, SwapMailbox, AfterSwap, ActorTypeOK
  <2>6. FifoConservation'
    BY <1>4, <1>ty, <2>2, <2>3 DEF FifoConservation, SwapMailbox, AfterSwap, ActorTypeOK
  <2>7. LocalOnlyInLoop' /\ MarksAreAccepted'
    BY <1>4, <1>ty DEF LocalOnlyInLoop, MarksAreAccepted, SwapMailbox, ActorTypeOK
  <2>8. BatchCoversMark'
    BY <1>4, <1>ty, <1>len, <2>4
       DEF BatchCoversMark, MarksAreAccepted, SwapMailbox, ActorTypeOK
  <2> QED
    BY <1>ty, <2>5, <2>6, <2>7, <2>8
<1>5. ASSUME NEW b \in Actors, HandleMessage(b) PROVE ActorInv'
  <2>1. /\ Append(handled[b], Head(local[b])) \o (Tail(local[b]) \o mailbox[b])
             = handled[b] \o (local[b] \o mailbox[b])
        /\ Head(local[b]) \in Messages
    <3> DEFINE h == handled[b]
               l == local[b]
               q == mailbox[b]
    <3>1. l # <<>> /\ l \in Seq(Messages) /\ h \in Seq(Messages) /\ q \in Seq(Messages)
      BY <1>5, <1>ty DEF HandleMessage, ActorTypeOK
    <3> HIDE DEF h, l, q
    <3>2. Append(h, Head(l)) \o (Tail(l) \o q) = h \o (l \o q) /\ Head(l) \in Messages
      BY <3>1, MoveHead
    <3> QED
      BY <3>2 DEF h, l, q
  <2>2. Len(Tail(local[b])) = Len(local[b]) - 1
    BY <1>5, <1>ty, HeadTailProperties DEF HandleMessage, ActorTypeOK
  <2>3. Len(Append(handled[b], Head(local[b]))) = Len(handled[b]) + 1
    BY <1>ty, <2>1, AppendProperties DEF ActorTypeOK
  <2>4. FifoConservation'
    BY <1>5, <1>ty, <2>1 DEF FifoConservation, HandleMessage, ActorTypeOK
  <2>5. BatchCoversMark'
    BY <1>5, <1>ty, <1>len, <2>2, <2>3 DEF BatchCoversMark, HandleMessage, ActorTypeOK
  <2>6. NoLostWakeup' /\ LocalOnlyInLoop' /\ MarksAreAccepted'
    BY <1>5, <1>ty
       DEF NoLostWakeup, LocalOnlyInLoop, MarksAreAccepted, HandleMessage, ActorTypeOK
  <2> QED
    BY <1>ty, <2>4, <2>5, <2>6
<1>6. ASSUME NEW b \in Actors, EndProcessMessages(b) \/ Tick(b) PROVE ActorInv'
  <2> USE DEF EndProcessMessages, Tick
  <2>1. NoLostWakeup' /\ LocalOnlyInLoop' /\ FifoConservation'
    BY <1>6, <1>ty DEF NoLostWakeup, LocalOnlyInLoop, FifoConservation, ActorTypeOK
  <2>2. /\ task'[b] = task[b] \/ task'[b].mark = 0
        /\ pc'[b] = "tick" => task'[b] = task[b] /\ pc[b] = "handle"
        /\ pc'[b] # "handle"
    BY <1>6, <1>ty DEF NoTask, ActorTypeOK
  <2>3. /\ \A a \in Actors \ {b} : task'[a] = task[a] /\ pc'[a] = pc[a]
        /\ UNCHANGED <<strand, local, accepted, handled>>
    BY <1>6, <1>ty DEF ActorTypeOK
  <2>4. MarksAreAccepted'
    BY <1>len, <2>2, <2>3 DEF MarksAreAccepted
  <2>5. BatchCoversMark'
    BY <2>2, <2>3 DEF BatchCoversMark
  <2> QED
    BY <1>ty, <2>1, <2>4, <2>5
<1>7. CASE UNCHANGED actorVars
  BY <1>7, <1>ty
     DEF actorVars, NoLostWakeup, FifoConservation, LocalOnlyInLoop, MarksAreAccepted, BatchCoversMark
<1> QED
  BY <1>1, <1>2, <1>3, <1>4, <1>5, <1>6, <1>7 DEF ActorNext, TaskStep
-----------------------------------------------------------------------------
(* The invariant holds throughout every behaviour of the actors.           *)
THEOREM ActorInvariance == ActorSpec => []ActorInv
  BY ActorInvInit, ActorInvStep, PTL DEF ActorSpec

(* Type correctness of mailbox_, strand_, local_messages and the closures. *)
THEOREM ActorTypeCorrect == ActorSpec => []ActorTypeOK
<1>1. ActorInv => ActorTypeOK
  BY DEF ActorInv
<1> QED
  BY <1>1, ActorInvariance, PTL

(* EnqueueMessage loses no wake-up by posting only when was_empty holds.   *)
THEOREM WakeupNeverLost == ActorSpec => []NoLostWakeup
<1>1. ActorInv => NoLostWakeup
  BY DEF ActorInv
<1> QED
  BY <1>1, ActorInvariance, PTL

(* Between push_back and HandleMessage no message is lost, duplicated or   *)
(* reordered.                                                              *)
THEOREM FifoConserved == ActorSpec => []FifoConservation
<1>1. ActorInv => FifoConservation
  BY DEF ActorInv
<1> QED
  BY <1>1, ActorInvariance, PTL

(* A tick runs after every message accepted before it was scheduled.       *)
THEOREM TickAfterEarlierMessages == ActorSpec => []TickSeesEarlierMessages
<1>1. ASSUME ActorInv PROVE TickSeesEarlierMessages
  <2> SUFFICES ASSUME NEW a \in Actors, pc[a] = "tick"
               PROVE  Len(handled[a]) >= task[a].mark
    BY DEF TickSeesEarlierMessages
  <2>1. local[a] = <<>> /\ Len(handled[a]) \in Nat
    BY <1>1, LenProperties DEF ActorInv, LocalOnlyInLoop, ActorTypeOK
  <2>2. Len(handled[a]) + Len(local[a]) >= task[a].mark
    BY <1>1 DEF ActorInv, BatchCoversMark
  <2> QED
    BY <2>1, <2>2
<1> QED
  BY <1>1, ActorInvariance, PTL

(* The mailbox, the strand and the batch implement the FIFO promise: every *)
(* step accepts a message, delivers the oldest pending one, or changes     *)
(* nothing a sender can see.                                               *)
THEOREM ActorKeepsPromise == ActorSpec => Promise!SafeSpec
<1> DEFINE pend == [a \in Actors |-> local[a] \o mailbox[a]]
<1>1. ActorInit => Promise!Init
  <2> SUFFICES ASSUME ActorInit PROVE Promise!Init
    OBVIOUS
  <2>1. <<>> \o <<>> = <<>>
    BY EmptySeq, ConcatEmptySeq
  <2> QED
    BY <2>1 DEF ActorInit, Promise!Init
<1>2. ActorInv /\ [ActorNext]_actorVars => [Promise!Next]_Promise!vars
  <2> SUFFICES ASSUME ActorInv, [ActorNext]_actorVars
               PROVE  Promise!Next \/ UNCHANGED <<pend, handled>>
    BY DEF Promise!vars
  <2>ty. ActorTypeOK
    BY DEF ActorInv
  <2>1. ASSUME NEW b \in Actors, NEW m \in Messages, EnqueueMessage(b, m)
        PROVE  Promise!Accept(b, m)
    <3>1. local[b] \o Append(mailbox[b], m) = Append(local[b] \o mailbox[b], m)
      BY <2>ty, AppendToConcat DEF ActorTypeOK
    <3> QED
      BY <2>1, <2>ty, <3>1 DEF Promise!Accept, EnqueueMessage, PushBack, ActorTypeOK
  <2>2. ASSUME NEW b \in Actors, SwapMailbox(b)
        PROVE  UNCHANGED <<pend, handled>>
    <3>1. local[b] = <<>>
      BY <2>2 DEF ActorInv, LocalOnlyInLoop, SwapMailbox
    <3>2. <<>> \o mailbox[b] = mailbox[b] /\ mailbox[b] \o <<>> = mailbox[b]
      BY <2>ty, ConcatEmptySeq DEF ActorTypeOK
    <3> QED
      BY <2>2, <2>ty, <3>1, <3>2 DEF SwapMailbox, AfterSwap, ActorTypeOK
  <2>3. ASSUME NEW b \in Actors, HandleMessage(b)
        PROVE  Promise!Deliver(b)
    <3>1. /\ local[b] \o mailbox[b] # <<>>
          /\ Head(local[b] \o mailbox[b]) = Head(local[b])
          /\ Tail(local[b] \o mailbox[b]) = Tail(local[b]) \o mailbox[b]
      BY <2>3, <2>ty, HeadTailOfConcat DEF HandleMessage, ActorTypeOK
    <3> QED
      BY <2>3, <2>ty, <3>1 DEF Promise!Deliver, HandleMessage, ActorTypeOK
  <2>4. ASSUME NEW b \in Actors,
               ScheduleTick(b) \/ RunNext(b) \/ EndProcessMessages(b) \/ Tick(b)
        PROVE  UNCHANGED <<pend, handled>>
    BY <2>4 DEF ScheduleTick, RunNext, EndProcessMessages, Tick
  <2>5. CASE UNCHANGED actorVars
    BY <2>5 DEF actorVars
  <2> QED
    BY <2>1, <2>2, <2>3, <2>4, <2>5 DEF ActorNext, TaskStep, Promise!Next
<1> QED
  BY <1>1, <1>2, ActorInvariance, PTL DEF ActorSpec, Promise!SafeSpec
=============================================================================
