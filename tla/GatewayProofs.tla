---------------------------- MODULE GatewayProofs ----------------------------
(***************************************************************************)
(* The gateway keeps accepting, its map holds no dead session, a handler's *)
(* body buffer is its own, and with one io thread the wire carries whole   *)
(* frames in order: for any number of sessions, messages and threads.      *)
(***************************************************************************)
EXTENDS Gateway, FiniteSetTheorems, SequenceTheorems, TLAPS

Handling(t, s) == job[t].session = s /\ job[t].kind \in {"receive", "handle"}
Starting(t, s) == job[t].session = s /\ job[t].kind = "start"
Sending        == {"push", "test", "set", "doWrite", "clear"}

\* A handler of a session knows its session, and a lambda its message.
JobsTyped ==
  \A t \in IoThreads :
    /\ job[t].kind \in {"start", "receive", "handle"} \cup Sending => job[t].session \in Sessions
    /\ job[t].kind = "push" => job[t].msg \in Messages

\* A session's read is with one handler exactly when none is pending.
ReadsOwned ==
  /\ \A t \in IoThreads, s \in Sessions :
       /\ Handling(t, s) => reading[s] = "received"
       /\ Starting(t, s) => reading[s] = "accepted"
       /\ Handling(t, s) => \A u \in IoThreads \ {t} : ~Handling(u, s)
  /\ \A s \in Sessions :
       /\ reading[s] = "received" => \E t \in IoThreads : Handling(t, s)
       /\ reading[s] = "accepted" => \E t \in IoThreads : Starting(t, s)

\* Sessions in the map have been accepted and have not stopped.
MappedRead == \A s \in sessions : reading[s] \notin {"unborn", "stopped"}

\* One handler will start the next accept, or the accept is outstanding.
Accepting(t) == job[t].kind \in {"start", "accept"}

AcceptOwned ==
  IF acceptor = "handling"
  THEN \E t \in IoThreads : Accepting(t) /\ \A u \in IoThreads \ {t} : ~Accepting(u)
  ELSE \A t \in IoThreads : ~Accepting(t)

ReadInv == TypeOK /\ JobsTyped /\ ReadsOwned /\ MappedRead /\ AcceptOwned
-----------------------------------------------------------------------------
\* Only the threads of the set-up run handlers.
JobsInScope == \A t \in IoThreads : job[t] # NoJob => t \in scope.threads

\* Some thread is at one of the steps in kinds, for session s.
At(kinds, s) == \E t \in IoThreads : job[t].session = s /\ job[t].kind \in kinds

\* The messages of a session that are on the wire, being written, or in a lambda.
Wired(s)    == {wire[s][i][1] : i \in 1..Len(wire[s])}
InFlight(s) == {w[1] : w \in writes[s]}
Pushed(s)   == {job[t].msg : t \in {u \in IoThreads : job[u].session = s /\ job[u].kind = "push"}}

Precedes(A, B) == \A a \in A, b \in B : a <= b
Sorted(q)      == \A i, j \in 1..Len(q) : i < j => q[i] <= q[j]

\* Five stages, the first the furthest on, and a bound of all.
Ordered(A, B, C, D, E, n) ==
  /\ Precedes(A, B \cup C \cup D \cup E) /\ Precedes(B, C \cup D \cup E)
  /\ Precedes(C, D \cup E) /\ Precedes(D, E)
  /\ \A m \in A \cup B \cup C \cup D \cup E : m <= n

\* Messages move on from stage to stage and never overtake each other.
InOrder(s) ==
  /\ Ordered(Wired(s), InFlight(s), Range(queue[s]), Pushed(s), Range(posted[s]), next)
  /\ Sorted(queue[s]) /\ Sorted(posted[s])
  /\ \A i, j \in 1..Len(wire[s]) : i < j => wire[s][i][1] <= wire[s][j][1]

\* One write at a time: send_in_progress_ is set from before DoWrite until the
\* write has completed and the queue was found empty, or for good after an error.
OneWrite(s) ==
  /\ At({"set"}, s) => ~inProgress[s]
  /\ At({"doWrite", "clear"}, s) => inProgress[s]
  /\ At({"clear"}, s) => queue[s] = <<>>
  /\ At({"set", "doWrite", "clear"}, s) \/ ~inProgress[s] => writes[s] = {} /\ written[s] = {}
  /\ writes[s] = {} \/ written[s] = {}
  /\ \A v, w \in writes[s] : v = w
  /\ \A v, w \in written[s] : v = w

Even(n) == n % 2 = 0

\* The peer has whole frames, but for the frame that is being written or broke.
Frames(s) ==
  /\ \A i \in 1..Len(wire[s]) :
       /\ ~Even(i) => wire[s][i][2] = 1
       /\ Even(i) => wire[s][i] = <<wire[s][i - 1][1], 2>>
  /\ \A w \in writes[s] :
       /\ w[2] = 0 => Even(Len(wire[s]))
       /\ w[2] = 1 => ~Even(Len(wire[s])) /\ wire[s][Len(wire[s])][1] = w[1]
  /\ At({"set", "doWrite", "clear"}, s) \/ ~inProgress[s] => Even(Len(wire[s]))
  /\ \A w \in written[s] : w[2] = "ok" => Even(Len(wire[s]))

SendPart(s) == InOrder(s) /\ OneWrite(s) /\ Frames(s)

WireInv == ReadInv /\ JobsInScope /\ (OneThread => \A s \in Sessions : SendPart(s))
-----------------------------------------------------------------------------
JobTypes == [kind : Kinds, session : Sessions \cup {None}, msg : 0..MaxMessages]

(* What a step does to the handler of thread t.                            *)
LEMMA BeginFacts ==
  ASSUME TypeOK, NEW t \in IoThreads, NEW j \in JobTypes, job' = [job EXCEPT ![t] = j]
  PROVE  job'[t] = j /\ job' \in [IoThreads -> JobTypes] /\ \A u \in IoThreads \ {t} : job'[u] = job[u]
BY DEF TypeOK, JobTypes

(* A thread goes on to another part of its handler, for the same session.  *)
LEMMA GotoFacts ==
  ASSUME TypeOK, NEW t \in IoThreads, NEW kind \in Kinds, Goto(t, kind)
  PROVE  /\ job'[t].kind = kind /\ job'[t].session = job[t].session /\ job'[t].msg = job[t].msg
         /\ job' \in [IoThreads -> JobTypes] /\ \A u \in IoThreads \ {t} : job'[u] = job[u]
BY DEF TypeOK, JobTypes, Goto

(* A handler ends: its thread is free, the others go on.                   *)
LEMMA EndFacts ==
  ASSUME TypeOK, NEW t \in IoThreads, End(t)
  PROVE  /\ job'[t] = NoJob /\ job'[t].kind = "none" /\ job' \in [IoThreads -> JobTypes]
         /\ \A u \in IoThreads \ {t} : job'[u] = job[u]
<1>1. NoJob \in JobTypes /\ NoJob.kind = "none"
  BY GatewayAssumption DEF NoJob, JobTypes, Kinds
<1> QED
  BY <1>1, BeginFacts DEF End

(* The part of the instance that is in use is a part of it.                *)
LEMMA ScopeFacts ==
  ASSUME TypeOK
  PROVE  scope.threads \subseteq IoThreads /\ scope.sessions \subseteq Sessions
         /\ scope.messages \in 0..MaxMessages
BY GatewayAssumption DEF TypeOK

(* The types, action by action.                                            *)
Types == TypeOK /\ JobsTyped

(* The steps inside a handler keep the types.                              *)
LEMMA HandlerStepTypes ==
  ASSUME Types, NEW t \in IoThreads, HandlerStep(t)
  PROVE  Types'
<1> USE GatewayAssumption DEF Types, TypeOK, JobsTyped, Sending, Kinds, JobTypes,
                              readVars, listenVars, sendVars, callVars
<1>n. NoJob.kind = "none" /\ NoJob.msg = 0
  BY DEF NoJob
<1>1. CASE Start(t)
  BY <1>1 DEF Start, Begin
<1>2. CASE DoAccept(t)
  BY <1>2, <1>n, EndFacts DEF DoAccept
<1>3. CASE Received(t)
  BY <1>3, <1>n, EndFacts DEF Received
<1>4. ASSUME NEW type \in MsgTypes, OnReceive(t, type) PROVE Types'
  BY <1>4, GotoFacts DEF OnReceive
<1>5. CASE Push(t)
  <2>1. job[t].session \in Sessions /\ job[t].msg \in Messages
    BY <1>5 DEF Push
  <2>2. queue' \in [Sessions -> Seq(Messages)]
    BY <1>5, <2>1 DEF Push, PushBack
  <2> QED
    BY <1>5, <2>2, GotoFacts DEF Push
<1>6. CASE Test(t)
  BY <1>6, <1>n, EndFacts, GotoFacts DEF Test
<1>7. CASE Set(t)
  BY <1>7, GotoFacts DEF Set
<1>8. CASE DoWrite(t)
  <2> DEFINE q == queue[job[t].session]
  <2>1. job[t].session \in Sessions /\ q \in Seq(Messages)
    BY <1>8 DEF DoWrite
  <2>2. CASE q = <<>>
    BY <1>8, <2>2, GotoFacts DEF DoWrite
  <2>3. CASE q # <<>>
    <3>1. Head(q) \in Messages /\ Tail(q) \in Seq(Messages)
      BY <2>1, <2>3
    <3>2. queue' \in [Sessions -> Seq(Messages)]
      BY <1>8, <2>1, <2>3, <3>1 DEF DoWrite
    <3>3. writes' \in [Sessions -> SUBSET (Messages \X {0, 1})]
      <4>1. writes[job[t].session] \cup {<<Head(q), 0>>} \in SUBSET (Messages \X {0, 1})
        BY <2>1, <3>1
      <4>2. writes' = [writes EXCEPT ![job[t].session] = @ \cup {<<Head(q), 0>>}]
        BY <1>8, <2>3 DEF DoWrite
      <4> QED
        BY <2>1, <4>1, <4>2
    <3> QED
      BY <1>8, <2>3, <3>2, <3>3, <1>n, EndFacts DEF DoWrite
  <2> QED
    BY <2>2, <2>3
<1>9. CASE Clear(t)
  BY <1>9, <1>n, EndFacts DEF Clear
<1> QED
  BY <1>1, <1>2, <1>3, <1>4, <1>5, <1>6, <1>7, <1>8, <1>9 DEF HandlerStep

(* The start of an accept or read handler keeps the types.                 *)
LEMMA StartReadTypes ==
  ASSUME Types, NEW t \in IoThreads, StartReadHandler(t)
  PROVE  Types'
<1> USE GatewayAssumption DEF Types, TypeOK, JobsTyped, Sending, Kinds, JobTypes,
                              readVars, listenVars, sendVars, callVars
<1>s. scope.sessions \subseteq Sessions
  BY ScopeFacts
<1>1. CASE AcceptFails(t)
  BY <1>1, BeginFacts DEF AcceptFails, Begin
<1>2. ASSUME NEW s \in Sessions, Accept(t, s) PROVE Types'
  BY <1>2, BeginFacts DEF Accept, Begin
<1>3. ASSUME NEW s \in Sessions, ReadHeader(t, s) PROVE Types'
  BY <1>3 DEF ReadHeader
<1>4. ASSUME NEW s \in Sessions, ReadBody(t, s) PROVE Types'
  BY <1>4, BeginFacts DEF ReadBody, Begin
<1>5. ASSUME NEW s \in Sessions, ReadFails(t, s) PROVE Types'
  BY <1>5 DEF ReadFails
<1> QED
  BY <1>s, <1>1, <1>2, <1>3, <1>4, <1>5 DEF StartReadHandler

(* The start of a posted send or of a write completion keeps the types.    *)
LEMMA StartSendTypes ==
  ASSUME Types, NEW s \in Sessions, StartSendHandler(s)
  PROVE  Types'
<1> USE GatewayAssumption DEF Types, TypeOK, JobsTyped, Sending, Kinds, JobTypes,
                              readVars, listenVars, sendVars, callVars
<1>s. scope.threads \subseteq IoThreads
  BY ScopeFacts
<1>1. ASSUME NEW t \in IoThreads, RunPosted(t, s) PROVE Types'
  <2>1. Head(posted[s]) \in Messages /\ Tail(posted[s]) \in Seq(Messages)
    BY <1>1 DEF RunPosted
  <2>2. posted' \in [Sessions -> Seq(Messages)]
    BY <1>1, <2>1 DEF RunPosted
  <2>3. [kind |-> "push", session |-> s, msg |-> Head(posted[s])] \in JobTypes
    BY <2>1 DEF Messages
  <2> QED
    BY <1>1, <2>1, <2>2, <2>3, BeginFacts DEF RunPosted
<1>2. ASSUME NEW t \in IoThreads, NEW w \in Messages \X Outcomes, WriteCompletes(t, s, w)
      PROVE  Types'
  <2>1. written' \in [Sessions -> SUBSET (Messages \X Outcomes)]
    BY <1>2 DEF WriteCompletes
  <2>2. sessions' \subseteq Sessions
    BY <1>2 DEF WriteCompletes
  <2>3. job' = job \/ job' = [job EXCEPT ![t] = [kind |-> "doWrite", session |-> s, msg |-> 0]]
    BY <1>2 DEF WriteCompletes
  <2>4. job' \in [IoThreads -> JobTypes] /\ JobsTyped'
    <3>1. CASE job' = job
      BY <3>1
    <3>2. CASE job' = [job EXCEPT ![t] = [kind |-> "doWrite", session |-> s, msg |-> 0]]
      BY <3>2, BeginFacts
    <3> QED
      BY <2>3, <3>1, <3>2
  <2> QED
    BY <1>2, <2>1, <2>2, <2>4 DEF WriteCompletes
<1> QED
  BY <1>s, <1>1, <1>2 DEF StartSendHandler

(* The steps of the callers and of the network keep the types.             *)
LEMMA OtherStepTypes ==
  ASSUME Types,
         \/ \E ok \in BOOLEAN : Initialize(ok)
         \/ \E type \in MsgTypes : RegisterHandler(type)
         \/ \E c \in Callers : SendPost(c) \/ \E s \in Sessions : SendLookup(c, s)
         \/ \E s \in Sessions, w \in Messages \X {0, 1} : WritePart(s, w) \/ WriteBreaks(s, w)
         \/ UNCHANGED vars
  PROVE  Types'
<1> USE GatewayAssumption DEF Types, TypeOK, JobsTyped, readVars, listenVars, sendVars, callVars
<1>1. ASSUME NEW ok \in BOOLEAN, Initialize(ok) PROVE Types'
  BY <1>1 DEF Initialize
<1>2. ASSUME NEW type \in MsgTypes, RegisterHandler(type) PROVE Types'
  BY <1>2 DEF RegisterHandler
<1>3. ASSUME NEW c \in Callers, SendPost(c) PROVE Types'
  <2>1. next \in Messages /\ next + 1 \in 1..(MaxMessages + 1)
    BY <1>3, ScopeFacts DEF SendPost, Messages
  <2>2. found[c] \in Sessions
    BY <1>3 DEF SendPost
  <2>3. posted' \in [Sessions -> Seq(Messages)]
    BY <1>3, <2>1, <2>2 DEF SendPost
  <2> QED
    BY <1>3, <2>1, <2>3 DEF SendPost
<1>4. ASSUME NEW c \in Callers, NEW s \in Sessions, SendLookup(c, s) PROVE Types'
  BY <1>4 DEF SendLookup
<1>5. ASSUME NEW s \in Sessions, NEW w \in Messages \X {0, 1}, WritePart(s, w) PROVE Types'
  <2>1. w[1] \in Messages /\ w[2] \in {0, 1} /\ <<w[1], w[2] + 1>> \in Messages \X {1, 2}
    OBVIOUS
  <2>2. wire' \in [Sessions -> Seq(Messages \X {1, 2})]
    BY <1>5, <2>1 DEF WritePart
  <2>3. writes' \in [Sessions -> SUBSET (Messages \X {0, 1})]
    <3>1. (writes[s] \ {w}) \cup {<<w[1], 1>>} \in SUBSET (Messages \X {0, 1})
      BY <2>1
    <3>2. writes[s] \ {w} \in SUBSET (Messages \X {0, 1})
      OBVIOUS
    <3>3. \/ writes' = [writes EXCEPT ![s] = (@ \ {w}) \cup {<<w[1], 1>>}]
          \/ writes' = [writes EXCEPT ![s] = @ \ {w}]
      BY <1>5 DEF WritePart
    <3> QED
      BY <3>1, <3>2, <3>3
  <2>4. written' \in [Sessions -> SUBSET (Messages \X Outcomes)]
    <3>1. written[s] \cup {<<w[1], "ok">>} \in SUBSET (Messages \X Outcomes)
      BY <2>1 DEF Outcomes
    <3>2. \/ written' = written
          \/ written' = [written EXCEPT ![s] = @ \cup {<<w[1], "ok">>}]
      BY <1>5 DEF WritePart
    <3> QED
      BY <3>1, <3>2
  <2> QED
    BY <1>5, <2>2, <2>3, <2>4 DEF WritePart
<1>6. ASSUME NEW s \in Sessions, NEW w \in Messages \X {0, 1}, WriteBreaks(s, w) PROVE Types'
  BY <1>6 DEF WriteBreaks, Outcomes
<1>7. CASE UNCHANGED vars
  BY <1>7 DEF vars
<1> QED
  BY <1>1, <1>2, <1>3, <1>4, <1>5, <1>6, <1>7
-----------------------------------------------------------------------------
\* The reading half of the invariant, apart from the types.
ReadPart == ReadsOwned /\ MappedRead /\ AcceptOwned

(* A step that has nothing to do with reads and accepts.                   *)
LEMMA OtherJobsRead ==
  ASSUME ReadPart, UNCHANGED reading, sessions' \subseteq sessions,
         (acceptor' = "handling") = (acceptor = "handling"),
         \A t \in IoThreads :
           \/ job'[t].kind = job[t].kind /\ job'[t].session = job[t].session
           \/ {job[t].kind, job'[t].kind} \subseteq {"none"} \cup Sending
  PROVE  ReadPart'
<1>1. \A t \in IoThreads :
        /\ Accepting(t)' = Accepting(t)
        /\ \A s \in Sessions : Handling(t, s)' = Handling(t, s) /\ Starting(t, s)' = Starting(t, s)
  BY DEF Handling, Starting, Accepting, Sending
<1>2. ReadsOwned'
  BY <1>1 DEF ReadPart, ReadsOwned
<1>3. MappedRead'
  BY DEF ReadPart, MappedRead
<1>4. AcceptOwned'
  BY <1>1 DEF ReadPart, AcceptOwned
<1> QED
  BY <1>2, <1>3, <1>4 DEF ReadPart

(* Accept: the new session has no read yet, and the handler owns the       *)
(* acceptor.                                                               *)
LEMMA AcceptRead ==
  ASSUME Types, ReadPart, NEW t \in IoThreads, NEW s \in Sessions, Accept(t, s)
  PROVE  ReadPart'
<1>act. /\ job[t] = NoJob /\ acceptor = "waiting" /\ reading[s] = "unborn" /\ acceptor' = "handling"
        /\ sessions' = sessions \cup {s} /\ reading' = [reading EXCEPT ![s] = "accepted"]
  BY DEF Accept
<1>job. /\ job'[t].kind = "start" /\ job'[t].session = s
        /\ \A u \in IoThreads \ {t} : job'[u] = job[u]
  BY GatewayAssumption DEF Accept, Begin, Types, TypeOK
<1>rd. reading'[s] = "accepted" /\ \A r \in Sessions \ {s} : reading'[r] = reading[r]
  BY <1>act DEF Types, TypeOK
<1>none. job[t].kind = "none"
  BY <1>act DEF NoJob
<1>1. ReadsOwned'
  BY <1>act, <1>job, <1>rd, <1>none DEF ReadPart, ReadsOwned, Handling, Starting
<1>2. MappedRead'
  BY <1>act, <1>rd DEF ReadPart, MappedRead, Types, TypeOK
<1>3. AcceptOwned'
  BY <1>act, <1>job DEF ReadPart, AcceptOwned, Accepting
<1> QED
  BY <1>1, <1>2, <1>3 DEF ReadPart

(* Start posts the first read of the session.                              *)
LEMMA StartRead ==
  ASSUME Types, ReadPart, NEW t \in IoThreads, Start(t)
  PROVE  ReadPart'
<1> DEFINE s == job[t].session
<1>act. /\ job[t].kind = "start" /\ s \in Sessions /\ UNCHANGED <<acceptor, sessions>>
        /\ reading' = [reading EXCEPT ![s] = "header"]
  BY DEF Start, listenVars, Types, JobsTyped
<1>job. /\ job'[t].kind = "accept" /\ \A u \in IoThreads \ {t} : job'[u] = job[u]
  BY GatewayAssumption DEF Start, Begin, Types, TypeOK
<1>rd. reading'[s] = "header" /\ \A r \in Sessions \ {s} : reading'[r] = reading[r]
  BY <1>act DEF Types, TypeOK
<1>own. /\ Starting(t, s) /\ reading[s] = "accepted"
        /\ \A u \in IoThreads \ {t} : ~Starting(u, s) /\ ~Handling(u, s)
  <2>1. Starting(t, s) /\ reading[s] = "accepted"
    BY <1>act DEF Starting, ReadPart, ReadsOwned
  <2>2. \A u \in IoThreads \ {t} : ~Accepting(u)
    BY <1>act DEF ReadPart, AcceptOwned, Accepting
  <2> QED
    BY <2>1, <2>2, <1>act DEF ReadPart, ReadsOwned, Accepting, Starting
<1> HIDE DEF s
<1>oth. /\ \A r \in Sessions : ~Handling(t, r)' /\ ~Starting(t, r)' /\ ~Handling(t, r)
        /\ \A r \in Sessions \ {s} : ~Starting(t, r)
        /\ \A u \in IoThreads \ {t}, r \in Sessions :
             Handling(u, r)' = Handling(u, r) /\ Starting(u, r)' = Starting(u, r)
  BY <1>act, <1>job DEF Handling, Starting, s
<1>1. ReadsOwned'
  BY <1>act, <1>rd, <1>own, <1>oth DEF ReadPart, ReadsOwned
<1>2. MappedRead'
  BY <1>act, <1>rd DEF ReadPart, MappedRead, Types, TypeOK
<1>3. AcceptOwned'
  BY <1>act, <1>job DEF ReadPart, AcceptOwned, Accepting
<1> QED
  BY <1>1, <1>2, <1>3 DEF ReadPart

(* The handler that ends starts the accept again.                          *)
LEMMA AcceptLoopRead ==
  ASSUME Types, ReadPart, NEW t \in IoThreads, AcceptFails(t) \/ DoAccept(t)
  PROVE  ReadPart'
<1>act. UNCHANGED <<sessions, reading>>
  BY DEF AcceptFails, DoAccept
<1>job. \A u \in IoThreads \ {t} : job'[u] = job[u]
  BY GatewayAssumption DEF AcceptFails, DoAccept, Begin, End, Types, TypeOK
<1>t. job[t].kind \in {"none", "accept"} /\ job'[t].kind \in {"none", "accept"}
  BY GatewayAssumption DEF AcceptFails, DoAccept, Begin, End, NoJob, Types, TypeOK
<1>oth. \A u \in IoThreads, s \in Sessions :
          Handling(u, s)' = Handling(u, s) /\ Starting(u, s)' = Starting(u, s)
  BY <1>job, <1>t DEF Handling, Starting
<1>1. ReadsOwned' /\ MappedRead'
  BY <1>act, <1>oth DEF ReadPart, ReadsOwned, MappedRead
<1>2. AcceptOwned'
  <2>1. CASE AcceptFails(t)
    BY <2>1, <1>job, GatewayAssumption
       DEF AcceptFails, Begin, ReadPart, AcceptOwned, Accepting, Types, TypeOK
  <2>2. CASE DoAccept(t)
    BY <2>2, <1>job, GatewayAssumption
       DEF DoAccept, End, NoJob, ReadPart, AcceptOwned, Accepting, Types, TypeOK
  <2> QED
    BY <2>1, <2>2
<1> QED
  BY <1>1, <1>2 DEF ReadPart

(* A read that is pending goes on, or fails and takes the session out.     *)
LEMMA PendingRead ==
  ASSUME Types, ReadPart, NEW t \in IoThreads, NEW s \in Sessions,
         ReadHeader(t, s) \/ ReadFails(t, s)
  PROVE  ReadPart'
<1>act. /\ reading[s] \in {"header", "body"} /\ UNCHANGED <<acceptor, job>>
        /\ \/ sessions' = sessions /\ reading' = [reading EXCEPT ![s] = "body"]
           \/ sessions' = sessions \ {s} /\ reading' = [reading EXCEPT ![s] = "stopped"]
  BY DEF ReadHeader, ReadFails, listenVars
<1>rd. reading'[s] \in {"body", "stopped"} /\ \A r \in Sessions \ {s} : reading'[r] = reading[r]
  BY <1>act DEF Types, TypeOK
<1>oth. \A u \in IoThreads : Accepting(u)' = Accepting(u) /\ \A r \in Sessions :
          Handling(u, r)' = Handling(u, r) /\ Starting(u, r)' = Starting(u, r)
  BY <1>act DEF Handling, Starting, Accepting
<1>1. ReadsOwned'
  BY <1>act, <1>rd, <1>oth DEF ReadPart, ReadsOwned
<1>2. MappedRead'
  BY <1>act, <1>rd DEF ReadPart, MappedRead, Types, TypeOK
<1>3. AcceptOwned'
  BY <1>act, <1>oth DEF ReadPart, AcceptOwned
<1> QED
  BY <1>1, <1>2, <1>3 DEF ReadPart

(* A complete body: the read is over and its handler has the buffer.       *)
LEMMA ReadBodyRead ==
  ASSUME Types, ReadPart, NEW t \in IoThreads, NEW s \in Sessions, ReadBody(t, s)
  PROVE  ReadPart'
<1>act. /\ job[t] = NoJob /\ reading[s] = "body" /\ UNCHANGED <<acceptor, sessions>>
        /\ reading' = [reading EXCEPT ![s] = "received"]
  BY DEF ReadBody, listenVars
<1>job. /\ job'[t].kind = "receive" /\ job'[t].session = s /\ job[t].kind = "none"
        /\ \A u \in IoThreads \ {t} : job'[u] = job[u]
  BY GatewayAssumption DEF ReadBody, Begin, NoJob, Types, TypeOK
<1>rd. reading'[s] = "received" /\ \A r \in Sessions \ {s} : reading'[r] = reading[r]
  BY <1>act DEF Types, TypeOK
<1>oth. /\ Handling(t, s)' /\ \A r \in Sessions \ {s} : ~Handling(t, r)'
        /\ \A r \in Sessions : ~Handling(t, r) /\ ~Starting(t, r) /\ ~Starting(t, r)'
        /\ \A u \in IoThreads \ {t}, r \in Sessions :
             Handling(u, r)' = Handling(u, r) /\ Starting(u, r)' = Starting(u, r)
        /\ \A u \in IoThreads : Accepting(u)' = Accepting(u)
  BY <1>job DEF Handling, Starting, Accepting
<1>1. ReadsOwned'
  BY <1>act, <1>rd, <1>oth DEF ReadPart, ReadsOwned
<1>2. MappedRead'
  BY <1>act, <1>rd DEF ReadPart, MappedRead, Types, TypeOK
<1>3. AcceptOwned'
  BY <1>act, <1>oth DEF ReadPart, AcceptOwned
<1> QED
  BY <1>1, <1>2, <1>3 DEF ReadPart

(* The message handler is called with the buffer still owned.              *)
LEMMA OnReceiveRead ==
  ASSUME Types, ReadPart, NEW t \in IoThreads, NEW type, OnReceive(t, type)
  PROVE  ReadPart'
<1>act. job[t].kind = "receive" /\ UNCHANGED <<acceptor, sessions, reading>>
  BY DEF OnReceive, readVars, listenVars
<1>job. /\ job'[t].kind = "handle" /\ job'[t].session = job[t].session
        /\ \A u \in IoThreads \ {t} : job'[u] = job[u]
  BY DEF OnReceive, Goto, Types, TypeOK
<1>oth. \A u \in IoThreads : Accepting(u)' = Accepting(u) /\ \A r \in Sessions :
          Handling(u, r)' = Handling(u, r) /\ Starting(u, r)' = Starting(u, r)
  BY <1>act, <1>job DEF Handling, Starting, Accepting
<1> QED
  BY <1>act, <1>oth DEF ReadPart, ReadsOwned, MappedRead, AcceptOwned

(* The handler gives the buffer back by posting the next read.             *)
LEMMA ReceivedRead ==
  ASSUME Types, ReadPart, NEW t \in IoThreads, Received(t)
  PROVE  ReadPart'
<1> DEFINE s == job[t].session
<1>act. /\ job[t].kind \in {"receive", "handle"} /\ s \in Sessions /\ UNCHANGED <<acceptor, sessions>>
        /\ reading' = [reading EXCEPT ![s] = "header"]
  BY DEF Received, listenVars, Types, JobsTyped
<1>job. job'[t].kind = "none" /\ \A u \in IoThreads \ {t} : job'[u] = job[u]
  BY EndFacts DEF Received, Types
<1>rd. reading'[s] = "header" /\ \A r \in Sessions \ {s} : reading'[r] = reading[r]
  BY <1>act DEF Types, TypeOK
<1>own. /\ Handling(t, s) /\ reading[s] = "received"
        /\ \A u \in IoThreads \ {t} : ~Starting(u, s) /\ ~Handling(u, s)
  BY <1>act DEF ReadPart, ReadsOwned, Handling
<1> HIDE DEF s
<1>oth. /\ \A r \in Sessions : ~Handling(t, r)' /\ ~Starting(t, r)' /\ ~Starting(t, r)
        /\ \A r \in Sessions \ {s} : ~Handling(t, r)
        /\ \A u \in IoThreads \ {t}, r \in Sessions :
             Handling(u, r)' = Handling(u, r) /\ Starting(u, r)' = Starting(u, r)
        /\ \A u \in IoThreads : Accepting(u)' = Accepting(u)
  BY <1>act, <1>job DEF Handling, Starting, Accepting, s
<1>1. ReadsOwned'
  BY <1>act, <1>rd, <1>own, <1>oth DEF ReadPart, ReadsOwned
<1>2. MappedRead'
  BY <1>act, <1>rd DEF ReadPart, MappedRead, Types, TypeOK
<1>3. AcceptOwned'
  BY <1>act, <1>oth DEF ReadPart, AcceptOwned
<1> QED
  BY <1>1, <1>2, <1>3 DEF ReadPart

(* The steps of the send queue and of callers leave reads alone.           *)
LEMMA SendingRead ==
  ASSUME Types, ReadPart, NEW t \in IoThreads,
         \/ Push(t) \/ Test(t) \/ Set(t) \/ DoWrite(t) \/ Clear(t)
         \/ \E s \in Sessions : RunPosted(t, s)
         \/ \E s \in Sessions, w \in Messages \X Outcomes : WriteCompletes(t, s, w)
  PROVE  ReadPart'
<1>1. UNCHANGED <<acceptor, reading>> /\ sessions' \subseteq sessions
  BY DEF Push, Test, Set, DoWrite, Clear, RunPosted, WriteCompletes, readVars, listenVars
<1>2. \A u \in IoThreads \ {t} : job'[u] = job[u]
  BY DEF Push, Test, Set, DoWrite, Clear, RunPosted, WriteCompletes, Goto, End, Types, TypeOK
<1>3. {job[t].kind, job'[t].kind} \subseteq {"none"} \cup Sending
  BY DEF Push, Test, Set, DoWrite, Clear, RunPosted, WriteCompletes, Goto, End, NoJob, Sending,
         Types, TypeOK
<1> QED
  BY <1>1, <1>2, <1>3, OtherJobsRead

(* Every step preserves the reading part, with any number of io threads.   *)
LEMMA ReadInvStep == ReadInv /\ [Next]_vars => ReadInv'
<1> SUFFICES ASSUME ReadInv, [Next]_vars PROVE ReadInv'
  OBVIOUS
<1>inv. Types /\ ReadPart
  BY DEF ReadInv, Types, ReadPart
<1>sc. scope.threads \subseteq IoThreads /\ scope.sessions \subseteq Sessions
  BY <1>inv, ScopeFacts DEF Types
<1>types. Types'
  BY <1>inv, <1>sc, HandlerStepTypes, StartReadTypes, StartSendTypes, OtherStepTypes DEF Next
<1>read. ReadPart'
  <2>1. ASSUME NEW t \in IoThreads, HandlerStep(t) PROVE ReadPart'
    BY <2>1, <1>inv, StartRead, AcceptLoopRead, ReceivedRead, OnReceiveRead, SendingRead
       DEF HandlerStep
  <2>2. ASSUME NEW t \in IoThreads, StartReadHandler(t) PROVE ReadPart'
    BY <2>2, <1>inv, <1>sc, AcceptLoopRead, AcceptRead, PendingRead, ReadBodyRead
       DEF StartReadHandler
  <2>3. ASSUME NEW s \in Sessions, StartSendHandler(s) PROVE ReadPart'
    BY <2>3, <1>inv, <1>sc, SendingRead DEF StartSendHandler
  <2>4. ASSUME \/ \E ok \in BOOLEAN : Initialize(ok)
               \/ \E type \in MsgTypes : RegisterHandler(type)
               \/ \E c \in Callers : SendPost(c) \/ \E s \in Sessions : SendLookup(c, s)
               \/ \E s \in Sessions, w \in Messages \X {0, 1} : WritePart(s, w) \/ WriteBreaks(s, w)
               \/ UNCHANGED vars
        PROVE  ReadPart'
    <3>1. UNCHANGED <<reading, sessions, job>>
      BY <2>4 DEF Initialize, RegisterHandler, SendPost, SendLookup, WritePart, WriteBreaks,
                  vars, readVars, listenVars
    <3>2. (acceptor' = "handling") = (acceptor = "handling")
      BY <2>4 DEF Initialize, RegisterHandler, SendPost, SendLookup, WritePart, WriteBreaks,
                  vars, readVars, listenVars
    <3> QED
      BY <3>1, <3>2, <1>inv, OtherJobsRead
  <2> QED
    BY <2>1, <2>2, <2>3, <2>4, <1>sc DEF Next
<1> QED
  BY <1>types, <1>read DEF ReadInv, Types, ReadPart

(* It holds before the gateway is initialised.                             *)
LEMMA ReadInitInv == Init => ReadInv
<1> SUFFICES ASSUME Init PROVE ReadInv
  OBVIOUS
<1> USE GatewayAssumption
<1>1. TypeOK
  BY DEF Init, TypeOK, NoJob, Kinds
<1>2. \A t \in IoThreads : job[t].kind = "none"
  BY DEF Init, NoJob
<1>3. JobsTyped /\ ReadsOwned /\ MappedRead /\ AcceptOwned
  BY <1>2 DEF Init, JobsTyped, Sending, ReadsOwned, MappedRead, AcceptOwned, Handling, Starting,
              Accepting
<1> QED
  BY <1>1, <1>3 DEF ReadInv

(* The reading side of gateway.cpp: a session has one read or one handler  *)
(* with its buffer, a mapped session is being served, and the acceptor is  *)
(* waiting or with one handler.                                            *)
THEOREM ReadInvariant == Spec => []ReadInv
BY ReadInitInv, ReadInvStep, PTL DEF Spec

(* What it says of the sessions, the buffers and the accept loop.          *)
LEMMA ReadInvImplies == ReadInv => NoDeadSessionInMap /\ BodyStable /\ AcceptLoopAlive
<1> SUFFICES ASSUME ReadInv PROVE NoDeadSessionInMap /\ BodyStable /\ AcceptLoopAlive
  OBVIOUS
<1>1. NoDeadSessionInMap
  <2> SUFFICES ASSUME NEW s \in sessions
               PROVE  \/ reading[s] \in {"header", "body"}
                      \/ \E t \in IoThreads : /\ job[t].session = s
                                              /\ job[t].kind \in {"start", "receive", "handle"}
    BY DEF NoDeadSessionInMap
  <2>1. s \in Sessions /\ reading[s] \in {"header", "body", "accepted", "received"}
    BY DEF ReadInv, TypeOK, MappedRead
  <2> QED
    BY <2>1 DEF ReadInv, ReadsOwned, Handling, Starting
<1>2. BodyStable
  <2> SUFFICES ASSUME NEW t \in IoThreads, job[t].kind \in {"receive", "handle"}
               PROVE  /\ reading[job[t].session] # "body"
                      /\ \A u \in IoThreads \ {t} :
                           ~(job[u].kind \in {"receive", "handle"} /\ job[u].session = job[t].session)
    BY DEF BodyStable
  <2>1. job[t].session \in Sessions /\ Handling(t, job[t].session)
    BY DEF ReadInv, JobsTyped, Handling
  <2>2. /\ reading[job[t].session] = "received"
        /\ \A u \in IoThreads \ {t} : ~Handling(u, job[t].session)
    BY <2>1 DEF ReadInv, ReadsOwned
  <2> QED
    BY <2>2 DEF Handling
<1>3. AcceptLoopAlive
  <2> DEFINE A == {t \in IoThreads : job[t].kind \in {"start", "accept"}}
  <2>1. CASE acceptor = "waiting"
    <3>1. A = {}
      BY <2>1 DEF ReadInv, AcceptOwned, Accepting
    <3>2. Cardinality(A) = 0
      BY <3>1, FS_EmptySet
    <3> QED
      BY <2>1, <3>2 DEF AcceptLoopAlive
  <2>2. CASE acceptor = "handling"
    <3>1. PICK t \in IoThreads : Accepting(t) /\ \A u \in IoThreads \ {t} : ~Accepting(u)
      BY <2>2 DEF ReadInv, AcceptOwned
    <3>2. A = {t}
      BY <3>1 DEF Accepting
    <3>3. Cardinality(A) = 1
      BY <3>2, FS_Singleton
    <3> QED
      BY <2>2, <3>3 DEF AcceptLoopAlive
  <2> QED
    BY <2>1, <2>2 DEF AcceptLoopAlive
<1> QED
  BY <1>1, <1>2, <1>3

(***************************************************************************)
(* The variables keep their types on any number of io threads.             *)
(***************************************************************************)
THEOREM GatewayTypeCorrect == Spec => []TypeOK
BY ReadInvariant, PTL DEF ReadInv

(***************************************************************************)
(* A session in sessions_ has a read pending, or a handler that will start *)
(* one, however accepts, reads, writes and errors interleave: OnSession-   *)
(* Closed is reached for every session that dies.                          *)
(***************************************************************************)
THEOREM NoDeadSessions == Spec => []NoDeadSessionInMap
BY ReadInvariant, ReadInvImplies, PTL

(***************************************************************************)
(* body_buf_ belongs to one handler at a time: no read into it and no      *)
(* second message of the session while it runs.                            *)
(***************************************************************************)
THEOREM BodyBelongsToHandler == Spec => []BodyStable
BY ReadInvariant, ReadInvImplies, PTL

(***************************************************************************)
(* Once Initialize succeeded an accept is outstanding, or just one handler *)
(* is on its way to DoAccept.                                              *)
(***************************************************************************)
THEOREM NeverStopsAccepting == Spec => []AcceptLoopAlive
BY ReadInvariant, ReadInvImplies, PTL
-----------------------------------------------------------------------------
(* Sequences of numbers: their elements and their order.                   *)
LEMMA AppendFacts ==
  ASSUME NEW S, NEW q \in Seq(S), NEW x \in S
  PROVE  Range(Append(q, x)) = Range(q) \cup {x}
<1>1. /\ Range(q) = {q[i] : i \in 1..Len(q)} /\ Len(q) \in Nat
      /\ Range(Append(q, x)) = {Append(q, x)[i] : i \in 1..(Len(q) + 1)}
  <2>1. Append(q, x) \in Seq(S) /\ Len(Append(q, x)) = Len(q) + 1
    BY AppendProperties
  <2>2. /\ Range(q) = {q[i] : i \in 1..Len(q)}
        /\ Range(Append(q, x)) = {Append(q, x)[i] : i \in 1..Len(Append(q, x))}
    BY <2>1, RangeEquality
  <2> QED
    BY <2>1, <2>2
<1>2. /\ \A i \in 1..Len(q) : Append(q, x)[i] = q[i]
      /\ Append(q, x)[Len(q) + 1] = x
  BY AppendProperties
<1> QED
  BY <1>1, <1>2

(* What is in a queue and in its rest.                                     *)
LEMMA TailFacts ==
  ASSUME NEW S, NEW q \in Seq(S), q # <<>>
  PROVE  Head(q) \in Range(q) /\ Range(Tail(q)) \subseteq Range(q)
<1>1. /\ Range(q) = {q[i] : i \in 1..Len(q)} /\ Len(q) \in Nat \ {0}
      /\ Range(Tail(q)) = {Tail(q)[i] : i \in 1..(Len(q) - 1)}
  <2>1. Tail(q) \in Seq(S) /\ Len(Tail(q)) = Len(q) - 1 /\ Len(q) \in Nat \ {0}
    BY HeadTailProperties, EmptySeq
  <2>2. /\ Range(q) = {q[i] : i \in 1..Len(q)}
        /\ Range(Tail(q)) = {Tail(q)[i] : i \in 1..Len(Tail(q))}
    BY <2>1, RangeEquality
  <2> QED
    BY <2>1, <2>2
<1>2. \A i \in 1..(Len(q) - 1) : Tail(q)[i] = q[i + 1]
  BY HeadTailProperties
<1>3. Head(q) = q[1]
  OBVIOUS
<1> QED
  BY <1>1, <1>2, <1>3

(* A newer message keeps a queue sorted.                                   *)
LEMMA SortedAppend ==
  ASSUME NEW S \in SUBSET Nat, NEW q \in Seq(S), NEW x \in S, Sorted(q), \A y \in Range(q) : y <= x
  PROVE  Sorted(Append(q, x))
<1>1. /\ \A i \in 1..Len(q) : Append(q, x)[i] = q[i] /\ q[i] <= x
      /\ Append(q, x)[Len(q) + 1] = x /\ Len(Append(q, x)) = Len(q) + 1 /\ Len(q) \in Nat
  BY AppendProperties, RangeEquality
<1> QED
  BY <1>1 DEF Sorted

(* The head of a sorted queue is its oldest message.                       *)
LEMMA SortedTail ==
  ASSUME NEW S \in SUBSET Nat, NEW q \in Seq(S), Sorted(q), q # <<>>
  PROVE  Sorted(Tail(q)) /\ \A y \in Range(Tail(q)) : Head(q) <= y
<1>1. /\ Tail(q) \in Seq(S) /\ Len(Tail(q)) = Len(q) - 1 /\ Len(q) \in Nat \ {0}
      /\ \A i \in 1..(Len(q) - 1) : Tail(q)[i] = q[i + 1]
  BY HeadTailProperties, EmptySeq
<1>2. Range(Tail(q)) = {Tail(q)[i] : i \in 1..Len(Tail(q))}
  BY <1>1, RangeEquality
<1>3. Head(q) = q[1]
  OBVIOUS
<1> QED
  BY <1>1, <1>2, <1>3 DEF Sorted

(* Even and odd numbers of parts on the wire.                              *)
LEMMA Parity ==
  ASSUME NEW n \in Nat
  PROVE  /\ Even(n + 1) <=> ~Even(n)
         /\ n % 2 = 1 <=> ~Even(n)
         /\ Even(n) => n # 1
         /\ ~Even(n) => n # 0
BY DEF Even

(* What is typed as messages is ordered as numbers.                        *)
LEMMA MessageFacts ==
  ASSUME TypeOK, NEW s \in Sessions
  PROVE  /\ Messages \subseteq Nat /\ next \in Nat
         /\ queue[s] \in Seq(Messages) /\ posted[s] \in Seq(Messages) /\ Len(wire[s]) \in Nat
         /\ Wired(s) \subseteq Nat /\ InFlight(s) \subseteq Nat /\ Pushed(s) \subseteq Nat
         /\ Range(queue[s]) \subseteq Nat /\ Range(posted[s]) \subseteq Nat
<1>1. Messages \subseteq Nat /\ next \in Nat
  BY GatewayAssumption DEF Messages, TypeOK
<1>2. queue[s] \in Seq(Messages) /\ posted[s] \in Seq(Messages)
  BY <1>1 DEF TypeOK
<1>3. Range(queue[s]) \subseteq Nat /\ Range(posted[s]) \subseteq Nat
  BY <1>1, <1>2, RangeOfSeq
<1>4. Wired(s) \subseteq Nat /\ Len(wire[s]) \in Nat
  <2>1. \A i \in 1..Len(wire[s]) : wire[s][i] \in Messages \X {1, 2}
    BY DEF TypeOK
  <2>2. \A i \in 1..Len(wire[s]) : wire[s][i][1] \in Nat
    BY <2>1, <1>1
  <2> QED
    BY <2>2 DEF Wired, TypeOK
<1>5. InFlight(s) \subseteq Nat
  <2>1. writes[s] \subseteq Messages \X {0, 1}
    BY DEF TypeOK
  <2>2. \A w \in writes[s] : w[1] \in Nat
    BY <2>1, <1>1
  <2> QED
    BY <2>2 DEF InFlight
<1>6. Pushed(s) \subseteq Nat
  <2>1. \A t \in IoThreads : job[t].msg \in Nat
    BY GatewayAssumption DEF TypeOK
  <2> QED
    BY <2>1 DEF Pushed
<1> QED
  BY <1>1, <1>2, <1>3, <1>4, <1>5, <1>6

\* Thread t has a step of the send queue of session s before it.
SendJob(t, s) == job[t].session = s /\ job[t].kind \in Sending

(* A step that neither touches a session's stages nor works for it.        *)
LEMMA OtherSession ==
  ASSUME TypeOK, NEW r \in Sessions, SendPart(r), next' \in Nat, next <= next',
         /\ wire'[r] = wire[r] /\ writes'[r] = writes[r] /\ written'[r] = written[r]
         /\ queue'[r] = queue[r] /\ posted'[r] = posted[r] /\ inProgress'[r] = inProgress[r],
         \A t \in IoThreads : job'[t] = job[t] \/ (~SendJob(t, r) /\ ~SendJob(t, r)')
  PROVE  SendPart(r)'
<1>1. /\ At({"set"}, r)' = At({"set"}, r) /\ At({"clear"}, r)' = At({"clear"}, r)
      /\ At({"doWrite", "clear"}, r)' = At({"doWrite", "clear"}, r)
      /\ At({"set", "doWrite", "clear"}, r)' = At({"set", "doWrite", "clear"}, r)
  BY DEF At, SendJob, Sending
<1>2. Wired(r)' = Wired(r) /\ InFlight(r)' = InFlight(r)
  BY DEF Wired, InFlight
<1>3. Pushed(r)' = Pushed(r)
  BY DEF Pushed, SendJob, Sending
<1>4. InOrder(r)'
  <2> DEFINE All == Wired(r) \cup InFlight(r) \cup Range(queue[r]) \cup Pushed(r) \cup Range(posted[r])
  <2>1. All \subseteq Nat /\ next \in Nat
    BY MessageFacts
  <2>2. \A m \in All : m <= next'
    BY <2>1 DEF SendPart, InOrder, Ordered
  <2> QED
    BY <2>2, <1>2, <1>3 DEF SendPart, InOrder, Ordered
<1>5. OneWrite(r)'
  BY <1>1 DEF SendPart, OneWrite
<1>6. Frames(r)'
  BY <1>1 DEF SendPart, Frames
<1> QED
  BY <1>4, <1>5, <1>6 DEF SendPart

\* No thread but t runs a handler.
Lone(t) == \A u \in IoThreads \ {t} : job[u] = NoJob

\* What the lone thread t does for session s.
Step(t, s) == IF job[t].session = s THEN job[t].kind ELSE "none"

(* With one thread the steps of a session are that thread's, now and next. *)
LEMMA LoneFacts ==
  ASSUME NEW t \in IoThreads, Lone(t), NEW s \in Sessions
  PROVE  /\ At({"set"}, s) <=> Step(t, s) = "set"
         /\ At({"clear"}, s) <=> Step(t, s) = "clear"
         /\ At({"doWrite", "clear"}, s) <=> Step(t, s) \in {"doWrite", "clear"}
         /\ At({"set", "doWrite", "clear"}, s) <=> Step(t, s) \in {"set", "doWrite", "clear"}
         /\ Step(t, s) = "push" => Pushed(s) = {job[t].msg}
         /\ Step(t, s) # "push" => Pushed(s) = {}
<1>1. \A u \in IoThreads \ {t} : job[u].kind = "none"
  BY DEF Lone, NoJob
<1>2. /\ At({"set"}, s) <=> Step(t, s) = "set"
      /\ At({"clear"}, s) <=> Step(t, s) = "clear"
      /\ At({"doWrite", "clear"}, s) <=> Step(t, s) \in {"doWrite", "clear"}
      /\ At({"set", "doWrite", "clear"}, s) <=> Step(t, s) \in {"set", "doWrite", "clear"}
  BY <1>1 DEF At, Step
<1>3. /\ Step(t, s) = "push" => Pushed(s) = {job[t].msg}
      /\ Step(t, s) # "push" => Pushed(s) = {}
  BY <1>1 DEF Pushed, Step
<1> QED
  BY <1>2, <1>3

(* The same of the state after a step.                                     *)
LEMMA LoneFactsNext ==
  ASSUME NEW t \in IoThreads, Lone(t)', NEW s \in Sessions
  PROVE  /\ At({"set"}, s)' <=> Step(t, s)' = "set"
         /\ At({"clear"}, s)' <=> Step(t, s)' = "clear"
         /\ At({"doWrite", "clear"}, s)' <=> Step(t, s)' \in {"doWrite", "clear"}
         /\ At({"set", "doWrite", "clear"}, s)' <=> Step(t, s)' \in {"set", "doWrite", "clear"}
         /\ Step(t, s)' = "push" => Pushed(s)' = {job'[t].msg}
         /\ Step(t, s)' # "push" => Pushed(s)' = {}
<1>1. \A u \in IoThreads \ {t} : job'[u].kind = "none"
  BY DEF Lone, NoJob
<1>2. /\ At({"set"}, s)' <=> Step(t, s)' = "set"
      /\ At({"clear"}, s)' <=> Step(t, s)' = "clear"
      /\ At({"doWrite", "clear"}, s)' <=> Step(t, s)' \in {"doWrite", "clear"}
      /\ At({"set", "doWrite", "clear"}, s)' <=> Step(t, s)' \in {"set", "doWrite", "clear"}
  BY <1>1 DEF At, Step
<1>3. /\ Step(t, s)' = "push" => Pushed(s)' = {job'[t].msg}
      /\ Step(t, s)' # "push" => Pushed(s)' = {}
  BY <1>1 DEF Pushed, Step
<1> QED
  BY <1>2, <1>3

(* A step that is not about the flag or the write, by a thread that is not *)
(* about to write.                                                         *)
LEMMA WritesKept ==
  ASSUME NEW s \in Sessions, SendPart(s), ~At({"set", "doWrite", "clear"}, s)',
         /\ wire'[s] = wire[s] /\ writes'[s] = writes[s] /\ written'[s] = written[s]
         /\ inProgress'[s] = inProgress[s]
  PROVE  OneWrite(s)' /\ Frames(s)'
<1>1. ~At({"set"}, s)' /\ ~At({"clear"}, s)' /\ ~At({"doWrite", "clear"}, s)'
  BY DEF At
<1>2. OneWrite(s)'
  BY <1>1 DEF SendPart, OneWrite
<1>3. Frames(s)'
  BY DEF SendPart, Frames
<1> QED
  BY <1>2, <1>3

(* A caller posts the next message.                                        *)
LEMMA SendPostSends ==
  ASSUME Types, NEW c \in Callers, SendPost(c), NEW s \in Sessions, s = found[c],
         \A r \in Sessions : SendPart(r)
  PROVE  \A r \in Sessions : SendPart(r)'
<1>t. TypeOK /\ next \in Messages
  <2>1. TypeOK
    BY DEF Types
  <2>2. next \in 1..MaxMessages + 1 /\ MaxMessages \in Nat
    BY <2>1, GatewayAssumption DEF TypeOK
  <2>3. next <= scope.messages /\ scope.messages \in 0..MaxMessages
    BY <2>1, ScopeFacts DEF SendPost
  <2> QED
    BY <2>1, <2>2, <2>3 DEF Messages
<1>act. /\ posted' = [posted EXCEPT ![s] = Append(@, next)] /\ next' = next + 1
        /\ UNCHANGED <<queue, inProgress, writes, written, wire, job>>
  BY DEF SendPost
<1>n. next \in Nat /\ next' \in Nat /\ next <= next'
  BY <1>t, <1>act, MessageFacts
<1>1. ASSUME NEW r \in Sessions \ {s} PROVE SendPart(r)'
  <2>1. posted'[r] = posted[r]
    BY <1>t, <1>act DEF TypeOK
  <2> QED
    BY <2>1, <1>t, <1>n, <1>act, OtherSession
<1>2. SendPart(s)'
  <2> DEFINE p == posted[s]
             All == Wired(s) \cup InFlight(s) \cup Range(queue[s]) \cup Pushed(s) \cup Range(p)
  <2>1. /\ p \in Seq(Messages) /\ posted'[s] = Append(p, next) /\ Messages \subseteq Nat
        /\ All \subseteq Nat
    BY <1>t, <1>act, MessageFacts DEF TypeOK
  <2>2. Range(posted'[s]) = Range(p) \cup {next}
    BY <2>1, <1>t, AppendFacts
  <2>3. Wired(s)' = Wired(s) /\ InFlight(s)' = InFlight(s) /\ Pushed(s)' = Pushed(s)
    BY <1>act DEF Wired, InFlight, Pushed
  <2>4. /\ Ordered(Wired(s), InFlight(s), Range(queue[s]), Pushed(s), Range(p), next)
        /\ Sorted(queue[s]) /\ Sorted(p)
    BY <1>t DEF SendPart, InOrder
  <2>5. \A m \in All : m <= next /\ m <= next'
    <3>1. \A m \in All : m <= next
      BY <2>4 DEF Ordered
    <3> HIDE DEF All
    <3> QED
      BY <3>1, <2>1, <1>n
  <2>6. Sorted(posted'[s])
    BY <2>1, <2>4, <2>5, <1>t, SortedAppend
  <2>7. Ordered(Wired(s), InFlight(s), Range(queue[s]), Pushed(s), Range(p) \cup {next}, next')
    BY <2>4, <2>5, <1>n DEF Ordered, Precedes
  <2>8. InOrder(s)'
    BY <2>2, <2>3, <2>4, <2>6, <2>7, <1>t, <1>act DEF InOrder, SendPart
  <2>9. OneWrite(s)' /\ Frames(s)'
    <3>1. /\ At({"set"}, s)' = At({"set"}, s) /\ At({"clear"}, s)' = At({"clear"}, s)
          /\ At({"doWrite", "clear"}, s)' = At({"doWrite", "clear"}, s)
          /\ At({"set", "doWrite", "clear"}, s)' = At({"set", "doWrite", "clear"}, s)
      BY <1>act DEF At
    <3>2. OneWrite(s)'
      BY <3>1, <1>act DEF SendPart, OneWrite
    <3>3. Frames(s)'
      BY <3>1, <1>act DEF SendPart, Frames
    <3> QED
      BY <3>2, <3>3
  <2> QED
    BY <2>8, <2>9 DEF SendPart
<1> QED
  BY <1>1, <1>2

(* The lone thread takes a posted lambda.                                  *)
LEMMA RunPostedSends ==
  ASSUME Types, NEW t \in IoThreads, Lone(t), NEW s \in Sessions, RunPosted(t, s),
         \A r \in Sessions : SendPart(r)
  PROVE  \A r \in Sessions : SendPart(r)'
<1> DEFINE p == posted[s]
<1>t. TypeOK /\ p \in Seq(Messages) /\ p # <<>> /\ Messages \subseteq Nat /\ next \in Nat
  BY MessageFacts DEF Types, RunPosted
<1>act. /\ job[t] = NoJob /\ posted' = [posted EXCEPT ![s] = Tail(@)]
        /\ UNCHANGED <<queue, inProgress, writes, written, wire, next>>
  BY DEF RunPosted, callVars
<1>job. /\ job[t].kind = "none" /\ job'[t].kind = "push" /\ job'[t].session = s
        /\ job'[t].msg = Head(p) /\ \A u \in IoThreads \ {t} : job'[u] = job[u]
  BY <1>t, <1>act DEF RunPosted, TypeOK, NoJob
<1>1. ASSUME NEW r \in Sessions \ {s} PROVE SendPart(r)'
  <2>1. posted'[r] = posted[r]
    BY <1>t, <1>act DEF TypeOK
  <2>2. ~SendJob(t, r) /\ ~SendJob(t, r)'
    BY <1>job DEF SendJob, Sending
  <2> QED
    BY <2>1, <2>2, <1>t, <1>act, <1>job, OtherSession
<1>2. SendPart(s)'
  <2>1. posted'[s] = Tail(p)
    BY <1>t, <1>act DEF TypeOK
  <2>2. Lone(t)' /\ Step(t, s) \in {"none"} /\ Step(t, s)' = "push"
    BY <1>job DEF Lone, Step
  <2>3. Pushed(s) = {} /\ Pushed(s)' = {Head(p)}
    BY <2>2, <1>job, LoneFacts, LoneFactsNext
  <2>4. Wired(s)' = Wired(s) /\ InFlight(s)' = InFlight(s)
    BY <1>act DEF Wired, InFlight
  <2>5. /\ Ordered(Wired(s), InFlight(s), Range(queue[s]), {}, Range(p), next)
        /\ Sorted(queue[s]) /\ Sorted(p)
    BY <2>3 DEF SendPart, InOrder
  <2>6. Head(p) \in Range(p) /\ Range(Tail(p)) \subseteq Range(p)
    BY <1>t, TailFacts
  <2>7. Sorted(Tail(p)) /\ \A y \in Range(Tail(p)) : Head(p) <= y
    BY <2>5, <1>t, SortedTail
  <2>8. Ordered(Wired(s), InFlight(s), Range(queue[s]), {Head(p)}, Range(Tail(p)), next)
    BY <2>5, <2>6, <2>7 DEF Ordered, Precedes
  <2>9. InOrder(s)'
    BY <2>1, <2>3, <2>4, <2>5, <2>7, <2>8, <1>act DEF InOrder, SendPart
  <2>10. OneWrite(s)' /\ Frames(s)'
    <3>1. ~At({"set", "doWrite", "clear"}, s)'
      BY <2>2, LoneFactsNext
    <3> QED
      BY <3>1, <1>act, WritesKept
  <2> QED
    BY <2>9, <2>10 DEF SendPart
<1> QED
  BY <1>1, <1>2

(* It pushes the lambda's message.                                         *)
LEMMA PushSends ==
  ASSUME Types, NEW t \in IoThreads, Lone(t), Push(t), NEW s \in Sessions, s = job[t].session,
         \A r \in Sessions : SendPart(r)
  PROVE  \A r \in Sessions : SendPart(r)'
<1> DEFINE q == queue[s]
           m == job[t].msg
<1>act. /\ job[t].kind = "push" /\ queue' = [queue EXCEPT ![s] = Append(@, m)]
        /\ UNCHANGED <<posted, inProgress, writes, written, wire, next>>
  BY DEF Push, PushBack, callVars
<1>t. /\ TypeOK /\ q \in Seq(Messages) /\ m \in Messages
      /\ Messages \subseteq Nat /\ next \in Nat
  BY <1>act, MessageFacts DEF Types, TypeOK, JobsTyped
<1>job. /\ job'[t].kind = "test" /\ job'[t].session = s
        /\ \A u \in IoThreads \ {t} : job'[u] = job[u]
  BY <1>t, GotoFacts DEF Push, Kinds
<1>1. ASSUME NEW r \in Sessions \ {s} PROVE SendPart(r)'
  <2>1. queue'[r] = queue[r]
    BY <1>t, <1>act DEF TypeOK
  <2>2. ~SendJob(t, r) /\ ~SendJob(t, r)'
    BY <1>job DEF SendJob
  <2> QED
    BY <2>1, <2>2, <1>t, <1>act, <1>job, OtherSession
<1>2. SendPart(s)'
  <2>1. queue'[s] = Append(q, m) /\ Range(Append(q, m)) = Range(q) \cup {m}
    BY <1>t, <1>act, AppendFacts DEF TypeOK
  <2>2. Lone(t)' /\ Step(t, s) = "push" /\ Step(t, s)' = "test"
    BY <1>act, <1>job DEF Lone, Step
  <2>3. Pushed(s) = {m} /\ Pushed(s)' = {}
    BY <2>2, LoneFacts, LoneFactsNext
  <2>4. Wired(s)' = Wired(s) /\ InFlight(s)' = InFlight(s)
    BY <1>act DEF Wired, InFlight
  <2>5. /\ Ordered(Wired(s), InFlight(s), Range(q), {m}, Range(posted[s]), next)
        /\ Sorted(q) /\ Sorted(posted[s])
    BY <2>3 DEF SendPart, InOrder
  <2>6. Sorted(Append(q, m))
    <3>1. \A y \in Range(q) : y <= m
      BY <2>5 DEF Ordered, Precedes
    <3> QED
      BY <3>1, <2>5, <1>t, SortedAppend
  <2>7. Ordered(Wired(s), InFlight(s), Range(q) \cup {m}, {}, Range(posted[s]), next)
    BY <2>5 DEF Ordered, Precedes
  <2>8. InOrder(s)'
    BY <2>1, <2>3, <2>4, <2>5, <2>6, <2>7, <1>act DEF InOrder, SendPart
  <2>9. OneWrite(s)' /\ Frames(s)'
    <3>1. ~At({"set", "doWrite", "clear"}, s)'
      BY <2>2, LoneFactsNext
    <3> QED
      BY <3>1, <1>act, WritesKept
  <2> QED
    BY <2>8, <2>9 DEF SendPart
<1> QED
  BY <1>1, <1>2

\* The steps of the lone thread that leave the stages as they are.
KeepsStages(s) ==
  /\ wire'[s] = wire[s] /\ writes'[s] = writes[s] /\ queue'[s] = queue[s]
  /\ posted'[s] = posted[s] /\ next' = next /\ Pushed(s)' = Pushed(s)

(* A step that moves no message of a session keeps their order.            *)
LEMMA StagesKept ==
  ASSUME NEW s \in Sessions, InOrder(s), KeepsStages(s)
  PROVE  InOrder(s)'
<1>1. Wired(s)' = Wired(s) /\ InFlight(s)' = InFlight(s)
  BY DEF KeepsStages, Wired, InFlight
<1> QED
  BY <1>1 DEF InOrder, KeepsStages

(* if (!send_in_progress_): the thread goes on only if no write is under   *)
(* way.                                                                    *)
LEMMA TestSends ==
  ASSUME Types, NEW t \in IoThreads, Lone(t), Test(t), NEW s \in Sessions, s = job[t].session,
         \A r \in Sessions : SendPart(r)
  PROVE  \A r \in Sessions : SendPart(r)'
<1>act. job[t].kind = "test" /\ UNCHANGED <<queue, posted, inProgress, writes, written, wire, next>>
  BY DEF Test, sendVars, callVars
<1>t. TypeOK /\ next \in Nat
  BY MessageFacts DEF Types
<1>job. /\ \A u \in IoThreads \ {t} : job'[u] = job[u]
        /\ inProgress[s] => job'[t].kind = "none"
        /\ ~inProgress[s] => job'[t].kind = "set" /\ job'[t].session = s
  BY <1>t, GotoFacts, EndFacts DEF Test, Kinds
<1>s. Lone(t)' /\ Step(t, s) = "test" /\ (inProgress[s] => Step(t, s)' = "none")
      /\ (~inProgress[s] => Step(t, s)' = "set")
  BY <1>act, <1>job DEF Lone, Step
<1>1. ASSUME NEW r \in Sessions \ {s} PROVE SendPart(r)'
  <2>1. ~SendJob(t, r) /\ ~SendJob(t, r)'
    BY <1>act, <1>job DEF SendJob, Sending
  <2> QED
    BY <2>1, <1>t, <1>act, <1>job, OtherSession
<1>2. SendPart(s)'
  <2>1. InOrder(s)'
    <3>1. Pushed(s) = {} /\ Pushed(s)' = {}
      BY <1>s, LoneFacts, LoneFactsNext
    <3> QED
      BY <3>1, <1>act, StagesKept DEF KeepsStages, SendPart
  <2>2. OneWrite(s)' /\ Frames(s)'
    <3>1. CASE inProgress[s]
      BY <3>1, <1>s, <1>act, LoneFactsNext, WritesKept
    <3>2. CASE ~inProgress[s]
      <4>1. /\ At({"set"}, s)' /\ ~At({"clear"}, s)' /\ ~At({"doWrite", "clear"}, s)'
        BY <3>2, <1>s, LoneFactsNext
      <4>2. OneWrite(s)'
        BY <3>2, <4>1, <1>act DEF SendPart, OneWrite
      <4>3. Frames(s)'
        BY <3>2, <1>act DEF SendPart, Frames
      <4> QED
        BY <4>2, <4>3
    <3> QED
      BY <3>1, <3>2
  <2> QED
    BY <2>1, <2>2 DEF SendPart
<1> QED
  BY <1>1, <1>2

(* send_in_progress_ = true, on the way to DoWrite.                        *)
LEMMA SetSends ==
  ASSUME Types, NEW t \in IoThreads, Lone(t), Set(t), NEW s \in Sessions, s = job[t].session,
         \A r \in Sessions : SendPart(r)
  PROVE  \A r \in Sessions : SendPart(r)'
<1>act. /\ job[t].kind = "set" /\ inProgress' = [inProgress EXCEPT ![s] = TRUE]
        /\ UNCHANGED <<queue, posted, writes, written, wire, next>>
  BY DEF Set, callVars
<1>t. TypeOK /\ next \in Nat
  BY MessageFacts DEF Types
<1>job. /\ \A u \in IoThreads \ {t} : job'[u] = job[u]
        /\ job'[t].kind = "doWrite" /\ job'[t].session = s
  BY <1>t, GotoFacts DEF Set, Kinds
<1>s. Lone(t)' /\ Step(t, s) = "set" /\ Step(t, s)' = "doWrite"
  BY <1>act, <1>job DEF Lone, Step
<1>1. ASSUME NEW r \in Sessions \ {s} PROVE SendPart(r)'
  <2>1. \A u \in IoThreads : job'[u] = job[u] \/ (~SendJob(u, r) /\ ~SendJob(u, r)')
    BY <1>act, <1>job DEF SendJob, Sending
  <2>2. /\ wire'[r] = wire[r] /\ writes'[r] = writes[r] /\ written'[r] = written[r]
        /\ queue'[r] = queue[r] /\ posted'[r] = posted[r] /\ inProgress'[r] = inProgress[r]
    BY <1>act, <1>t DEF TypeOK
  <2>3. next' \in Nat /\ next <= next'
    BY <1>act, <1>t
  <2> QED
    BY <2>1, <2>2, <2>3, <1>t, OtherSession
<1>2. SendPart(s)'
  <2>1. InOrder(s)'
    <3>1. Pushed(s) = {} /\ Pushed(s)' = {}
      BY <1>s, LoneFacts, LoneFactsNext
    <3> QED
      BY <3>1, <1>act, StagesKept DEF KeepsStages, SendPart
  <2>2. /\ At({"set", "doWrite", "clear"}, s) /\ ~At({"set"}, s)' /\ ~At({"clear"}, s)'
        /\ inProgress'[s]
    BY <1>s, <1>act, <1>t, LoneFacts, LoneFactsNext DEF TypeOK
  <2>3. OneWrite(s)'
    BY <2>2, <1>act DEF SendPart, OneWrite
  <2>4. Frames(s)'
    BY <2>2, <1>act DEF SendPart, Frames
  <2> QED
    BY <2>1, <2>3, <2>4 DEF SendPart
<1> QED
  BY <1>1, <1>2

(* The queue is empty: send_in_progress_ = false.                          *)
LEMMA ClearSends ==
  ASSUME Types, NEW t \in IoThreads, Lone(t), Clear(t), NEW s \in Sessions, s = job[t].session,
         \A r \in Sessions : SendPart(r)
  PROVE  \A r \in Sessions : SendPart(r)'
<1>act. /\ job[t].kind = "clear" /\ inProgress' = [inProgress EXCEPT ![s] = FALSE]
        /\ UNCHANGED <<queue, posted, writes, written, wire, next>>
  BY DEF Clear, callVars
<1>t. TypeOK /\ next \in Nat
  BY MessageFacts DEF Types
<1>job. job'[t].kind = "none" /\ \A u \in IoThreads \ {t} : job'[u] = job[u]
  BY <1>t, EndFacts DEF Clear
<1>s. Lone(t)' /\ Step(t, s) = "clear" /\ Step(t, s)' = "none"
  BY <1>act, <1>job DEF Lone, Step
<1>1. ASSUME NEW r \in Sessions \ {s} PROVE SendPart(r)'
  <2>1. \A u \in IoThreads : job'[u] = job[u] \/ (~SendJob(u, r) /\ ~SendJob(u, r)')
    BY <1>act, <1>job DEF SendJob, Sending
  <2>2. /\ wire'[r] = wire[r] /\ writes'[r] = writes[r] /\ written'[r] = written[r]
        /\ queue'[r] = queue[r] /\ posted'[r] = posted[r] /\ inProgress'[r] = inProgress[r]
    BY <1>act, <1>t DEF TypeOK
  <2>3. next' \in Nat /\ next <= next'
    BY <1>act, <1>t
  <2> QED
    BY <2>1, <2>2, <2>3, <1>t, OtherSession
<1>2. SendPart(s)'
  <2>1. InOrder(s)'
    <3>1. Pushed(s) = {} /\ Pushed(s)' = {}
      BY <1>s, LoneFacts, LoneFactsNext
    <3> QED
      BY <3>1, <1>act, StagesKept DEF KeepsStages, SendPart
  <2>2. /\ At({"set", "doWrite", "clear"}, s) /\ ~At({"set"}, s)' /\ ~At({"clear"}, s)'
        /\ ~At({"doWrite", "clear"}, s)'
    BY <1>s, LoneFacts, LoneFactsNext
  <2>3. OneWrite(s)'
    BY <2>2, <1>act DEF SendPart, OneWrite
  <2>4. Frames(s)'
    BY <2>2, <1>act DEF SendPart, Frames
  <2> QED
    BY <2>1, <2>3, <2>4 DEF SendPart
<1> QED
  BY <1>1, <1>2

(* DoWrite takes the oldest message; no other write is in flight.          *)
LEMMA DoWriteSends ==
  ASSUME Types, NEW t \in IoThreads, Lone(t), DoWrite(t), NEW s \in Sessions, s = job[t].session,
         queue[s] # <<>>, \A r \in Sessions : SendPart(r)
  PROVE  \A r \in Sessions : SendPart(r)'
<1> DEFINE q == queue[s]
<1>act. /\ job[t].kind = "doWrite" /\ queue' = [queue EXCEPT ![s] = Tail(@)]
        /\ writes' = [writes EXCEPT ![s] = @ \cup {<<Head(q), 0>>}]
        /\ UNCHANGED <<posted, inProgress, written, wire, next>>
  BY DEF DoWrite, callVars
<1>t. TypeOK /\ next \in Nat /\ q \in Seq(Messages) /\ Messages \subseteq Nat
  BY MessageFacts DEF Types
<1>job. job'[t].kind = "none" /\ \A u \in IoThreads \ {t} : job'[u] = job[u]
  BY <1>t, EndFacts DEF DoWrite
<1>s. Lone(t)' /\ Step(t, s) = "doWrite" /\ Step(t, s)' = "none"
  BY <1>act, <1>job DEF Lone, Step
<1>1. ASSUME NEW r \in Sessions \ {s} PROVE SendPart(r)'
  <2>1. \A u \in IoThreads : job'[u] = job[u] \/ (~SendJob(u, r) /\ ~SendJob(u, r)')
    BY <1>act, <1>job DEF SendJob, Sending
  <2>2. /\ wire'[r] = wire[r] /\ writes'[r] = writes[r] /\ written'[r] = written[r]
        /\ queue'[r] = queue[r] /\ posted'[r] = posted[r] /\ inProgress'[r] = inProgress[r]
    BY <1>act, <1>t DEF TypeOK
  <2>3. next' \in Nat /\ next <= next'
    BY <1>act, <1>t
  <2> QED
    BY <2>1, <2>2, <2>3, <1>t, OtherSession
<1>2. SendPart(s)'
  <2>1. /\ At({"set", "doWrite", "clear"}, s) /\ At({"doWrite", "clear"}, s)
        /\ ~At({"set", "doWrite", "clear"}, s)' /\ ~At({"doWrite", "clear"}, s)'
        /\ ~At({"set"}, s)' /\ ~At({"clear"}, s)' /\ Pushed(s) = {} /\ Pushed(s)' = {}
    BY <1>s, LoneFacts, LoneFactsNext
  <2>2. writes[s] = {} /\ written[s] = {} /\ inProgress[s] /\ Even(Len(wire[s]))
    BY <2>1 DEF SendPart, OneWrite, Frames
  <2>3. queue'[s] = Tail(q) /\ writes'[s] = {<<Head(q), 0>>}
    BY <2>2, <1>act, <1>t DEF TypeOK
  <2>4. InFlight(s) = {} /\ InFlight(s)' = {Head(q)} /\ Wired(s)' = Wired(s)
    BY <2>2, <2>3, <1>act DEF InFlight, Wired
  <2>5. /\ Ordered(Wired(s), {}, Range(q), {}, Range(posted[s]), next)
        /\ Sorted(q) /\ Sorted(posted[s])
    BY <2>1, <2>4 DEF SendPart, InOrder
  <2>6. Head(q) \in Range(q) /\ Range(Tail(q)) \subseteq Range(q)
    BY <1>t, TailFacts
  <2>7. Sorted(Tail(q)) /\ \A y \in Range(Tail(q)) : Head(q) <= y
    BY <2>5, <1>t, SortedTail
  <2>8. Ordered(Wired(s), {Head(q)}, Range(Tail(q)), {}, Range(posted[s]), next)
    BY <2>5, <2>6, <2>7 DEF Ordered, Precedes
  <2>9. InOrder(s)'
    BY <2>1, <2>3, <2>4, <2>5, <2>7, <2>8, <1>act DEF InOrder, SendPart
  <2>10. OneWrite(s)'
    BY <2>1, <2>2, <2>3, <1>act DEF OneWrite
  <2>11. Frames(s)'
    BY <2>1, <2>2, <2>3, <1>act DEF SendPart, Frames
  <2> QED
    BY <2>9, <2>10, <2>11 DEF SendPart
<1> QED
  BY <1>1, <1>2

(* DoWrite with an empty queue starts no write.                            *)
LEMMA DoWriteEmptySends ==
  ASSUME Types, NEW t \in IoThreads, Lone(t), DoWrite(t), NEW s \in Sessions, s = job[t].session,
         queue[s] = <<>>, \A r \in Sessions : SendPart(r)
  PROVE  \A r \in Sessions : SendPart(r)'
<1>act. /\ job[t].kind = "doWrite" /\ UNCHANGED <<queue, posted, inProgress, writes, written, wire, next>>
  BY DEF DoWrite, callVars
<1>t. TypeOK /\ next \in Nat
  BY MessageFacts DEF Types
<1>job. /\ job'[t].kind = "clear" /\ job'[t].session = s
        /\ \A u \in IoThreads \ {t} : job'[u] = job[u]
  BY <1>t, GotoFacts DEF DoWrite, Kinds
<1>s. Lone(t)' /\ Step(t, s) = "doWrite" /\ Step(t, s)' = "clear"
  BY <1>act, <1>job DEF Lone, Step
<1>1. ASSUME NEW r \in Sessions \ {s} PROVE SendPart(r)'
  <2>1. \A u \in IoThreads : job'[u] = job[u] \/ (~SendJob(u, r) /\ ~SendJob(u, r)')
    BY <1>act, <1>job DEF SendJob, Sending
  <2>2. /\ wire'[r] = wire[r] /\ writes'[r] = writes[r] /\ written'[r] = written[r]
        /\ queue'[r] = queue[r] /\ posted'[r] = posted[r] /\ inProgress'[r] = inProgress[r]
    BY <1>act, <1>t DEF TypeOK
  <2>3. next' \in Nat /\ next <= next'
    BY <1>act, <1>t
  <2> QED
    BY <2>1, <2>2, <2>3, <1>t, OtherSession
<1>2. SendPart(s)'
  <2>1. /\ At({"set", "doWrite", "clear"}, s) /\ At({"doWrite", "clear"}, s)
        /\ ~At({"set"}, s)' /\ Pushed(s) = {} /\ Pushed(s)' = {}
    BY <1>s, LoneFacts, LoneFactsNext
  <2>2. InOrder(s)'
    BY <2>1, <1>act, StagesKept DEF KeepsStages, SendPart
  <2>3. OneWrite(s)'
    BY <2>1, <1>act DEF SendPart, OneWrite
  <2>4. Frames(s)'
    BY <2>1, <1>act DEF SendPart, Frames
  <2> QED
    BY <2>2, <2>3, <2>4 DEF SendPart
<1> QED
  BY <1>1, <1>2

(* A part of a frame reaches the wire: the first part begins a frame, the  *)
(* second completes the one that was begun last.                           *)
LEMMA WritePartSends ==
  ASSUME Types, NEW t \in IoThreads, Lone(t), NEW s \in Sessions, NEW w \in Messages \X {0, 1},
         WritePart(s, w), \A r \in Sessions : SendPart(r)
  PROVE  \A r \in Sessions : SendPart(r)'
<1> DEFINE m == w[1]
           n == Len(wire[s])
<1>act. /\ w \in writes[s] /\ wire' = [wire EXCEPT ![s] = Append(@, <<m, w[2] + 1>>)]
        /\ \/ /\ w[2] = 0 /\ writes' = [writes EXCEPT ![s] = (@ \ {w}) \cup {<<m, 1>>}]
              /\ written' = written
           \/ /\ w[2] = 1 /\ writes' = [writes EXCEPT ![s] = @ \ {w}]
              /\ written' = [written EXCEPT ![s] = @ \cup {<<m, "ok">>}]
        /\ UNCHANGED <<posted, inProgress, queue, job, next>>
  BY DEF WritePart, callVars
<1>t. /\ TypeOK /\ next \in Nat /\ m \in Messages /\ m \in Nat /\ n \in Nat /\ w[2] \in {0, 1}
      /\ wire[s] \in Seq(Messages \X {1, 2}) /\ <<m, w[2] + 1>> \in Messages \X {1, 2}
  <2>1. TypeOK
    BY DEF Types
  <2>2. Messages \subseteq Nat /\ next \in Nat /\ n \in Nat
    BY <2>1, MessageFacts
  <2>3. wire[s] \in Seq(Messages \X {1, 2})
    BY <2>1 DEF TypeOK
  <2>4. m \in Messages /\ w[2] \in {0, 1}
    OBVIOUS
  <2>5. <<m, w[2] + 1>> \in Messages \X {1, 2}
    BY <2>4
  <2> QED
    BY <2>1, <2>2, <2>3, <2>4, <2>5
<1>job. UNCHANGED job
  BY <1>act
<1>1. ASSUME NEW r \in Sessions \ {s} PROVE SendPart(r)'
  <2>1. \A u \in IoThreads : job'[u] = job[u] \/ (~SendJob(u, r) /\ ~SendJob(u, r)')
    BY <1>act, <1>job DEF SendJob, Sending
  <2>2. /\ wire'[r] = wire[r] /\ writes'[r] = writes[r] /\ written'[r] = written[r]
        /\ queue'[r] = queue[r] /\ posted'[r] = posted[r] /\ inProgress'[r] = inProgress[r]
    BY <1>act, <1>t DEF TypeOK
  <2>3. next' \in Nat /\ next <= next'
    BY <1>act, <1>t
  <2> QED
    BY <2>1, <2>2, <2>3, <1>t, OtherSession
<1>2. SendPart(s)'
  <2>a. At({"set"}, s)' = At({"set"}, s) /\ At({"clear"}, s)' = At({"clear"}, s)
        /\ At({"doWrite", "clear"}, s)' = At({"doWrite", "clear"}, s)
        /\ At({"set", "doWrite", "clear"}, s)' = At({"set", "doWrite", "clear"}, s)
        /\ Pushed(s)' = Pushed(s)
    BY <1>act DEF At, Pushed
  <2>b. ~At({"set", "doWrite", "clear"}, s) /\ ~At({"set"}, s) /\ ~At({"clear"}, s)
        /\ ~At({"doWrite", "clear"}, s)
    <3>1. ~At({"set", "doWrite", "clear"}, s)
      BY <1>act DEF SendPart, OneWrite
    <3> QED
      BY <3>1 DEF At
  <2>1. writes[s] = {w} /\ written[s] = {} /\ inProgress[s]
    BY <1>act DEF SendPart, OneWrite
  <2>2. /\ wire'[s] = Append(wire[s], <<m, w[2] + 1>>) /\ Len(wire'[s]) = n + 1
        /\ \A i \in 1..n : wire'[s][i] = wire[s][i]
        /\ wire'[s][n + 1] = <<m, w[2] + 1>>
    BY <1>act, <1>t, AppendProperties DEF TypeOK
  <2>3. /\ InFlight(s) = {m} /\ InFlight(s)' \subseteq {m}
        /\ w[2] = 0 => writes'[s] = {<<m, 1>>} /\ written'[s] = {}
        /\ w[2] = 1 => writes'[s] = {} /\ written'[s] = {<<m, "ok">>}
    <3>1. /\ w[2] = 0 => writes'[s] = {<<m, 1>>} /\ written'[s] = {}
          /\ w[2] = 1 => writes'[s] = {} /\ written'[s] = {<<m, "ok">>}
      BY <2>1, <1>act, <1>t DEF TypeOK
    <3> QED
      BY <3>1, <2>1, <1>t DEF InFlight
  <2>4. Wired(s)' = Wired(s) \cup {m}
    BY <2>2, <1>t DEF Wired
  <2>5. Ordered(Wired(s), {m}, Range(queue[s]), Pushed(s), Range(posted[s]), next)
    BY <2>3 DEF SendPart, InOrder
  <2>6. Ordered(Wired(s) \cup {m}, InFlight(s)', Range(queue[s]), Pushed(s), Range(posted[s]), next)
    BY <2>3, <2>5, <1>t DEF Ordered, Precedes
  <2>7. \A i, j \in 1..(n + 1) : i < j => wire'[s][i][1] <= wire'[s][j][1]
    <3>1. \A i \in 1..n : wire[s][i][1] <= m
      BY <2>5 DEF Ordered, Precedes, Wired
    <3>2. \A i, j \in 1..n : i < j => wire[s][i][1] <= wire[s][j][1]
      BY DEF SendPart, InOrder
    <3> QED
      BY <3>1, <3>2, <2>2, <1>t
  <2>8. InOrder(s)'
    BY <2>2, <2>4, <2>6, <2>7, <2>a, <1>act DEF InOrder, SendPart
  <2>9. OneWrite(s)'
    BY <2>1, <2>3, <2>a, <2>b, <1>act, <1>t DEF OneWrite
  <2>10. /\ w[2] = 0 => Even(n) /\ ~Even(n + 1)
         /\ w[2] = 1 => ~Even(n) /\ Even(n + 1) /\ n # 0 /\ wire[s][n][1] = m
    BY <1>act, <1>t, Parity DEF SendPart, Frames
  <2>11. ASSUME NEW i \in 1..(n + 1)
         PROVE  /\ ~Even(i) => wire'[s][i][2] = 1
                /\ Even(i) => wire'[s][i] = <<wire'[s][i - 1][1], 2>>
    <3>1. CASE i \in 1..n
      <4>1. /\ ~Even(i) => wire[s][i][2] = 1
            /\ Even(i) => wire[s][i] = <<wire[s][i - 1][1], 2>>
        BY <3>1 DEF SendPart, Frames
      <4>2. Even(i) => i - 1 \in 1..n
        BY <3>1, <1>t, Parity
      <4> QED
        BY <3>1, <4>1, <4>2, <2>2
    <3>2. CASE i = n + 1
      <4>1. CASE w[2] = 0
        BY <3>2, <4>1, <2>2, <2>10
      <4>2. CASE w[2] = 1
        <5>1. n \in 1..n /\ i - 1 = n /\ Even(i)
          BY <3>2, <4>2, <2>10, <1>t
        <5>2. wire'[s][n][1] = m /\ wire'[s][n + 1] = <<m, 2>>
          BY <4>2, <5>1, <2>2, <2>10
        <5> QED
          BY <3>2, <5>1, <5>2
      <4> QED
        BY <4>1, <4>2, <1>t
    <3> QED
      BY <3>1, <3>2, <1>t
  <2>12. Frames(s)'
    <3>1. ASSUME NEW v \in writes'[s]
          PROVE  v[2] = 1 /\ v[1] = m /\ ~Even(n + 1) /\ wire'[s][n + 1][1] = m
      BY <3>1, <2>2, <2>3, <2>10, <1>t
    <3>2. \A v \in written'[s] : v[2] = "ok" => Even(n + 1)
      BY <2>3, <2>10, <1>t
    <3>3. ~At({"set", "doWrite", "clear"}, s)' /\ inProgress'[s] /\ Len(wire'[s]) = n + 1
      BY <2>1, <2>2, <2>a, <2>b, <1>act
    <3> HIDE DEF n, m
    <3> QED
      BY <3>1, <3>2, <3>3, <2>11 DEF Frames
  <2> QED
    BY <2>8, <2>9, <2>12 DEF SendPart
<1> QED
  BY <1>1, <1>2

(* A write fails: nothing of it is in flight any more.                     *)
LEMMA WriteBreaksSends ==
  ASSUME Types, NEW s \in Sessions, NEW w \in Messages \X {0, 1}, WriteBreaks(s, w),
         \A r \in Sessions : SendPart(r)
  PROVE  \A r \in Sessions : SendPart(r)'
<1>act. /\ w \in writes[s] /\ writes' = [writes EXCEPT ![s] = @ \ {w}]
        /\ written' = [written EXCEPT ![s] = @ \cup {<<w[1], "failed">>}]
        /\ UNCHANGED <<posted, inProgress, queue, wire, job, next>>
  BY DEF WriteBreaks, callVars
<1>t. TypeOK /\ next \in Nat
  BY MessageFacts DEF Types
<1>job. UNCHANGED job
  BY <1>act
<1>1. ASSUME NEW r \in Sessions \ {s} PROVE SendPart(r)'
  <2>1. \A u \in IoThreads : job'[u] = job[u] \/ (~SendJob(u, r) /\ ~SendJob(u, r)')
    BY <1>act, <1>job DEF SendJob, Sending
  <2>2. /\ wire'[r] = wire[r] /\ writes'[r] = writes[r] /\ written'[r] = written[r]
        /\ queue'[r] = queue[r] /\ posted'[r] = posted[r] /\ inProgress'[r] = inProgress[r]
    BY <1>act, <1>t DEF TypeOK
  <2>3. next' \in Nat /\ next <= next'
    BY <1>act, <1>t
  <2> QED
    BY <2>1, <2>2, <2>3, <1>t, OtherSession
<1>2. SendPart(s)'
  <2>a. ~At({"set", "doWrite", "clear"}, s)' /\ ~At({"set"}, s)' /\ ~At({"clear"}, s)'
        /\ ~At({"doWrite", "clear"}, s)' /\ Pushed(s)' = Pushed(s)
    <3>1. ~At({"set", "doWrite", "clear"}, s)
      BY <1>act DEF SendPart, OneWrite
    <3> QED
      BY <3>1, <1>act DEF At, Pushed
  <2>1. writes[s] = {w} /\ written[s] = {} /\ inProgress[s]
    BY <1>act DEF SendPart, OneWrite
  <2>2. writes'[s] = {} /\ written'[s] = {<<w[1], "failed">>}
    BY <2>1, <1>act, <1>t DEF TypeOK
  <2>3. InFlight(s)' = {} /\ Wired(s)' = Wired(s)
    BY <2>2, <1>act DEF InFlight, Wired
  <2>4. InOrder(s)'
    BY <2>3, <2>a, <1>act DEF SendPart, InOrder, Ordered, Precedes
  <2>5. OneWrite(s)'
    BY <2>1, <2>2, <2>a, <1>act DEF OneWrite
  <2>6. Frames(s)'
    BY <2>1, <2>2, <2>a, <1>act DEF SendPart, Frames
  <2> QED
    BY <2>4, <2>5, <2>6 DEF SendPart
<1> QED
  BY <1>1, <1>2

(* A write has completed: the lone thread goes on to DoWrite, or leaves    *)
(* send_in_progress_ set for good.                                         *)
LEMMA WriteCompletesSends ==
  ASSUME Types, NEW t \in IoThreads, Lone(t), NEW s \in Sessions, NEW w \in Messages \X Outcomes,
         WriteCompletes(t, s, w), \A r \in Sessions : SendPart(r)
  PROVE  \A r \in Sessions : SendPart(r)'
<1>act. /\ w \in written[s] /\ written' = [written EXCEPT ![s] = @ \ {w}] /\ job[t].kind = "none"
        /\ UNCHANGED <<posted, inProgress, queue, writes, wire, next>>
  BY DEF WriteCompletes, callVars, NoJob
<1>t. TypeOK /\ next \in Nat
  BY MessageFacts DEF Types
<1>job. /\ \A u \in IoThreads \ {t} : job'[u] = job[u]
        /\ w[2] = "ok" => job'[t].kind = "doWrite" /\ job'[t].session = s
        /\ w[2] # "ok" => job'[t] = job[t]
  BY <1>t DEF WriteCompletes, TypeOK
<1>s. Lone(t)' /\ Step(t, s) = "none" /\ (w[2] = "ok" => Step(t, s)' = "doWrite")
      /\ (w[2] # "ok" => Step(t, s)' = "none")
  BY <1>act, <1>job DEF Lone, Step
<1>1. ASSUME NEW r \in Sessions \ {s} PROVE SendPart(r)'
  <2>1. \A u \in IoThreads : job'[u] = job[u] \/ (~SendJob(u, r) /\ ~SendJob(u, r)')
    BY <1>act, <1>job DEF SendJob, Sending
  <2>2. /\ wire'[r] = wire[r] /\ writes'[r] = writes[r] /\ written'[r] = written[r]
        /\ queue'[r] = queue[r] /\ posted'[r] = posted[r] /\ inProgress'[r] = inProgress[r]
    BY <1>act, <1>t DEF TypeOK
  <2>3. next' \in Nat /\ next <= next'
    BY <1>act, <1>t
  <2> QED
    BY <2>1, <2>2, <2>3, <1>t, OtherSession
<1>2. SendPart(s)'
  <2>1. writes[s] = {} /\ written[s] = {w} /\ inProgress[s] /\ written'[s] = {}
    <3>1. writes[s] = {} /\ written[s] = {w} /\ inProgress[s]
      BY <1>act DEF SendPart, OneWrite
    <3>2. written'[s] = written[s] \ {w}
      BY <1>act, <1>t DEF TypeOK
    <3> QED
      BY <3>1, <3>2
  <2>2. InOrder(s)'
    <3>1. Pushed(s) = {} /\ Pushed(s)' = {}
      BY <1>s, LoneFacts, LoneFactsNext
    <3> QED
      BY <3>1, <1>act, StagesKept DEF KeepsStages, SendPart
  <2>3. /\ ~At({"set"}, s)' /\ ~At({"clear"}, s)'
        /\ At({"set", "doWrite", "clear"}, s)' => w[2] = "ok"
    BY <1>s, LoneFactsNext
  <2>4. OneWrite(s)'
    BY <2>1, <2>3, <1>act DEF OneWrite
  <2>5. Frames(s)'
    BY <2>1, <2>3, <1>act DEF SendPart, Frames
  <2> QED
    BY <2>2, <2>4, <2>5 DEF SendPart
<1> QED
  BY <1>1, <1>2

(* Reads, accepts and lookups have nothing to do with the send queue.      *)
LEMMA ReadsKeepSends ==
  ASSUME Types, NEW t \in IoThreads,
         \/ Start(t) \/ DoAccept(t) \/ Received(t) \/ \E type \in MsgTypes : OnReceive(t, type)
         \/ AcceptFails(t)
         \/ \E s \in Sessions : Accept(t, s) \/ ReadHeader(t, s) \/ ReadBody(t, s) \/ ReadFails(t, s),
         \A r \in Sessions : SendPart(r)
  PROVE  \A r \in Sessions : SendPart(r)'
<1>1. UNCHANGED <<queue, posted, inProgress, writes, written, wire, next>>
  BY DEF Start, DoAccept, Received, OnReceive, AcceptFails, Accept, ReadHeader, ReadBody,
     ReadFails,
         sendVars, callVars
<1>2. \A u \in IoThreads \ {t} : job'[u] = job[u]
  BY DEF Start, DoAccept, Received, OnReceive, AcceptFails, Accept, ReadHeader, ReadBody,
     ReadFails,
         Begin, End, Goto, Types, TypeOK
<1>3. job'[t] = job[t] \/ (job[t].kind \notin Sending /\ job'[t].kind \notin Sending)
  BY DEF Start, DoAccept, Received, OnReceive, AcceptFails, Accept, ReadHeader, ReadBody,
     ReadFails,
         Begin, End, Goto, NoJob, Sending, Types, TypeOK
<1>4. TypeOK /\ \A r \in Sessions : next \in Nat
  BY MessageFacts DEF Types
<1> QED
  BY <1>1, <1>2, <1>3, <1>4, OtherSession DEF SendJob
-----------------------------------------------------------------------------
(* Handlers run on the threads of the set-up only, which never changes.    *)
LEMMA JobsInScopeStep ==
  ASSUME Types, JobsInScope, [Next]_vars
  PROVE  scope' = scope /\ JobsInScope'
<1>sc. scope.threads \subseteq IoThreads
  BY ScopeFacts DEF Types
<1>1. ASSUME NEW t \in scope.threads, HandlerStep(t) \/ StartReadHandler(t)
      PROVE  scope' = scope /\ \A u \in IoThreads \ {t} : job'[u] = job[u]
  BY <1>1, <1>sc DEF HandlerStep, StartReadHandler, Start, DoAccept, Received, OnReceive,
     Push, Test,
     Set, DoWrite, Clear, AcceptFails, Accept, ReadHeader, ReadBody, ReadFails, Begin, End, Goto,
     readVars, listenVars, Types, TypeOK
<1>2. ASSUME NEW s \in Sessions, NEW t \in scope.threads,
             RunPosted(t, s) \/ \E w \in Messages \X Outcomes : WriteCompletes(t, s, w)
      PROVE  scope' = scope /\ \A u \in IoThreads \ {t} : job'[u] = job[u]
  BY <1>2, <1>sc DEF RunPosted, WriteCompletes, readVars, listenVars, Types, TypeOK
<1>3. ASSUME \/ \E ok \in BOOLEAN : Initialize(ok)
             \/ \E type \in MsgTypes : RegisterHandler(type)
             \/ \E c \in Callers : SendPost(c) \/ \E s \in Sessions : SendLookup(c, s)
             \/ \E s \in Sessions, w \in Messages \X {0, 1} : WritePart(s, w) \/ WriteBreaks(s, w)
             \/ UNCHANGED vars
      PROVE  UNCHANGED <<scope, job>>
  BY <1>3 DEF Initialize, RegisterHandler, SendPost, SendLookup, WritePart, WriteBreaks, vars,
              readVars, listenVars
<1> QED
  BY <1>1, <1>2, <1>3 DEF Next, StartSendHandler, JobsInScope

(* Every step preserves the order of the messages and of their parts.      *)
LEMMA WireInvStep == WireInv /\ [Next]_vars => WireInv'
<1> SUFFICES ASSUME WireInv, [Next]_vars PROVE WireInv'
  OBVIOUS
<1>inv. Types /\ TypeOK /\ JobsInScope /\ (OneThread => \A s \in Sessions : SendPart(s))
  BY DEF WireInv, ReadInv, Types
<1>sc. scope' = scope /\ JobsInScope' /\ ReadInv'
  BY <1>inv, JobsInScopeStep, ReadInvStep DEF WireInv
<1>sub. scope.threads \subseteq IoThreads /\ scope.sessions \subseteq Sessions
  BY <1>inv, ScopeFacts
<1>one. ASSUME OneThread' PROVE \A s \in Sessions : SendPart(s)'
  <2>1. OneThread /\ \A s \in Sessions : SendPart(s)
    BY <1>one, <1>sc, <1>inv DEF OneThread
  <2>2. PICK t \in IoThreads : scope.threads = {t}
    <3>1. IsFiniteSet(scope.threads)
      BY <1>sub, GatewayAssumption, FS_Subset
    <3>2. PICK t : scope.threads = {t}
      BY <3>1, <2>1, FS_Singleton DEF OneThread
    <3> QED
      BY <3>2, <1>sub
  <2>3. Lone(t)
    BY <2>2, <1>inv DEF Lone, JobsInScope
  <2>s. job[t].kind \in Sending => job[t].session \in Sessions
    BY <1>inv DEF JobsTyped, Types
  <2>4. CASE HandlerStep(t)
    <3>1. CASE Push(t) \/ Test(t) \/ Set(t) \/ DoWrite(t) \/ Clear(t)
      <4>1. job[t].session \in Sessions
        BY <3>1, <2>s DEF Push, Test, Set, DoWrite, Clear, Sending
      <4> QED
        BY <3>1, <4>1, <1>inv, <2>1, <2>3, PushSends, TestSends, SetSends, DoWriteSends,
           DoWriteEmptySends, ClearSends
    <3> QED
      BY <2>4, <3>1, <1>inv, <2>1, ReadsKeepSends DEF HandlerStep
  <2>5. CASE StartReadHandler(t)
    BY <2>5, <1>inv, <1>sub, <2>1, ReadsKeepSends DEF StartReadHandler
  <2>6. ASSUME NEW s \in Sessions, StartSendHandler(s) PROVE \A r \in Sessions : SendPart(r)'
    BY <2>6, <1>inv, <2>1, <2>2, <2>3, RunPostedSends, WriteCompletesSends DEF StartSendHandler
  <2>7. ASSUME NEW c \in Callers, SendPost(c) PROVE \A r \in Sessions : SendPart(r)'
    <3>1. found[c] \in Sessions
      BY <2>7, <1>inv DEF SendPost, TypeOK
    <3> QED
      BY <2>7, <3>1, <1>inv, <2>1, SendPostSends
  <2>8. ASSUME NEW s \in Sessions, NEW w \in Messages \X {0, 1}, WritePart(s, w) \/ WriteBreaks(s, w)
        PROVE  \A r \in Sessions : SendPart(r)'
    BY <2>8, <1>inv, <2>1, <2>3, WritePartSends, WriteBreaksSends
  <2>9. ASSUME \/ \E ok \in BOOLEAN : Initialize(ok)
               \/ \E type \in MsgTypes : RegisterHandler(type)
               \/ \E c \in Callers, s \in Sessions : SendLookup(c, s)
               \/ UNCHANGED vars
        PROVE  \A r \in Sessions : SendPart(r)'
    <3>1. UNCHANGED <<queue, posted, inProgress, writes, written, wire, next, job>>
      BY <2>9 DEF Initialize, RegisterHandler, SendLookup, vars, sendVars, callVars
    <3>2. \A r \in Sessions : next \in Nat
      BY <1>inv, MessageFacts
    <3> QED
      BY <3>1, <3>2, <1>inv, <2>1, OtherSession
  <2> QED
    BY <2>2, <2>4, <2>5, <2>6, <2>7, <2>8, <2>9 DEF Next
<1> QED
  BY <1>sc, <1>one DEF WireInv

(* It holds before the gateway is initialised.                             *)
LEMMA WireInitInv == Init => WireInv
<1> SUFFICES ASSUME Init PROVE WireInv
  OBVIOUS
<1>1. ReadInv
  BY ReadInitInv
<1>2. JobsInScope
  BY DEF Init, JobsInScope
<1>3. ASSUME NEW s \in Sessions PROVE SendPart(s)
  <2>1. \A t \in IoThreads : job[t].kind = "none"
    BY DEF Init, NoJob
  <2>2. /\ ~At({"set"}, s) /\ ~At({"clear"}, s) /\ ~At({"doWrite", "clear"}, s)
        /\ ~At({"set", "doWrite", "clear"}, s) /\ Pushed(s) = {}
    BY <2>1 DEF At, Pushed
  <2>3. /\ wire[s] = <<>> /\ queue[s] = <<>> /\ posted[s] = <<>> /\ writes[s] = {}
        /\ written[s] = {} /\ ~inProgress[s] /\ Len(<<>>) = 0
    BY DEF Init
  <2>4. Wired(s) = {} /\ InFlight(s) = {} /\ Range(queue[s]) = {} /\ Range(posted[s]) = {}
    BY <2>3 DEF Wired, InFlight, Range
  <2>5. InOrder(s)
    BY <2>2, <2>3, <2>4 DEF InOrder, Ordered, Precedes, Sorted
  <2>6. OneWrite(s)
    BY <2>2, <2>3 DEF OneWrite
  <2>7. Frames(s)
    <3>1. Even(0)
      BY DEF Even
    <3> QED
      BY <3>1, <2>3 DEF Frames
  <2> QED
    BY <2>5, <2>6, <2>7 DEF SendPart
<1> QED
  BY <1>1, <1>2, <1>3 DEF WireInv

(* The sending side of gateway.cpp with one io thread: a message is in one *)
(* stage of Send, DoWrite and the wire at a time, in order, and at most    *)
(* one write is in flight per session.                                     *)
THEOREM WireInvariant == Spec => []WireInv
BY WireInitInv, WireInvStep, PTL DEF Spec

(* What it says of the bytes on the wire.                                  *)
LEMMA WireInvImplies == WireInv => OneThreadWire
<1> SUFFICES ASSUME WireInv, OneThread, NEW s \in Sessions
             PROVE  /\ \A i \in 1..Len(wire[s]) :
                         /\ i % 2 = 1 => wire[s][i][2] = 1
                         /\ i % 2 = 0 => wire[s][i] = <<wire[s][i - 1][1], 2>>
                    /\ \A i, j \in 1..Len(wire[s]) : i < j => wire[s][i][1] <= wire[s][j][1]
  BY DEF OneThreadWire, FramesIntact
<1>1. Frames(s) /\ InOrder(s) /\ Len(wire[s]) \in Nat
  BY MessageFacts DEF WireInv, SendPart, ReadInv
<1>2. ASSUME NEW i \in 1..Len(wire[s])
      PROVE  (i % 2 = 1 => ~Even(i)) /\ (i % 2 = 0 => Even(i))
  BY <1>1 DEF Even
<1> QED
  BY <1>1, <1>2 DEF Frames, InOrder

(***************************************************************************)
(* With one io thread the peer of every session gets whole frames, in the  *)
(* order of their Sends, for any number of sessions and messages: send_in_ *)
(* progress_ is never seen unset while a write is in flight.               *)
(***************************************************************************)
THEOREM OneThreadWireWhole == Spec => []OneThreadWire
BY WireInvariant, WireInvImplies, PTL
=============================================================================
