------------------------------ MODULE Gateway -------------------------------
(***************************************************************************)
(* Gateway and its sessions (src/src/core/gateway.cpp): start-up, the      *)
(* accept loop, the read loop with the dispatch to handlers, and the send  *)
(* queue with at most one async_write in flight.                           *)
(*                                                                         *)
(* Completion handlers and posted lambdas run on the io threads.  Nothing  *)
(* ties the handlers of one session together (there is no strand), so with *)
(* several io threads two of them may run at once; a handler's accesses to *)
(* send_queue_ and send_in_progress_ are therefore separate steps.  With   *)
(* one io thread handlers run one after the other.                         *)
(*                                                                         *)
(* An async_write puts a frame on the wire in two parts, as the socket     *)
(* takes them.                                                             *)
(***************************************************************************)
EXTENDS Naturals, Sequences, FiniteSets

CONSTANTS Sessions,    \* connections a peer may open
          IoThreads,   \* threads that may run io.run()
          Callers,     \* threads that call Gateway::Send
          MsgTypes,
          None,
          MaxMessages, \* bound: messages sent; they are numbered
          Scopes       \* set-ups: the io threads, and how many of the
                       \* connections and messages are used with them

ASSUME GatewayAssumption ==
  /\ None \notin Sessions /\ IsFiniteSet(IoThreads)
  /\ MaxMessages \in Nat
  /\ Scopes \subseteq [threads : SUBSET IoThreads, sessions : SUBSET Sessions,
                       messages : 0..MaxMessages]

VARIABLES scope,       \* the set-up
          acceptor,    \* state of acceptor_ and its async_accept
          handlers,    \* handlers_: message types that have one
          sessions,    \* sessions_
          reading,     \* state of a session's read loop
          queue,       \* send_queue_
          inProgress,  \* send_in_progress_
          posted,      \* messages of the lambdas posted by Session::Send
          writes,      \* async_writes in flight: message and parts written
          written,     \* async_writes whose completion handler is due
          broken,      \* sessions on which a write failed
          wire,        \* what the peer receives: parts of frames
          job,         \* the handler an io thread runs
          found,       \* the session a caller looked up
          next         \* number of the next message

vars == <<scope, acceptor, handlers, sessions, reading, queue, inProgress, posted,
          writes, written, broken, wire, job, found, next>>

Messages == 1..MaxMessages
Outcomes == {"ok", "failed"}
NoJob    == [kind |-> "none", session |-> None, msg |-> 0]
Kinds    == {"none", "start", "accept", "receive", "handle",
             "push", "test", "set", "doWrite", "clear"}

TypeOK ==
  /\ scope      \in Scopes
  /\ acceptor   \in {"none", "failed", "waiting", "handling"}
  /\ handlers   \subseteq MsgTypes
  /\ sessions   \subseteq Sessions
  /\ reading    \in [Sessions -> {"unborn", "accepted", "header", "body", "received",
                                  "stopped"}]
  /\ queue      \in [Sessions -> Seq(Messages)]
  /\ inProgress \in [Sessions -> BOOLEAN]
  /\ posted     \in [Sessions -> Seq(Messages)]
  /\ writes     \in [Sessions -> SUBSET (Messages \X {0, 1})]
  /\ written    \in [Sessions -> SUBSET (Messages \X Outcomes)]
  /\ broken     \in SUBSET Sessions
  /\ wire       \in [Sessions -> Seq(Messages \X {1, 2})]
  /\ job        \in [IoThreads -> [kind : Kinds, session : Sessions \cup {None},
                                   msg : 0..MaxMessages]]
  /\ found      \in [Callers -> Sessions \cup {None}]
  /\ next       \in 1..(MaxMessages + 1)

Init ==
  /\ scope      \in Scopes
  /\ acceptor   = "none"
  /\ handlers   = {}
  /\ sessions   = {}
  /\ reading    = [s \in Sessions |-> "unborn"]
  /\ queue      = [s \in Sessions |-> <<>>]
  /\ inProgress = [s \in Sessions |-> FALSE]
  /\ posted     = [s \in Sessions |-> <<>>]
  /\ writes     = [s \in Sessions |-> {}]
  /\ written    = [s \in Sessions |-> {}]
  /\ broken     = {}
  /\ wire       = [s \in Sessions |-> <<>>]
  /\ job        = [t \in IoThreads |-> NoJob]
  /\ found      = [c \in Callers |-> None]
  /\ next       = 1

sendVars   == <<queue, inProgress, posted, writes, written, broken, wire>>
callVars   == <<found, next>>
listenVars == <<scope, acceptor, handlers>>
readVars   == <<listenVars, sessions, reading>>

\* The handler on thread t begins, goes on, or ends.
Begin(t, kind, s) == job' = [job EXCEPT ![t] = [kind |-> kind, session |-> s, msg |-> 0]]
Goto(t, kind)     == job' = [job EXCEPT ![t].kind = kind]
End(t)            == job' = [job EXCEPT ![t] = NoJob]
-----------------------------------------------------------------------------
\* The address is bound and listened on and DoAccept starts the first accept, or
\* Initialize returns -1 and main gives up.
Initialize(ok) ==
  /\ acceptor = "none"
  /\ acceptor' = IF ok THEN "waiting" ELSE "failed"
  /\ UNCHANGED <<scope, handlers, sessions, reading, sendVars, job, callVars>>

RegisterHandler(type) ==
  /\ type \notin handlers
  /\ handlers' = handlers \cup {type}
  /\ UNCHANGED <<scope, acceptor, sessions, reading, sendVars, job, callVars>>

\* The accept handler: the session enters the map before its reads start.
Accept(t, s) ==
  /\ job[t] = NoJob
  /\ acceptor = "waiting"
  /\ reading[s] = "unborn"
  /\ acceptor' = "handling"
  /\ sessions' = sessions \cup {s}
  /\ reading'  = [reading EXCEPT ![s] = "accepted"]
  /\ Begin(t, "start", s)
  /\ UNCHANGED <<scope, handlers, sendVars, callVars>>

\* session->Start().
Start(t) ==
  /\ job[t].kind = "start"
  /\ reading' = [reading EXCEPT ![job[t].session] = "header"]
  /\ Begin(t, "accept", None)
  /\ UNCHANGED <<listenVars, sessions, sendVars, callVars>>

\* Mutant: an error ends the accept loop.
AcceptStops(t) ==
  /\ job[t] = NoJob
  /\ acceptor = "waiting"
  /\ acceptor' = "handling"
  /\ UNCHANGED <<scope, handlers, sessions, reading, sendVars, job, callVars>>

\* The accept failed: there is no session.
AcceptFails(t) ==
  /\ job[t] = NoJob
  /\ acceptor = "waiting"
  /\ acceptor' = "handling"
  /\ Begin(t, "accept", None)
  /\ UNCHANGED <<scope, handlers, sessions, reading, sendVars, callVars>>

\* DoAccept at the end of either.
DoAccept(t) ==
  /\ job[t].kind = "accept"
  /\ acceptor' = "waiting"
  /\ End(t)
  /\ UNCHANGED <<scope, handlers, sessions, reading, sendVars, callVars>>
-----------------------------------------------------------------------------
\* A header is read; the body follows.
ReadHeader(t, s) ==
  /\ job[t] = NoJob
  /\ reading[s] = "header"
  /\ reading' = [reading EXCEPT ![s] = "body"]
  /\ UNCHANGED <<listenVars, sessions, sendVars, job, callVars>>

\* Mutant: the next header is asked for before the message is handled.
ReadBodyAhead(t, s) ==
  /\ job[t] = NoJob
  /\ reading[s] = "body"
  /\ reading' = [reading EXCEPT ![s] = "header"]
  /\ Begin(t, "receive", s)
  /\ UNCHANGED <<listenVars, sessions, sendVars, callVars>>

\* A body is read; its handler calls OnReceive with body_buf_.
ReadBody(t, s) ==
  /\ job[t] = NoJob
  /\ reading[s] = "body"
  /\ reading' = [reading EXCEPT ![s] = "received"]
  /\ Begin(t, "receive", s)
  /\ UNCHANGED <<listenVars, sessions, sendVars, callVars>>

\* OnReceive copies the handler of the message's type under handlers_mutex_ and
\* calls it, if there is one.  (Its test of the size never fails: a header below
\* four has closed the session.)
OnReceive(t, type) ==
  /\ job[t].kind = "receive"
  /\ type \in handlers
  /\ Goto(t, "handle")
  /\ UNCHANGED <<readVars, sendVars, callVars>>

\* OnReceive is back, from the handler or because the message's type has none:
\* DoReadHeader.
Received(t) ==
  /\ job[t].kind \in {"receive", "handle"}
  /\ reading' = [reading EXCEPT ![job[t].session] = "header"]
  /\ End(t)
  /\ UNCHANGED <<listenVars, sessions, sendVars, callVars>>

\* Mutant: the read loop ends without OnSessionClosed.
ReadStops(t, s) ==
  /\ job[t] = NoJob
  /\ reading[s] \in {"header", "body"}
  /\ reading' = [reading EXCEPT ![s] = "stopped"]
  /\ UNCHANGED <<listenVars, sessions, sendVars, job, callVars>>

\* A read fails, or the length is below four: OnSessionClosed, no further read.
ReadFails(t, s) ==
  /\ job[t] = NoJob
  /\ reading[s] \in {"header", "body"}
  /\ reading'  = [reading EXCEPT ![s] = "stopped"]
  /\ sessions' = sessions \ {s}
  /\ UNCHANGED <<listenVars, sendVars, job, callVars>>
-----------------------------------------------------------------------------
\* Gateway::Send: the lookup under sessions_mutex_ ...
SendLookup(c, s) ==
  /\ found[c] = None
  /\ next <= scope.messages
  /\ s \in sessions
  /\ found' = [found EXCEPT ![c] = s]
  /\ UNCHANGED <<readVars, sendVars, job, next>>

\* ... and Session::Send, which posts a lambda with the message.
SendPost(c) ==
  /\ found[c] # None
  /\ next <= scope.messages
  /\ posted' = [posted EXCEPT ![found[c]] = Append(@, next)]
  /\ next'   = next + 1
  /\ found'  = [found EXCEPT ![c] = None]
  /\ UNCHANGED <<readVars, queue, inProgress, writes, written, broken, wire, job>>

\* An io thread takes the next lambda of the session.
RunPosted(t, s) ==
  /\ job[t] = NoJob
  /\ posted[s] # <<>>
  /\ job'    = [job EXCEPT ![t] = [kind |-> "push", session |-> s, msg |-> Head(posted[s])]]
  /\ posted' = [posted EXCEPT ![s] = Tail(@)]
  /\ UNCHANGED <<readVars, queue, inProgress, writes, written, broken, wire, callVars>>

PushBack(q, m) == Append(q, m)

\* send_queue_.push_back(msg).
Push(t) ==
  /\ job[t].kind = "push"
  /\ queue' = [queue EXCEPT ![job[t].session] = PushBack(@, job[t].msg)]
  /\ Goto(t, "test")
  /\ UNCHANGED <<readVars, inProgress, posted, writes, written, broken, wire, callVars>>

\* Mutant: every lambda starts a write.
TestNothing(t) ==
  /\ job[t].kind = "test"
  /\ Goto(t, "set")
  /\ UNCHANGED <<readVars, sendVars, callVars>>

\* if (!send_in_progress_): a write in flight will come back for the message.
Test(t) ==
  /\ job[t].kind = "test"
  /\ IF inProgress[job[t].session] THEN End(t) ELSE Goto(t, "set")
  /\ UNCHANGED <<readVars, sendVars, callVars>>

\* send_in_progress_ = true, and DoWrite is called.
Set(t) ==
  /\ job[t].kind = "set"
  /\ inProgress' = [inProgress EXCEPT ![job[t].session] = TRUE]
  /\ Goto(t, "doWrite")
  /\ UNCHANGED <<readVars, queue, posted, writes, written, broken, wire, callVars>>

\* Mutant: the handler's capture takes the frame before its buffer is named, so
\* the write is of a moved-from frame.
DoWriteMovedFrom(t) ==
  LET s == job[t].session IN
  /\ job[t].kind = "doWrite"
  /\ IF queue[s] = <<>>
     THEN Goto(t, "clear") /\ UNCHANGED <<queue, writes>>
     ELSE /\ queue'  = [queue EXCEPT ![s] = Tail(@)]
          /\ writes' = [writes EXCEPT ![s] = @ \cup {<<0, 0>>}]
          /\ End(t)
  /\ UNCHANGED <<readVars, inProgress, posted, written, broken, wire, callVars>>

\* DoWrite: the oldest message is taken and its frame handed to async_write.
DoWrite(t) ==
  LET s == job[t].session IN
  /\ job[t].kind = "doWrite"
  /\ IF queue[s] = <<>>
     THEN Goto(t, "clear") /\ UNCHANGED <<queue, writes>>
     ELSE /\ queue'  = [queue EXCEPT ![s] = Tail(@)]
          /\ writes' = [writes EXCEPT ![s] = @ \cup {<<Head(queue[s]), 0>>}]
          /\ End(t)
  /\ UNCHANGED <<readVars, inProgress, posted, written, broken, wire, callVars>>

\* Mutant: the flag stays set once the queue has run empty.
ClearNothing(t) ==
  /\ job[t].kind = "clear"
  /\ End(t)
  /\ UNCHANGED <<readVars, sendVars, callVars>>

\* DoWrite with an empty queue: send_in_progress_ = false.
Clear(t) ==
  /\ job[t].kind = "clear"
  /\ inProgress' = [inProgress EXCEPT ![job[t].session] = FALSE]
  /\ End(t)
  /\ UNCHANGED <<readVars, queue, posted, writes, written, broken, wire, callVars>>
-----------------------------------------------------------------------------
\* The socket takes the next part of a frame (asio and the kernel, external).
WritePart(s, w) ==
  /\ w \in writes[s]
  /\ wire' = [wire EXCEPT ![s] = Append(@, <<w[1], w[2] + 1>>)]
  /\ IF w[2] = 0
     THEN /\ writes' = [writes EXCEPT ![s] = (@ \ {w}) \cup {<<w[1], 1>>}]
          /\ UNCHANGED written
     ELSE /\ writes'  = [writes EXCEPT ![s] = @ \ {w}]
          /\ written' = [written EXCEPT ![s] = @ \cup {<<w[1], "ok">>}]
  /\ UNCHANGED <<readVars, queue, inProgress, posted, broken, job, callVars>>

\* The write fails.
WriteBreaks(s, w) ==
  /\ w \in writes[s]
  /\ writes'  = [writes EXCEPT ![s] = @ \ {w}]
  /\ written' = [written EXCEPT ![s] = @ \cup {<<w[1], "failed">>}]
  /\ broken'  = broken \cup {s}
  /\ UNCHANGED <<readVars, queue, inProgress, posted, wire, job, callVars>>

\* The completion handler: DoWrite again, or HandleError, which takes the
\* session out of the map and leaves send_in_progress_ set.
WriteCompletes(t, s, w) ==
  /\ job[t] = NoJob
  /\ w \in written[s]
  /\ written' = [written EXCEPT ![s] = @ \ {w}]
  /\ IF w[2] = "ok"
     THEN /\ job' = [job EXCEPT ![t] = [kind |-> "doWrite", session |-> s, msg |-> 0]]
          /\ UNCHANGED sessions
     ELSE /\ sessions' = sessions \ {s}
          /\ UNCHANGED job
  /\ UNCHANGED <<listenVars, reading, queue, inProgress, posted, writes, broken, wire,
                 callVars>>

\* What a thread does inside a handler.
HandlerStep(t) ==
  \/ Start(t) \/ DoAccept(t) \/ Received(t) \/ \E type \in MsgTypes : OnReceive(t, type)
  \/ Push(t) \/ Test(t) \/ Set(t) \/ DoWrite(t) \/ Clear(t)

\* A handler of session s that writes is picked up.
StartSendHandler(s) ==
  \E t \in scope.threads :
    \/ RunPosted(t, s)
    \/ \E w \in Messages \X Outcomes : WriteCompletes(t, s, w)

\* A handler of the accept loop or of a read is picked up.
StartReadHandler(t) ==
  \/ AcceptFails(t)
  \/ \E s \in scope.sessions :
       Accept(t, s) \/ ReadHeader(t, s) \/ ReadBody(t, s) \/ ReadFails(t, s)

Next ==
  \/ \E ok \in BOOLEAN : Initialize(ok)
  \/ \E type \in MsgTypes : RegisterHandler(type)
  \/ \E t \in scope.threads : HandlerStep(t) \/ StartReadHandler(t)
  \/ \E s \in Sessions : StartSendHandler(s)
  \/ \E c \in Callers : SendPost(c) \/ \E s \in Sessions : SendLookup(c, s)
  \/ \E s \in Sessions, w \in Messages \X {0, 1} : WritePart(s, w) \/ WriteBreaks(s, w)

Spec == Init /\ [][Next]_vars

(***************************************************************************)
(* Fairness: handlers run on; ready handlers get a thread in FIFO order    *)
(* (strong, because reads compete for it); the socket takes or refuses     *)
(* what is written.                                                        *)
(***************************************************************************)
FairSpec ==
  /\ Spec
  /\ \A t \in IoThreads : WF_vars(HandlerStep(t))
  /\ \A s \in Sessions :
       /\ SF_vars(StartSendHandler(s))
       /\ WF_vars(\E w \in Messages \X {0, 1} : WritePart(s, w) \/ WriteBreaks(s, w))
-----------------------------------------------------------------------------
(***************************************************************************)
(* "Messages are framed as: [length][msg_type][payload]" (gateway.h:18):   *)
(* on the wire a frame is followed by the next frame and never cut by one. *)
(***************************************************************************)
FramesIntact ==
  \A s \in Sessions : \A i \in 1..Len(wire[s]) :
    /\ i % 2 = 1 => wire[s][i][2] = 1
    /\ i % 2 = 0 => wire[s][i] = <<wire[s][i - 1][1], 2>>

\* thread_num is 1.
OneThread == Cardinality(scope.threads) = 1

(***************************************************************************)
(* With one io thread the peer gets whole frames in the order of their     *)
(* Sends, whatever overlaps: posted lambdas, writes and their completions. *)
(***************************************************************************)
OneThreadWire ==
  OneThread =>
    /\ FramesIntact
    /\ \A s \in Sessions : \A i, j \in 1..Len(wire[s]) :
         i < j => wire[s][i][1] <= wire[s][j][1]

(***************************************************************************)
(* Liveness: a message that was posted is written, or the session breaks   *)
(* (one io thread): it is not left in the queue by a write that has just   *)
(* found the queue empty.                                                  *)
(***************************************************************************)
Delivered ==
  \A s \in Sessions, m \in Messages :
    (OneThread /\ \E i \in DOMAIN posted[s] : posted[s][i] = m)
      ~> (s \in broken \/ \E i \in DOMAIN wire[s] : wire[s][i] = <<m, 2>>)

(***************************************************************************)
(* No dead session stays in sessions_: a session in the map has a read     *)
(* pending, or a handler that will start one, whose failure will take it   *)
(* out, however accepts, reads, writes and their errors are ordered on any *)
(* number of threads.                                                      *)
(***************************************************************************)
NoDeadSessionInMap ==
  \A s \in sessions :
    \/ reading[s] \in {"header", "body"}
    \/ \E t \in IoThreads : /\ job[t].session = s
                            /\ job[t].kind \in {"start", "receive", "handle"}

(***************************************************************************)
(* body_buf_ belongs to the handler while it runs: the handler gets a      *)
(* reference and not a copy, and no other thread reads the next body into  *)
(* it or handles a message of the same session.                            *)
(***************************************************************************)
BodyStable ==
  \A t \in IoThreads : job[t].kind \in {"receive", "handle"} =>
    /\ reading[job[t].session] # "body"
    /\ \A u \in IoThreads \ {t} :
         ~(job[u].kind \in {"receive", "handle"} /\ job[u].session = job[t].session)

(***************************************************************************)
(* Once Initialize succeeded the gateway never stops accepting: an accept  *)
(* is outstanding, or just one handler runs that will start it again, also *)
(* when an accept fails.                                                   *)
(***************************************************************************)
AcceptLoopAlive ==
  acceptor \in {"waiting", "handling"} =>
    Cardinality({t \in IoThreads : job[t].kind \in {"start", "accept"}})
      = IF acceptor = "waiting" THEN 0 ELSE 1
=============================================================================
