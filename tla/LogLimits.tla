----------------------------- MODULE LogLimits ------------------------------
(***************************************************************************)
(* The call-site limits of src/src/core/logging.h: LOG_EVERY_MS, which     *)
(* reads the clock, loads the last stamp and exchanges it with no lock     *)
(* between the three, and the counters of LOG_EVERY_N and LOG_FIRST_N.     *)
(* One call site of each, which any number of threads run through;         *)
(* LOG_EVERY_SEC is LOG_EVERY_MS and LOG_ONCE is LOG_FIRST_N with n = 1.   *)
(***************************************************************************)
EXTENDS Integers, Sequences, FiniteSets

CONSTANTS LogThreads,
          Ms,         \* ms of LOG_EVERY_MS
          N,          \* n of LOG_EVERY_N and LOG_FIRST_N
          MaxTime,    \* bound: milliseconds of the steady clock
          MaxCalls    \* bound: calls of each counting site

ASSUME LogLimitsAssumption ==
  /\ IsFiniteSet(LogThreads)
  /\ Ms \in Nat \ {0} /\ N \in Nat \ {0} /\ MaxTime \in Nat /\ MaxCalls \in Nat

VARIABLES clock,      \* the steady clock, in ms
          last,       \* log_every_ms_last
          call,       \* where a thread is: at a site, with its locals
          counter,    \* log_every_n_counter and log_first_n_counter
          logged,     \* messages of each counting site
          admitted,   \* history: messages of LOG_EVERY_MS, with stamp and time
          silenced    \* history: clock readings of the calls that another's
                      \* message, and not the exchange by itself, suppressed

limitsVars == <<clock, last, call, counter, logged, admitted, silenced>>

Sites   == {"every_n", "first_n"}
AtRest  == [op |-> "rest", value |-> 0, seen |-> 0]

LimitsTypeOK ==
  /\ clock    \in 0..MaxTime
  /\ last     \in 0..MaxTime
  /\ call     \in [LogThreads -> [op : {"rest", "timed", "loaded"} \cup Sites,
                                  value : Nat, seen : 0..MaxTime]]
  /\ counter  \in [Sites -> 0..MaxCalls]
  /\ logged   \in [Sites -> Nat]
  /\ admitted \in Seq([stamp : 0..MaxTime, time : 0..MaxTime])
  /\ silenced \subseteq 0..MaxTime

LimitsInit ==
  /\ clock    = 0
  /\ last     = 0
  /\ call     = [t \in LogThreads |-> AtRest]
  /\ counter  = [s \in Sites |-> 0]
  /\ logged   = [s \in Sites |-> 0]
  /\ admitted = <<>>
  /\ silenced = {}

Rest(t) == call' = [call EXCEPT ![t] = AtRest]
-----------------------------------------------------------------------------
ClockTicks ==
  /\ clock < MaxTime
  /\ clock' = clock + 1
  /\ UNCHANGED <<last, call, counter, logged, admitted, silenced>>

\* LOG_EVERY_MS: now_ms is read ...
ReadClock(t) ==
  /\ call[t] = AtRest
  /\ call' = [call EXCEPT ![t] = [op |-> "timed", value |-> clock, seen |-> 0]]
  /\ UNCHANGED <<clock, last, counter, logged, admitted, silenced>>

\* ... then last is loaded ...
LoadLast(t) ==
  /\ call[t].op = "timed"
  /\ call' = [call EXCEPT ![t].op = "loaded", ![t].seen = last]
  /\ UNCHANGED <<clock, last, counter, logged, admitted, silenced>>

Due(t) == call[t].value - call[t].seen >= Ms

\* Mutant: a plain store in place of the exchange.
StoreWins(t) == TRUE

\* compare_exchange_weak finds the value that was loaded.
ExchangeWins(t) == last = call[t].seen

\* ... and exchanged for now_ms if enough time has passed: the message is logged.
ExchangeLast(t) ==
  /\ call[t].op = "loaded"
  /\ Due(t) /\ ExchangeWins(t)
  /\ last'     = call[t].value
  /\ admitted' = Append(admitted, [stamp |-> call[t].value, time |-> clock])
  /\ Rest(t)
  /\ UNCHANGED <<clock, counter, logged, silenced>>

\* Mutant: a call that is too early moves last all the same.
SuppressStamping(t) ==
  /\ call[t].op = "loaded"
  /\ ~(Due(t) /\ ExchangeWins(t))
  /\ last'     = call[t].value
  /\ silenced' = silenced \cup {call[t].value}
  /\ Rest(t)
  /\ UNCHANGED <<clock, counter, logged, admitted>>

\* Too early, or another thread was faster: nothing is logged.
Suppress(t) ==
  /\ call[t].op = "loaded"
  /\ ~(Due(t) /\ ExchangeWins(t))
  /\ silenced' = silenced \cup {call[t].value}
  /\ Rest(t)
  /\ UNCHANGED <<clock, last, counter, logged, admitted>>

\* The weak exchange may fail for no reason; it is not tried again.
ExchangeFailsSpuriously(t) ==
  /\ call[t].op = "loaded"
  /\ Due(t)
  /\ Rest(t)
  /\ UNCHANGED <<clock, last, counter, logged, admitted, silenced>>
-----------------------------------------------------------------------------
\* LOG_EVERY_N and LOG_FIRST_N: count is fetched and added to in one step ...
FetchAdd(t, s) ==
  /\ call[t] = AtRest
  /\ counter[s] < MaxCalls
  /\ counter' = [counter EXCEPT ![s] = @ + 1]
  /\ call'    = [call EXCEPT ![t] = [op |-> s, value |-> counter[s], seen |-> 0]]
  /\ UNCHANGED <<clock, last, logged, admitted, silenced>>

\* Mutant: the number itself is admitted too.
AdmitsOneMore(s, count) == IF s = "every_n" THEN count % N = 0 ELSE count <= N

Admits(s, count) == IF s = "every_n" THEN count % N = 0 ELSE count < N

\* ... and decides about the message.
Decide(t) ==
  /\ call[t].op \in Sites
  /\ logged' = [logged EXCEPT ![call[t].op] = @ + IF Admits(call[t].op, call[t].value)
                                                  THEN 1 ELSE 0]
  /\ Rest(t)
  /\ UNCHANGED <<clock, last, counter, admitted, silenced>>

LimitsNext ==
  \/ ClockTicks
  \/ \E t \in LogThreads :
       \/ ReadClock(t) \/ LoadLast(t)
       \/ ExchangeLast(t) \/ Suppress(t) \/ ExchangeFailsSpuriously(t)
       \/ Decide(t) \/ \E s \in Sites : FetchAdd(t, s)
-----------------------------------------------------------------------------
(***************************************************************************)
(* "Log at most once every N milliseconds." (logging.h:53): the clock      *)
(* readings of two logged messages are at least ms apart, however stale    *)
(* the reading or the loaded stamp of a thread has become by the time of   *)
(* its exchange.                                                           *)
(***************************************************************************)
Spaced ==
  \A i, j \in 1..Len(admitted) : i < j => admitted[j].stamp - admitted[i].stamp >= Ms

(***************************************************************************)
(* A call is suppressed only because of a message that was logged less     *)
(* than ms before it, or since: threads that race cannot suppress each     *)
(* other's messages with none of them logged.  Within the first ms after   *)
(* the clock's epoch nothing is logged, as last starts at 0.               *)
(***************************************************************************)
SilenceCovered ==
  \A now \in silenced :
    now < Ms \/ \E i \in 1..Len(admitted) : now - admitted[i].time < Ms

\* Calls of a site that are counted and about to log.
About(s) == Cardinality({t \in LogThreads : call[t].op = s /\ Admits(s, call[t].value)})

(***************************************************************************)
(* The sites log, in whatever order their threads go on, exactly one       *)
(* message per n calls begun, and the first n.                             *)
(***************************************************************************)
QuotaExact ==
  /\ logged["every_n"] + About("every_n") = (counter["every_n"] + N - 1) \div N
  /\ logged["first_n"] + About("first_n") = IF counter["first_n"] < N
                                            THEN counter["first_n"] ELSE N
=============================================================================
