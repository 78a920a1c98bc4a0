-------------------------- MODULE ServicesProofs ---------------------------
(***************************************************************************)
(* The call-site limits of logging, the schema manager and the rotation of *)
(* log files, with any number of threads, intervals, versions and files.   *)
(***************************************************************************)
EXTENDS Services, FiniteSetTheorems, TLAPS

\* The last stamp is the newest one of those logged, 0 before the first.
LastIsNewest ==
  /\ \A i \in 1..Len(admitted) : admitted[i].stamp <= last
  /\ last = 0 \/ \E i \in 1..Len(admitted) : admitted[i].stamp = last

\* A message is logged no earlier than its clock reading.
LoggedAfterReading == \A i \in 1..Len(admitted) : admitted[i].stamp <= admitted[i].time

\* A thread's clock reading is not in the future.
ReadingsPast == \A t \in LogThreads : call[t].op \in {"timed", "loaded"} => call[t].value <= clock

\* What a thread loaded was a stamp, or 0.
SeenIsStamp ==
  \A t \in LogThreads : call[t].op = "loaded" =>
    call[t].seen = 0 \/ \E i \in 1..Len(admitted) : admitted[i].stamp = call[t].seen

\* If the stamp has moved on since, a message was logged after the reading.
Overtaken ==
  \A t \in LogThreads : call[t].op = "loaded" /\ last # call[t].seen =>
    \E i \in 1..Len(admitted) : admitted[i].time >= call[t].value

LimitsInv ==
  /\ LimitsTypeOK
  /\ LastIsNewest /\ LoggedAfterReading /\ ReadingsPast /\ SeenIsStamp /\ Overtaken
  /\ Spaced /\ SilenceCovered

(***************************************************************************)
(* What one more message does to the sequence of messages.                 *)
(***************************************************************************)
LEMMA AppendFacts ==
  ASSUME NEW S, NEW s \in Seq(S), NEW e \in S
  PROVE  /\ Append(s, e) \in Seq(S)
         /\ Len(Append(s, e)) = Len(s) + 1
         /\ \A i \in 1..Len(s) : i \in 1..(Len(s) + 1) /\ Append(s, e)[i] = s[i]
         /\ Append(s, e)[Len(s) + 1] = e
         /\ \A i \in 1..(Len(s) + 1) : i = Len(s) + 1 \/ i \in 1..Len(s)
         /\ Len(s) + 1 \in 1..(Len(s) + 1)
OBVIOUS

(***************************************************************************)
(* The times of the messages logged are natural numbers.                   *)
(***************************************************************************)
LEMMA AdmittedTimes ==
  ASSUME LimitsTypeOK
  PROVE  \A i \in 1..Len(admitted) : admitted[i].stamp \in Nat /\ admitted[i].time \in Nat
<1> DEFINE Entry == [stamp : 0..MaxTime, time : 0..MaxTime]
<1>1. \A i \in 1..Len(admitted) : admitted[i] \in Entry
  <2>1. admitted \in Seq(Entry)
    BY DEF LimitsTypeOK
  <2> HIDE DEF Entry
  <2> QED
    BY <2>1
<1>2. \A m \in Entry : m.stamp \in Nat /\ m.time \in Nat
  BY LogLimitsAssumption
<1> HIDE DEF Entry
<1> QED
  BY <1>1, <1>2

(***************************************************************************)
(* The state before the first call satisfies the invariant.                *)
(***************************************************************************)
LEMMA LimitsInitInv == LimitsInit => LimitsInv
<1> SUFFICES ASSUME LimitsInit PROVE LimitsInv
  OBVIOUS
<1> USE LogLimitsAssumption
<1>1. LimitsTypeOK
  BY DEF LimitsInit, LimitsTypeOK, AtRest, Sites
<1>2. Len(admitted) = 0
  BY DEF LimitsInit
<1>3. \A t \in LogThreads : call[t].op = "rest"
  BY DEF LimitsInit, AtRest
<1> QED
  BY <1>1, <1>2, <1>3 DEF LimitsInit, LimitsInv, LastIsNewest, LoggedAfterReading,
     ReadingsPast, SeenIsStamp, Overtaken, Spaced, SilenceCovered

(***************************************************************************)
(* Steps that leave the stamps alone and start no comparison keep it.      *)
(***************************************************************************)
LEMMA QuietStep ==
  ASSUME LimitsInv, LimitsTypeOK', UNCHANGED <<last, admitted, silenced>>,
         clock' >= clock,
         \A t \in LogThreads :
           /\ call'[t].op = "loaded" => call[t].op = "loaded" /\ call'[t] = call[t]
           /\ call'[t].op = "timed" => call'[t].value <= clock'
                \/ (call[t].op = "timed" /\ call'[t] = call[t])
  PROVE  LimitsInv'
<1>1. clock \in Nat /\ clock' \in Nat
  BY LogLimitsAssumption DEF LimitsInv, LimitsTypeOK
<1>2. \A t \in LogThreads : call[t].value \in Nat /\ call'[t].value \in Nat
  BY DEF LimitsInv, LimitsTypeOK
<1>3. ReadingsPast'
  BY <1>1, <1>2 DEF LimitsInv, ReadingsPast
<1>4. SeenIsStamp' /\ Overtaken'
  BY DEF LimitsInv, SeenIsStamp, Overtaken
<1>5. (LastIsNewest /\ LoggedAfterReading /\ Spaced /\ SilenceCovered)'
  BY DEF LimitsInv, LastIsNewest, LoggedAfterReading, Spaced, SilenceCovered
<1> QED
  BY <1>3, <1>4, <1>5 DEF LimitsInv

(***************************************************************************)
(* Loading the last stamp: what is loaded is a stamp, and still the last.  *)
(***************************************************************************)
LEMMA LoadLastInv ==
  ASSUME LimitsInv, NEW t \in LogThreads, LoadLast(t)
  PROVE  LimitsInv'
<1> USE LogLimitsAssumption
<1>1. /\ call' = [call EXCEPT ![t] = [call[t] EXCEPT !.op = "loaded", !.seen = last]]
      /\ call'[t].op = "loaded" /\ call'[t].seen = last /\ call'[t].value = call[t].value
      /\ \A u \in LogThreads : u # t => call'[u] = call[u]
  BY DEF LoadLast, LimitsInv, LimitsTypeOK
<1>2. UNCHANGED <<clock, last, counter, logged, admitted, silenced>>
  BY DEF LoadLast
<1>3. LimitsTypeOK'
  BY <1>1, <1>2 DEF LimitsInv, LimitsTypeOK
<1>4. ReadingsPast'
  <2>1. call[t].op = "timed" /\ ReadingsPast
    BY DEF LoadLast, LimitsInv
  <2> QED
    BY <1>1, <1>2, <2>1 DEF ReadingsPast
<1>5. SeenIsStamp'
  BY <1>1, <1>2 DEF LimitsInv, SeenIsStamp, LastIsNewest
<1>6. Overtaken'
  BY <1>1, <1>2 DEF LimitsInv, Overtaken
<1>7. (LastIsNewest /\ LoggedAfterReading /\ Spaced /\ SilenceCovered)'
  BY <1>2 DEF LimitsInv, LastIsNewest, LoggedAfterReading, Spaced, SilenceCovered
<1> QED
  BY <1>3, <1>4, <1>5, <1>6, <1>7 DEF LimitsInv

(***************************************************************************)
(* The exchange: its stamp is ms past the newest, and every thread still   *)
(* comparing is overtaken by a message at the present time.                *)
(***************************************************************************)
LEMMA ExchangeLastInv ==
  ASSUME LimitsInv, NEW t \in LogThreads, ExchangeLast(t)
  PROVE  LimitsInv'
<1> USE LogLimitsAssumption
<1> DEFINE e == [stamp |-> call[t].value, time |-> clock]
           n == Len(admitted)
           Entry == [stamp : 0..MaxTime, time : 0..MaxTime]
<1>1. /\ clock \in 0..MaxTime /\ last \in 0..MaxTime /\ admitted \in Seq(Entry)
      /\ call[t].op = "loaded" /\ call[t].seen = last /\ call[t].value - last >= Ms
      /\ call[t].value \in Nat /\ call[t].value <= clock
  BY DEF ExchangeLast, Due, ExchangeWins, LimitsInv, LimitsTypeOK, ReadingsPast
<1>2. e \in Entry /\ e.stamp = call[t].value /\ e.time = clock
  BY <1>1
<1>3. /\ last' = call[t].value /\ admitted' = Append(admitted, e)
      /\ UNCHANGED <<clock, counter, logged, silenced>>
  BY DEF ExchangeLast
<1>4. /\ call'[t].op = "rest"
      /\ \A u \in LogThreads : u # t => call'[u] = call[u]
  BY DEF ExchangeLast, Rest, AtRest, LimitsInv, LimitsTypeOK
<1>5. /\ admitted' \in Seq(Entry) /\ Len(admitted') = n + 1 /\ n \in Nat
      /\ \A i \in 1..n : i \in 1..(n + 1) /\ admitted'[i] = admitted[i]
      /\ admitted'[n + 1] = e
      /\ \A i \in 1..(n + 1) : i = n + 1 \/ i \in 1..n
      /\ n + 1 \in 1..(n + 1)
  <2> HIDE DEF e, Entry
  <2> QED
    BY <1>1, <1>2, <1>3, AppendFacts
<1>6. \A i \in 1..n : admitted[i].stamp \in Nat /\ admitted[i].time \in Nat
  BY AdmittedTimes DEF LimitsInv
<1> HIDE DEF e, n
<1>7. LimitsTypeOK'
  <2>1. call' \in [LogThreads -> [op : {"rest", "timed", "loaded"} \cup Sites,
                                  value : Nat, seen : 0..MaxTime]]
    BY DEF ExchangeLast, Rest, AtRest, LimitsInv, LimitsTypeOK, Sites
  <2>2. last' \in 0..MaxTime
    BY <1>1, <1>3
  <2> QED
    BY <1>3, <1>5, <2>1, <2>2 DEF LimitsInv, LimitsTypeOK
<1>8. LastIsNewest'
  <2>0. call[t].value \in Nat /\ last \in Nat /\ last <= call[t].value
    BY <1>1
  <2>1. \A i \in 1..n : admitted[i].stamp <= call[t].value
    BY <2>0, <1>6 DEF LimitsInv, LastIsNewest, n
  <2>2. \A i \in 1..(n + 1) : admitted'[i].stamp <= call[t].value
    <3> SUFFICES ASSUME NEW i \in 1..(n + 1) PROVE admitted'[i].stamp <= call[t].value
      OBVIOUS
    <3>1. CASE i \in 1..n
      BY <3>1, <2>1, <1>5
    <3>2. CASE i = n + 1
      BY <3>2, <2>0, <1>2, <1>5
    <3> QED
      BY <3>1, <3>2, <1>5
  <2>3. \E i \in 1..(n + 1) : admitted'[i].stamp = call[t].value
    BY <1>2, <1>5
  <2> QED
    BY <2>2, <2>3, <1>3, <1>5 DEF LastIsNewest
<1>9. LoggedAfterReading'
  BY <1>1, <1>2, <1>5 DEF LimitsInv, LoggedAfterReading, n
<1>10. ReadingsPast'
  BY <1>3, <1>4 DEF LimitsInv, ReadingsPast
<1>11. SeenIsStamp'
  BY <1>4, <1>5 DEF LimitsInv, SeenIsStamp, n
<1>12. Overtaken'
  BY <1>2, <1>3, <1>4, <1>5 DEF LimitsInv, ReadingsPast, Overtaken
<1>13. Spaced'
  <2> SUFFICES ASSUME NEW i \in 1..(n + 1), NEW j \in 1..(n + 1), i < j
               PROVE  admitted'[j].stamp - admitted'[i].stamp >= Ms
    BY <1>5 DEF Spaced
  <2>1. i \in 1..n
    BY <1>5
  <2>2. admitted'[i] = admitted[i] /\ admitted[i].stamp <= last /\ admitted[i].stamp \in Nat
    BY <2>1, <1>5, <1>6 DEF LimitsInv, LastIsNewest, n
  <2>3. CASE j = n + 1
    <3>1. admitted'[j].stamp = call[t].value
      BY <2>3, <1>2, <1>5
    <3>2. last \in Nat /\ call[t].value \in Nat /\ call[t].value - last >= Ms /\ Ms \in Nat
      BY <1>1
    <3>3. admitted[i].stamp \in Nat /\ admitted[i].stamp <= last
      BY <2>2
    <3>4. call[t].value - admitted[i].stamp >= Ms
      BY <3>2, <3>3
    <3> QED
      BY <2>2, <3>1, <3>4
  <2>4. CASE j \in 1..n
    BY <2>1, <2>2, <2>4, <1>5 DEF LimitsInv, Spaced, n
  <2> QED
    BY <2>3, <2>4, <1>5
<1>14. SilenceCovered'
  BY <1>3, <1>5 DEF LimitsInv, SilenceCovered, n
<1> QED
  BY <1>7, <1>8, <1>9, <1>10, <1>11, <1>12, <1>13, <1>14 DEF LimitsInv

(***************************************************************************)
(* A suppressed call was too early for the stamp it loaded, or overtaken.  *)
(***************************************************************************)
LEMMA SuppressInv ==
  ASSUME LimitsInv, NEW t \in LogThreads, Suppress(t)
  PROVE  LimitsInv'
<1> USE LogLimitsAssumption
<1> DEFINE now == call[t].value
<1>1. /\ clock \in 0..MaxTime /\ last \in 0..MaxTime
      /\ call[t].op = "loaded" /\ call[t].seen \in Nat /\ now \in Nat /\ now <= clock
  BY DEF Suppress, LimitsInv, LimitsTypeOK, ReadingsPast
<1>2. /\ silenced' = silenced \cup {now}
      /\ UNCHANGED <<clock, last, counter, logged, admitted>>
  BY DEF Suppress
<1>3. /\ call'[t].op = "rest"
      /\ \A u \in LogThreads : u # t => call'[u] = call[u]
  BY DEF Suppress, Rest, AtRest, LimitsInv, LimitsTypeOK
<1>4. LimitsTypeOK'
  <2>1. call' \in [LogThreads -> [op : {"rest", "timed", "loaded"} \cup Sites,
                                  value : Nat, seen : 0..MaxTime]]
    BY DEF Suppress, Rest, AtRest, LimitsInv, LimitsTypeOK, Sites
  <2>2. now \in 0..MaxTime
    BY <1>1
  <2> QED
    BY <1>2, <2>1, <2>2 DEF LimitsInv, LimitsTypeOK
<1>5. now < Ms \/ \E i \in 1..Len(admitted) : now - admitted[i].time < Ms
  <2>1. CASE ~Due(t)
    <3>1. now - call[t].seen < Ms
      BY <2>1, <1>1 DEF Due
    <3>2. CASE call[t].seen = 0
      BY <3>1, <3>2, <1>1
    <3>3. CASE \E i \in 1..Len(admitted) : admitted[i].stamp = call[t].seen
      <4>1. PICK i \in 1..Len(admitted) : admitted[i].stamp = call[t].seen
        BY <3>3
      <4>2. /\ admitted[i].stamp <= admitted[i].time
            /\ admitted[i].stamp \in Nat /\ admitted[i].time \in Nat
        BY AdmittedTimes DEF LimitsInv, LoggedAfterReading
      <4> QED
        BY <3>1, <4>1, <4>2, <1>1
    <3> QED
      BY <3>2, <3>3, <1>1 DEF LimitsInv, SeenIsStamp
  <2>2. CASE ~ExchangeWins(t)
    <3>1. PICK i \in 1..Len(admitted) : admitted[i].time >= now
      BY <2>2, <1>1 DEF ExchangeWins, LimitsInv, Overtaken
    <3>2. admitted[i].time \in Nat
      BY AdmittedTimes DEF LimitsInv
    <3> QED
      BY <3>1, <3>2, <1>1
  <2> QED
    BY <2>1, <2>2 DEF Suppress
<1>6. SilenceCovered'
  BY <1>2, <1>5 DEF LimitsInv, SilenceCovered
<1>7. (ReadingsPast /\ SeenIsStamp /\ Overtaken)'
  BY <1>2, <1>3 DEF LimitsInv, ReadingsPast, SeenIsStamp, Overtaken
<1>8. (LastIsNewest /\ LoggedAfterReading /\ Spaced)'
  BY <1>2 DEF LimitsInv, LastIsNewest, LoggedAfterReading, Spaced
<1> QED
  BY <1>4, <1>6, <1>7, <1>8 DEF LimitsInv

(***************************************************************************)
(* Every step of every thread, and of the clock, preserves the invariant.  *)
(***************************************************************************)
LEMMA LimitsNextInv == LimitsInv /\ [LimitsNext]_limitsVars => LimitsInv'
<1> SUFFICES ASSUME LimitsInv, [LimitsNext]_limitsVars PROVE LimitsInv'
  OBVIOUS
<1> USE LogLimitsAssumption
<1>0. LimitsTypeOK
  BY DEF LimitsInv
<1>1. CASE ClockTicks
  <2>1. LimitsTypeOK' /\ clock' >= clock
    BY <1>0, <1>1 DEF ClockTicks, LimitsTypeOK
  <2> QED
    BY <1>1, <2>1, QuietStep DEF ClockTicks
<1>2. ASSUME NEW t \in LogThreads, ReadClock(t) PROVE LimitsInv'
  <2>1. LimitsTypeOK'
    BY <1>0, <1>2 DEF ReadClock, LimitsTypeOK
  <2>2. /\ call'[t].op = "timed" /\ call'[t].value = clock
        /\ \A u \in LogThreads : u # t => call'[u] = call[u]
    BY <1>0, <1>2 DEF ReadClock, LimitsTypeOK
  <2>3. clock' >= clock /\ call'[t].value <= clock'
    BY <1>0, <1>2, <2>2 DEF ReadClock, LimitsTypeOK
  <2> QED
    BY <1>2, <2>1, <2>2, <2>3, QuietStep DEF ReadClock
<1>3. ASSUME NEW t \in LogThreads, ExchangeFailsSpuriously(t) \/ Decide(t) PROVE LimitsInv'
  <2>1. call' = [call EXCEPT ![t] = AtRest] /\ UNCHANGED <<clock, last, counter, admitted, silenced>>
    BY <1>3 DEF ExchangeFailsSpuriously, Decide, Rest
  <2>2. logged' \in [Sites -> Nat]
    BY <1>0, <1>3 DEF ExchangeFailsSpuriously, Decide, LimitsTypeOK
  <2>3. LimitsTypeOK' /\ clock' >= clock
    BY <1>0, <2>1, <2>2 DEF LimitsTypeOK, AtRest
  <2>4. call'[t].op = "rest" /\ \A u \in LogThreads : u # t => call'[u] = call[u]
    BY <1>0, <2>1 DEF LimitsTypeOK, AtRest
  <2> QED
    BY <2>1, <2>3, <2>4, QuietStep
<1>4. ASSUME NEW t \in LogThreads, NEW s \in Sites, FetchAdd(t, s) PROVE LimitsInv'
  <2>1. LimitsTypeOK' /\ clock' >= clock
    BY <1>0, <1>4 DEF FetchAdd, LimitsTypeOK
  <2>2. call'[t].op \in Sites /\ \A u \in LogThreads : u # t => call'[u] = call[u]
    BY <1>0, <1>4 DEF FetchAdd, LimitsTypeOK
  <2>3. call'[t].op # "loaded" /\ call'[t].op # "timed"
    BY <2>2 DEF Sites
  <2> QED
    BY <1>4, <2>1, <2>2, <2>3, QuietStep DEF FetchAdd
<1>5. CASE UNCHANGED limitsVars
  <2>1. LimitsTypeOK' /\ clock' >= clock
    BY <1>0, <1>5 DEF limitsVars, LimitsTypeOK
  <2> QED
    BY <1>5, <2>1, QuietStep DEF limitsVars
<1> QED
  BY <1>1, <1>2, <1>3, <1>4, <1>5, LoadLastInv, ExchangeLastInv, SuppressInv DEF LimitsNext
-----------------------------------------------------------------------------
(***************************************************************************)
(* The schema manager.  The writer excludes the other writers and the      *)
(* scans, but not the users of a schema.  An entry differs from its size   *)
(* only while it is being registered.                                      *)
(***************************************************************************)
TasksTyped ==
  \A t \in SchemaThreads :
    /\ task[t].op # "none" => task[t].type \in Types
    /\ task[t].op \in {"register", "use"} => task[t].version \in Versions

WriterAlone ==
  \A t, u \in SchemaThreads :
    task[t].op = "register" /\ task[u].op \in {"register", "scan"} => t = u

EntriesWhole ==
  \A y \in Types, v \in Versions :
    /\ schemas[y][v].fields = 0 => schemas[y][v].size = 0
    /\ \/ schemas[y][v].fields = schemas[y][v].size
       \/ \E t \in SchemaThreads :
            task[t].op = "register" /\ task[t].type = y /\ task[t].version = v

\* A scan has the highest of the versions it has been through, and no version
\* comes or goes under it.
ScansExact ==
  \A t \in SchemaThreads : task[t].op = "scan" =>
    /\ task[t].known = Registered(task[t].type)
    /\ task[t].todo \subseteq task[t].known
    /\ \A v \in task[t].known \ task[t].todo : v <= task[t].version
    /\ task[t].version = 0 \/ task[t].version \in task[t].known

SchemaInv ==
  /\ SchemasTypeOK /\ TasksTyped /\ WriterAlone /\ EntriesWhole /\ ScansExact
  /\ SchemaWhole /\ LatestVersionExact

(***************************************************************************)
(* The numbers in an entry, and what it means that there is one.           *)
(***************************************************************************)
LEMMA EntryFacts ==
  ASSUME SchemasTypeOK, NEW y \in Types, NEW v \in Versions
  PROVE  /\ schemas[y][v].fields \in Nat /\ schemas[y][v].size \in Nat
         /\ schemas[y][v] = NoEntry <=> schemas[y][v].fields = 0 /\ schemas[y][v].size = 0
         /\ v \in Nat
<1> DEFINE E == [fields : 0..MaxRegistrations, size : 0..MaxRegistrations]
<1>1. schemas[y][v] \in E
  BY DEF SchemasTypeOK
<1>2. ASSUME NEW e \in E
      PROVE  /\ e.fields \in Nat /\ e.size \in Nat
             /\ e = NoEntry <=> e.fields = 0 /\ e.size = 0
  BY SchemaAssumption DEF NoEntry
<1> HIDE DEF E
<1> QED
  BY <1>1, <1>2, SchemaAssumption

(***************************************************************************)
(* The initial state satisfies the invariant.                              *)
(***************************************************************************)
LEMMA SchemaInitInv == SchemasInit => SchemaInv
<1> SUFFICES ASSUME SchemasInit PROVE SchemaInv
  OBVIOUS
<1>1. SchemasTypeOK
  BY SchemaAssumption DEF SchemasInit, SchemasTypeOK, NoTask, NoEntry
<1>2. \A t \in SchemaThreads : task[t].op = "none"
  BY DEF SchemasInit, NoTask
<1>3. EntriesWhole
  BY DEF SchemasInit, EntriesWhole, NoEntry
<1> QED
  BY <1>1, <1>2, <1>3 DEF SchemaInv, TasksTyped, WriterAlone, ScansExact, SchemaWhole,
     LatestVersionExact

(***************************************************************************)
(* Every step keeps the variables in their types.                          *)
(***************************************************************************)
LEMMA SchemaTypeStep ==
  ASSUME SchemaInv, [SchemasNext]_schemaVars
  PROVE  SchemasTypeOK' /\ TasksTyped'
<1> USE SchemaAssumption
<1>0. SchemasTypeOK /\ TasksTyped
  BY DEF SchemaInv
<1>1. ASSUME NEW t \in SchemaThreads, NEW y \in Types, NEW v \in Versions,
             RegisterSchema(t, y, v)
      PROVE  SchemasTypeOK' /\ TasksTyped'
  <2>1. registrations + 1 \in 0..MaxRegistrations
    BY <1>0, <1>1 DEF RegisterSchema, SchemasTypeOK
  <2>2. schemas' \in [Types -> [Versions -> [fields : 0..MaxRegistrations,
                                             size : 0..MaxRegistrations]]]
    <3>1. [schemas[y][v] EXCEPT !.fields = registrations + 1]
            \in [fields : 0..MaxRegistrations, size : 0..MaxRegistrations]
      BY <1>0, <2>1 DEF SchemasTypeOK
    <3>2. schemas' = [schemas EXCEPT ![y] = [@ EXCEPT ![v] =
                        [schemas[y][v] EXCEPT !.fields = registrations + 1]]]
      BY <1>0, <1>1 DEF RegisterSchema, SchemasTypeOK
    <3> DEFINE Entry == [fields : 0..MaxRegistrations, size : 0..MaxRegistrations]
               e == [schemas[y][v] EXCEPT !.fields = registrations + 1]
    <3>3. schemas \in [Types -> [Versions -> Entry]] /\ e \in Entry
      BY <1>0, <3>1 DEF SchemasTypeOK
    <3> HIDE DEF e, Entry
    <3>4. schemas' \in [Types -> [Versions -> Entry]]
      BY <3>2, <3>3 DEF e
    <3> QED
      BY <3>4 DEF Entry
  <2>3. again' \subseteq Types \X Versions
    BY <1>0, <1>1 DEF RegisterSchema, SchemasTypeOK
  <2>4. task' \in [SchemaThreads -> [op : {"none", "register", "use", "scan", "answered",
                                          "nullopt"},
                                    type : Types \cup {0}, version : Nat,
                                    todo : SUBSET Versions, known : SUBSET Versions]]
    BY <1>0, <1>1 DEF RegisterSchema, SchemasTypeOK, NoTask
  <2>5. TasksTyped'
    BY <1>0, <1>1 DEF RegisterSchema, SchemasTypeOK, TasksTyped, NoTask
  <2> QED
    BY <1>1, <2>1, <2>2, <2>3, <2>4, <2>5 DEF RegisterSchema, SchemasTypeOK
<1>2. ASSUME NEW t \in SchemaThreads, RegisterEnds(t) PROVE SchemasTypeOK' /\ TasksTyped'
  <2>1. task[t].type \in Types /\ task[t].version \in Versions
    BY <1>0, <1>2 DEF RegisterEnds, TasksTyped
  <2> QED
    BY <1>0, <1>2, <2>1 DEF RegisterEnds, Done, SchemasTypeOK, TasksTyped, NoTask
<1>3. ASSUME NEW t \in SchemaThreads, ScanEnds(t) PROVE SchemasTypeOK' /\ TasksTyped'
  BY <1>0, <1>3 DEF ScanEnds, SchemasTypeOK, TasksTyped
<1>8. ASSUME NEW t \in SchemaThreads, Finish(t) PROVE SchemasTypeOK' /\ TasksTyped'
  BY <1>0, <1>8 DEF Finish, Done, SchemasTypeOK, TasksTyped, NoTask
<1>4. ASSUME NEW t \in SchemaThreads, NEW v \in Versions, ScanVersion(t, v)
      PROVE  SchemasTypeOK' /\ TasksTyped'
  <2>1. Latest(v, task[t].version) \in Nat
    BY <1>0 DEF Latest, SchemasTypeOK
  <2> QED
    BY <1>0, <1>4, <2>1 DEF ScanVersion, SchemasTypeOK, TasksTyped
<1>5. ASSUME NEW t \in SchemaThreads, NEW y \in Types, GetLatestVersion(t, y)
      PROVE  SchemasTypeOK' /\ TasksTyped'
  <2>1. Registered(y) \subseteq Versions
    BY DEF Registered
  <2> QED
    BY <1>0, <1>5, <2>1 DEF GetLatestVersion, SchemasTypeOK, TasksTyped, NoTask
<1>6. ASSUME NEW t \in SchemaThreads, NEW y \in Types, NEW v \in Versions, GetSchema(t, y, v)
      PROVE  SchemasTypeOK' /\ TasksTyped'
  BY <1>0, <1>6 DEF GetSchema, SchemasTypeOK, TasksTyped, NoTask
<1>7. CASE UNCHANGED schemaVars
  BY <1>0, <1>7 DEF schemaVars, SchemasTypeOK, TasksTyped
<1> QED
  BY <1>1, <1>2, <1>3, <1>4, <1>5, <1>6, <1>7, <1>8 DEF SchemasNext

(***************************************************************************)
(* A step that leaves the schemas alone keeps the invariant, if it moves   *)
(* one thread to where the invariant may be.                               *)
(***************************************************************************)
LEMMA ReaderStep ==
  ASSUME SchemaInv, SchemasTypeOK', TasksTyped', UNCHANGED <<schemas, again>>,
         NEW t \in SchemaThreads,
         \A u \in SchemaThreads : u # t => task'[u] = task[u],
         task[t].op # "register" /\ task'[t].op # "register",
         task'[t].op = "scan" => /\ task[t].op = "scan" \/ SharedLock
                                 /\ task'[t].known = Registered(task'[t].type)
                                 /\ task'[t].todo \subseteq task'[t].known
                                 /\ \A v \in task'[t].known \ task'[t].todo : v <= task'[t].version
                                 /\ task'[t].version = 0 \/ task'[t].version \in task'[t].known,
         task'[t].op = "use" =>
           LET e == schemas[task'[t].type][task'[t].version]
           IN  e # NoEntry /\ e.fields = e.size,
         task'[t].op = "answered" =>
           /\ task'[t].version \in Registered(task'[t].type)
           /\ \A v \in task'[t].known : v <= task'[t].version,
         task'[t].op = "nullopt" => task'[t].known \subseteq {0}
  PROVE  SchemaInv'
<1>1. \A y \in Types : Registered(y)' = Registered(y)
  BY DEF Registered
<1>2. WriterAlone'
  BY DEF SchemaInv, WriterAlone, SharedLock
<1>3. EntriesWhole'
  BY DEF SchemaInv, EntriesWhole
<1>4. ScansExact'
  BY <1>1 DEF SchemaInv, ScansExact, TasksTyped
<1>5. SchemaWhole'
  BY DEF SchemaInv, SchemaWhole
<1>6. LatestVersionExact'
  BY <1>1 DEF SchemaInv, LatestVersionExact, TasksTyped
<1> QED
  BY <1>2, <1>3, <1>4, <1>5, <1>6 DEF SchemaInv

(***************************************************************************)
(* RegisterSchema: no scan is on, and a user of the very entry is told so  *)
(* by again.                                                               *)
(***************************************************************************)
LEMMA RegisterSchemaInv ==
  ASSUME SchemaInv, SchemasTypeOK', TasksTyped', NEW t \in SchemaThreads,
         NEW y \in Types, NEW v \in Versions, RegisterSchema(t, y, v)
  PROVE  SchemaInv'
<1>0. SchemasTypeOK
  BY DEF SchemaInv
<1>1. /\ task'[t].op = "register" /\ task'[t].type = y /\ task'[t].version = v
      /\ \A u \in SchemaThreads : u # t => task'[u] = task[u]
      /\ \A u \in SchemaThreads : task[u].op \notin {"register", "scan"}
  BY <1>0 DEF RegisterSchema, UniqueLock, NoTask, SchemasTypeOK
<1>2. /\ schemas'[y][v].fields = registrations + 1
      /\ schemas'[y][v].size = schemas[y][v].size
      /\ \A z \in Types, w \in Versions :
           z # y \/ w # v => schemas'[z][w] = schemas[z][w]
  BY <1>0 DEF RegisterSchema, SchemasTypeOK
<1>3. registrations \in Nat /\ schemas'[y][v] # NoEntry
  BY <1>0, <1>2, SchemaAssumption DEF SchemasTypeOK, NoEntry
<1>4. \A z \in Types : Registered(z) \subseteq Registered(z)'
  BY <1>2, <1>3 DEF Registered
<1>5. WriterAlone'
  BY <1>1 DEF WriterAlone
<1>6. EntriesWhole'
  BY <1>1, <1>2, <1>3 DEF SchemaInv, EntriesWhole
<1>7. ScansExact'
  BY <1>1 DEF ScansExact
<1>8. SchemaWhole'
  <2> SUFFICES ASSUME NEW u \in SchemaThreads, task'[u].op = "use"
               PROVE  \/ <<task'[u].type, task'[u].version>> \in again'
                      \/ LET e == schemas'[task'[u].type][task'[u].version]
                         IN  e # NoEntry /\ e.fields = e.size
    BY DEF SchemaWhole
  <2>1. /\ u # t /\ task'[u] = task[u] /\ task[u].op = "use"
        /\ task[u].type \in Types /\ task[u].version \in Versions
    BY <1>1 DEF SchemaInv, TasksTyped
  <2>2. again \subseteq again' /\ (v \in Registered(y) => <<y, v>> \in again')
    BY DEF RegisterSchema
  <2>3. CASE task[u].type = y /\ task[u].version = v
    BY <2>1, <2>2, <2>3 DEF SchemaInv, SchemaWhole, Registered
  <2>4. CASE task[u].type # y \/ task[u].version # v
    BY <1>2, <2>1, <2>2, <2>4 DEF SchemaInv, SchemaWhole
  <2> QED
    BY <2>3, <2>4
<1>9. LatestVersionExact'
  BY <1>1, <1>4 DEF SchemaInv, LatestVersionExact, TasksTyped
<1> QED
  BY <1>5, <1>6, <1>7, <1>8, <1>9 DEF SchemaInv

(***************************************************************************)
(* The end of RegisterSchema makes the entry whole again.                  *)
(***************************************************************************)
LEMMA RegisterEndsInv ==
  ASSUME SchemaInv, SchemasTypeOK', TasksTyped', NEW t \in SchemaThreads, RegisterEnds(t)
  PROVE  SchemaInv'
<1>0. SchemasTypeOK
  BY DEF SchemaInv
<1>p. PICK y \in Types, v \in Versions : y = task[t].type /\ v = task[t].version
  BY DEF SchemaInv, TasksTyped, RegisterEnds
<1>1. /\ task[t].op = "register" /\ y \in Types /\ v \in Versions
      /\ task'[t].op = "none" /\ \A u \in SchemaThreads : u # t => task'[u] = task[u]
      /\ \A u \in SchemaThreads : u # t => task[u].op \notin {"register", "scan"}
      /\ again' = again
  BY <1>0 DEF RegisterEnds, Done, NoTask, SchemasTypeOK, SchemaInv, WriterAlone
<1>2. /\ schemas'[y][v].fields = schemas[y][v].fields
      /\ schemas'[y][v].size = schemas[y][v].fields
      /\ \A z \in Types, w \in Versions :
           z # y \/ w # v => schemas'[z][w] = schemas[z][w]
  <2>1. schemas' = [schemas EXCEPT ![y][v].size = schemas[y][v].fields]
    BY <1>p DEF RegisterEnds
  <2> QED
    BY <1>0, <2>1 DEF SchemasTypeOK
<1>3. schemas[y][v] # NoEntry => schemas'[y][v] # NoEntry
  <2>1. schemas[y][v].fields = 0 => schemas[y][v].size = 0
    BY <1>1 DEF SchemaInv, EntriesWhole
  <2> QED
    BY <1>0, <1>1, <1>2, <2>1, EntryFacts DEF NoEntry
<1>4. \A z \in Types : Registered(z) \subseteq Registered(z)'
  BY <1>1, <1>2, <1>3 DEF Registered
<1>5. WriterAlone'
  BY <1>1 DEF WriterAlone
<1>6. EntriesWhole'
  BY <1>p, <1>1, <1>2 DEF SchemaInv, EntriesWhole
<1>7. ScansExact'
  BY <1>1 DEF ScansExact
<1>8. SchemaWhole'
  BY <1>1, <1>2, <1>3 DEF SchemaInv, SchemaWhole, TasksTyped
<1>9. LatestVersionExact'
  BY <1>1, <1>4 DEF SchemaInv, LatestVersionExact, TasksTyped
<1> QED
  BY <1>5, <1>6, <1>7, <1>8, <1>9 DEF SchemaInv

(***************************************************************************)
(* Every step of every thread preserves the invariant.                     *)
(***************************************************************************)
LEMMA SchemaNextInv == SchemaInv /\ [SchemasNext]_schemaVars => SchemaInv'
<1> SUFFICES ASSUME SchemaInv, [SchemasNext]_schemaVars PROVE SchemaInv'
  OBVIOUS
<1>0. SchemasTypeOK /\ TasksTyped /\ SchemasTypeOK' /\ TasksTyped'
  BY SchemaTypeStep DEF SchemaInv
<1>1. ASSUME NEW t \in SchemaThreads, NEW y \in Types, GetLatestVersion(t, y)
      PROVE  SchemaInv'
  <2>1. /\ task[t].op = "none" /\ SharedLock /\ UNCHANGED <<schemas, again>>
        /\ task'[t].op = "scan" /\ task'[t].type = y /\ task'[t].version = 0
        /\ task'[t].todo = Registered(y) /\ task'[t].known = Registered(y)
        /\ \A u \in SchemaThreads : u # t => task'[u] = task[u]
    BY <1>0, <1>1 DEF GetLatestVersion, NoTask, SchemasTypeOK
  <2> QED
    BY <1>0, <2>1, ReaderStep
<1>2. ASSUME NEW t \in SchemaThreads, NEW v \in Versions, ScanVersion(t, v)
      PROVE  SchemaInv'
  <2>1. /\ task[t].op = "scan" /\ UNCHANGED <<schemas, again>> /\ v \in task[t].todo
        /\ task'[t].op = "scan" /\ task'[t].type = task[t].type
        /\ task'[t].known = task[t].known /\ task'[t].todo = task[t].todo \ {v}
        /\ task'[t].version = Latest(v, task[t].version)
        /\ \A u \in SchemaThreads : u # t => task'[u] = task[u]
    BY <1>0, <1>2 DEF ScanVersion, SchemasTypeOK
  <2>2. /\ task[t].version \in Nat /\ v \in Nat
        /\ \A w \in task[t].known : w \in Nat
    BY <1>0, SchemaAssumption DEF SchemasTypeOK
  <2>3. /\ task[t].known = Registered(task[t].type)
        /\ task[t].todo \subseteq task[t].known
        /\ \A w \in task[t].known \ task[t].todo : w <= task[t].version
        /\ task[t].version = 0 \/ task[t].version \in task[t].known
    BY <2>1 DEF SchemaInv, ScansExact
  <2>4. /\ \A w \in task[t].known \ (task[t].todo \ {v}) : w <= Latest(v, task[t].version)
        /\ \/ Latest(v, task[t].version) = 0
           \/ Latest(v, task[t].version) \in task[t].known
    BY <2>1, <2>2, <2>3 DEF Latest
  <2> QED
    BY <1>0, <2>1, <2>3, <2>4, ReaderStep
<1>3. ASSUME NEW t \in SchemaThreads, ScanEnds(t) PROVE SchemaInv'
  <2>1. /\ task[t].op = "scan" /\ task[t].todo = {} /\ UNCHANGED <<schemas, again>>
        /\ task'[t].op = (IF task[t].version > 0 THEN "answered" ELSE "nullopt")
        /\ task'[t].type = task[t].type /\ task'[t].known = task[t].known
        /\ task'[t].version = task[t].version
        /\ \A u \in SchemaThreads : u # t => task'[u] = task[u]
    BY <1>0, <1>3 DEF ScanEnds, SchemasTypeOK
  <2>2. /\ task[t].known = Registered(task[t].type)
        /\ \A w \in task[t].known : w <= task[t].version
        /\ task[t].version = 0 \/ task[t].version \in task[t].known
    BY <2>1 DEF SchemaInv, ScansExact
  <2>3. task[t].version \in Nat /\ \A w \in task[t].known : w \in Nat
    BY <1>0, SchemaAssumption DEF SchemasTypeOK
  <2>4. CASE task[t].version > 0
    BY <1>0, <2>1, <2>2, <2>3, <2>4, ReaderStep
  <2>5. CASE task[t].version = 0
    <3>1. task[t].known \subseteq {0}
      BY <2>2, <2>3, <2>5
    <3>2. task'[t].op = "nullopt"
      BY <2>1, <2>5
    <3> QED
      BY <1>0, <2>1, <3>1, <3>2, ReaderStep
  <2> QED
    BY <2>3, <2>4, <2>5
<1>4. ASSUME NEW t \in SchemaThreads, Finish(t) PROVE SchemaInv'
  <2>1. /\ task[t].op # "register" /\ task'[t].op = "none" /\ UNCHANGED <<schemas, again>>
        /\ \A u \in SchemaThreads : u # t => task'[u] = task[u]
    BY <1>0, <1>4 DEF Finish, Done, NoTask, SchemasTypeOK
  <2> QED
    BY <1>0, <2>1, ReaderStep
<1>5. ASSUME NEW t \in SchemaThreads, NEW y \in Types, NEW v \in Versions, GetSchema(t, y, v)
      PROVE  SchemaInv'
  <2>1. /\ task[t].op = "none" /\ SharedLock /\ UNCHANGED <<schemas, again>>
        /\ task'[t].op = "use" /\ task'[t].type = y /\ task'[t].version = v
        /\ \A u \in SchemaThreads : u # t => task'[u] = task[u]
    BY <1>0, <1>5 DEF GetSchema, NoTask, SchemasTypeOK
  <2>2. schemas[y][v] # NoEntry /\ schemas[y][v].fields = schemas[y][v].size
    BY <1>5, <2>1 DEF GetSchema, Registered, SchemaInv, EntriesWhole, SharedLock
  <2> QED
    BY <1>0, <2>1, <2>2, ReaderStep
<1>6. CASE UNCHANGED schemaVars
  <2>1. \A y \in Types : Registered(y)' = Registered(y)
    BY <1>6 DEF schemaVars, Registered
  <2>2. UNCHANGED <<schemas, task, again>>
    BY <1>6 DEF schemaVars
  <2>3. WriterAlone' /\ EntriesWhole' /\ SchemaWhole'
    BY <2>2 DEF SchemaInv, WriterAlone, EntriesWhole, SchemaWhole
  <2>4. ScansExact' /\ LatestVersionExact'
    BY <1>0, <2>1, <2>2 DEF SchemaInv, ScansExact, LatestVersionExact, TasksTyped
  <2> QED
    BY <1>0, <2>3, <2>4 DEF SchemaInv
<1> QED
  BY <1>0, <1>1, <1>2, <1>3, <1>4, <1>5, <1>6, RegisterSchemaInv, RegisterEndsInv
     DEF SchemasNext
-----------------------------------------------------------------------------
(***************************************************************************)
(* The counting sites.  The quota is inductive as it stands; its proof is  *)
(* arithmetic (what one more call does to the quotient) and counting (what *)
(* it does to the calls about to log).                                     *)
(***************************************************************************)

(* Quotient and remainder.                                                 *)
LEMMA QuotientRemainder ==
  ASSUME NEW c \in Nat
  PROVE  c \div N \in Nat /\ c % N \in 0..(N - 1) /\ c = (c \div N) * N + (c % N)
BY LogLimitsAssumption

(* They are the only such numbers.                                         *)
LEMMA QuotientUnique ==
  ASSUME NEW a \in Int, NEW b \in Int, NEW r \in 0..(N - 1), NEW s \in 0..(N - 1),
         a * N + r = b * N + s
  PROVE  a = b
<1> USE LogLimitsAssumption
<1>1. (a - b) * N = s - r
  OBVIOUS
<1>2. CASE a - b >= 1
  <2>1. (a - b) * N >= N
    BY <1>2
  <2> QED
    BY <1>1, <2>1
<1>3. CASE a - b <= -1
  <2>1. (a - b) * N <= -N
    BY <1>3
  <2> QED
    BY <1>1, <2>1
<1> QED
  BY <1>2, <1>3

(* Hence what the quotient of a sum is.                                    *)
LEMMA QuotientOf ==
  ASSUME NEW a \in Nat, NEW r \in 0..(N - 1)
  PROVE  (a * N + r) \div N = a
<1>1. a * N + r \in Nat
  BY LogLimitsAssumption
<1>2. /\ a * N + r = ((a * N + r) \div N) * N + ((a * N + r) % N)
      /\ (a * N + r) \div N \in Nat /\ (a * N + r) % N \in 0..(N - 1)
  BY <1>1, QuotientRemainder
<1> QED
  BY <1>2, QuotientUnique

(* One more call raises the quota of LOG_EVERY_N exactly if it is admitted. *)
LEMMA QuotaGrows ==
  ASSUME NEW c \in Nat
  PROVE  (c + 1 + N - 1) \div N = (c + N - 1) \div N + IF c % N = 0 THEN 1 ELSE 0
<1> USE LogLimitsAssumption
<1> DEFINE q == c \div N
           r == c % N
<1>1. q \in Nat /\ r \in 0..(N - 1) /\ c = q * N + r
  BY QuotientRemainder
<1> HIDE DEF q, r
<1>2. q * N \in Nat /\ (q + 1) * N = q * N + N
  BY <1>1
<1>3. CASE r = 0
  <2>1. c + N - 1 = q * N + (N - 1) /\ c + 1 + N - 1 = (q + 1) * N + 0
    BY <1>1, <1>2, <1>3
  <2>2. (c + N - 1) \div N = q
    BY <1>1, <2>1, QuotientOf
  <2>3. (c + 1 + N - 1) \div N = q + 1
    BY <1>1, <2>1, QuotientOf
  <2> QED
    BY <1>1, <1>3, <2>2, <2>3 DEF r
<1>4. CASE r # 0
  <2>1. /\ c + N - 1 = (q + 1) * N + (r - 1) /\ r - 1 \in 0..(N - 1)
        /\ c + 1 + N - 1 = (q + 1) * N + r
    BY <1>1, <1>2, <1>4
  <2>2. (c + N - 1) \div N = q + 1
    BY <1>1, <2>1, QuotientOf
  <2>3. (c + 1 + N - 1) \div N = q + 1
    BY <1>1, <2>1, QuotientOf
  <2> QED
    BY <1>1, <1>4, <2>2, <2>3 DEF r
<1> QED
  BY <1>3, <1>4

(* What the sites have admitted of c calls.                                *)
Quota(s, c) == IF s = "every_n" THEN (c + N - 1) \div N ELSE IF c < N THEN c ELSE N

(* The quota grows by the calls that are admitted.                         *)
LEMMA QuotaStep ==
  ASSUME NEW s \in Sites, NEW c \in Nat
  PROVE  /\ Quota(s, c) \in Nat
         /\ Quota(s, c + 1) = Quota(s, c) + IF Admits(s, c) THEN 1 ELSE 0
<1> USE LogLimitsAssumption
<1>1. CASE s = "every_n"
  <2>1. c + N - 1 \in Nat
    OBVIOUS
  <2>2. (c + N - 1) \div N \in Nat
    BY <2>1, QuotientRemainder
  <2>3. (c + 1 + N - 1) \div N = (c + N - 1) \div N + IF c % N = 0 THEN 1 ELSE 0
    BY QuotaGrows
  <2> QED
    BY <1>1, <2>2, <2>3 DEF Quota, Admits
<1>2. CASE s = "first_n"
  BY <1>2 DEF Quota, Admits
<1> QED
  BY <1>1, <1>2 DEF Sites

(* QuotaExact, site by site.                                               *)
LEMMA QuotaBySite == QuotaExact <=> \A s \in Sites : logged[s] + About(s) = Quota(s, counter[s])
BY DEF QuotaExact, Quota, Sites

\* The threads that are about to log.
Waiting(s) == {t \in LogThreads : call[t].op = s /\ Admits(s, call[t].value)}

(* They are finitely many.                                                 *)
LEMMA AboutIsNat ==
  \A s \in Sites :
    IsFiniteSet(Waiting(s)) /\ About(s) = Cardinality(Waiting(s)) /\ About(s) \in Nat
<1> SUFFICES ASSUME NEW s \in Sites
             PROVE  /\ IsFiniteSet(Waiting(s)) /\ About(s) = Cardinality(Waiting(s))
                    /\ About(s) \in Nat
  OBVIOUS
<1>1. Waiting(s) \subseteq LogThreads
  BY DEF Waiting
<1>2. IsFiniteSet(Waiting(s))
  BY <1>1, LogLimitsAssumption, FS_Subset
<1> QED
  BY <1>2, FS_CardinalityType DEF About, Waiting

(* One thread comes to be about to log, or is no longer.                   *)
LEMMA WaitingStep ==
  ASSUME NEW t \in LogThreads, NEW s \in Sites,
         \A u \in LogThreads : u # t => call'[u] = call[u]
  PROVE  /\ t \in Waiting(s) <=> t \in Waiting(s)' => About(s)' = About(s)
         /\ t \notin Waiting(s) /\ t \in Waiting(s)' => About(s)' = About(s) + 1
         /\ t \in Waiting(s) /\ t \notin Waiting(s)' => About(s)' = About(s) - 1
<1>1. \A u \in LogThreads : u # t => (u \in Waiting(s) <=> u \in Waiting(s)')
  BY DEF Waiting
<1>2. Waiting(s) \subseteq LogThreads /\ Waiting(s)' \subseteq LogThreads
  BY DEF Waiting
<1>3. IsFiniteSet(Waiting(s)) /\ About(s) = Cardinality(Waiting(s)) /\ About(s) \in Nat
  BY AboutIsNat
<1>4. About(s)' = Cardinality(Waiting(s)')
  BY DEF About, Waiting
<1>5. ASSUME t \in Waiting(s) <=> t \in Waiting(s)' PROVE About(s)' = About(s)
  <2>1. Waiting(s)' = Waiting(s)
    BY <1>1, <1>2, <1>5
  <2> QED
    BY <1>3, <1>4, <2>1
<1>6. ASSUME t \notin Waiting(s), t \in Waiting(s)' PROVE About(s)' = About(s) + 1
  <2>1. Waiting(s)' = Waiting(s) \cup {t}
    BY <1>1, <1>2, <1>6
  <2> QED
    BY <1>3, <1>4, <1>6, <2>1, FS_AddElement
<1>7. ASSUME t \in Waiting(s), t \notin Waiting(s)' PROVE About(s)' = About(s) - 1
  <2>1. Waiting(s)' = Waiting(s) \ {t}
    BY <1>1, <1>2, <1>7
  <2> QED
    BY <1>3, <1>4, <1>7, <2>1, FS_RemoveElement
<1> QED
  BY <1>5, <1>6, <1>7

(* Every step keeps the quota.                                             *)
LEMMA QuotaNextInv ==
  LimitsTypeOK /\ QuotaExact /\ [LimitsNext]_limitsVars => QuotaExact'
<1> SUFFICES ASSUME LimitsTypeOK, QuotaExact, [LimitsNext]_limitsVars PROVE QuotaExact'
  OBVIOUS
<1>inv. \A s \in Sites : logged[s] + About(s) = Quota(s, counter[s])
  BY QuotaBySite
<1>ty. \A s \in Sites : logged[s] \in Nat /\ counter[s] \in Nat /\ About(s) \in Nat
  BY AboutIsNat, LogLimitsAssumption DEF LimitsTypeOK
<1>goal. SUFFICES \A s \in Sites : logged'[s] + About(s)' = Quota(s, counter'[s])
  BY DEF QuotaExact, Quota, Sites
<1>quiet. ASSUME UNCHANGED <<logged, counter>>, \A s \in Sites : About(s)' = About(s)
          PROVE  \A s \in Sites : logged'[s] + About(s)' = Quota(s, counter'[s])
  BY <1>quiet, <1>inv
<1>1. ASSUME NEW t \in LogThreads, NEW s \in Sites, FetchAdd(t, s)
      PROVE  \A u \in Sites : logged'[u] + About(u)' = Quota(u, counter'[u])
  <2>1. /\ call[t].op = "rest" /\ call'[t].op = s /\ call'[t].value = counter[s]
        /\ \A u \in LogThreads : u # t => call'[u] = call[u]
        /\ counter'[s] = counter[s] + 1 /\ \A u \in Sites : u # s => counter'[u] = counter[u]
        /\ logged' = logged
    BY <1>1 DEF FetchAdd, AtRest, LimitsTypeOK
  <2>2. \A u \in Sites : t \notin Waiting(u) /\ (t \in Waiting(u)' <=> u = s /\ Admits(s, counter[s]))
    BY <2>1 DEF Waiting, Sites, Admits
  <2>3. About(s)' = About(s) + IF Admits(s, counter[s]) THEN 1 ELSE 0
    BY <1>ty, <2>1, <2>2, WaitingStep
  <2>4. \A u \in Sites : u # s => About(u)' = About(u)
    BY <2>1, <2>2, WaitingStep
  <2>5. Quota(s, counter[s] + 1) = Quota(s, counter[s]) + IF Admits(s, counter[s]) THEN 1 ELSE 0
    BY <1>ty, QuotaStep
  <2>6. logged'[s] + About(s)' = Quota(s, counter'[s])
    BY <1>inv, <1>ty, <2>1, <2>3, <2>5
  <2> QED
    BY <1>inv, <2>1, <2>4, <2>6
<1>2. ASSUME NEW t \in LogThreads, Decide(t)
      PROVE  \A u \in Sites : logged'[u] + About(u)' = Quota(u, counter'[u])
  <2>p. PICK s \in Sites : s = call[t].op
    BY <1>2 DEF Decide
  <2>1. /\ call'[t].op = "rest" /\ \A u \in LogThreads : u # t => call'[u] = call[u]
        /\ counter' = counter
        /\ logged'[s] = logged[s] + IF Admits(s, call[t].value) THEN 1 ELSE 0
        /\ \A u \in Sites : u # s => logged'[u] = logged[u]
    BY <1>2, <2>p DEF Decide, Rest, AtRest, LimitsTypeOK
  <2>2. \A u \in Sites : t \notin Waiting(u)' /\ (t \in Waiting(u) <=> u = s /\ Admits(s, call[t].value))
    BY <2>p, <2>1 DEF Waiting, Sites
  <2>3. About(s)' = About(s) - IF Admits(s, call[t].value) THEN 1 ELSE 0
    BY <1>ty, <2>1, <2>2, WaitingStep
  <2>4. \A u \in Sites : u # s => About(u)' = About(u)
    BY <2>1, <2>2, WaitingStep
  <2>5. logged'[s] + About(s)' = Quota(s, counter'[s])
    BY <1>inv, <1>ty, <2>1, <2>3
  <2> QED
    BY <1>inv, <2>1, <2>4, <2>5
<1>3. ASSUME NEW t \in LogThreads,
             \/ ReadClock(t) \/ LoadLast(t) \/ ExchangeLast(t) \/ Suppress(t)
             \/ ExchangeFailsSpuriously(t)
      PROVE  \A u \in Sites : logged'[u] + About(u)' = Quota(u, counter'[u])
  <2>1. /\ call[t].op \in {"rest", "timed", "loaded"}
        /\ call'[t].op \in {"rest", "timed", "loaded"}
        /\ \A u \in LogThreads : u # t => call'[u] = call[u]
        /\ UNCHANGED <<logged, counter>>
    BY <1>3 DEF ReadClock, LoadLast, ExchangeLast, Suppress, ExchangeFailsSpuriously, Rest,
       AtRest, LimitsTypeOK
  <2>2. \A s \in Sites : t \notin Waiting(s) /\ t \notin Waiting(s)'
    BY <2>1 DEF Waiting, Sites
  <2>3. \A s \in Sites : About(s)' = About(s)
    BY <2>1, <2>2, WaitingStep
  <2> QED
    BY <1>quiet, <2>1, <2>3
<1>4. CASE ClockTicks \/ UNCHANGED limitsVars
  <2>1. UNCHANGED <<call, logged, counter>>
    BY <1>4 DEF ClockTicks, limitsVars
  <2>2. \A s \in Sites : About(s)' = About(s)
    BY <2>1 DEF About
  <2> QED
    BY <1>quiet, <2>1, <2>2
<1> QED
  BY <1>1, <1>2, <1>3, <1>4 DEF LimitsNext
-----------------------------------------------------------------------------
(***************************************************************************)
(* The rotation of log files.  First the order of the messages in the      *)
(* files c of one date, of which w were written: the first message of an   *)
(* older file is older, none is newer than w, and after each comes the     *)
(* next.  Appending, dropping the oldest file and moving a file to a free  *)
(* slot preserve it.                                                       *)
(***************************************************************************)
Chain(c, w) ==
  \A i \in Indices : \A k \in 1..Len(c[i]) :
    /\ c[i][k] <= w
    /\ \A j \in Indices : \A l \in 1..Len(c[j]) :
         j < i \/ (j = i /\ k < l) => c[i][k] < c[j][l]
    /\ c[i][k] = w \/ \E j \in Indices : \E l \in 1..Len(c[j]) : c[j][l] = c[i][k] + 1

(* A message is appended to the current file.                              *)
LEMMA ChainAppend ==
  ASSUME NEW c \in [Indices -> Seq(Nat)], NEW w \in Nat, Chain(c, w),
         NEW b, b[0] = Append(c[0], w + 1), \A i \in Indices : i # 0 => b[i] = c[i]
  PROVE  Chain(b, w + 1)
<1>0. 0 \in Indices
  BY LogSinkAssumption DEF Indices
<1>ty. \A i \in Indices : Len(c[i]) \in Nat /\ \A k \in 1..Len(c[i]) : c[i][k] \in Nat
  OBVIOUS
<1>1. /\ Len(b[0]) = Len(c[0]) + 1 /\ b[0][Len(c[0]) + 1] = w + 1
      /\ Len(c[0]) + 1 \in 1..Len(b[0])
      /\ \A k \in 1..Len(c[0]) : k \in 1..Len(b[0]) /\ b[0][k] = c[0][k]
      /\ \A k \in 1..Len(b[0]) : k = Len(c[0]) + 1 \/ k \in 1..Len(c[0])
  BY <1>0, AppendFacts
<1>old. \A i \in Indices : \A k \in 1..Len(c[i]) : k \in 1..Len(b[i]) /\ b[i][k] = c[i][k]
  BY <1>1
<1>new. \A i \in Indices : \A k \in 1..Len(b[i]) :
          k \in 1..Len(c[i]) \/ (i = 0 /\ k = Len(c[0]) + 1 /\ b[i][k] = w + 1)
  BY <1>1
<1> SUFFICES ASSUME NEW i \in Indices, NEW k \in 1..Len(b[i])
             PROVE  /\ b[i][k] <= w + 1
                    /\ \A j \in Indices : \A l \in 1..Len(b[j]) :
                         j < i \/ (j = i /\ k < l) => b[i][k] < b[j][l]
                    /\ \/ b[i][k] = w + 1
                       \/ \E j \in Indices : \E l \in 1..Len(b[j]) : b[j][l] = b[i][k] + 1
  BY DEF Chain
<1>2. CASE k \in 1..Len(c[i])
  <2>1. /\ b[i][k] = c[i][k] /\ c[i][k] \in Nat /\ c[i][k] <= w
        /\ \A j \in Indices : \A l \in 1..Len(c[j]) :
             j < i \/ (j = i /\ k < l) => c[i][k] < c[j][l]
        /\ c[i][k] = w \/ \E j \in Indices : \E l \in 1..Len(c[j]) : c[j][l] = c[i][k] + 1
    BY <1>2, <1>old, <1>ty DEF Chain
  <2>2. b[i][k] <= w + 1
    BY <2>1
  <2>3. ASSUME NEW j \in Indices, NEW l \in 1..Len(b[j]), j < i \/ (j = i /\ k < l)
        PROVE  b[i][k] < b[j][l]
    <3>1. CASE l \in 1..Len(c[j])
      BY <2>1, <2>3, <3>1, <1>old
    <3>2. CASE b[j][l] = w + 1
      BY <2>1, <3>2
    <3> QED
      BY <1>new, <3>1, <3>2
  <2>4. \E j \in Indices : \E l \in 1..Len(b[j]) : b[j][l] = b[i][k] + 1
    <3>1. CASE c[i][k] = w
      BY <2>1, <3>1, <1>0, <1>1
    <3>2. CASE \E j \in Indices : \E l \in 1..Len(c[j]) : c[j][l] = c[i][k] + 1
      BY <2>1, <3>2, <1>old
    <3> QED
      BY <2>1, <3>1, <3>2
  <2> QED
    BY <2>2, <2>3, <2>4
<1>3. CASE i = 0 /\ k = Len(c[0]) + 1 /\ b[i][k] = w + 1
  <2>1. ASSUME NEW j \in Indices, NEW l \in 1..Len(b[j]), j < i \/ (j = i /\ k < l)
        PROVE  FALSE
    BY <1>3, <2>1, <1>1, <1>ty, <1>0, LogSinkAssumption DEF Indices
  <2> QED
    BY <1>3, <2>1
<1> QED
  BY <1>new, <1>2, <1>3

(* The oldest file is dropped.                                             *)
LEMMA ChainRemove ==
  ASSUME NEW c \in [Indices -> Seq(Nat)], NEW w \in Nat, Chain(c, w),
         NEW x \in Indices, \A i \in Indices : i > x => c[i] = <<>>,
         NEW b, b[x] = <<>>, \A i \in Indices : i # x => b[i] = c[i]
  PROVE  Chain(b, w)
<1>ty. \A i \in Indices : Len(c[i]) \in Nat /\ \A k \in 1..Len(c[i]) : c[i][k] \in Nat
  OBVIOUS
<1>1. \A i \in Indices : \A k \in 1..Len(b[i]) : i # x /\ b[i] = c[i] /\ k \in 1..Len(c[i]) /\ i < x
  <2>1. ASSUME NEW i \in Indices, NEW k \in 1..Len(b[i]) PROVE i # x /\ b[i] = c[i] /\ c[i] # <<>>
    BY <2>1
  <2> QED
    BY <2>1, LogSinkAssumption DEF Indices
<1> SUFFICES ASSUME NEW i \in Indices, NEW k \in 1..Len(b[i])
             PROVE  /\ b[i][k] <= w
                    /\ \A j \in Indices : \A l \in 1..Len(b[j]) :
                         j < i \/ (j = i /\ k < l) => b[i][k] < b[j][l]
                    /\ \/ b[i][k] = w
                       \/ \E j \in Indices : \E l \in 1..Len(b[j]) : b[j][l] = b[i][k] + 1
  BY DEF Chain
<1>2. i # x /\ b[i] = c[i] /\ k \in 1..Len(c[i]) /\ i < x
  BY <1>1
<1>3. /\ c[i][k] \in Nat /\ c[i][k] <= w
      /\ \A j \in Indices : \A l \in 1..Len(c[j]) :
           j < i \/ (j = i /\ k < l) => c[i][k] < c[j][l]
      /\ c[i][k] = w \/ \E j \in Indices : \E l \in 1..Len(c[j]) : c[j][l] = c[i][k] + 1
  BY <1>2, <1>ty DEF Chain
<1>4. \A j \in Indices : \A l \in 1..Len(b[j]) :
        j < i \/ (j = i /\ k < l) => b[i][k] < b[j][l]
  BY <1>1, <1>2, <1>3
<1>5. ASSUME NEW j \in Indices, NEW l \in 1..Len(c[j]), c[j][l] = c[i][k] + 1 PROVE j # x
  <2>1. j = x => c[j][l] < c[i][k]
    BY <1>2 DEF Chain
  <2> QED
    BY <1>3, <1>5, <2>1, <1>ty
<1> QED
  BY <1>2, <1>3, <1>4, <1>5

(* A file is moved to the free slot above its own.                         *)
LEMMA ChainRename ==
  ASSUME NEW c \in [Indices -> Seq(Nat)], NEW w \in Nat, Chain(c, w),
         NEW x \in Indices, NEW y \in Indices, x = y + 1, c[x] = <<>>,
         NEW b, b[x] = c[y], b[y] = <<>>, \A i \in Indices \ {x, y} : b[i] = c[i]
  PROVE  Chain(b, w)
<1> DEFINE from(i) == IF i = x THEN y ELSE i
           to(i) == IF i = y THEN x ELSE i
<1>n. Indices \subseteq Nat
  BY LogSinkAssumption DEF Indices
<1>1. \A i \in Indices : \A k \in 1..Len(b[i]) : from(i) \in Indices /\ b[i] = c[from(i)] /\ i # y
  <2> SUFFICES ASSUME NEW i \in Indices, NEW k \in 1..Len(b[i])
               PROVE  from(i) \in Indices /\ b[i] = c[from(i)] /\ i # y
    OBVIOUS
  <2>1. i # y
    OBVIOUS
  <2>2. CASE i = x
    BY <2>1, <2>2
  <2>3. CASE i # x
    BY <2>1, <2>3
  <2> QED
    BY <2>2, <2>3
<1>2. \A i \in Indices : \A k \in 1..Len(c[i]) : to(i) \in Indices /\ c[i] = b[to(i)]
  <2>1. Len(c[x]) = 0
    OBVIOUS
  <2> QED
    BY <2>1
<1>3. \A i, j \in Indices : i # y /\ j # y /\ j < i => from(j) < from(i)
  BY <1>n
<1> HIDE DEF from, to
<1> SUFFICES ASSUME NEW i \in Indices, NEW k \in 1..Len(b[i])
             PROVE  /\ b[i][k] <= w
                    /\ \A j \in Indices : \A l \in 1..Len(b[j]) :
                         j < i \/ (j = i /\ k < l) => b[i][k] < b[j][l]
                    /\ \/ b[i][k] = w
                       \/ \E j \in Indices : \E l \in 1..Len(b[j]) : b[j][l] = b[i][k] + 1
  BY DEF Chain
<1>4. PICK f \in Indices : f = from(i) /\ b[i] = c[f] /\ i # y /\ k \in 1..Len(c[f])
  BY <1>1
<1>5. /\ c[f][k] <= w
      /\ \A j \in Indices : \A l \in 1..Len(c[j]) :
           j < f \/ (j = f /\ k < l) => c[f][k] < c[j][l]
      /\ c[f][k] = w \/ \E j \in Indices : \E l \in 1..Len(c[j]) : c[j][l] = c[f][k] + 1
  BY <1>4 DEF Chain
<1>6. ASSUME NEW j \in Indices, NEW l \in 1..Len(b[j]), j < i \/ (j = i /\ k < l)
      PROVE  b[i][k] < b[j][l]
  <2>1. PICK g \in Indices : g = from(j) /\ b[j] = c[g] /\ j # y
    BY <1>1
  <2>2. g < f \/ (g = f /\ k < l)
    BY <1>3, <1>4, <1>6, <2>1
  <2>3. c[f][k] < c[g][l]
    BY <1>5, <2>1, <2>2
  <2> QED
    BY <1>4, <2>1, <2>3
<1>7. ASSUME NEW j \in Indices, NEW l \in 1..Len(c[j]), c[j][l] = b[i][k] + 1
      PROVE  \E h \in Indices : \E n \in 1..Len(b[h]) : b[h][n] = b[i][k] + 1
  <2>1. PICK h \in Indices : c[j] = b[h]
    BY <1>2
  <2> QED
    BY <1>7, <2>1
<1> QED
  BY <1>4, <1>5, <1>6, <1>7

(***************************************************************************)
(* What is on the disk: files that hold no message if their size is 0,     *)
(* with their messages in order.                                           *)
(***************************************************************************)
Contents(d) == [i \in Indices |-> Content(d, i)]

DiskInv ==
  /\ file    \in [Dates -> [Indices -> Files \cup {None}]]
  /\ written \in [Dates -> Nat]
  /\ \A d \in Dates, i \in Indices :
       file[d][i] # None => (file[d][i].size = 0 => file[d][i].log = <<>>)
  /\ \A d \in Dates : Chain(Contents(d), written[d])

(***************************************************************************)
(* Where the sink is.  While Rotate runs, everything above its place has   *)
(* moved up: the slot it is at is free, unless it is the highest one, and  *)
(* a file is renamed only to a slot that is free.  The file the sink has   *)
(* open is larger than the size it tracks by no more than what failed      *)
(* writes left in it.                                                      *)
(***************************************************************************)
Rotating ==
  place \in {"shift", "rename"} => pending \in Sizes /\ ~opened /\ index <= maxFiles

SlotFree ==
  /\ place = "shift" /\ index # maxFiles => file[base][index] = None
  /\ place = "rename" => index > 0 /\ file[base][index] = None

NoneBeyond == \A d \in Dates, i \in Indices : i > maxFiles => file[d][i] = None

NotStarted ==
  maxSize = 0 => place = "down" /\ \A d \in Dates, i \in Indices : file[d][i] = None

SizeTracked ==
  maxFiles > 0 /\ place = "idle" /\ opened =>
    Opened(base).size <= current + Opened(base).torn

SinkInv ==
  /\ SinkTypeOK /\ DiskInv /\ Rotating /\ SlotFree
  /\ NoneBeyond /\ NotStarted /\ SizeTracked /\ SizeBounded

\* What OnlyOldestDropped asks of a step, for one file.
KeptSomewhere(d, i) ==
  \E j \in Indices : file'[d][j] # None /\ IsPrefix(file[d][i].log, file'[d][j].log)

(* The parts of a file.                                                    *)
LEMMA FileFacts ==
  /\ \A f \in Files : f.log \in Seq(Nat) /\ f.size \in Nat /\ f.torn \in Nat
  /\ Empty \in Files /\ Empty.log = <<>> /\ Empty.size = 0 /\ Empty.torn = 0
  /\ None \notin Files
BY LogSinkAssumption DEF Files, Empty

(* The slot of the current file.                                           *)
LEMMA IndexFacts == 0 \in Indices /\ \A i \in Indices : i \in Nat
BY LogSinkAssumption DEF Indices

(* The file that is opened is the one there was, or empty.                 *)
LEMMA OpenedFacts ==
  ASSUME DiskInv, NEW d \in Dates
  PROVE  /\ Opened(d) \in Files /\ (file[d][0] # None => Opened(d) = file[d][0])
         /\ (file[d][0] = None => Opened(d) = Empty)
         /\ Opened(d).log = Content(d, 0)
         /\ (Opened(d).size = 0 => Opened(d).log = <<>>)
<1>1. file[d][0] \in Files \cup {None} /\ 0 \in Indices
  BY IndexFacts DEF DiskInv
<1>2. file[d][0] # None => (file[d][0].size = 0 => file[d][0].log = <<>>)
  BY <1>1 DEF DiskInv
<1>3. CASE file[d][0] = None
  BY <1>3, FileFacts DEF Opened, Content
<1>4. CASE file[d][0] # None
  BY <1>1, <1>2, <1>4 DEF Opened, Content
<1> QED
  BY <1>3, <1>4

(* The contents of the files of a date are sequences of numbers.           *)
LEMMA ContentsFacts ==
  ASSUME DiskInv, NEW d \in Dates
  PROVE  Contents(d) \in [Indices -> Seq(Nat)] /\ written[d] \in Nat
<1>1. ASSUME NEW i \in Indices PROVE Content(d, i) \in Seq(Nat)
  <2>1. file[d][i] \in Files \cup {None}
    BY DEF DiskInv
  <2>2. CASE file[d][i] = None
    BY <2>2 DEF Content
  <2>3. CASE file[d][i] \in Files /\ file[d][i] # None
    BY <2>3, FileFacts DEF Content
  <2> QED
    BY <2>1, <2>2, <2>3
<1> QED
  BY <1>1 DEF Contents, DiskInv

(* A file that stays, under its name or another, is kept.                  *)
LEMMA Stays ==
  ASSUME DiskInv, NEW d \in Dates, NEW i \in Indices, file[d][i] # None,
         NEW j \in Indices, file'[d][j] = file[d][i]
  PROVE  KeptSomewhere(d, i)
<1>1. file[d][i] \in Files
  BY DEF DiskInv
<1>2. IsPrefix(file[d][i].log, file[d][i].log)
  BY <1>1, FileFacts DEF IsPrefix
<1> QED
  BY <1>2 DEF KeptSomewhere

(* A sequence is a prefix of what it is after a message is appended.       *)
LEMMA PrefixOfAppend ==
  ASSUME NEW S, NEW f \in Seq(S), NEW e \in S
  PROVE  IsPrefix(f, Append(f, e))
BY DEF IsPrefix

(* The current file is opened, and made if it is not there.                *)
LEMMA OpenStep ==
  ASSUME DiskInv, NEW b \in Dates, file' = [file EXCEPT ![b][0] = Opened(b)],
         written' = written
  PROVE  /\ DiskInv' /\ file'[b][0] = Opened(b) /\ file'[b][0] # None
         /\ \A d \in Dates, i \in Indices : d # b \/ i # 0 => file'[d][i] = file[d][i]
         /\ \A d \in Dates, i \in Indices : file[d][i] # None => KeptSomewhere(d, i)
<1>0. 0 \in Indices /\ file \in [Dates -> [Indices -> Files \cup {None}]]
  BY IndexFacts DEF DiskInv
<1>1. /\ Opened(b) \in Files /\ (file[b][0] # None => Opened(b) = file[b][0])
      /\ Opened(b).log = Content(b, 0)
      /\ (Opened(b).size = 0 => Opened(b).log = <<>>)
  BY OpenedFacts
<1>2. file' \in [Dates -> [Indices -> Files \cup {None}]]
  BY <1>0, <1>1
<1>3. /\ file'[b][0] = Opened(b)
      /\ \A d \in Dates, i \in Indices : d # b \/ i # 0 => file'[d][i] = file[d][i]
  BY <1>0
<1>4. file'[b][0] # None
  BY <1>1, <1>3, FileFacts
<1>5. \A d \in Dates, i \in Indices :
        file'[d][i] # None => (file'[d][i].size = 0 => file'[d][i].log = <<>>)
  BY <1>1, <1>3 DEF DiskInv
<1>6. \A d \in Dates, i \in Indices : Content(d, i)' = Content(d, i)
  BY <1>1, <1>3, <1>4 DEF Content
<1>7. \A d \in Dates : Contents(d)' = Contents(d)
  BY <1>6 DEF Contents
<1>8. \A d \in Dates, i \in Indices : file[d][i] # None => file'[d][i] = file[d][i]
  BY <1>1, <1>3
<1> QED
  BY <1>2, <1>3, <1>4, <1>5, <1>7, <1>8, Stays DEF DiskInv

(* A write to the current file fails after k bytes.                        *)
LEMMA PartStep ==
  ASSUME DiskInv, NEW b \in Dates, NEW k \in Nat,
         file' = [file EXCEPT ![b][0] = WritePart(Opened(b), k)],
         written' = written
  PROVE  /\ DiskInv' /\ file'[b][0] # None
         /\ file'[b][0].size = Opened(b).size + k
         /\ file'[b][0].torn = Opened(b).torn + k
         /\ file'[b][0].log = Opened(b).log
         /\ \A d \in Dates, i \in Indices : d # b \/ i # 0 => file'[d][i] = file[d][i]
         /\ \A d \in Dates, i \in Indices : file[d][i] # None => KeptSomewhere(d, i)
<1> DEFINE f == WritePart(Opened(b), k)
<1>0. 0 \in Indices /\ file \in [Dates -> [Indices -> Files \cup {None}]]
  BY IndexFacts DEF DiskInv
<1>1. /\ Opened(b) \in Files /\ (file[b][0] # None => Opened(b) = file[b][0])
      /\ Opened(b).log = Content(b, 0) /\ Opened(b).log \in Seq(Nat)
      /\ Opened(b).size \in Nat /\ Opened(b).torn \in Nat
      /\ (Opened(b).size = 0 => Opened(b).log = <<>>)
  BY OpenedFacts, FileFacts
<1>2. /\ f.log = Opened(b).log /\ f.size = Opened(b).size + k /\ f.torn = Opened(b).torn + k
      /\ f \in Files
  BY <1>1 DEF WritePart, Files
<1>3. f # None
  BY <1>2, FileFacts
<1> HIDE DEF f
<1>4. file' \in [Dates -> [Indices -> Files \cup {None}]]
  BY <1>0, <1>2 DEF f
<1>5. /\ file'[b][0] = f
      /\ \A d \in Dates, i \in Indices : d # b \/ i # 0 => file'[d][i] = file[d][i]
  BY <1>0 DEF f
<1>6. \A d \in Dates, i \in Indices :
        file'[d][i] # None => (file'[d][i].size = 0 => file'[d][i].log = <<>>)
  BY <1>1, <1>2, <1>5 DEF DiskInv
<1>7. \A d \in Dates, i \in Indices : Content(d, i)' = Content(d, i)
  BY <1>1, <1>2, <1>3, <1>5 DEF Content
<1>8. \A d \in Dates : Contents(d)' = Contents(d)
  BY <1>7 DEF Contents
<1>9. ASSUME NEW d \in Dates, NEW i \in Indices, file[d][i] # None PROVE KeptSomewhere(d, i)
  <2>1. CASE d # b \/ i # 0
    BY <1>5, <1>9, <2>1, Stays
  <2>2. CASE d = b /\ i = 0
    <3>1. IsPrefix(Opened(b).log, Opened(b).log)
      BY <1>1 DEF IsPrefix
    <3> QED
      BY <1>0, <1>1, <1>2, <1>3, <1>5, <1>9, <2>2, <3>1 DEF KeptSomewhere
  <2> QED
    BY <2>1, <2>2
<1>10. DiskInv'
  BY <1>4, <1>6, <1>8 DEF DiskInv
<1> QED
  BY <1>2, <1>3, <1>5, <1>9, <1>10

(* A message is written to the current file.                               *)
LEMMA WriteStep ==
  ASSUME DiskInv, NEW b \in Dates, NEW n \in Sizes,
         file' = [file EXCEPT ![b][0] = Write(Opened(b), b, n)],
         written' = [written EXCEPT ![b] = @ + 1]
  PROVE  /\ DiskInv' /\ file'[b][0] # None
         /\ file'[b][0].size = Opened(b).size + n
         /\ file'[b][0].torn = Opened(b).torn
         /\ Len(file'[b][0].log) = Len(Opened(b).log) + 1
         /\ \A d \in Dates, i \in Indices : d # b \/ i # 0 => file'[d][i] = file[d][i]
         /\ \A d \in Dates, i \in Indices : file[d][i] # None => KeptSomewhere(d, i)
<1> DEFINE f == Write(Opened(b), b, n)
<1>0. /\ 0 \in Indices /\ file \in [Dates -> [Indices -> Files \cup {None}]]
      /\ written[b] \in Nat /\ n \in Nat /\ n > 0
  BY IndexFacts, LogSinkAssumption DEF DiskInv
<1>1. /\ Opened(b) \in Files /\ (file[b][0] # None => Opened(b) = file[b][0])
      /\ Opened(b).log = Content(b, 0) /\ Opened(b).log \in Seq(Nat)
      /\ Opened(b).size \in Nat /\ Opened(b).torn \in Nat
  BY OpenedFacts, FileFacts
<1>2. /\ f.log = Append(Opened(b).log, written[b] + 1)
      /\ f.size = Opened(b).size + n /\ f.torn = Opened(b).torn
      /\ f = [log |-> Append(Opened(b).log, written[b] + 1), size |-> Opened(b).size + n,
              torn |-> Opened(b).torn]
  BY DEF Write
<1> HIDE DEF f
<1>3. /\ Append(Opened(b).log, written[b] + 1) \in Seq(Nat)
      /\ Len(f.log) = Len(Opened(b).log) + 1 /\ f.log # <<>>
      /\ IsPrefix(Opened(b).log, f.log)
  <2>1. written[b] + 1 \in Nat
    BY <1>0
  <2>2. /\ Append(Opened(b).log, written[b] + 1) \in Seq(Nat)
        /\ Len(f.log) = Len(Opened(b).log) + 1
    BY <1>1, <1>2, <2>1, AppendFacts
  <2>3. IsPrefix(Opened(b).log, f.log)
    BY <1>1, <1>2, <2>1, PrefixOfAppend
  <2> QED
    BY <1>1, <2>2, <2>3
<1>4. f \in Files /\ f # None
  <2>1. f \in Files
    BY <1>0, <1>1, <1>2, <1>3 DEF Files
  <2> QED
    BY <2>1, FileFacts
<1>5. file' \in [Dates -> [Indices -> Files \cup {None}]]
  BY <1>0, <1>4 DEF f
<1>6. /\ file'[b][0] = f
      /\ \A d \in Dates, i \in Indices : d # b \/ i # 0 => file'[d][i] = file[d][i]
  BY <1>0 DEF f
<1>7. \A d \in Dates, i \in Indices :
        file'[d][i] # None => (file'[d][i].size = 0 => file'[d][i].log = <<>>)
  <2>1. f.size # 0
    BY <1>0, <1>1, <1>2
  <2> QED
    BY <1>3, <1>6, <2>1 DEF DiskInv
<1>8. /\ written' \in [Dates -> Nat] /\ written'[b] = written[b] + 1
      /\ \A d \in Dates : d # b => written'[d] = written[d]
  BY <1>0 DEF DiskInv
<1>9. ASSUME NEW d \in Dates PROVE Chain(Contents(d)', written'[d])
  <2>1. CASE d # b
    <3>1. Contents(d)' = Contents(d)
      BY <1>6, <2>1 DEF Contents, Content
    <3> QED
      BY <1>8, <2>1, <3>1 DEF DiskInv
  <2>2. CASE d = b
    <3>1. /\ Contents(b) \in [Indices -> Seq(Nat)] /\ Chain(Contents(b), written[b])
          /\ Contents(b)[0] = Opened(b).log
      BY <1>0, <1>1, ContentsFacts DEF DiskInv, Contents
    <3>2. Contents(b)'[0] = f.log
      BY <1>0, <1>4, <1>6 DEF Contents, Content
    <3>3. \A i \in Indices : i # 0 => Contents(b)'[i] = Contents(b)[i]
      BY <1>6 DEF Contents, Content
    <3>4. Chain(Contents(b)', written[b] + 1)
      BY <1>0, <1>2, <3>1, <3>2, <3>3, ChainAppend
    <3> QED
      BY <1>8, <2>2, <3>4
  <2> QED
    BY <2>1, <2>2
<1>10. ASSUME NEW d \in Dates, NEW i \in Indices, file[d][i] # None PROVE KeptSomewhere(d, i)
  <2>1. CASE d # b \/ i # 0
    BY <1>6, <1>10, <2>1, Stays
  <2>2. CASE d = b /\ i = 0
    BY <1>0, <1>1, <1>3, <1>4, <1>6, <1>10, <2>2 DEF KeptSomewhere
  <2> QED
    BY <2>1, <2>2
<1>11. DiskInv'
  BY <1>5, <1>7, <1>8, <1>9 DEF DiskInv
<1> QED
  BY <1>2, <1>3, <1>4, <1>6, <1>10, <1>11

(* Rotate moves a file to the free slot above it.                          *)
LEMMA RenameStep ==
  ASSUME SinkInv, RotateRename
  PROVE  /\ DiskInv' /\ index > 0 /\ file'[base][index - 1] = None
         /\ file'[base][index] = file[base][index - 1]
         /\ \A d \in Dates, i \in Indices : d # base \/ i \notin {index - 1, index} =>
              file'[d][i] = file[d][i]
         /\ \A d \in Dates, i \in Indices : file[d][i] # None => KeptSomewhere(d, i)
<1>0. /\ DiskInv /\ base \in Dates /\ index \in Indices
      /\ file \in [Dates -> [Indices -> Files \cup {None}]]
      /\ index > 0 /\ file[base][index] = None /\ written' = written
  BY DEF SinkInv, SinkTypeOK, DiskInv, SlotFree, RotateRename
<1>1. PICK k \in Indices : k = index - 1 /\ index = k + 1 /\ k # index
  BY <1>0, LogSinkAssumption DEF Indices
<1>2. file' = [file EXCEPT ![base][index] = file[base][k], ![base][k] = None]
  BY <1>1 DEF RotateRename
<1>3. file' \in [Dates -> [Indices -> Files \cup {None}]]
  BY <1>0, <1>2
<1>4. /\ file'[base][k] = None /\ file'[base][index] = file[base][k]
      /\ \A d \in Dates, i \in Indices : d # base \/ i \notin {index, k} =>
           file'[d][i] = file[d][i]
  BY <1>0, <1>1, <1>2
<1>5. \A d \in Dates, i \in Indices :
        file'[d][i] # None => (file'[d][i].size = 0 => file'[d][i].log = <<>>)
  BY <1>0, <1>4 DEF DiskInv
<1>6. ASSUME NEW d \in Dates PROVE Chain(Contents(d)', written'[d])
  <2>1. CASE d # base
    <3>1. Contents(d)' = Contents(d)
      BY <1>4, <2>1 DEF Contents, Content
    <3> QED
      BY <1>0, <3>1 DEF DiskInv
  <2>2. CASE d = base
    <3>1. /\ Contents(base) \in [Indices -> Seq(Nat)] /\ written[base] \in Nat
          /\ Chain(Contents(base), written[base])
      BY <1>0, ContentsFacts DEF DiskInv
    <3>2. Contents(base)[index] = <<>>
      BY <1>0 DEF Contents, Content
    <3>3. ASSUME NEW b, b = [i \in Indices |-> IF file'[base][i] = None THEN <<>>
                                               ELSE file'[base][i].log]
          PROVE  Chain(b, written[base])
      <4>1. b[k] = <<>> /\ b[index] = Contents(base)[k]
        BY <1>0, <1>4, <3>3 DEF Contents, Content
      <4>2. \A i \in Indices \ {index, k} : b[i] = Contents(base)[i]
        BY <1>0, <1>4, <3>3 DEF Contents, Content
      <4> QED
        BY <1>0, <1>1, <3>1, <3>2, <4>1, <4>2, ChainRename
    <3>4. Contents(d)' = [i \in Indices |-> IF file'[d][i] = None THEN <<>>
                                            ELSE file'[d][i].log]
      BY DEF Contents, Content
    <3> QED
      BY <1>0, <2>2, <3>3, <3>4
  <2> QED
    BY <2>1, <2>2
<1>7. ASSUME NEW d \in Dates, NEW i \in Indices, file[d][i] # None PROVE KeptSomewhere(d, i)
  <2>1. CASE d = base /\ i = k
    BY <1>0, <1>4, <1>7, <2>1, Stays
  <2>2. CASE d # base \/ i \notin {index, k}
    BY <1>0, <1>4, <1>7, <2>2, Stays
  <2> QED
    BY <1>0, <1>7, <2>1, <2>2
<1>8. DiskInv'
  BY <1>0, <1>3, <1>5, <1>6 DEF DiskInv
<1> QED
  BY <1>0, <1>1, <1>4, <1>7, <1>8

(* Rotate removes what is in the slot it is at: the oldest file or none.   *)
LEMMA RemoveStep ==
  ASSUME SinkInv, place = "shift", file' = [file EXCEPT ![base][index] = None],
         written' = written
  PROVE  /\ DiskInv' /\ file'[base][index] = None
         /\ \A d \in Dates, i \in Indices : d # base \/ i # index => file'[d][i] = file[d][i]
         /\ \A d \in Dates, i \in Indices :
              file[d][i] # None /\ i # maxFiles => KeptSomewhere(d, i)
<1>0. /\ DiskInv /\ base \in Dates /\ index \in Indices /\ maxFiles \in Nat
      /\ file \in [Dates -> [Indices -> Files \cup {None}]]
  BY IndexFacts DEF SinkInv, SinkTypeOK, DiskInv
<1>1. file' \in [Dates -> [Indices -> Files \cup {None}]]
  BY <1>0
<1>2. /\ file'[base][index] = None
      /\ \A d \in Dates, i \in Indices : d # base \/ i # index => file'[d][i] = file[d][i]
  BY <1>0
<1>3. \A d \in Dates, i \in Indices :
        file'[d][i] # None => (file'[d][i].size = 0 => file'[d][i].log = <<>>)
  BY <1>0, <1>2 DEF DiskInv
<1>4. ASSUME NEW d \in Dates PROVE Chain(Contents(d)', written'[d])
  <2>1. CASE d # base \/ file[base][index] = None
    <3>1. Contents(d)' = Contents(d)
      BY <1>0, <1>2, <2>1 DEF Contents, Content
    <3> QED
      BY <1>0, <3>1 DEF DiskInv
  <2>2. CASE d = base /\ file[base][index] # None
    <3>1. /\ Contents(base) \in [Indices -> Seq(Nat)] /\ written[base] \in Nat
          /\ Chain(Contents(base), written[base])
      BY <1>0, ContentsFacts DEF DiskInv
    <3>2. index = maxFiles
      BY <2>2 DEF SinkInv, SlotFree
    <3>3. \A i \in Indices : i > index => Contents(base)[i] = <<>>
      BY <1>0, <3>2 DEF SinkInv, NoneBeyond, Contents, Content
    <3>4. ASSUME NEW b, b = [i \in Indices |-> IF file'[base][i] = None THEN <<>>
                                               ELSE file'[base][i].log]
          PROVE  Chain(b, written[base])
      <4>1. b[index] = <<>> /\ \A i \in Indices : i # index => b[i] = Contents(base)[i]
        BY <1>0, <1>2, <3>4 DEF Contents, Content
      <4> QED
        BY <1>0, <3>1, <3>3, <4>1, ChainRemove
    <3>5. Contents(d)' = [i \in Indices |-> IF file'[d][i] = None THEN <<>>
                                            ELSE file'[d][i].log]
      BY DEF Contents, Content
    <3> QED
      BY <2>2, <3>4, <3>5
  <2> QED
    BY <2>1, <2>2
<1>5. ASSUME NEW d \in Dates, NEW i \in Indices, file[d][i] # None, i # maxFiles
      PROVE  KeptSomewhere(d, i)
  <2>1. d # base \/ i # index
    BY <1>5 DEF SinkInv, SlotFree
  <2> QED
    BY <1>0, <1>2, <1>5, <2>1, Stays
<1>6. DiskInv'
  BY <1>0, <1>1, <1>3, <1>4 DEF DiskInv
<1> QED
  BY <1>2, <1>5, <1>6

(* Initially nothing is there.                                             *)
LEMMA SinkInitInv == SinkInit => SinkInv
<1> SUFFICES ASSUME SinkInit PROVE SinkInv
  OBVIOUS
<1>0. 0 \in Indices /\ 0 \in 0..MaxFaults
  BY IndexFacts, LogSinkAssumption
<1>1. \A d \in Dates, i \in Indices : file[d][i] = None
  BY DEF SinkInit
<1>2. file \in [Dates -> [Indices -> Files \cup {None}]] /\ today \in Dates
  BY LogSinkAssumption DEF SinkInit
<1>3. SinkTypeOK
  BY <1>0, <1>2 DEF SinkInit, SinkTypeOK
<1>4. \A d \in Dates, i \in Indices : Contents(d)[i] = <<>>
  BY <1>1 DEF Contents, Content
<1>5. DiskInv
  BY <1>1, <1>2, <1>4 DEF SinkInit, DiskInv, Chain
<1> QED
  BY <1>1, <1>3, <1>5 DEF SinkInit, SinkInv, Rotating, SlotFree, NoneBeyond, NotStarted,
     SizeTracked, SizeBounded

(* Every step keeps the invariant, and every file but the oldest.          *)
LEMMA SinkNextInv ==
  ASSUME SinkInv, [SinkNext]_sinkVars
  PROVE  /\ SinkInv'
         /\ \A d \in Dates, i \in Indices :
              file[d][i] # None /\ i # maxFiles => KeptSomewhere(d, i)
<1> DEFINE Kept ==
      \A d \in Dates, i \in Indices : file[d][i] # None /\ i # maxFiles => KeptSomewhere(d, i)
<1> SUFFICES SinkInv' /\ Kept
  OBVIOUS
<1>0. /\ SinkTypeOK /\ DiskInv /\ Rotating /\ SlotFree
      /\ NoneBeyond /\ NotStarted /\ SizeTracked /\ SizeBounded
  BY DEF SinkInv
<1>ty. /\ 0 \in Indices /\ index \in Indices /\ index \in Nat
       /\ maxFiles \in Indices /\ maxFiles \in Nat /\ maxSize \in Nat /\ current \in Nat
       /\ today \in Dates /\ base \in Dates
  BY <1>0, IndexFacts DEF SinkTypeOK
<1>open. \A d \in Dates :
           /\ Opened(d).size \in Nat /\ Opened(d).log \in Seq(Nat) /\ Opened(d).torn \in Nat
  BY <1>0, OpenedFacts, FileFacts
<1>same. ASSUME UNCHANGED <<file, written>>
         PROVE  DiskInv' /\ Kept
  <2>1. \A d \in Dates : Contents(d)' = Contents(d)
    BY <1>same DEF Contents, Content
  <2>2. DiskInv'
    BY <1>0, <1>same, <2>1 DEF DiskInv
  <2> QED
    BY <1>0, <1>same, <2>2, Stays
<1> HIDE DEF Kept
<1>size. CurrentSize \in Nat
  BY <1>open, <1>ty DEF CurrentSize, SizeOnOpen
<1>tracked. place = "idle" /\ IsOpen /\ maxFiles > 0 =>
              Opened(today).size <= CurrentSize + Opened(today).torn
  <2>1. CASE today # base
    BY <1>open, <1>ty, <2>1 DEF CurrentSize, SizeOnOpen
  <2>2. CASE today = base
    BY <1>0, <2>2 DEF SizeTracked, IsOpen, CurrentSize
  <2> QED
    BY <2>1, <2>2
<1>bounded. \A d \in Dates : maxFiles > 0 =>
              Opened(d).size <= maxSize + Opened(d).torn \/ Len(Opened(d).log) = 1
  <2> SUFFICES ASSUME NEW d \in Dates, maxFiles > 0
               PROVE  Opened(d).size <= maxSize + Opened(d).torn \/ Len(Opened(d).log) = 1
    OBVIOUS
  <2>1. CASE file[d][0] = None
    BY <1>0, <1>ty, <2>1, OpenedFacts, FileFacts
  <2>2. CASE file[d][0] # None
    BY <1>0, <1>ty, <2>2, OpenedFacts DEF SizeBounded
  <2> QED
    BY <2>1, <2>2
<1>part. ASSUME NEW b \in Dates, NEW k \in Nat, base' = b,
                file' = [file EXCEPT ![b][0] = WritePart(Opened(b), k)], written' = written,
                place' = "idle", opened' = TRUE, UNCHANGED <<maxSize, maxFiles, today, index>>,
                pending' \in Sizes \cup {0}, current' \in Nat, faults' \in 0..MaxFaults,
                maxSize # 0,
                maxFiles > 0 => Opened(b).size <= current' + Opened(b).torn
         PROVE  SinkInv' /\ Kept
  <2>1. /\ DiskInv' /\ file'[b][0] # None
        /\ file'[b][0].size = Opened(b).size + k
        /\ file'[b][0].torn = Opened(b).torn + k
        /\ file'[b][0].log = Opened(b).log
        /\ \A d \in Dates, i \in Indices : d # b \/ i # 0 => file'[d][i] = file[d][i]
        /\ Kept
    BY <1>0, <1>part, PartStep DEF Kept
  <2>2. SinkTypeOK'
    BY <1>0, <1>part, <2>1 DEF SinkTypeOK, DiskInv
  <2>3. SizeBounded'
    <3>1. maxFiles > 0 => \/ file'[b][0].size <= maxSize + file'[b][0].torn
                          \/ Len(file'[b][0].log) = 1
      BY <1>bounded, <1>open, <1>ty, <2>1
    <3> QED
      BY <1>0, <1>part, <2>1, <3>1 DEF SizeBounded
  <2>4. NoneBeyond'
    BY <1>0, <1>part, <1>ty, <2>1, IndexFacts DEF NoneBeyond
  <2>5. SizeTracked'
    <3>1. Opened(base)' = file'[b][0]
      BY <1>part, <2>1 DEF Opened
    <3> QED
      BY <1>open, <1>part, <2>1, <3>1 DEF SizeTracked
  <2> QED
    BY <1>part, <2>1, <2>2, <2>3, <2>4, <2>5 DEF SinkInv, Rotating, SlotFree, NotStarted
<1>1. CASE InitLogging
  <2>1. /\ file' = [file EXCEPT ![today][0] = Opened(today)] /\ written' = written
        /\ place' = "idle" /\ base' = today /\ current' = Opened(today).size
        /\ opened' = TRUE /\ UNCHANGED <<today, index, pending, faults>>
    BY <1>1 DEF InitLogging, SizeOnOpen
  <2>2. /\ DiskInv' /\ file'[today][0] = Opened(today) /\ file'[today][0] # None
        /\ \A d \in Dates, i \in Indices : d # today \/ i # 0 => file'[d][i] = file[d][i]
        /\ Kept
    BY <1>0, <1>ty, <2>1, OpenStep DEF Kept
  <2>3. /\ maxSize' \in Nat \ {0} /\ maxFiles' \in Indices
        /\ maxSize # 0 => maxSize' = maxSize /\ maxFiles' = maxFiles
    BY <1>1, <1>ty, LogSinkAssumption DEF InitLogging, Clamped, Indices
  <2>4. SinkTypeOK'
    BY <1>0, <1>ty, <1>open, <2>1, <2>2, <2>3 DEF SinkTypeOK, DiskInv
  <2>5. NoneBeyond'
    <3> SUFFICES ASSUME NEW d \in Dates, NEW i \in Indices, i > maxFiles'
                 PROVE  file'[d][i] = None
      BY DEF NoneBeyond
    <3>1. i # 0 /\ file'[d][i] = file[d][i]
      BY <2>2, <2>3, IndexFacts
    <3> QED
      BY <1>0, <2>3, <3>1 DEF NoneBeyond, NotStarted
  <2>6. SizeBounded'
    <3> SUFFICES ASSUME maxFiles' > 0, NEW d \in Dates, NEW i \in Indices, file'[d][i] # None
                 PROVE  file'[d][i].size <= maxSize' + file'[d][i].torn \/ Len(file'[d][i].log) = 1
      BY DEF SizeBounded
    <3>1. CASE file[d][i] # None
      <4>1. file'[d][i] = file[d][i]
        BY <1>0, <1>ty, <2>2, <3>1, OpenedFacts
      <4>2. maxSize' = maxSize /\ maxFiles' = maxFiles
        BY <1>0, <2>3, <3>1 DEF NotStarted
      <4> QED
        BY <1>0, <3>1, <4>1, <4>2 DEF SizeBounded
    <3>2. CASE file[d][i] = None
      <4>1. file'[d][i] = Empty
        BY <1>0, <1>ty, <2>2, <3>2, OpenedFacts
      <4>2. file'[d][i].size = 0 /\ file'[d][i].torn = 0
        BY <4>1, FileFacts
      <4>3. maxSize' \in Nat
        BY <2>3
      <4>4. \A m \in Nat : 0 <= m + 0
        OBVIOUS
      <4>5. file'[d][i].size <= maxSize' + file'[d][i].torn
        BY <4>2, <4>3, <4>4, Zenon
      <4> QED
        BY <4>5, Zenon
    <3> QED
      BY <3>1, <3>2
  <2>7. SizeTracked'
    <3>1. Opened(base)' = Opened(today)
      BY <2>1, <2>2 DEF Opened
    <3> QED
      BY <1>open, <1>ty, <2>1, <3>1 DEF SizeTracked
  <2> QED
    BY <2>1, <2>2, <2>3, <2>4, <2>5, <2>6, <2>7
       DEF SinkInv, Rotating, SlotFree, NotStarted
<1>2. CASE Crash \/ ClockMoves \/ DateFlushFails \/ OpenFails \/ RotateFails \/ UNCHANGED sinkVars
  <2>1. UNCHANGED <<file, maxFiles, maxSize, written>>
    BY <1>2 DEF Crash, ClockMoves, DateFlushFails, OpenFails, RotateFails, Fault, sinkVars
  <2>2. SinkTypeOK'
    <3>1. /\ today' \in Dates /\ base' \in Dates /\ index' \in Indices
          /\ pending' \in Sizes \cup {0} /\ current' \in Nat
      BY <1>0, <1>2, <1>ty DEF Crash, ClockMoves, DateFlushFails, OpenFails, RotateFails,
         Fault, sinkVars, SinkTypeOK
    <3>2. /\ place' \in {"down", "idle", "shift", "rename"} /\ opened' \in BOOLEAN
          /\ faults' \in 0..MaxFaults
      <4>1. faults \in Nat /\ faults <= MaxFaults /\ MaxFaults \in Nat
        BY <1>0, LogSinkAssumption DEF SinkTypeOK
      <4>2. CASE Crash \/ ClockMoves \/ UNCHANGED sinkVars
        BY <1>0, <4>2 DEF Crash, ClockMoves, sinkVars, SinkTypeOK
      <4>3. CASE DateFlushFails \/ OpenFails \/ RotateFails
        <5>1. faults < MaxFaults /\ faults' = faults + 1
          BY <4>3 DEF DateFlushFails, OpenFails, RotateFails, Fault
        <5>2. opened' \in BOOLEAN /\ place' = "idle"
          BY <1>0, <4>3 DEF DateFlushFails, OpenFails, RotateFails, Fault, SinkTypeOK
        <5> QED
          BY <4>1, <5>1, <5>2
      <4> QED
        BY <1>2, <4>2, <4>3
    <3> QED
      BY <1>0, <2>1, <3>1, <3>2 DEF SinkTypeOK
  <2>3. Rotating' /\ SlotFree'
    BY <1>0, <1>2, <2>1 DEF Crash, ClockMoves, DateFlushFails, OpenFails, RotateFails,
       Fault, sinkVars, SlotFree, Rotating
  <2>4. NoneBeyond' /\ SizeBounded'
    BY <1>0, <2>1 DEF NoneBeyond, SizeBounded
  <2>5. NotStarted'
    BY <1>0, <1>2, <2>1 DEF Crash, ClockMoves, DateFlushFails, OpenFails, RotateFails,
       Fault, sinkVars, NotStarted
  <2>6. SizeTracked'
    BY <1>0, <1>2, <2>1 DEF Crash, ClockMoves, DateFlushFails, OpenFails, RotateFails,
       Fault, sinkVars, Rotating, SizeTracked, Opened
  <2> QED
    BY <1>same, <2>1, <2>2, <2>3, <2>4, <2>5, <2>6 DEF SinkInv
<1>3. ASSUME NEW n \in Sizes, SinkIt(n) PROVE SinkInv' /\ Kept
  <2>1. /\ place = "idle" /\ base' = today /\ UNCHANGED <<maxSize, maxFiles, today, faults>>
        /\ opened' = (IsOpen /\ ~Rotates(n))
        /\ n \in Nat /\ maxSize # 0
    BY <1>0, <1>3, LogSinkAssumption DEF SinkIt, NotStarted
  <2>2. CASE IsOpen /\ Rotates(n)
    <3>1. /\ place' = "shift" /\ index' = maxFiles /\ pending' = n /\ current' = CurrentSize
          /\ file' = [file EXCEPT ![today][0] = Opened(today)] /\ written' = written
      BY <1>3, <2>2 DEF SinkIt, FirstIndex
    <3>2. ~opened' /\ opened' \in BOOLEAN
      BY <2>1, <2>2
    <3>3. /\ DiskInv' /\ file'[today][0] = Opened(today)
          /\ \A d \in Dates, i \in Indices : d # today \/ i # 0 => file'[d][i] = file[d][i]
          /\ Kept
      BY <1>0, <1>ty, <3>1, OpenStep DEF Kept
    <3>4. SinkTypeOK'
      BY <1>0, <1>ty, <1>size, <2>1, <3>1, <3>2, <3>3 DEF SinkTypeOK, DiskInv
    <3>5. NoneBeyond'
      <4>1. \A i \in Indices : i > maxFiles => i # 0
        BY <1>ty
      <4> QED
        BY <1>0, <2>1, <3>3, <4>1 DEF NoneBeyond
    <3>6. SizeBounded'
      <4> SUFFICES ASSUME maxFiles > 0, NEW d \in Dates, NEW i \in Indices, file'[d][i] # None
                   PROVE  file'[d][i].size <= maxSize + file'[d][i].torn \/ Len(file'[d][i].log) = 1
        BY <2>1 DEF SizeBounded
      <4>1. CASE file[d][i] # None
        <5>1. file'[d][i] = file[d][i]
          BY <1>0, <1>ty, <3>3, <4>1, OpenedFacts
        <5> QED
          BY <1>0, <4>1, <5>1 DEF SizeBounded
      <4>2. CASE file[d][i] = None
        <5>1. file'[d][i] = Empty
          BY <1>0, <1>ty, <3>3, <4>2, OpenedFacts
        <5> QED
          BY <1>ty, <5>1, FileFacts
      <4> QED
        BY <4>1, <4>2
    <3> QED
      BY <1>ty, <2>1, <3>1, <3>2, <3>3, <3>4, <3>5, <3>6
         DEF SinkInv, Rotating, SlotFree, NotStarted, SizeTracked
  <2>3. CASE IsOpen /\ ~Rotates(n)
    <3>1. /\ UNCHANGED <<place, index, pending>> /\ current' = CurrentSize + n
          /\ file' = [file EXCEPT ![today][0] = Write(Opened(today), today, n)]
          /\ written' = [written EXCEPT ![today] = @ + 1]
      BY <1>3, <2>3 DEF SinkIt
    <3>2. opened' = TRUE
      BY <2>1, <2>3
    <3>3. maxFiles > 0 => Opened(today).size <= CurrentSize + Opened(today).torn
      BY <1>tracked, <2>1, <2>3
    <3>4. CurrentSize + n <= maxSize \/ Opened(today).size = 0
      BY <1>ty, <1>open, <1>size, <2>1, <2>3 DEF Rotates, Full
    <3>5. /\ DiskInv' /\ file'[today][0] # None
          /\ file'[today][0].size = Opened(today).size + n
          /\ file'[today][0].torn = Opened(today).torn
          /\ Len(file'[today][0].log) = Len(Opened(today).log) + 1
          /\ \A d \in Dates, i \in Indices : d # today \/ i # 0 => file'[d][i] = file[d][i]
          /\ Kept
      BY <1>0, <1>ty, <3>1, WriteStep DEF Kept
    <3>6. SinkTypeOK'
      BY <1>0, <1>ty, <1>size, <2>1, <3>1, <3>2, <3>5 DEF SinkTypeOK, DiskInv
    <3>7. NoneBeyond'
      <4>1. \A i \in Indices : i > maxFiles => i # 0
        BY <1>ty
      <4> QED
        BY <1>0, <2>1, <3>5, <4>1 DEF NoneBeyond
    <3>8. maxFiles > 0 => \/ file'[today][0].size <= maxSize + file'[today][0].torn
                          \/ Len(file'[today][0].log) = 1
      <4>1. Opened(today).size = 0 => Len(Opened(today).log) = 0
        BY <1>0, <1>ty, OpenedFacts
      <4> QED
        BY <1>open, <1>size, <1>ty, <2>1, <3>3, <3>4, <3>5, <4>1
    <3>9. SizeBounded'
      BY <1>0, <2>1, <3>5, <3>8 DEF SizeBounded
    <3>10. SizeTracked'
      <4>1. Opened(today)' = file'[today][0]
        BY <2>1, <3>5 DEF Opened
      <4>2. Opened(base)' = Opened(today)'
        BY <2>1 DEF Opened
      <4> QED
        BY <1>open, <1>size, <1>ty, <2>1, <3>1, <3>3, <3>5, <4>1, <4>2 DEF SizeTracked
    <3> QED
      BY <2>1, <3>1, <3>5, <3>6, <3>7, <3>9, <3>10
         DEF SinkInv, Rotating, SlotFree, NotStarted
  <2>4. CASE ~IsOpen
    <3>1. /\ UNCHANGED <<place, index, pending, file, written>> /\ today = base
          /\ current' \in Nat /\ opened' = FALSE
      <4>1. CurrentSize + n \in Nat
        BY <1>size, <2>1
      <4>2. today = base
        BY <2>4 DEF IsOpen
      <4> QED
        BY <1>3, <1>ty, <2>1, <2>4, <4>1, <4>2 DEF SinkIt
    <3>2. SinkTypeOK'
      BY <1>0, <2>1, <3>1 DEF SinkTypeOK
    <3>3. NoneBeyond' /\ SizeBounded' /\ SizeTracked'
      BY <1>0, <2>1, <3>1 DEF NoneBeyond, SizeBounded, SizeTracked
    <3> QED
      BY <1>same, <2>1, <3>1, <3>2, <3>3 DEF SinkInv, Rotating, SlotFree, NotStarted
  <2> QED
    BY <2>2, <2>3, <2>4
<1>4. CASE RotateRemove
  <2>1. /\ place = "shift" /\ index > 0 /\ maxSize # 0 /\ written' = written
        /\ UNCHANGED <<maxSize, maxFiles, today, base, opened, current, pending, faults>>
    BY <1>0, <1>4 DEF RotateRemove, NotStarted
  <2>2. CASE file[base][index - 1] = None
    <3>1. index' = index - 1 /\ index - 1 \in Indices /\ UNCHANGED <<file, place>>
      BY <1>4, <1>ty, <2>1, <2>2, LogSinkAssumption DEF RotateRemove, Indices
    <3>2. SinkTypeOK'
      BY <1>0, <2>1, <3>1 DEF SinkTypeOK
    <3>3. NoneBeyond' /\ SizeBounded' /\ SizeTracked'
      BY <1>0, <2>1, <3>1 DEF NoneBeyond, SizeBounded, SizeTracked
    <3> QED
      BY <1>0, <1>same, <1>ty, <2>1, <2>2, <3>1, <3>2, <3>3
         DEF SinkInv, Rotating, SlotFree, NotStarted
  <2>3. CASE file[base][index - 1] # None
    <3>1. file' = [file EXCEPT ![base][index] = None] /\ place' = "rename" /\ index' = index
      BY <1>4, <2>3 DEF RotateRemove
    <3>2. /\ DiskInv' /\ file'[base][index] = None
          /\ \A d \in Dates, i \in Indices : d # base \/ i # index => file'[d][i] = file[d][i]
          /\ Kept
      BY <2>1, <3>1, RemoveStep DEF Kept
    <3>3. SinkTypeOK'
      BY <1>0, <2>1, <3>1, <3>2 DEF SinkTypeOK, DiskInv
    <3>4. NoneBeyond' /\ SizeBounded'
      BY <1>0, <2>1, <3>2 DEF NoneBeyond, SizeBounded
    <3> QED
      BY <1>0, <2>1, <3>1, <3>2, <3>3, <3>4
         DEF SinkInv, Rotating, SlotFree, NotStarted, SizeTracked
  <2> QED
    BY <2>2, <2>3
<1>5. CASE RotateRename
  <2>1. /\ place' = "shift" /\ index' = index - 1 /\ maxSize # 0 /\ written' = written
        /\ place = "rename"
        /\ UNCHANGED <<maxSize, maxFiles, today, base, opened, current, pending, faults>>
    BY <1>0, <1>5 DEF RotateRename, NotStarted
  <2>2. /\ DiskInv' /\ index > 0 /\ file'[base][index - 1] = None
        /\ file'[base][index] = file[base][index - 1]
        /\ \A d \in Dates, i \in Indices : d # base \/ i \notin {index - 1, index} =>
             file'[d][i] = file[d][i]
        /\ Kept
    BY <1>5, RenameStep DEF Kept
  <2>3. index - 1 \in Indices
    BY <1>ty, <2>2, LogSinkAssumption DEF Indices
  <2>4. SinkTypeOK'
    BY <1>0, <2>1, <2>2, <2>3 DEF SinkTypeOK, DiskInv
  <2>5. SizeBounded'
    <3> SUFFICES ASSUME maxFiles > 0, NEW d \in Dates, NEW i \in Indices, file'[d][i] # None
                 PROVE  file'[d][i].size <= maxSize + file'[d][i].torn \/ Len(file'[d][i].log) = 1
      BY <2>1 DEF SizeBounded
    <3>1. PICK j \in Indices : file'[d][i] = file[d][j]
      BY <1>ty, <2>2, <2>3
    <3> QED
      BY <1>0, <3>1 DEF SizeBounded
  <2>6. NoneBeyond'
    <3> SUFFICES ASSUME NEW d \in Dates, NEW i \in Indices, i > maxFiles
                 PROVE  file'[d][i] = None
      BY <2>1 DEF NoneBeyond
    <3>1. index <= maxFiles
      BY <1>0, <2>1 DEF Rotating
    <3> QED
      BY <1>0, <1>ty, <2>2, <3>1, IndexFacts DEF NoneBeyond
  <2> QED
    BY <1>0, <1>ty, <2>1, <2>2, <2>3, <2>4, <2>5, <2>6
       DEF SinkInv, Rotating, SlotFree, NotStarted, SizeTracked
<1>6. CASE RotateEnds
  <2>1. /\ place = "shift" /\ index = 0 /\ maxSize # 0
        /\ place' = "idle" /\ UNCHANGED <<maxSize, maxFiles, today, base, index, faults>>
        /\ pending \in Sizes /\ pending \in Nat /\ current' = pending /\ opened' = TRUE
        /\ pending' = 0
        /\ file' = [file EXCEPT ![base][0] = Write(Opened(base), base, pending)]
        /\ written' = [written EXCEPT ![base] = @ + 1]
    BY <1>0, <1>6, LogSinkAssumption DEF RotateEnds, Rotating, NotStarted
  <2>2. /\ DiskInv' /\ file'[base][0] # None
        /\ file'[base][0].size = Opened(base).size + pending
        /\ Len(file'[base][0].log) = Len(Opened(base).log) + 1
        /\ \A d \in Dates, i \in Indices : d # base \/ i # 0 => file'[d][i] = file[d][i]
        /\ Kept
    BY <1>0, <1>ty, <2>1, WriteStep DEF Kept
  <2>3. maxFiles > 0 => file'[base][0].size = pending /\ Len(file'[base][0].log) = 1
    <3>1. maxFiles > 0 => Opened(base) = Empty
      BY <1>0, <1>ty, <2>1 DEF SlotFree, Opened
    <3>2. Len(Empty.log) = 0 /\ Empty.size = 0
      BY FileFacts
    <3>3. ASSUME maxFiles > 0 PROVE Len(Opened(base).log) = 0 /\ Opened(base).size = 0
      BY <3>1, <3>2, <3>3
    <3>4. pending \in Nat
      BY <2>1
    <3> QED
      BY <2>2, <3>3, <3>4
  <2>4. SinkTypeOK'
    BY <1>0, <1>ty, <2>1, <2>2 DEF SinkTypeOK, DiskInv
  <2>5. NoneBeyond'
    BY <1>0, <1>ty, <2>1, <2>2, IndexFacts DEF NoneBeyond
  <2>6. SizeBounded'
    BY <1>0, <2>1, <2>2, <2>3 DEF SizeBounded
  <2>7. SizeTracked'
    <3>1. Opened(base)' = file'[base][0]
      BY <2>1, <2>2 DEF Opened
    <3>2. file'[base][0].torn \in Nat /\ file'[base][0].size \in Nat
      BY <1>ty, <2>2, FileFacts DEF DiskInv
    <3> QED
      BY <2>1, <2>3, <3>1, <3>2 DEF SizeTracked
  <2> QED
    BY <2>1, <2>2, <2>4, <2>5, <2>6, <2>7 DEF SinkInv, Rotating, SlotFree, NotStarted
<1>7. ASSUME NEW n \in Sizes, FlushFails(n) PROVE SinkInv' /\ Kept
  <2>1. /\ place = "idle" /\ place' = "idle" /\ base' = today /\ opened' = TRUE
        /\ IsOpen /\ current' = CurrentSize
        /\ file' = [file EXCEPT ![today][0] = Opened(today)] /\ written' = written
        /\ UNCHANGED <<maxSize, maxFiles, today, index, pending>> /\ maxSize # 0
    BY <1>0, <1>7 DEF FlushFails, Fault, NotStarted
  <2>2. /\ DiskInv' /\ file'[today][0] = Opened(today) /\ file'[today][0] # None
        /\ \A d \in Dates, i \in Indices : d # today \/ i # 0 => file'[d][i] = file[d][i]
        /\ Kept
    BY <1>0, <1>ty, <2>1, OpenStep DEF Kept
  <2>3. faults' \in 0..MaxFaults
    BY <1>0, <1>7, LogSinkAssumption DEF FlushFails, Fault, SinkTypeOK
  <2>4. SinkTypeOK'
    BY <1>0, <1>ty, <1>size, <2>1, <2>2, <2>3 DEF SinkTypeOK, DiskInv
  <2>5. SizeBounded'
    <3>1. maxFiles > 0 => \/ Opened(today).size <= maxSize + Opened(today).torn
                          \/ Len(Opened(today).log) = 1
      BY <1>bounded, <1>ty
    <3> QED
      BY <1>0, <2>1, <2>2, <3>1 DEF SizeBounded
  <2>6. NoneBeyond'
    BY <1>0, <1>ty, <2>1, <2>2, IndexFacts DEF NoneBeyond
  <2>7. SizeTracked'
    <3>1. Opened(base)' = Opened(today)
      BY <2>1, <2>2 DEF Opened
    <3> QED
      BY <1>tracked, <2>1, <3>1 DEF SizeTracked
  <2> QED
    BY <2>1, <2>2, <2>4, <2>5, <2>6, <2>7 DEF SinkInv, Rotating, SlotFree, NotStarted
<1>8. ASSUME NEW n \in Sizes, NEW k \in 0..(n - 1), WriteFails(n, k) PROVE SinkInv' /\ Kept
  <2>1. /\ place = "idle" /\ place' = "idle" /\ base' = today /\ opened' = TRUE
        /\ IsOpen /\ current' = CurrentSize
        /\ file' = [file EXCEPT ![today][0] = WritePart(Opened(today), k)]
        /\ written' = written
        /\ UNCHANGED <<maxSize, maxFiles, today, index, pending>> /\ maxSize # 0
        /\ k \in Nat
    BY <1>0, <1>8, LogSinkAssumption DEF WriteFails, Fault, NotStarted
  <2>2. faults' \in 0..MaxFaults
    BY <1>0, <1>8, LogSinkAssumption DEF WriteFails, Fault, SinkTypeOK
  <2>3. current' \in Nat /\ (maxFiles > 0 => Opened(today).size <= current' + Opened(today).torn)
    BY <1>size, <1>tracked, <2>1
  <2> QED
    BY <1>part, <1>0, <1>ty, <2>1, <2>2, <2>3 DEF SinkTypeOK
<1>9. ASSUME NEW k \in 0..(pending - 1), RotatedWriteFails(k) PROVE SinkInv' /\ Kept
  <2>1. /\ place = "shift" /\ index = 0 /\ place' = "idle" /\ opened' = TRUE
        /\ current' = 0 /\ pending' = 0
        /\ file' = [file EXCEPT ![base][0] = WritePart(Opened(base), k)]
        /\ written' = written
        /\ UNCHANGED <<maxSize, maxFiles, today, base, index>> /\ maxSize # 0
    BY <1>0, <1>9 DEF RotatedWriteFails, Fault, NotStarted
  <2>2. k \in Nat /\ faults' \in 0..MaxFaults
    <3>1. pending \in Nat
      BY <1>0, LogSinkAssumption DEF SinkTypeOK
    <3> QED
      BY <1>0, <1>9, <3>1, LogSinkAssumption DEF RotatedWriteFails, Fault, SinkTypeOK
  <2>3. maxFiles > 0 => Opened(base).size <= current' + Opened(base).torn
    <3>1. maxFiles > 0 => Opened(base) = Empty
      BY <1>0, <1>ty, <2>1 DEF SlotFree, Opened
    <3>2. Empty.size = 0 /\ Empty.torn = 0
      BY FileFacts
    <3> QED
      BY <2>1, <3>1, <3>2
  <2> QED
    BY <1>part, <1>ty, <2>1, <2>2, <2>3
<1> QED
  BY <1>1, <1>2, <1>3, <1>4, <1>5, <1>6, <1>7, <1>8, <1>9 DEF SinkNext
-----------------------------------------------------------------------------
(***************************************************************************)
(* The services share no state: a step of all is a step of each, or none.  *)
(***************************************************************************)
LEMMA ServiceSteps ==
  [Next]_vars => [SinkNext]_sinkVars /\ [LimitsNext]_limitsVars /\ [SchemasNext]_schemaVars
BY DEF Next, vars, sinkVars, limitsVars, schemaVars

(* The call-site limits, over the composition.                             *)
LEMMA LimitsHold == Spec => [](LimitsInv /\ QuotaExact)
<1>1. Init => LimitsInv /\ QuotaExact
  <2> SUFFICES ASSUME Init PROVE LimitsInv /\ QuotaExact
    OBVIOUS
  <2>1. LimitsInv
    BY LimitsInitInv DEF Init
  <2>2. \A s \in Sites : logged[s] = 0 /\ counter[s] = 0 /\ Waiting(s) = {}
    BY DEF Init, LimitsInit, Waiting, AtRest, Sites
  <2>3. \A s \in Sites : About(s) = 0
    BY <2>2, AboutIsNat, FS_EmptySet
  <2>4. \A s \in Sites : Quota(s, 0) = 0
    <3>1. (0 * N + (N - 1)) \div N = 0
      BY LogLimitsAssumption, QuotientOf
    <3>2. 0 + N - 1 = 0 * N + (N - 1)
      BY LogLimitsAssumption
    <3> QED
      BY <3>1, <3>2, LogLimitsAssumption DEF Quota
  <2> QED
    BY <2>1, <2>2, <2>3, <2>4, QuotaBySite
<1>2. LimitsInv /\ QuotaExact /\ [Next]_vars => (LimitsInv /\ QuotaExact)'
  BY ServiceSteps, LimitsNextInv, QuotaNextInv DEF LimitsInv
<1> QED
  BY <1>1, <1>2, PTL DEF Spec

(***************************************************************************)
(* LOG_EVERY_MS (logging.h:53-67) logs messages whose clock readings are   *)
(* at least ms apart, for any number of threads, any ms and any schedule   *)
(* of the three unlocked steps.                                            *)
(***************************************************************************)
THEOREM MessagesSpaced == Spec => []Spaced
<1>1. LimitsInv => Spaced
  BY DEF LimitsInv
<1> QED
  BY <1>1, LimitsHold, PTL

(***************************************************************************)
(* LOG_EVERY_MS (logging.h:53-67) suppresses a call only for a message     *)
(* logged less than ms before its reading, or later, or within the first   *)
(* ms of the clock: racing threads never silence each other.               *)
(***************************************************************************)
THEOREM SilenceIsCovered == Spec => []SilenceCovered
<1>1. LimitsInv => SilenceCovered
  BY DEF LimitsInv
<1> QED
  BY <1>1, LimitsHold, PTL

(***************************************************************************)
(* LOG_EVERY_N and LOG_FIRST_N (logging.h) log exactly the quota of the    *)
(* calls that were begun, for any n and any number of threads between the  *)
(* fetch_add and the message.                                              *)
(***************************************************************************)
THEOREM QuotaAlwaysExact == Spec => []QuotaExact
BY LimitsHold, PTL

(* The schema manager, over the composition.                               *)
LEMMA SchemasHold == Spec => []SchemaInv
<1>1. Init => SchemaInv
  BY SchemaInitInv DEF Init
<1>2. SchemaInv /\ [Next]_vars => SchemaInv'
  BY ServiceSteps, SchemaNextInv
<1> QED
  BY <1>1, <1>2, PTL DEF Spec

(***************************************************************************)
(* The pointer that GetSchema (schema_manager.cpp) returns leads to a      *)
(* whole schema after the lock is gone, unless that very version is        *)
(* registered again, for any threads, types and versions.                  *)
(***************************************************************************)
THEOREM SchemasStayWhole == Spec => []SchemaWhole
<1>1. SchemaInv => SchemaWhole
  BY DEF SchemaInv
<1> QED
  BY <1>1, SchemasHold, PTL

(***************************************************************************)
(* GetLatestVersion (schema_manager.cpp) answers with the highest version  *)
(* there was when it was called, in whatever order the map gives them.     *)
(***************************************************************************)
THEOREM LatestIsExact == Spec => []LatestVersionExact
<1>1. SchemaInv => LatestVersionExact
  BY DEF SchemaInv
<1> QED
  BY <1>1, SchemasHold, PTL

(* The sink, over the composition.                                         *)
LEMMA SinkHolds == Spec => []SinkInv
<1>1. Init => SinkInv
  BY SinkInitInv DEF Init
<1>2. SinkInv /\ [Next]_vars => SinkInv'
  BY ServiceSteps, SinkNextInv
<1> QED
  BY <1>1, <1>2, PTL DEF Spec

(***************************************************************************)
(* No step of the sink (logging.cpp:86-98), and no crash or failed         *)
(* operation in the middle of Rotate, makes a file disappear unless it is  *)
(* the oldest: for any dates, limits and sizes.                            *)
(***************************************************************************)
THEOREM OnlyOldestIsDropped == Spec => OnlyOldestDropped
<1>1. SinkInv /\ [Next]_vars =>
        [\A d \in Dates : \A i \in 0..MaxFileNum : file[d][i] # None /\ i # maxFiles =>
           \E j \in Indices :
             file'[d][j] # None /\ IsPrefix(file[d][i].log, file'[d][j].log)]_sinkVars
  BY ServiceSteps, SinkNextInv DEF KeptSomewhere, Indices
<1> QED
  BY <1>1, SinkHolds, PTL DEF Spec, OnlyOldestDropped

(***************************************************************************)
(* The sink (logging.cpp:47-98) is closed after a message only if an       *)
(* operation failed, or if it was closed already and the date is the same. *)
(***************************************************************************)
THEOREM SilentOnlyByFault == Spec => ClosedOnlyByFault
<1>1. SinkInv /\ [SinkNext]_sinkVars =>
        [place' = "idle" /\ ~opened' =>
           faults' > faults \/ (place = "idle" /\ ~opened /\ base' = base)]_sinkVars
  <2> SUFFICES ASSUME SinkInv, SinkNext, place' = "idle", ~opened'
               PROVE  faults' > faults \/ (place = "idle" /\ ~opened /\ base' = base)
    OBVIOUS
  <2>0. faults \in Nat /\ SinkTypeOK
    BY LogSinkAssumption DEF SinkInv, SinkTypeOK
  <2>1. CASE Fault
    BY <2>0, <2>1 DEF Fault
  <2>2. CASE InitLogging \/ Crash \/ RotateRename \/ RotateEnds
    BY <2>2 DEF InitLogging, Crash, RotateRename, RotateEnds
  <2>3. CASE RotateRemove
    BY <2>3 DEF RotateRemove
  <2>4. CASE ClockMoves
    BY <2>4 DEF ClockMoves
  <2>5. ASSUME NEW n \in Sizes, SinkIt(n)
        PROVE  place = "idle" /\ ~opened /\ base' = base
    <3>1. ~IsOpen
      BY <2>5 DEF SinkIt
    <3> QED
      BY <2>5, <3>1 DEF SinkIt, IsOpen
  <2> QED
    BY <2>1, <2>2, <2>3, <2>4, <2>5
       DEF SinkNext, DateFlushFails, OpenFails, FlushFails, WriteFails, RotateFails,
           RotatedWriteFails
<1>2. SinkInv /\ [Next]_vars =>
        [place' = "idle" /\ ~opened' =>
           faults' > faults \/ (place = "idle" /\ ~opened /\ base' = base)]_sinkVars
  BY <1>1, ServiceSteps
<1> QED
  BY <1>2, SinkHolds, PTL DEF Spec, ClosedOnlyByFault

(***************************************************************************)
(* The sink (logging.cpp:47-98) lets no file outgrow max_size_ but by one  *)
(* message larger than it and by what failed writes left: the file it has  *)
(* open is no larger than the size it tracks and these bytes, through      *)
(* rotations, changes of date, failures and restarts.                      *)
(***************************************************************************)
THEOREM SizesBounded == Spec => []SizeBounded
<1>1. SinkInv => SizeBounded
  BY DEF SinkInv
<1> QED
  BY <1>1, SinkHolds, PTL

(***************************************************************************)
(* The files that Rotate (logging.cpp:86-98) leaves, or is in the middle   *)
(* of leaving, hold the end of the log of their date, in order, without a  *)
(* gap and without a repetition.                                           *)
(***************************************************************************)
THEOREM NewestAreKept == Spec => []NewestKept
<1>1. SinkInv => NewestKept
  <2>1. SinkInv => \A d \in Dates : Chain(Contents(d), written[d])
    BY DEF SinkInv, DiskInv
  <2>2. \A d \in Dates, i \in Indices : Contents(d)[i] = Content(d, i)
    BY DEF Contents
  <2> QED
    BY <2>1, <2>2 DEF Chain, NewestKept
<1> QED
  BY <1>1, SinkHolds, PTL

(***************************************************************************)
(* Type correctness of the log sink, the call-site limits and the schema   *)
(* manager; with it, that the limits of the configuration are clamped.     *)
(***************************************************************************)
THEOREM ServicesTypeCorrect == Spec => []TypeOK
<1> DEFINE Followed == service \in {"sink", "limits", "schemas"}
<1>1. Init => Followed
  BY DEF Init
<1>2. Followed /\ [Next]_vars => Followed'
  BY DEF Next, vars
<1>3. Spec => []Followed
  BY <1>1, <1>2, PTL DEF Spec
<1>4. Followed /\ SinkInv /\ LimitsInv /\ SchemaInv => TypeOK
  BY DEF SinkInv, LimitsInv, SchemaInv, TypeOK
<1> QED
  BY <1>3, <1>4, SinkHolds, LimitsHold, SchemasHold, PTL
=============================================================================
