-------------------------- MODULE RailCollectorProofs --------------------------
(***************************************************************************)
(* Of RailCollector, for any number of boards, journeys, keys and states:  *)
(* a journey skips only rows that the archive holds, and the polls that    *)
(* remember rows early lose something only when one of them has failed. Of *)
(* DelayHistory, for any stations, rows and times: the summaries of a      *)
(* settled hour stay complete.                                             *)
(***************************************************************************)
EXTENDS RailCollector, DelayHistory, TLAPS

-----------------------------------------------------------------------------
(* RailCollector.                                                          *)

LEMMA RailTypeInit == Init => TypeOK
  BY DEF Init, TypeOK, Content, Nothing, Poll, Idle

LEMMA WrittenType ==
  ASSUME NEW held \in Content, NEW p \in Poll,
         \A k \in p.batch : p.content[k] # None
  PROVE  Written(held, p) \in Content
  BY DEF Written, Content, Poll

LEMMA RailTypeStep == TypeOK /\ [Next]_vars => TypeOK'
<1> SUFFICES ASSUME TypeOK, [Next]_vars PROVE TypeOK'
  OBVIOUS
<1>1. CASE SourceChanges
  <2>0. \A t \in Task, k \in Key : Says[t][k] \subseteq State
    BY RailAssumption
  <2>1. PICK t \in Task, k \in Key, s \in State \cup {None} :
          source' = [source EXCEPT ![t][k] = s]
    <3>1. PICK t \in Task, k \in Key : \E s \in Says[t][k] \cup {None} :
            source' = [source EXCEPT ![t][k] = s]
      BY <1>1 DEF SourceChanges
    <3> QED
      BY <2>0, <3>1
  <2>2. source' \in [Task -> Content]
    BY <2>1 DEF TypeOK, Content
  <2> QED
    BY <1>1, <2>2 DEF TypeOK, SourceChanges, memory
<1>2. CASE Cleanup
  BY <1>2 DEF TypeOK, Cleanup, Content
<1>3. CASE Crash
  BY <1>3 DEF TypeOK, Crash, Content, Nothing, Poll, Idle
<1>4. ASSUME NEW t \in Task, Receive(t) PROVE TypeOK'
  <2>1. Started(source[t]) \in Poll /\ Started(source[t]).active
        /\ Started(source[t]).batch = {}
        /\ \A k \in Started(source[t]).todo : Started(source[t]).content[k] # None
    BY DEF TypeOK, Started, Poll
  <2>2. whole' \in [Task -> Content]
    <3>1. whole' = whole \/ whole' = [whole EXCEPT ![t] = source[t]]
      BY <1>4 DEF Receive
    <3> QED
      BY <3>1 DEF TypeOK
  <2>3. poll' = [poll EXCEPT ![t] = Started(source[t])]
        /\ UNCHANGED <<source, known, rows, harmed>>
    BY <1>4 DEF Receive
  <2> QED
    BY <2>1, <2>2, <2>3 DEF TypeOK
<1>5. ASSUME NEW t \in Task, NEW k \in Key, SkipRow(t, k) PROVE TypeOK'
  BY <1>5 DEF TypeOK, SkipRow, memory, Poll
<1>6. ASSUME NEW t \in Task, NEW k \in Key, InsertRow(t, k) \/ InsertFails(t, k)
      PROVE  TypeOK'
  <2> DEFINE p == poll[t]
  <2>1. p \in Poll /\ k \in p.todo /\ p.content[k] \in State \cup {None}
    BY <1>6 DEF TypeOK, InsertRow, InsertFails, Poll, Content
  <2>2. known' \in [Task -> Content]
    <3>1. known' = known \/ known' = [known EXCEPT ![t][k] = p.content[k]]
      BY <1>6 DEF InsertRow, InsertFails, Remembered
    <3>2. [known[t] EXCEPT ![k] = p.content[k]] \in Content
      BY <2>1 DEF TypeOK, Content
    <3> QED
      BY <3>1, <3>2 DEF TypeOK
  <2>3. UNCHANGED <<source, whole, rows>> /\ harmed' \in [Task -> BOOLEAN]
    BY <1>6 DEF TypeOK, InsertRow, InsertFails
  <2>4. /\ p.active /\ p.todo \cap p.batch = {}
        /\ \A j \in p.todo \cup p.batch : p.content[j] # None
    BY <2>1 DEF TypeOK
  <2>5. \E q \in Poll :
          /\ poll' = [poll EXCEPT ![t] = q]
          /\ q.todo \cap q.batch = {}
          /\ \A j \in q.todo \cup q.batch : q.content[j] # None
          /\ q.todo \cup q.batch # {} => q.active
    <3>1. CASE InsertRow(t, k)
      <4> DEFINE q == [p EXCEPT !.todo = @ \ {k}, !.batch = @ \cup {k}]
      <4>1. poll' = [poll EXCEPT ![t] = q]
        <5>1. poll' = [poll EXCEPT ![t].todo = @ \ {k}, ![t].batch = @ \cup {k}]
          BY <3>1 DEF InsertRow
        <5> QED
          BY <5>1, Zenon
      <4>2. q \in Poll /\ q.todo = p.todo \ {k} /\ q.batch = p.batch \cup {k}
            /\ q.content = p.content /\ q.active = p.active
        BY <2>1 DEF Poll
      <4> HIDE DEF q
      <4> QED
        BY <2>1, <2>4, <4>1, <4>2
    <3>2. CASE InsertFails(t, k) /\ KindOf[t] = "journey"
      <4>1. poll' = [poll EXCEPT ![t] = Idle]
        BY <3>2 DEF InsertFails
      <4>2. Idle \in Poll /\ Idle.todo = {} /\ Idle.batch = {}
        BY DEF Idle, Poll, Nothing, Content
      <4> QED
        BY <4>1, <4>2
    <3>3. CASE InsertFails(t, k) /\ KindOf[t] # "journey"
      <4> DEFINE q == [p EXCEPT !.todo = @ \ {k}, !.batch = {}, !.aborted = TRUE]
      <4>1. poll' = [poll EXCEPT ![t] = q]
        BY <3>3 DEF TypeOK, InsertFails
      <4>2. q \in Poll /\ q.todo = p.todo \ {k} /\ q.batch = {}
            /\ q.content = p.content /\ q.active = p.active
        BY <2>1 DEF Poll
      <4> HIDE DEF q
      <4> QED
        BY <2>1, <2>4, <4>1, <4>2
    <3> QED
      BY <1>6, <3>1, <3>2, <3>3
  <2> QED
    BY <2>2, <2>3, <2>5 DEF TypeOK
<1>7. ASSUME NEW t \in Task, Commit(t) PROVE TypeOK'
  <2>1. Written(rows[t], poll[t]) \in Content /\ Written(known[t], poll[t]) \in Content
    BY WrittenType DEF TypeOK
  <2>2. rows' \in [Task -> Content] /\ known' \in [Task -> Content]
    BY <1>7, <2>1 DEF TypeOK, Commit
  <2> QED
    BY <1>7, <2>2 DEF TypeOK, Commit, Poll, Idle, Nothing, Content
<1>8. ASSUME NEW t \in Task, PollFails(t) PROVE TypeOK'
  BY <1>8 DEF TypeOK, PollFails, memory, Poll, Idle, Nothing, Content
<1>9. CASE UNCHANGED vars
  BY <1>9 DEF TypeOK, vars, memory
<1> QED
  BY <1>1, <1>2, <1>3, <1>4, <1>5, <1>6, <1>7, <1>8, <1>9 DEF Next

\* Every reachable state of the collector is well typed; a poll never holds
\* rows that its response did not name.
THEOREM RailTypeCorrect == Spec => []TypeOK
  BY RailTypeInit, RailTypeStep, PTL DEF Spec

-----------------------------------------------------------------------------
LEMMA JourneyStep ==
  TypeOK /\ JourneysRememberWhatIsStored /\ [Next]_vars => JourneysRememberWhatIsStored'
<1> SUFFICES ASSUME TypeOK, JourneysRememberWhatIsStored, [Next]_vars,
                    NEW t \in Task, KindOf[t] = "journey",
                    NEW k \in Key, known'[t][k] # None
             PROVE  rows'[t][k] = known'[t][k]
  BY DEF JourneysRememberWhatIsStored, StoredAsRemembered
<1>1. known[t][k] # None => rows[t][k] = known[t][k]
  BY DEF JourneysRememberWhatIsStored, StoredAsRemembered
<1>2. CASE Commit(t)
  <2>1. /\ rows'[t] = Written(rows[t], poll[t])
        /\ known'[t] = Written(known[t], poll[t])
    BY <1>2 DEF TypeOK, Commit
  <2> QED
    BY <1>1, <2>1 DEF Written
<1>3. ASSUME NEW u \in Task, u # t, Commit(u)
      PROVE  known'[t] = known[t] /\ rows'[t] = rows[t]
  BY <1>3 DEF TypeOK, Commit
<1>4. ASSUME NEW u \in Task, NEW j \in Key, InsertRow(u, j) \/ InsertFails(u, j)
      PROVE  known'[t] = known[t] /\ rows'[t] = rows[t]
  <2>1. known' = Remembered(u, j) /\ rows' = rows
    BY <1>4 DEF InsertRow, InsertFails
  <2>2. u = t => Remembered(u, j) = known
    BY DEF Remembered, RemembersEarly
  <2>3. u # t => Remembered(u, j)[t] = known[t]
    BY DEF TypeOK, Remembered
  <2> QED
    BY <2>1, <2>2, <2>3
<1>5. CASE Cleanup
  BY <1>1, <1>5 DEF TypeOK, Cleanup
<1>6. CASE Crash
  BY <1>6 DEF Crash, Nothing
<1>7. CASE UNCHANGED <<known, rows>>
  BY <1>1, <1>7
<1> QED
  BY <1>1, <1>2, <1>3, <1>4, <1>5, <1>6, <1>7
  DEF Next, SourceChanges, Receive, SkipRow, PollFails, vars, memory

\* Whatever fails, dies or is cleaned up in between, a stop of a journey that
\* is skipped as unchanged is the newest row of the archive.
THEOREM JourneysLoseNothing == Spec => []JourneysRememberWhatIsStored
<1>1. Init => JourneysRememberWhatIsStored
  BY DEF Init, Nothing, JourneysRememberWhatIsStored, StoredAsRemembered
<1> QED
  BY <1>1, RailTypeInit, RailTypeStep, JourneyStep, PTL DEF Spec

-----------------------------------------------------------------------------
\* While nothing has failed, the poll under way holds the remembered response,
\* and each row of it is still to do, in the batch or stored.
PollCoversResponse(t) ==
  poll[t].active =>
    /\ poll[t].content = whole[t] /\ ~poll[t].aborted
    /\ \A k \in Key : whole[t][k] # None =>
         k \in poll[t].todo \/ k \in poll[t].batch \/ rows[t][k] = whole[t][k]

\* A remembered row is stored, or will be with the batch.
RowsCoverMemory(t) ==
  KindOf[t] = "events" => \A k \in Key : known[t][k] # None =>
    known[t][k] = IF k \in poll[t].batch THEN poll[t].content[k] ELSE rows[t][k]

IdleIsStored(t) ==
  ~poll[t].active => \A k \in Key : whole[t][k] # None => rows[t][k] = whole[t][k]

Covered(t) == PollCoversResponse(t) /\ RowsCoverMemory(t) /\ IdleIsStored(t)

EarlyInv == \A t \in Task : KindOf[t] # "journey" /\ ~harmed[t] => Covered(t)

\* What a task covers depends on its own state only.
LEMMA OtherTasksKeepCovered ==
  ASSUME NEW t \in Task, Covered(t),
         poll'[t] = poll[t], whole'[t] = whole[t], known'[t] = known[t], rows'[t] = rows[t]
  PROVE  Covered(t)'
  BY DEF Covered, PollCoversResponse, RowsCoverMemory, IdleIsStored

LEMMA EarlyStep == TypeOK /\ EarlyInv /\ [Next]_vars => EarlyInv'
<1> SUFFICES ASSUME TypeOK, TypeOK', EarlyInv, [Next]_vars,
                    NEW t \in Task, KindOf[t] # "journey", ~harmed'[t]
             PROVE  Covered(t)'
  BY RailTypeStep DEF EarlyInv
<1> USE DEF Covered, PollCoversResponse, RowsCoverMemory, IdleIsStored
<1>1. ~harmed[t] => Covered(t)
  BY DEF EarlyInv
<1>2. CASE Receive(t)
  <2>1. /\ ~poll[t].active /\ harmed' = harmed
        /\ poll'[t] = Started(source[t]) /\ whole'[t] = source[t]
        /\ known' = known /\ rows' = rows
    BY <1>2 DEF TypeOK, Receive
  <2>2. poll[t].batch = {}
    BY <2>1 DEF TypeOK
  <2> QED
    BY <1>1, <2>1, <2>2 DEF Started
<1>3. ASSUME NEW k \in Key, SkipRow(t, k) PROVE Covered(t)'
  <2>1. /\ KindOf[t] = "events" /\ k \in poll[t].todo /\ known[t][k] = poll[t].content[k]
        /\ poll[t].active /\ poll[t].content[k] # None /\ k \notin poll[t].batch
        /\ harmed' = harmed
    BY <1>3, RailAssumption DEF TypeOK, SkipRow, Unchanged, Kinds
  <2>2. poll' = [poll EXCEPT ![t].todo = @ \ {k}]
        /\ whole' = whole /\ known' = known /\ rows' = rows
    BY <1>3 DEF SkipRow, memory
  <2>3. poll[t] \in Poll
    BY DEF TypeOK
  <2>4. /\ poll'[t].todo = poll[t].todo \ {k} /\ poll'[t].active = poll[t].active
        /\ poll'[t].batch = poll[t].batch /\ poll'[t].content = poll[t].content
        /\ poll'[t].aborted = poll[t].aborted
    BY <2>2, <2>3 DEF TypeOK, Poll
  <2> QED
    BY <1>1, <2>1, <2>2, <2>4
<1>4. ASSUME NEW k \in Key, InsertRow(t, k) PROVE Covered(t)'
  <2>1. k \in poll[t].todo /\ poll[t].active /\ harmed' = harmed
    BY <1>4 DEF TypeOK, InsertRow
  <2>2. /\ poll' = [poll EXCEPT ![t].todo = @ \ {k}, ![t].batch = @ \cup {k}]
        /\ whole' = whole /\ rows' = rows
        /\ KindOf[t] = "events" => known' = [known EXCEPT ![t][k] = poll[t].content[k]]
    BY <1>4 DEF InsertRow, Remembered, RemembersEarly
  <2>3. poll[t] \in Poll /\ known[t] \in Content
    BY DEF TypeOK
  <2>4. /\ poll'[t].todo = poll[t].todo \ {k} /\ poll'[t].batch = poll[t].batch \cup {k}
        /\ poll'[t].content = poll[t].content /\ poll'[t].active = poll[t].active
        /\ poll'[t].aborted = poll[t].aborted
    BY <2>2, <2>3 DEF TypeOK, Poll
  <2>5. KindOf[t] = "events" => \A j \in Key :
          known'[t][j] = IF j = k THEN poll[t].content[j] ELSE known[t][j]
    BY <2>2, <2>3 DEF TypeOK, Content
  <2> QED
    BY <1>1, <2>1, <2>2, <2>4, <2>5
<1>5. CASE Commit(t)
  <2>1. /\ poll[t].active /\ poll[t].todo = {} /\ harmed' = harmed
        /\ rows'[t] = Written(rows[t], poll[t])
        /\ known' = known /\ whole' = whole /\ poll'[t] = Idle
    BY <1>5 DEF TypeOK, Commit
  <2>2. \A k \in Key :
          rows'[t][k] = IF k \in poll[t].batch THEN poll[t].content[k] ELSE rows[t][k]
    BY <2>1 DEF Written
  <2>3. PollCoversResponse(t) /\ RowsCoverMemory(t)
    BY <1>1, <2>1
  <2>4. ~poll'[t].active /\ poll'[t].batch = {}
    BY <2>1 DEF Idle
  <2>5. \A k \in Key : whole'[t][k] # None => rows'[t][k] = whole'[t][k]
    BY <2>1, <2>2, <2>3
  <2>6. KindOf[t] = "events" =>
          \A k \in Key : known'[t][k] # None => known'[t][k] = rows'[t][k]
    BY <2>1, <2>2, <2>3
  <2> QED
    BY <2>4, <2>5, <2>6
<1>6. CASE Cleanup
  BY <1>1, <1>6 DEF TypeOK, Cleanup
<1>7. CASE Crash
  BY <1>7 DEF Crash, Idle, Nothing
<1>8. CASE (\E k \in Key : InsertFails(t, k)) \/ PollFails(t)
  <2>1. harmed'[t]
    BY <1>8 DEF TypeOK, InsertFails, PollFails
  <2> QED
    BY <2>1
<1>9. ASSUME poll'[t] = poll[t], whole'[t] = whole[t], known'[t] = known[t],
             rows'[t] = rows[t], harmed'[t] = harmed[t]
      PROVE  Covered(t)'
  BY <1>1, <1>9, OtherTasksKeepCovered
<1>10. ASSUME NEW u \in Task, u # t,
              \/ Receive(u) \/ Commit(u) \/ PollFails(u)
              \/ \E k \in Key : SkipRow(u, k) \/ InsertRow(u, k) \/ InsertFails(u, k)
       PROVE  /\ poll'[t] = poll[t] /\ whole'[t] = whole[t] /\ known'[t] = known[t]
              /\ rows'[t] = rows[t] /\ harmed'[t] = harmed[t]
  <2>1. CASE Receive(u)
    BY <1>10, <2>1 DEF TypeOK, Receive
  <2>2. CASE Commit(u)
    BY <1>10, <2>2 DEF TypeOK, Commit
  <2>3. CASE PollFails(u)
    BY <1>10, <2>3 DEF TypeOK, PollFails, memory
  <2>4. ASSUME NEW k \in Key, SkipRow(u, k) \/ InsertRow(u, k) \/ InsertFails(u, k)
        PROVE  /\ poll'[t] = poll[t] /\ whole'[t] = whole[t]
               /\ rows'[t] = rows[t] /\ harmed'[t] = harmed[t]
    BY <1>10, <2>4 DEF TypeOK, SkipRow, InsertRow, InsertFails, memory
  <2>5. ASSUME NEW k \in Key, SkipRow(u, k) \/ InsertRow(u, k) \/ InsertFails(u, k)
        PROVE  known'[t] = known[t]
    <3>1. known' = known \/ known' = [known EXCEPT ![u][k] = poll[u].content[k]]
      BY <2>5 DEF SkipRow, InsertRow, InsertFails, Remembered, memory
    <3> QED
      BY <1>10, <3>1 DEF TypeOK
  <2> QED
    BY <1>10, <2>1, <2>2, <2>3, <2>4, <2>5
<1>11. CASE SourceChanges \/ UNCHANGED vars
  BY <1>9, <1>11 DEF SourceChanges, vars, memory
<1> QED
  BY <1>2, <1>3, <1>4, <1>5, <1>6, <1>7, <1>8, <1>9, <1>10, <1>11 DEF Next

\* A journey never remembers a whole response.
JourneysHaveNoWhole == \A t \in Task : KindOf[t] = "journey" => whole[t] = Nothing

\* Deduplication by itself drops identical rows only: as long as no poll of a
\* task has failed, all it answered with is in the archive.
THEOREM OnlyFailedPollsLose == Spec => []OnlyFailuresLose
<1>1. Init => EarlyInv
  BY DEF Init, Idle, Nothing, EarlyInv, Covered, PollCoversResponse, RowsCoverMemory,
         IdleIsStored
<1>2. TypeOK /\ EarlyInv /\ JourneysHaveNoWhole => OnlyFailuresLose
  BY DEF EarlyInv, Covered, IdleIsStored, JourneysHaveNoWhole, Nothing, OnlyFailuresLose
<1>3. Init => JourneysHaveNoWhole
  BY DEF Init, JourneysHaveNoWhole
<1>4. TypeOK /\ JourneysHaveNoWhole /\ [Next]_vars => JourneysHaveNoWhole'
  <2> SUFFICES ASSUME TypeOK, JourneysHaveNoWhole, [Next]_vars,
                      NEW t \in Task, KindOf[t] = "journey"
               PROVE  whole'[t] = Nothing
    BY DEF JourneysHaveNoWhole
  <2>1. whole[t] = Nothing
    BY DEF JourneysHaveNoWhole
  <2>2. ASSUME NEW u \in Task, Receive(u) PROVE whole'[t] = whole[t]
    BY <2>2 DEF TypeOK, Receive
  <2>3. CASE Crash
    BY <2>3 DEF Crash
  <2> QED
    BY <2>1, <2>2, <2>3
    DEF Next, SourceChanges, Cleanup, SkipRow, InsertRow, InsertFails, Commit, PollFails, vars,
        memory
<1> QED
  BY <1>1, <1>2, <1>3, <1>4, RailTypeInit, RailTypeStep, EarlyStep, PTL DEF Spec

-----------------------------------------------------------------------------
(* DelayHistory.                                                           *)

StoredRow == [late : Int \cup {Blank}, schedArr : Minute, schedDep : Minute,
              expArr : Minute, expDep : Minute]
StoredEvent == [stop : Stop, at : Nat, row : StoredRow]

HistoryTypes ==
  /\ tick \in 0 .. LastTick
  /\ events \subseteq StoredEvent /\ insert \in StoredEvent \cup {Blank}
  /\ summary \in [Scope -> [Hours -> SUBSET StoredEvent]]
  /\ settled \subseteq Hours

\* What the query would find for an hour with the whole of it in its window.
Complete(scope, h) == Summary(scope, h, 0)

HistoryInv ==
  /\ HistoryTypes
  /\ insert # Blank => insert.at <= tick
  /\ \A h \in settled : h < Hour(tick) /\ NoneOpen(h)
  /\ \A scope \in Scope, h \in Hours : summary[scope][h] \subseteq Complete(scope, h)
  /\ \A scope \in Scope, h \in settled : summary[scope][h] = Complete(scope, h)

-----------------------------------------------------------------------------
\* The two filters differ only where Python takes an expected arrival of 00:00
\* for a missing one.
LEMMA FiltersAgree ==
  ASSUME NEW row \in StoredRow, row.expArr # 0
  PROVE  Summarised(row) <=> Normalized(row) # Blank
<1> USE HistoryAssumption
<1> DEFINE py == Or(row.schedArr, row.schedDep)
           sql == Coalesce(NullIfMidnight(row.schedArr),
                    Coalesce(NullIfMidnight(row.schedDep), Coalesce(row.schedArr, row.schedDep)))
<1>1. /\ row.late \in Int \cup {Blank} /\ row.schedArr \in Nat \cup {Blank}
      /\ row.schedDep \in Nat \cup {Blank} /\ row.expArr \in Nat \cup {Blank}
      /\ row.expDep \in Nat \cup {Blank}
  BY DEF StoredRow, Minute
<1>2. Or(row.expArr, row.expDep) = Coalesce(row.expArr, row.expDep)
  BY DEF Or, Coalesce
<1>3. py = sql \/ (py = Blank /\ sql = 0)
  BY <1>1 DEF Or, Coalesce, NullIfMidnight
<1>4. Coalesce(row.expArr, row.expDep) \in Nat \cup {Blank}
  BY <1>1 DEF Coalesce
<1> HIDE DEF py, sql
<1>5. Absurd(row.late, py, Coalesce(row.expArr, row.expDep))
        <=> Absurd(row.late, sql, Coalesce(row.expArr, row.expDep))
  <2>1. CASE py = sql
    BY <2>1
  <2>2. CASE py = Blank /\ sql = 0
    BY <2>2, <1>4 DEF Absurd
  <2> QED
    BY <1>3, <2>1, <2>2
<1>6. Summarised(row) <=> row.late # Blank
                          /\ ~Absurd(row.late, sql, Coalesce(row.expArr, row.expDep))
  BY DEF Summarised, sql
<1>7. Normalized(row) = IF row.late = Blank \/ Absurd(row.late, py, Or(row.expArr, row.expDep))
                        THEN Blank ELSE row.late
  BY DEF Normalized, py
<1> QED
  BY <1>2, <1>5, <1>6, <1>7

LEMMA NormalizedType ==
  ASSUME NEW row \in StoredRow
  PROVE  [row EXCEPT !.late = Normalized(row)] \in StoredRow
<1>1. Normalized(row) \in Int \cup {Blank}
  BY DEF Normalized, StoredRow
<1> QED
  BY <1>1 DEF StoredRow

\* Hours are two ticks long.
LEMMA HourBounds == \A t \in Nat : Hour(t) \in Nat /\ 2 * Hour(t) <= t /\ t < 2 * Hour(t) + 2
BY DEF Hour

LEMMA HourGrows == \A t, u \in Nat : t <= u => Hour(t) <= Hour(u)
BY DEF Hour

\* The window cuts no hour: it has all of an hour or nothing.
LEMMA WindowIsWholeHours ==
  ASSUME HistoryTypes, NEW scope \in Scope, NEW h \in Hours
  PROVE  IF h >= Hour(tick) - 2
         THEN Summary(scope, h, WindowStart(tick)) = Complete(scope, h)
         ELSE Summary(scope, h, WindowStart(tick)) = {}
<1>1. tick \in Nat /\ Hour(tick) \in Nat /\ h \in Int /\ \A e \in events : e.at \in Nat
  <2>1. LastTick \in Nat /\ tick \in Nat
    BY HistoryAssumption DEF HistoryTypes
  <2>2. Hour(tick) \in Nat /\ Hour(LastTick) \in Nat
    BY <2>1, HourBounds
  <2>3. h \in Int
    BY <2>2 DEF Hours
  <2>4. \A e \in events : e.at \in Nat
    BY DEF HistoryTypes, StoredEvent
  <2> QED
    BY <2>1, <2>2, <2>3, <2>4
<1>2. \A e \in events : Hour(e.at) = h => 2 * h <= e.at /\ e.at < 2 * h + 2 /\ e.at >= 0
  <2> SUFFICES ASSUME NEW e \in events, Hour(e.at) = h
               PROVE  2 * h <= e.at /\ e.at < 2 * h + 2 /\ e.at >= 0
    OBVIOUS
  <2>1. e.at \in Nat
    BY <1>1
  <2>2. 2 * Hour(e.at) <= e.at /\ e.at < 2 * Hour(e.at) + 2
    BY <2>1, HourBounds
  <2> QED
    BY <2>1, <2>2
<1>3. WindowStart(tick) = 2 * (Hour(tick) - 2)
  BY DEF WindowStart
<1>4. CASE h >= Hour(tick) - 2
  <2>1. WindowStart(tick) <= 2 * h /\ WindowStart(tick) \in Int
    BY <1>1, <1>3, <1>4
  <2>2. \A e \in events : Hour(e.at) = h => (e.at >= WindowStart(tick) /\ e.at >= 0)
    BY <1>1, <1>2, <2>1
  <2> QED
    BY <1>4, <2>2 DEF Summary, Complete
<1>5. CASE ~(h >= Hour(tick) - 2)
  <2>1. 2 * h + 2 <= WindowStart(tick) /\ WindowStart(tick) \in Int
    BY <1>1, <1>3, <1>5
  <2>2. \A e \in events : Hour(e.at) = h => ~(e.at >= WindowStart(tick))
    BY <1>1, <1>2, <2>1
  <2> QED
    BY <1>5, <2>2 DEF Summary
<1> QED
  BY <1>4, <1>5

-----------------------------------------------------------------------------
LEMMA HistoryInitEstablishes == HistoryInit => HistoryInv
<1> SUFFICES ASSUME HistoryInit PROVE HistoryInv
  OBVIOUS
<1>1. tick = 0 /\ insert = Blank /\ settled = {}
      /\ summary = [scope \in Scope |-> [h \in Hours |-> {}]]
  BY DEF HistoryInit
<1>2. events \subseteq StoredEvent
  BY HistoryAssumption DEF HistoryInit, Event, StoredEvent, StoredRow
<1> QED
  BY <1>1, <1>2, HistoryAssumption DEF HistoryInv, HistoryTypes

LEMMA TimePassesKeeps == HistoryInv /\ TimePasses => HistoryInv'
<1> SUFFICES ASSUME HistoryInv, TimePasses PROVE HistoryInv'
  OBVIOUS
<1>1. tick' = tick + 1 /\ tick \in Nat /\ tick' \in 0 .. LastTick /\ Hour(tick) <= Hour(tick')
      /\ Hour(tick) \in Nat /\ Hour(tick') \in Nat
      /\ UNCHANGED <<events, insert, summary, settled>>
  BY HourGrows, HourBounds, HistoryAssumption DEF TimePasses, HistoryInv, HistoryTypes
<1>2. \A h \in settled : h \in Int
  BY HourBounds, HistoryAssumption DEF HistoryInv, HistoryTypes, Hours
<1>3. insert # Blank => insert.at \in Nat
  BY DEF HistoryInv, HistoryTypes, StoredEvent
<1> QED
  BY <1>1, <1>2, <1>3 DEF HistoryInv, HistoryTypes, NoneOpen, Complete, Summary

LEMMA BoardsKeep == HistoryInv /\ (BoardBegins \/ BoardCommits \/ BoardFails) => HistoryInv'
<1> SUFFICES ASSUME HistoryInv, BoardBegins \/ BoardCommits \/ BoardFails PROVE HistoryInv'
  OBVIOUS
<1>0. tick \in Nat /\ Hour(tick) \in Nat /\ \A h \in settled : h \in Int
  BY HourBounds, HistoryAssumption DEF HistoryInv, HistoryTypes, Hours
<1>1. CASE BoardBegins
  <2>1. PICK s \in Stop, row \in BoardRow :
          insert' = Event(s, tick, [row EXCEPT !.late = Normalized(row)])
    BY <1>1 DEF BoardBegins
  <2>2. [row EXCEPT !.late = Normalized(row)] \in StoredRow
    BY NormalizedType, HistoryAssumption DEF StoredRow
  <2>3. insert' \in StoredEvent /\ insert'.at = tick
    BY <2>1, <2>2, <1>0 DEF Event, StoredEvent
  <2>4. UNCHANGED <<tick, events, summary, settled>>
    BY <1>1 DEF BoardBegins
  <2>5. \A h \in settled : (h < Hour(tick) /\ NoneOpen(h))'
    BY <2>3, <2>4, <1>0 DEF HistoryInv, NoneOpen
  <2> QED
    BY <2>3, <2>4, <2>5, <1>0 DEF HistoryInv, HistoryTypes, Complete, Summary
<1>2. CASE BoardCommits
  <2>1. /\ insert \in StoredEvent /\ insert # Blank /\ events' = events \cup {insert}
        /\ insert' = Blank /\ UNCHANGED <<tick, summary, settled>>
    BY <1>2 DEF BoardCommits, HistoryInv, HistoryTypes
  <2>2. HistoryTypes'
    BY <2>1 DEF HistoryInv, HistoryTypes
  <2>3. \A h \in settled : (h < Hour(tick) /\ NoneOpen(h))'
    BY <2>1 DEF HistoryInv, NoneOpen
  <2>4. \A scope \in Scope, h \in Hours : Complete(scope, h) \subseteq Complete(scope, h)'
    BY <2>1 DEF Complete, Summary
  <2>5. \A scope \in Scope, h \in settled : Complete(scope, h)' = Complete(scope, h)
    BY <2>1 DEF HistoryInv, NoneOpen, Complete, Summary
  <2> QED
    BY <2>1, <2>2, <2>3, <2>4, <2>5 DEF HistoryInv
<1>3. CASE BoardFails
  BY <1>3 DEF BoardFails, HistoryInv, HistoryTypes, NoneOpen, Complete, Summary
<1> QED
  BY <1>1, <1>2, <1>3

LEMMA RefreshKeeps == HistoryInv /\ Refresh => HistoryInv'
<1> SUFFICES ASSUME HistoryInv, Refresh PROVE HistoryInv'
  OBVIOUS
<1> DEFINE found(scope, h) == Summary(scope, h, WindowStart(tick))
           settles == {h \in Hours : h \in (Hour(tick) - 2) .. (Hour(tick) - 1) /\ NoneOpen(h)}
<1>1. /\ \A scope \in Scope, h \in Hours : summary'[scope][h] =
           IF found(scope, h) = {} THEN summary[scope][h] ELSE found(scope, h)
      /\ summary' = [scope \in Scope |-> [h \in Hours |->
           IF found(scope, h) = {} THEN summary[scope][h] ELSE found(scope, h)]]
      /\ settled' = settled \cup settles
      /\ UNCHANGED <<tick, events, insert>>
  BY DEF Refresh
<1>2. tick \in Nat /\ Hour(tick) \in Nat /\ HistoryTypes /\ \A h \in Hours : h \in Int
  BY HourBounds, HistoryAssumption DEF HistoryInv, HistoryTypes, Hours
<1>3. \A scope \in Scope, h \in Hours :
        IF h >= Hour(tick) - 2 THEN summary'[scope][h] = Complete(scope, h)
        ELSE summary'[scope][h] = summary[scope][h]
  <2> TAKE scope \in Scope, h \in Hours
  <2>1. summary[scope][h] \subseteq Complete(scope, h)
    BY DEF HistoryInv
  <2>2. IF h >= Hour(tick) - 2 THEN found(scope, h) = Complete(scope, h) ELSE found(scope, h) = {}
    BY <1>2, WindowIsWholeHours
  <2> HIDE DEF found
  <2> QED
    BY <1>1, <2>1, <2>2
<1> HIDE DEF found
<1>4. \A h \in settles : h >= Hour(tick) - 2 /\ h < Hour(tick) /\ NoneOpen(h)
  BY <1>2
<1>5. HistoryTypes'
  <2>1. \A scope \in Scope, h \in Hours : summary'[scope][h] \subseteq StoredEvent
    BY <1>2, <1>3 DEF HistoryTypes, Complete, Summary
  <2>2. summary' \in [Scope -> [Hours -> SUBSET StoredEvent]]
    BY <1>1, <2>1
  <2> QED
    BY <1>1, <1>2, <2>2 DEF HistoryTypes
<1>6. \A h \in settled' : (h < Hour(tick) /\ NoneOpen(h))'
  BY <1>1, <1>4 DEF HistoryInv, NoneOpen
<1>7. \A scope \in Scope, h \in Hours : Complete(scope, h)' = Complete(scope, h)
  BY <1>1 DEF Complete, Summary
<1>8. settled' \subseteq Hours
  BY <1>5 DEF HistoryTypes
<1>9. \A scope \in Scope, h \in settled' : summary'[scope][h] = Complete(scope, h)
  BY <1>1, <1>3, <1>4, <1>8 DEF HistoryInv
<1>10. \A scope \in Scope, h \in Hours : summary'[scope][h] \subseteq Complete(scope, h)
  BY <1>3 DEF HistoryInv
<1> QED
  BY <1>1, <1>5, <1>6, <1>7, <1>8, <1>9, <1>10 DEF HistoryInv

LEMMA FillKeeps == HistoryInv /\ FillOnce => HistoryInv'
<1> SUFFICES ASSUME HistoryInv, FillOnce PROVE HistoryInv'
  OBVIOUS
<1>1. /\ summary' = [scope \in Scope |-> [h \in Hours |-> Complete(scope, h)]]
      /\ settled' = settled \cup {h \in Hours : h < Hour(tick) /\ NoneOpen(h)}
      /\ UNCHANGED <<tick, events, insert>>
  BY DEF FillOnce, Complete
<1>2. \A scope \in Scope, h \in Hours : Complete(scope, h)' = Complete(scope, h)
                                        /\ Complete(scope, h) \subseteq StoredEvent
  BY <1>1 DEF Complete, Summary, HistoryInv, HistoryTypes
<1>3. HistoryTypes'
  BY <1>1, <1>2 DEF HistoryInv, HistoryTypes
<1>4. \A h \in settled' : (h < Hour(tick) /\ NoneOpen(h))'
  BY <1>1 DEF HistoryInv, NoneOpen
<1>5. \A scope \in Scope, h \in Hours : summary'[scope][h] = Complete(scope, h)'
  BY <1>1, <1>2
<1>6. settled' \subseteq Hours
  BY <1>3 DEF HistoryTypes
<1> QED
  BY <1>1, <1>3, <1>4, <1>5, <1>6 DEF HistoryInv

LEMMA HistoryStepKeeps == HistoryInv /\ [HistoryNext]_historyVars => HistoryInv'
<1>1. HistoryInv /\ UNCHANGED historyVars => HistoryInv'
  BY DEF historyVars, HistoryInv, HistoryTypes, NoneOpen, Complete, Summary
<1> QED
  BY <1>1, TimePassesKeeps, BoardsKeep, RefreshKeeps, FillKeeps DEF HistoryNext

\* The summaries of an hour that is over and settled have exactly its events with
\* a delay that can be, for ever after.
THEOREM SettledHoursAreComplete == HistorySpec => []HistoryIsComplete
<1>1. HistoryInv => HistoryIsComplete
  <2> SUFFICES ASSUME HistoryInv, NEW h \in settled, NEW scope \in Scope, NEW e \in events,
                      Hour(e.at) = h, scope \in {Network, e.stop}, e.row.expArr # 0
               PROVE  e \in summary[scope][h] <=> Normalized(e.row) # Blank
    BY DEF HistoryIsComplete
  <2>1. e.at \in Nat /\ e.row \in StoredRow
    BY DEF HistoryInv, HistoryTypes, StoredEvent
  <2>2. e \in summary[scope][h] <=> Summarised(e.row)
    BY <2>1 DEF HistoryInv, Complete, Summary
  <2> QED
    BY <2>1, <2>2, FiltersAgree
<1> QED
  BY <1>1, HistoryInitEstablishes, HistoryStepKeeps, PTL DEF HistorySpec
================================================================================
