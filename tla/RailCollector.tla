----------------------------- MODULE RailCollector -----------------------------
(***************************************************************************)
(* The write path of the rail collector (daemon.py): every poll compares   *)
(* what it received with what the process remembers of earlier polls and   *)
(* inserts only what changed.  Three kinds of poll do it differently:      *)
(*                                                                         *)
(*   "snapshot"  all trains: one hash of the whole response;               *)
(*   "events"    HACON, or the board of a station: one hash of the whole   *)
(*               response, and one of each row, remembered at the insert;  *)
(*   "journey"   the movements of a train: one hash of each row,           *)
(*               remembered after the commit.                              *)
(*                                                                         *)
(* A row is reduced to the fields its hash is computed from.  The process  *)
(* is one event loop, so a step lasts from one await to the next.          *)
(***************************************************************************)
CONSTANTS
  Task,      \* polls: the snapshot, HACON, each station board, each journey
  KindOf,    \* the kind of a task
  Key,       \* row keys: a train, a train at a station, a stop of a journey
  State,     \* what a row says of its key
  Says,      \* Says[t][k]: what the responses of t may say of k
  None

Kinds == {"snapshot", "events", "journey"}

ASSUME RailAssumption ==
  /\ KindOf \in [Task -> Kinds]
  /\ Says \in [Task -> [Key -> SUBSET State]]
  /\ None \notin State

Content == [Key -> State \cup {None}]
Nothing == [k \in Key |-> None]

\* No poll is under way.
Idle == [active |-> FALSE, content |-> Nothing, todo |-> {}, batch |-> {}, aborted |-> FALSE]

\* Mutant: rows without a train code are taken too.
StartedWithEmptyRows(content) ==
  [active |-> TRUE, content |-> content, todo |-> Key, batch |-> {}, aborted |-> FALSE]

\* All rows of a response are to be looked at.
Started(content) ==
  [active |-> TRUE, content |-> content, todo |-> {k \in Key : content[k] # None},
   batch |-> {}, aborted |-> FALSE]

Poll == [active : BOOLEAN, content : Content, todo : SUBSET Key, batch : SUBSET Key,
         aborted : BOOLEAN]

VARIABLES
  source,  \* source[t]: what Irish Rail answers now
  whole,   \* whole[t]: response whose hash t remembers; Nothing at the start
  known,   \* known[t]: rows whose hashes t remembers
  rows,    \* rows[t]: the newest committed row of each key
  poll,    \* poll[t]: the poll under way
  harmed   \* history: t has remembered a row or response that was not committed

memory == <<whole, known>>
vars == <<source, memory, rows, poll, harmed>>

TypeOK ==
  /\ source \in [Task -> Content]
  /\ whole \in [Task -> Content]
  /\ known \in [Task -> Content]
  /\ rows \in [Task -> Content]
  /\ poll \in [Task -> Poll]
  /\ \A t \in Task :
       /\ poll[t].todo \cap poll[t].batch = {}
       /\ \A k \in poll[t].todo \cup poll[t].batch : poll[t].content[k] # None
       /\ poll[t].todo \cup poll[t].batch # {} => poll[t].active
  /\ harmed \in [Task -> BOOLEAN]

Init ==
  /\ source = [t \in Task |-> Nothing]
  /\ whole = [t \in Task |-> Nothing]
  /\ known = [t \in Task |-> Nothing]
  /\ rows = [t \in Task |-> Nothing]
  /\ poll = [t \in Task |-> Idle]
  /\ harmed = [t \in Task |-> FALSE]

-----------------------------------------------------------------------------
\* A train moves, appears or disappears.
SourceChanges ==
  /\ \E t \in Task, k \in Key : \E s \in Says[t][k] \cup {None} :
       s # source[t][k] /\ source' = [source EXCEPT ![t][k] = s]
  /\ UNCHANGED <<memory, rows, poll, harmed>>

\* The response arrives. Except for journeys, one like the last ends the poll,
\* and any other is remembered at once.
Receive(t) ==
  /\ ~poll[t].active
  /\ KindOf[t] = "journey" \/ source[t] # whole[t]
  /\ whole' = IF KindOf[t] = "journey" THEN whole ELSE [whole EXCEPT ![t] = source[t]]
  /\ poll' = [poll EXCEPT ![t] = Started(source[t])]
  /\ UNCHANGED <<source, known, rows, harmed>>

\* Mutant: a row that was seen before is not looked at again.
SeenBefore(t, k) == KindOf[t] # "snapshot" /\ known[t][k] # None

\* Row k is what its hash says: nothing is inserted.
Unchanged(t, k) == KindOf[t] # "snapshot" /\ known[t][k] = poll[t].content[k]

SkipRow(t, k) ==
  /\ k \in poll[t].todo /\ Unchanged(t, k)
  /\ poll' = [poll EXCEPT ![t].todo = @ \ {k}]
  /\ UNCHANGED <<source, memory, rows, harmed>>

\* Mutant: a journey remembers its rows at the insert, like events.
RemembersAtInsert(t) == KindOf[t] \in {"events", "journey"}

\* The polls that remember a row before they insert it.
RemembersEarly(t) == KindOf[t] = "events"

\* What the process remembers when row k of task t goes out.
Remembered(t, k) ==
  IF RemembersEarly(t) THEN [known EXCEPT ![t][k] = poll[t].content[k]] ELSE known

\* The row is inserted, unless an error has aborted the transaction before.
InsertRow(t, k) ==
  /\ k \in poll[t].todo /\ ~Unchanged(t, k) /\ ~poll[t].aborted
  /\ known' = Remembered(t, k)
  /\ poll' = [poll EXCEPT ![t].todo = @ \ {k}, ![t].batch = @ \cup {k}]
  /\ UNCHANGED <<source, whole, rows, harmed>>

\* The insert fails. Snapshots and events catch the error row by row and go on
\* in the aborted transaction; for a journey the poll is over.
InsertFails(t, k) ==
  /\ k \in poll[t].todo /\ ~Unchanged(t, k)
  /\ known' = Remembered(t, k)
  /\ IF KindOf[t] = "journey"
     THEN poll' = [poll EXCEPT ![t] = Idle] /\ UNCHANGED harmed
     ELSE /\ poll' = [poll EXCEPT ![t].todo = @ \ {k}, ![t].batch = {}, ![t].aborted = TRUE]
          /\ harmed' = [harmed EXCEPT ![t] = TRUE]
  /\ UNCHANGED <<source, whole, rows>>

Written(held, p) == [k \in Key |-> IF k \in p.batch THEN p.content[k] ELSE held[k]]

\* The commit; one of an aborted transaction rolls back without an error. Only
\* then does a journey remember what it inserted.
Commit(t) ==
  /\ poll[t].active /\ poll[t].todo = {}
  /\ rows' = [rows EXCEPT ![t] = Written(@, poll[t])]
  /\ known' = IF KindOf[t] = "journey"
              THEN [known EXCEPT ![t] = Written(@, poll[t])] ELSE known
  /\ poll' = [poll EXCEPT ![t] = Idle]
  /\ UNCHANGED <<source, whole, harmed>>

\* No connection, or one that breaks before the commit: all is rolled back.
PollFails(t) ==
  /\ poll[t].active
  /\ poll' = [poll EXCEPT ![t] = Idle]
  /\ harmed' = [harmed EXCEPT ![t] = @ \/ KindOf[t] # "journey"]
  /\ UNCHANGED <<source, memory, rows>>

\* cleanup_stale_hashes forgets rows of trains missing from the list it
\* fetched, between any two steps of the polls; snapshots have no rows.
Cleanup ==
  /\ \E gone \in SUBSET Key :
       known' = [t \in Task |-> [k \in Key |-> IF k \in gone THEN None ELSE known[t][k]]]
  /\ UNCHANGED <<source, whole, rows, poll, harmed>>

\* The process dies and is restarted.
Crash ==
  /\ whole' = [t \in Task |-> Nothing]
  /\ known' = [t \in Task |-> Nothing]
  /\ poll' = [t \in Task |-> Idle]
  /\ harmed' = [t \in Task |-> FALSE]
  /\ UNCHANGED <<source, rows>>

Next ==
  \/ SourceChanges \/ Cleanup \/ Crash
  \/ \E t \in Task :
       \/ Receive(t) \/ Commit(t) \/ PollFails(t)
       \/ \E k \in Key : SkipRow(t, k) \/ InsertRow(t, k) \/ InsertFails(t, k)

Spec == Init /\ [][Next]_vars

-----------------------------------------------------------------------------
\* A remembered row is one the database holds, so a row skipped as unchanged is
\* no loss.
StoredAsRemembered(t) ==
  \A k \in Key : known[t][k] # None => rows[t][k] = known[t][k]

\* Journeys publish hashes only after a successful commit (the docstring of
\* _fetch_train_movements): whatever fails, dies or is forgotten meanwhile.
JourneysRememberWhatIsStored ==
  \A t \in Task : KindOf[t] = "journey" => StoredAsRemembered(t)

\* Deduplication drops identical rows only (docs/scraper.md): of a response
\* that HACON, a board or the snapshot will skip the next time, every row is
\* the newest of its key, as long as no poll of the task has failed.
OnlyFailuresLose ==
  \A t \in Task : ~poll[t].active /\ ~harmed[t] =>
    \A k \in Key : whole[t][k] # None => rows[t][k] = whole[t][k]

\* The same whatever happens: when something moved, the trains that changed are
\* inserted (the docstring of fetch_hacon), by this poll or by a later one.
AnsweredIsStored ==
  \A t \in Task : ~poll[t].active =>
    \A k \in Key : whole[t][k] # None => rows[t][k] = whole[t][k]

\* A journey whose polls succeed again and again, as schedule_task retries them
\* for ever, is archived as it is once Irish Rail settles: no remembered hash
\* hides a stop for good.
JourneysCatchUp ==
  \A t \in Task :
    KindOf[t] = "journey" /\ []<><<Commit(t)>>_vars /\ <>[][UNCHANGED source]_source =>
      <>[](\A k \in Key : source[t][k] # None => rows[t][k] = source[t][k])
=============================================================================
