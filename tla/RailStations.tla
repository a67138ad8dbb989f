----------------------------- MODULE RailStations -----------------------------
(***************************************************************************)
(* The stations of the rail collector (daemon.py): fetch_stations stores   *)
(* the stations Irish Rail lists, asks which of them are DART, mainline    *)
(* and suburban, and loads the codes that fetch_all_station_boards polls.  *)
(* It runs at the start and then daily.  A poll of the boards that finds   *)
(* no codes loads them itself.                                             *)
(*                                                                         *)
(* Of a station the identifier is kept, which the table wants unique, and  *)
(* the class; names and coordinates are left out.  The process is one      *)
(* event loop, so a step lasts from one await to the next.                 *)
(***************************************************************************)
CONSTANTS
  Station,     \* station codes, as stored: trimmed and in capitals
  StationId,   \* station identifiers
  InClass,     \* InClass[s]: the lists, of "D", "M" and "S", that spell s as it is stored;
               \* another spelling is not adapted and finds no row
  NoCode, Booting

Class == {"D", "M", "S"}

VARIABLES
  listed,   \* listed[s]: the identifier Irish Rail lists s with, NoCode if it does not
  stored,   \* stored[s]: the committed identifier of s, NoCode without a row
  class,    \* class[s]: station_type
  codes,    \* station_codes, in memory
  stage,    \* where fetch_stations is
  answer,   \* the stations of its response not yet looked at
  pending,  \* pending[s]: as stored, with what its transaction has written
  aborted,  \* an error has aborted that transaction
  loading   \* the codes a poll of the boards has read; NoCode if it is not loading,
            \* Booting before the first fetch_stations has ended

stationVars == <<listed, stored, class, codes, stage, answer, pending, aborted, loading>>

Nowhere == [s \in Station |-> NoCode]

StoredCodes == {s \in Station : stored[s] # NoCode}

StationsInit ==
  /\ listed = Nowhere /\ stored = Nowhere /\ class = Nowhere
  /\ codes = {}
  /\ stage = "idle" /\ answer = Nowhere /\ pending = Nowhere /\ aborted = FALSE
  /\ loading = Booting

-----------------------------------------------------------------------------
\* A station is opened, closed, or listed with another identifier.
ListChanges ==
  /\ \E s \in Station, i \in StationId \cup {NoCode} :
       /\ i # listed[s]
       /\ i = NoCode \/ \A other \in Station : listed[other] # i
       /\ listed' = [listed EXCEPT ![s] = i]
  /\ UNCHANGED <<stored, class, codes, stage, answer, pending, aborted, loading>>

\* fetch_stations ends; after the first one the tasks start.
Ends ==
  /\ stage' = "idle"
  /\ loading' = IF loading = Booting THEN NoCode ELSE loading

\* The list arrives.
ReceiveList ==
  /\ stage = "idle"
  /\ stage' = "rows"
  /\ answer' = listed /\ pending' = stored /\ aborted' = FALSE
  /\ UNCHANGED <<listed, stored, class, codes, loading>>

\* There is no answer, or no connection.
ListFails ==
  /\ stage \in {"idle", "rows"}
  /\ Ends
  /\ answer' = Nowhere /\ pending' = Nowhere /\ aborted' = FALSE
  /\ UNCHANGED <<listed, stored, class, codes>>

\* Another code holds the identifier already.
Clashes(s) == \E other \in Station \ {s} : pending[other] = answer[s]

\* A row is upserted. An error is logged, and the next rows fail as well.
UpsertStation(s) ==
  /\ stage = "rows" /\ answer[s] # NoCode
  /\ answer' = [answer EXCEPT ![s] = NoCode]
  /\ IF aborted \/ Clashes(s)
     THEN aborted' = TRUE /\ UNCHANGED pending
     ELSE pending' = [pending EXCEPT ![s] = answer[s]] /\ UNCHANGED aborted
  /\ UNCHANGED <<listed, stored, class, codes, stage, loading>>

\* The commit: an aborted transaction is rolled back without an error.
CommitStations ==
  /\ stage = "rows" /\ answer = Nowhere
  /\ stored' = IF aborted THEN stored ELSE pending
  /\ stage' = "classes"
  /\ pending' = Nowhere /\ aborted' = FALSE
  /\ UNCHANGED <<listed, class, codes, answer, loading>>

\* Mutant: a list that did not arrive leaves its stations without a class.
LastListOrNone(s, lists) ==
  IF "S" \in InClass[s] \cap lists THEN "S"
  ELSE IF "M" \in InClass[s] \cap lists THEN "M"
  ELSE IF "D" \in InClass[s] \cap lists THEN "D"
  ELSE NoCode

\* The class of s after the updates for the given lists: DART, mainline and
\* suburban, in this order.
LastList(s, lists) ==
  IF "S" \in InClass[s] \cap lists THEN "S"
  ELSE IF "M" \in InClass[s] \cap lists THEN "M"
  ELSE IF "D" \in InClass[s] \cap lists THEN "D"
  ELSE class[s]

\* The lists that arrived are written; one that did not is an empty one, and
\* when the transaction fails none is written. The codes of these lists are
\* looked up as they come, not trimmed nor put in capitals as those stored were.
Classify(lists) ==
  /\ stage = "classes"
  /\ class' = [s \in Station |-> IF stored[s] = NoCode THEN class[s] ELSE LastList(s, lists)]
  /\ stage' = "codes"
  /\ UNCHANGED <<listed, stored, codes, answer, pending, aborted, loading>>

\* The codes are read again from the table, whatever was stored.
ReloadCodes ==
  /\ stage = "codes"
  /\ codes' = StoredCodes
  /\ Ends
  /\ UNCHANGED <<listed, stored, class, answer, pending, aborted>>

ReloadFails ==
  /\ stage = "codes"
  /\ Ends
  /\ UNCHANGED <<listed, stored, class, codes, answer, pending, aborted>>

\* A poll of the boards without codes reads them, and takes them a step later.
BoardsRead ==
  /\ loading = NoCode /\ codes = {}
  /\ loading' = StoredCodes
  /\ UNCHANGED <<listed, stored, class, codes, stage, answer, pending, aborted>>

BoardsTake ==
  /\ loading \notin {NoCode, Booting}
  /\ codes' = loading /\ loading' = NoCode
  /\ UNCHANGED <<listed, stored, class, stage, answer, pending, aborted>>

\* The collector dies and is restarted.
Restart ==
  /\ codes' = {} /\ loading' = Booting
  /\ stage' = "idle" /\ answer' = Nowhere /\ pending' = Nowhere /\ aborted' = FALSE
  /\ UNCHANGED <<listed, stored, class>>

StationsNext ==
  \/ ListChanges \/ ReceiveList \/ ListFails
  \/ \E s \in Station : UpsertStation(s)
  \/ CommitStations
  \/ \E lists \in SUBSET Class : Classify(lists)
  \/ ReloadCodes \/ ReloadFails \/ BoardsRead \/ BoardsTake \/ Restart

-----------------------------------------------------------------------------
\* When Irish Rail's list settles and the collector stays up, and each part of
\* fetch_stations succeeds again and again, not always in the same one, every
\* listed station comes to be polled and classified for good: what fails in
\* between, and codes the boards have read earlier, undo it only for a time.
\* A list that spells a station otherwise than it is stored does not classify it.
\* Each commit that succeeds has stored the list; one of a list that gives the
\* identifier of a stored station to another never succeeds.
StationsCatchUp ==
  /\ <>[][UNCHANGED listed]_listed
  /\ <>[][~Restart]_stationVars
  /\ []<><<CommitStations /\ ~aborted>>_stationVars
  /\ []<><<Classify(Class)>>_stationVars
  /\ []<><<ReloadCodes>>_stationVars
  => <>[](\A s \in Station : listed[s] # NoCode =>
            /\ stored[s] = listed[s] /\ s \in codes
            /\ InClass[s] = {} \/ class[s] \in InClass[s])
=============================================================================
