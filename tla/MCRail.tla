-------------------------------- MODULE MCRail --------------------------------
(***************************************************************************)
(* The write path of the rail collector, its stations and its delay        *)
(* history, which share no state, checked in one run: the variable part    *)
(* says which of them a behaviour is about, and the variables of the       *)
(* others stay as they are.  The tasks of the write path share no state    *)
(* either: a behaviour is about one of them, and the sources of the others *)
(* have nothing to tell.                                                   *)
(***************************************************************************)
EXTENDS MCRailCollector, RailStations, DelayHistory
CONSTANTS connolly, tara, id1, id2, Stations, History

\* Connolly is on two lists, Tara Street on one.
Lists == [s \in Station |-> IF s = connolly THEN {"D", "M"} ELSE {"D"}]

Row(late, schedArr, schedDep, expArr, expDep) ==
  [late |-> late, schedArr |-> schedArr, schedDep |-> schedDep,
   expArr |-> expArr, expDep |-> expDep]

\* A late train; one wrapped over midnight; an early one without expected
\* times; one that starts here after midnight, and an absurd one that does.
BoardRows ==
  {Row(5, 600, 602, 605, 607), Row(-90, 1430, 1435, 5, 10), Row(-70, 600, Blank, Blank, Blank),
   Row(-70, 0, 30, 0, 1400), Row(-65, 0, 700, Blank, 635)}

VARIABLE part

CollectorRests == Init
StationsRest == StationsInit
HistoryRests == HistoryInit /\ events = {}

RailInit ==
  \/ part \in Task /\ Init /\ StationsRest /\ HistoryRests
  \/ part = Stations /\ StationsInit /\ CollectorRests /\ HistoryRests
  \/ part = History /\ HistoryInit /\ CollectorRests /\ StationsRest

RailNext ==
  \/ /\ part \in Task /\ Next
     /\ \A t \in Task \ {part} : source'[t] = source[t]
     /\ UNCHANGED <<part, stationVars, historyVars>>
  \/ part = Stations /\ StationsNext /\ UNCHANGED <<part, vars, historyVars>>
  \/ part = History /\ HistoryNext /\ UNCHANGED <<part, vars, stationVars>>

RailSpec == RailInit /\ [][RailNext]_<<part, vars, stationVars, historyVars>>
===============================================================================
