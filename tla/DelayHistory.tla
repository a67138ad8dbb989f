----------------------------- MODULE DelayHistory -----------------------------
(***************************************************************************)
(* The hourly delay history of the rail collector (daemon.py and migration *)
(* 008): the boards of the stations are inserted, a transaction each, and  *)
(* every five minutes the last hours are summarised again, for each        *)
(* station and for the network.  Garbage is kept out twice: when a row is  *)
(* inserted, in Python, and when it is summarised, in SQL.                 *)
(*                                                                         *)
(* Every column of a summary is a function of the events it is made of, so *)
(* a summary is the set of these.  Time passes in half hours.              *)
(***************************************************************************)
EXTENDS Integers, FiniteSets

CONSTANTS
  Stop,         \* stations
  Network,      \* the scope of all stations
  BoardRow,     \* rows of boards: delay and times in minutes, Blank if absent
  Blank,
  LastTick, MaxEvents  \* bounds

Minute == Nat \cup {Blank}

ASSUME HistoryAssumption ==
  /\ Blank \notin Int
  /\ BoardRow \subseteq [late : Int \cup {Blank}, schedArr : Minute, schedDep : Minute,
                         expArr : Minute, expDep : Minute]
  /\ LastTick \in Nat /\ MaxEvents \in Nat

VARIABLES
  tick,      \* half hours
  events,    \* the committed station_events
  insert,   \* the open transaction: an event, or Blank
  summary,   \* summary[scope][hour]: the events delay_history_hourly is made of
  settled    \* history: closed hours summarised with no insert of theirs open

historyVars == <<tick, events, insert, summary, settled>>

Hour(t) == t \div 2

Hours == 0..Hour(LastTick)

Scope == Stop \cup {Network}

-----------------------------------------------------------------------------
Magnitude(n) == IF n < 0 THEN -n ELSE n

\* Python's "or": a time of 00:00 is 0, and counts as missing.
Or(x, y) == IF x \in {Blank, 0} THEN y ELSE x

\* SQL's COALESCE and NULLIF(x, '00:00').
Coalesce(x, y) == IF x = Blank THEN y ELSE x
NullIfMidnight(x) == IF x = 0 THEN Blank ELSE x

\* A delay that cannot be: over twelve hours, or an hour early and more with
\* an expected time before the scheduled one.
Absurd(late, scheduled, expected) ==
  \/ Magnitude(late) > 720
  \/ late < -60 /\ scheduled # Blank /\ expected # Blank /\ expected < scheduled

\* normalize_late_minutes: the delay that is stored.
Normalized(row) ==
  LET scheduled == Or(row.schedArr, row.schedDep)
      expected == Or(row.expArr, row.expDep)
  IN IF row.late = Blank \/ Absurd(row.late, scheduled, expected) THEN Blank ELSE row.late

\* The condition of the summary's query on a stored row.
Summarised(row) ==
  LET scheduled == Coalesce(NullIfMidnight(row.schedArr),
                     Coalesce(NullIfMidnight(row.schedDep),
                       Coalesce(row.schedArr, row.schedDep)))
      expected == Coalesce(row.expArr, row.expDep)
  IN row.late # Blank /\ ~Absurd(row.late, scheduled, expected)

Event(s, t, row) == [stop |-> s, at |-> t, row |-> row]

\* Rows from before the delays were normalised may be in the table.
HistoryInit ==
  /\ tick = 0
  /\ \/ events = {}
     \/ \E s \in Stop, row \in BoardRow : events = {Event(s, 0, row)}
  /\ insert = Blank
  /\ summary = [scope \in Scope |-> [h \in Hours |-> {}]]
  /\ settled = {}

-----------------------------------------------------------------------------
\* Time passes; the collector may be stopped meanwhile.
TimePasses ==
  /\ tick < LastTick
  /\ tick' = tick + 1
  /\ UNCHANGED <<events, insert, summary, settled>>

\* _insert_station_events opens its transaction: NOW() is its beginning.
BoardBegins ==
  /\ insert = Blank /\ Cardinality(events) < MaxEvents
  /\ \E s \in Stop, row \in BoardRow :
       insert' = Event(s, tick, [row EXCEPT !.late = Normalized(row)])
  /\ UNCHANGED <<tick, events, summary, settled>>

BoardCommits ==
  /\ insert # Blank
  /\ events' = events \cup {insert}
  /\ insert' = Blank
  /\ UNCHANGED <<tick, summary, settled>>

\* A row fails, or the collector dies: the board is rolled back.
BoardFails ==
  /\ insert # Blank
  /\ insert' = Blank
  /\ UNCHANGED <<tick, events, summary, settled>>

\* What the query makes of the events of a scope in an hour, from tick first.
Summary(scope, h, first) ==
  {e \in events : /\ Hour(e.at) = h /\ e.at >= first
                  /\ scope \in {Network, e.stop} /\ Summarised(e.row)}

\* No insert of hour h is open.
NoneOpen(h) == insert = Blank \/ Hour(insert.at) # h

\* Mutant: the window is not cut at a full hour.
TwoHoursAgo(t) == t - 4

\* The recomputed window begins two hours before the current one.
WindowStart(t) == 2 * (Hour(t) - 2)

\* refresh_delay_history_rollups: the groups found replace theirs. When it
\* fails nothing changes.
Refresh ==
  /\ summary' = [scope \in Scope |-> [h \in Hours |->
       LET found == Summary(scope, h, WindowStart(tick))
       IN IF found = {} THEN summary[scope][h] ELSE found]]
  /\ settled' = settled \cup {h \in Hours : h \in (Hour(tick) - 2)..(Hour(tick) - 1) /\ NoneOpen(h)}
  /\ UNCHANGED <<tick, events, insert>>

\* Migration 008 fills an empty table from all events.
FillOnce ==
  /\ \A scope \in Scope, h \in Hours : summary[scope][h] = {}
  /\ summary' = [scope \in Scope |-> [h \in Hours |-> Summary(scope, h, 0)]]
  /\ settled' = settled \cup {h \in Hours : h < Hour(tick) /\ NoneOpen(h)}
  /\ UNCHANGED <<tick, events, insert>>

HistoryNext ==
  \/ TimePasses \/ BoardBegins \/ BoardCommits \/ BoardFails \/ Refresh \/ FillOnce

HistorySpec == HistoryInit /\ [][HistoryNext]_historyVars
-----------------------------------------------------------------------------
\* Once an hour is over, its inserts have ended and it has been summarised one
\* time, its summaries are made for ever of exactly the events with a delay
\* that normalize_late_minutes keeps, whatever is summarised, rolled back or
\* inserted later; the network's is made of those of all stations.  A row that
\* is expected to arrive at 00:00 is outside: there the two filters differ.
HistoryIsComplete ==
  \A h \in settled, scope \in Scope, e \in events :
    Hour(e.at) = h /\ scope \in {Network, e.stop} /\ e.row.expArr # 0 =>
      (e \in summary[scope][h] <=> Normalized(e.row) # Blank)
=============================================================================
