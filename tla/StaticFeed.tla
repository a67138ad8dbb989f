------------------------------ MODULE StaticFeed ------------------------------
(***************************************************************************)
(* The static GTFS refresh of the bus collector (bus_daemon.py).  A        *)
(* process downloads the ZIP that NTA publishes, activates the version if  *)
(* its data is in the database or imports it if not, keeps the ZIP, and    *)
(* records the refresh.  Only one version is active; the bulky tables of   *)
(* all others are emptied, and filled again when one of them returns.      *)
(*                                                                         *)
(* Each transaction holds the import lock from its first statement to its  *)
(* commit, so it is one step here; between two transactions, and between   *)
(* the commit and the two changes of the archive directory, any process    *)
(* may act, fail or die.                                                   *)
(***************************************************************************)
CONSTANTS
  Process,     \* processes that share the database and the archive directory
  Version,     \* static feeds, identified by content_sha256
  NoVersion

ASSUME StaticFeedAssumption == NoVersion \notin Version

Stages == {"idle", "downloaded", "selected", "committed", "linked", "archived"}

VARIABLES
  published,   \* the version NTA serves, or None while the download fails
  imported,    \* versions with a row; it commits only with imported_at and all data
  active,      \* versions with is_active
  stopTimes,   \* versions with rows in bus_stop_times
  shapesFlag,  \* versions with shapes_imported
  shapePoints, \* versions whose shapes are in bus_shape_points
  progress,    \* progress[c]: how far c's refresh has come
  ver,         \* ver[c]: the version c has downloaded
  zips,        \* versions kept under versions/
  latest,      \* the version of the source's latest copy
  recorded     \* history: versions a refresh of which was recorded as done

versionTables == <<imported, active, stopTimes, shapesFlag, shapePoints>>
files == <<zips, latest>>
staticVars == <<published, versionTables, progress, ver, files, recorded>>

StaticTypeOK ==
  /\ published \in Version \cup {NoVersion}
  /\ imported \subseteq Version /\ active \subseteq Version
  /\ stopTimes \subseteq Version
  /\ shapesFlag \subseteq Version /\ shapePoints \subseteq Version
  /\ progress \in [Process -> Stages]
  /\ ver \in [Process -> Version \cup {NoVersion}]
  /\ \A c \in Process : ver[c] = NoVersion <=> progress[c] = "idle"
  /\ zips \subseteq Version
  /\ latest \in Version \cup {NoVersion}
  /\ recorded \subseteq Version

\* A new database, or one whose feed was imported before shapes and ZIPs were
\* kept (migration 012).
StaticInit ==
  /\ published \in Version \cup {NoVersion}
  /\ active \in {{}} \cup {{v} : v \in Version}
  /\ imported = active /\ stopTimes = active
  /\ shapesFlag = {} /\ shapePoints = {}
  /\ progress = [c \in Process |-> "idle"]
  /\ ver = [c \in Process |-> NoVersion]
  /\ zips = {} /\ latest = NoVersion
  /\ recorded = {}

-----------------------------------------------------------------------------
\* NTA publishes another version, a former one perhaps, or goes away.
Publish ==
  /\ \E v \in Version \cup {NoVersion} : v # published /\ published' = v
  /\ UNCHANGED <<versionTables, progress, ver, files, recorded>>

\* _download_static_feed, one of whose three attempts succeeded.
DownloadFeed(c) ==
  /\ progress[c] = "idle" /\ published # NoVersion
  /\ progress' = [progress EXCEPT ![c] = "downloaded"]
  /\ ver' = [ver EXCEPT ![c] = published]
  /\ UNCHANGED <<published, versionTables, files, recorded>>

\* Mutant: presence of the row is enough, as it was before the bulky tables
\* were emptied.
HasRow(v) == v \in imported

\* Mutant: the shapes flag is not asked for.
HasStopTimes(v) == v \in imported \cap stopTimes

\* The database can serve v as it stands.
IsComplete(v) == v \in imported \cap stopTimes \cap shapesFlag

\* Mutant: shapes_imported of the other versions is left alone.
ActivatesKeepingFlags(v, times, flags, points) ==
  /\ active' = {v}
  /\ shapesFlag' = flags
  /\ shapePoints' = points \cap {v}
  /\ stopTimes' = times \cap {v}

\* Mutant: the other versions stay active.
ActivatesBeside(v, times, flags, points) ==
  /\ active' = active \cup {v}
  /\ shapesFlag' = flags \cap {v}
  /\ shapePoints' = points \cap {v}
  /\ stopTimes' = times \cap {v}

\* Mutant: the bulky tables of the other versions are left alone.
ActivatesWithoutPruning(v, times, flags, points) ==
  /\ active' = {v}
  /\ shapesFlag' = flags /\ shapePoints' = points /\ stopTimes' = times

\* _activate_version_and_prune_stop_times, given the bulky tables as the
\* transaction has them by now.
Activates(v, times, flags, points) ==
  /\ active' = {v}
  /\ shapesFlag' = flags \cap {v}
  /\ shapePoints' = points \cap {v}
  /\ stopTimes' = times \cap {v}

\* The first transaction: a complete version only needs activating.
ActivateExisting(c) ==
  /\ progress[c] = "downloaded" /\ IsComplete(ver[c])
  /\ Activates(ver[c], stopTimes, shapesFlag, shapePoints)
  /\ progress' = [progress EXCEPT ![c] = "committed"]
  /\ UNCHANGED <<published, imported, ver, files, recorded>>

\* It found nothing to activate; the ZIP is read and its bus rows selected.
Select(c) ==
  /\ progress[c] = "downloaded" /\ ~IsComplete(ver[c])
  /\ progress' = [progress EXCEPT ![c] = "selected"]
  /\ UNCHANGED <<published, versionTables, ver, files, recorded>>

\* The second transaction looks again, since another process may have imported
\* the version meanwhile, fills what is missing, of a known version only the
\* tables that lack it, and activates.
Import(c) ==
  LET v == ver[c]
      refilled == IF v \in imported /\ v \in shapesFlag THEN {} ELSE {v}
  IN  /\ progress[c] = "selected"
      /\ imported' = imported \cup {v}
      /\ IF IsComplete(v)
         THEN Activates(v, stopTimes, shapesFlag, shapePoints)
         ELSE Activates(v, stopTimes \cup {v}, shapesFlag \cup refilled,
                        shapePoints \cup refilled)
      /\ progress' = [progress EXCEPT ![c] = "committed"]
      /\ UNCHANGED <<published, ver, files, recorded>>

\* Mutant: the ZIP goes straight to the latest copy.
LinksNothing(c) ==
  /\ progress[c] = "committed"
  /\ progress' = [progress EXCEPT ![c] = "linked"]
  /\ UNCHANGED <<published, versionTables, ver, files, recorded>>

\* The ZIP, complete on disk under a temporary name, gets its name under
\* versions/, unless it is there already.
LinkVersion(c) ==
  /\ progress[c] = "committed"
  /\ zips' = zips \cup {ver[c]}
  /\ progress' = [progress EXCEPT ![c] = "linked"]
  /\ UNCHANGED <<published, versionTables, ver, latest, recorded>>

\* The temporary name replaces the latest copy.
ReplaceLatest(c) ==
  /\ progress[c] = "linked"
  /\ latest' = ver[c]
  /\ progress' = [progress EXCEPT ![c] = "archived"]
  /\ UNCHANGED <<published, versionTables, ver, zips, recorded>>

\* Nothing of a refresh outlives it in the process.
EndRefresh(c) ==
  /\ progress' = [progress EXCEPT ![c] = "idle"]
  /\ ver' = [ver EXCEPT ![c] = NoVersion]

\* record_fetch with "success" or "skipped".
RecordSuccess(c) ==
  /\ progress[c] = "archived"
  /\ recorded' = recorded \cup {ver[c]}
  /\ EndRefresh(c)
  /\ UNCHANGED <<published, versionTables, files>>

\* A bad ZIP, a database or disk error, or the death of the process: the
\* transaction in progress is rolled back, what was committed stays.
StaticRefreshFails(c) ==
  /\ progress[c] # "idle"
  /\ EndRefresh(c)
  /\ UNCHANGED <<published, versionTables, files, recorded>>

Refresh(c) ==
  \/ DownloadFeed(c) \/ ActivateExisting(c) \/ Select(c) \/ Import(c)
  \/ LinkVersion(c) \/ ReplaceLatest(c) \/ RecordSuccess(c)

StaticNext == Publish \/ \E c \in Process : Refresh(c) \/ StaticRefreshFails(c)

StaticSpec == StaticInit /\ [][StaticNext]_staticVars

\* schedule_task starts a refresh again and again, and no step of it fails for
\* ever: as long as NTA publishes, refreshes of each process get to their end.
StaticFairness == \A c \in Process : []<><<ReplaceLatest(c)>>_staticVars

-----------------------------------------------------------------------------
\* At any moment a reader finds at most one active version, and the schedule
\* of that version is there: no process makes a version active whose stop times
\* another one has emptied between its two looks at the database.
ActiveIsUsable ==
  /\ \A u, v \in active : u = v
  /\ active \subseteq imported \cap stopTimes

\* shapes_imported says what is in bus_shape_points. A version that was emptied
\* and comes back would otherwise keep its flag and never get its shapes back.
ShapesFlagIsTrue == shapesFlag = shapePoints

\* Everything bulky belongs to the active version.
OnlyActiveIsBulky == stopTimes \cup shapePoints \subseteq active

\* Each static ZIP a refresh reported as imported is kept by content
\* hash (docs/buses.md), and the latest copy is one of those kept.
RecordedIsKept == recorded \subseteq zips /\ latest \in zips \cup {NoVersion}

\* Collection never loses its schedule: once a version is active, one is after
\* every step, and a new one arrives whole.
StaysServed ==
  [][active # {} => active' # {} /\ (active' # active => active' \subseteq shapePoints')]_staticVars

\* If NTA goes on publishing one version, all processes settle on it, in the
\* database and in the archive: one that downloaded an older ZIP may bring it
\* back, but not for good.
SettlesOnPublished ==
  StaticFairness => \A v \in Version :
    <>[](published = v) => <>[](active = {v} /\ v \in shapePoints /\ v \in zips /\ latest = v)
=============================================================================
