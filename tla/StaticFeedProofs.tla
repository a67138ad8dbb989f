--------------------------- MODULE StaticFeedProofs ---------------------------
(***************************************************************************)
(* For any number of collectors and versions: the active version can be    *)
(* served, nothing bulky belongs to another one, and a recorded refresh    *)
(* has its ZIP in the archive.                                             *)
(***************************************************************************)
EXTENDS StaticFeed, TLAPS

-----------------------------------------------------------------------------
\* A refresh that has linked its ZIP finds it under versions/ from then on.
LinkedIsKept ==
  \A c \in Process : progress[c] \in {"linked", "archived"} => ver[c] \in zips

TablesInv ==
  /\ StaticTypeOK
  /\ ActiveIsUsable
  /\ ShapesFlagIsTrue
  /\ OnlyActiveIsBulky

ArchiveInv ==
  /\ StaticTypeOK
  /\ LinkedIsKept
  /\ RecordedIsKept

LEMMA StaticTypeInit == StaticInit => StaticTypeOK
  BY StaticFeedAssumption DEF StaticInit, StaticTypeOK, Stages

LEMMA ActivatesTypes ==
  ASSUME NEW v \in Version, NEW times \in SUBSET Version, NEW flags \in SUBSET Version,
         NEW points \in SUBSET Version, Activates(v, times, flags, points)
  PROVE  /\ active' \subseteq Version /\ stopTimes' \subseteq Version
         /\ shapesFlag' \subseteq Version /\ shapePoints' \subseteq Version
  BY DEF Activates

\* Both transactions activate the version they were started for, which is
\* complete by then.
LEMMA ImportEffect ==
  ASSUME StaticTypeOK, NEW c \in Process, ActivateExisting(c) \/ Import(c)
  PROVE  \E times, flags, points \in SUBSET Version :
           /\ Activates(ver[c], times, flags, points)
           /\ ver[c] \in Version /\ ver[c] \in imported' /\ imported' \in SUBSET Version
           /\ ver[c] \in times /\ ver[c] \in flags
           /\ ShapesFlagIsTrue => flags = points
<1> DEFINE v == ver[c]
           refilled == IF v \in imported /\ v \in shapesFlag THEN {} ELSE {v}
<1>1. v \in Version
  BY DEF StaticTypeOK, ActivateExisting, Import
<1>2. ASSUME IsComplete(v), Activates(v, stopTimes, shapesFlag, shapePoints),
             imported' = imported \cup {v} \/ imported' = imported
      PROVE  \E times, flags, points \in SUBSET Version :
               /\ Activates(v, times, flags, points)
               /\ v \in Version /\ v \in imported' /\ imported' \in SUBSET Version
               /\ v \in times /\ v \in flags
               /\ ShapesFlagIsTrue => flags = points
  BY <1>1, <1>2 DEF StaticTypeOK, IsComplete, ShapesFlagIsTrue
<1>3. ASSUME Activates(v, stopTimes \cup {v}, shapesFlag \cup refilled,
                       shapePoints \cup refilled),
             imported' = imported \cup {v}
      PROVE  \E times, flags, points \in SUBSET Version :
               /\ Activates(v, times, flags, points)
               /\ v \in Version /\ v \in imported' /\ imported' \in SUBSET Version
               /\ v \in times /\ v \in flags
               /\ ShapesFlagIsTrue => flags = points
  <2>1. /\ stopTimes \cup {v} \in SUBSET Version
        /\ shapesFlag \cup refilled \in SUBSET Version
        /\ shapePoints \cup refilled \in SUBSET Version
        /\ imported' \in SUBSET Version
    BY <1>1, <1>3 DEF StaticTypeOK
  <2>2. v \in shapesFlag \cup refilled
    OBVIOUS
  <2>3. ShapesFlagIsTrue => shapesFlag \cup refilled = shapePoints \cup refilled
    BY DEF ShapesFlagIsTrue
  <2> HIDE DEF refilled
  <2> QED
    BY <1>1, <1>3, <2>1, <2>2, <2>3
<1> QED
  BY <1>2, <1>3 DEF ActivateExisting, Import

LEMMA StaticTypeStep == StaticTypeOK /\ [StaticNext]_staticVars => StaticTypeOK'
<1> SUFFICES ASSUME StaticTypeOK, [StaticNext]_staticVars PROVE StaticTypeOK'
  OBVIOUS
<1> USE StaticFeedAssumption DEF Stages
<1>1. CASE Publish
  BY <1>1 DEF StaticTypeOK, Publish, versionTables, files
<1>2. ASSUME NEW c \in Process, DownloadFeed(c) PROVE StaticTypeOK'
  BY <1>2 DEF StaticTypeOK, DownloadFeed, versionTables, files
<1>3. ASSUME NEW c \in Process, ActivateExisting(c) \/ Import(c) PROVE StaticTypeOK'
  <2>1. /\ active' \subseteq Version /\ stopTimes' \subseteq Version
        /\ shapesFlag' \subseteq Version /\ shapePoints' \subseteq Version
        /\ imported' \subseteq Version
    BY <1>3, ImportEffect, ActivatesTypes
  <2>2. /\ progress' = [progress EXCEPT ![c] = "committed"] /\ progress[c] # "idle"
        /\ UNCHANGED <<published, ver, zips, latest, recorded>>
    BY <1>3 DEF ActivateExisting, Import, files
  <2> QED
    BY <2>1, <2>2 DEF StaticTypeOK
<1>4. ASSUME NEW c \in Process, Select(c) PROVE StaticTypeOK'
  BY <1>4 DEF StaticTypeOK, Select, versionTables, files
<1>5. ASSUME NEW c \in Process, LinkVersion(c) PROVE StaticTypeOK'
  BY <1>5 DEF StaticTypeOK, LinkVersion, versionTables
<1>6. ASSUME NEW c \in Process, ReplaceLatest(c) PROVE StaticTypeOK'
  BY <1>6 DEF StaticTypeOK, ReplaceLatest, versionTables
<1>7. ASSUME NEW c \in Process, RecordSuccess(c) PROVE StaticTypeOK'
  BY <1>7 DEF StaticTypeOK, RecordSuccess, EndRefresh, versionTables, files
<1>8. ASSUME NEW c \in Process, StaticRefreshFails(c) PROVE StaticTypeOK'
  BY <1>8 DEF StaticTypeOK, StaticRefreshFails, EndRefresh, versionTables, files
<1>9. CASE UNCHANGED staticVars
  BY <1>9 DEF StaticTypeOK, staticVars, versionTables, files
<1> QED
  BY <1>1, <1>2, <1>3, <1>4, <1>5, <1>6, <1>7, <1>8, <1>9 DEF StaticNext, Refresh

\* Only the two importing transactions write the tables.
LEMMA OnlyImportsWriteTables ==
  ASSUME [StaticNext]_staticVars,
         \A c \in Process : ~(ActivateExisting(c) \/ Import(c))
  PROVE  UNCHANGED versionTables
  BY DEF StaticNext, Refresh, Publish, DownloadFeed, Select, LinkVersion, ReplaceLatest,
         RecordSuccess, StaticRefreshFails, staticVars

LEMMA TablesInvStep == TablesInv /\ [StaticNext]_staticVars => TablesInv'
<1> SUFFICES ASSUME TablesInv, [StaticNext]_staticVars PROVE TablesInv'
  OBVIOUS
<1>1. StaticTypeOK /\ StaticTypeOK'
  BY StaticTypeStep DEF TablesInv
<1>2. ASSUME NEW c \in Process, ActivateExisting(c) \/ Import(c) PROVE TablesInv'
  <2>1. PICK times, flags, points \in SUBSET Version :
          /\ Activates(ver[c], times, flags, points)
          /\ ver[c] \in imported' /\ ver[c] \in times /\ ver[c] \in flags
          /\ ShapesFlagIsTrue => flags = points
    BY <1>1, <1>2, ImportEffect
  <2> QED
    BY <1>1, <2>1 DEF TablesInv, Activates, ActiveIsUsable, ShapesFlagIsTrue,
                      OnlyActiveIsBulky
<1>3. CASE UNCHANGED versionTables
  BY <1>1, <1>3 DEF TablesInv, versionTables, ActiveIsUsable, ShapesFlagIsTrue, OnlyActiveIsBulky
<1> QED
  BY <1>2, <1>3, OnlyImportsWriteTables

LEMMA TablesInvInit == StaticInit => TablesInv
  BY StaticTypeInit
  DEF StaticInit, TablesInv, ActiveIsUsable, ShapesFlagIsTrue, OnlyActiveIsBulky

LEMMA TablesInvHolds == StaticSpec => []TablesInv
  BY TablesInvInit, TablesInvStep, PTL DEF StaticSpec

\* A reader finds at most one active version, with its stop times.
THEOREM ActiveVersionIsUsable == StaticSpec => []ActiveIsUsable
<1>1. TablesInv => ActiveIsUsable
  BY DEF TablesInv
<1> QED
  BY <1>1, TablesInvHolds, PTL

\* The flag of a version says whether its shape points are in the database,
\* through every import, activation, clearing and second life.
THEOREM FlagsTellShapes == StaticSpec => []ShapesFlagIsTrue
<1>1. TablesInv => ShapesFlagIsTrue
  BY DEF TablesInv
<1> QED
  BY <1>1, TablesInvHolds, PTL

\* Whatever refreshes run at the same time, no version but the active one keeps
\* its stop times or shape points.
THEOREM OthersAreEmptied == StaticSpec => []OnlyActiveIsBulky
<1>1. TablesInv => OnlyActiveIsBulky
  BY DEF TablesInv
<1> QED
  BY <1>1, TablesInvHolds, PTL

\* A version, once active, is replaced in one step by another, shapes and all.
THEOREM CollectionStaysServed == StaticSpec => StaysServed
<1> DEFINE Served == active # {} =>
             active' # {} /\ (active' # active => active' \subseteq shapePoints')
<1>1. TablesInv /\ [StaticNext]_staticVars => [Served]_staticVars
  <2> SUFFICES ASSUME TablesInv, [StaticNext]_staticVars PROVE Served
    OBVIOUS
  <2>1. ASSUME NEW c \in Process, ActivateExisting(c) \/ Import(c) PROVE Served
    <3>1. PICK times, flags, points \in SUBSET Version :
            /\ Activates(ver[c], times, flags, points)
            /\ ver[c] \in flags /\ (ShapesFlagIsTrue => flags = points)
      BY <2>1, ImportEffect DEF TablesInv
    <3> QED
      BY <3>1 DEF TablesInv, Activates
  <2>2. CASE UNCHANGED versionTables
    BY <2>2 DEF versionTables
  <2> QED
    BY <2>1, <2>2, OnlyImportsWriteTables
<1> QED
  BY <1>1, TablesInvHolds, PTL DEF StaticSpec, StaysServed

LEMMA ArchiveInvStep == ArchiveInv /\ [StaticNext]_staticVars => ArchiveInv'
<1> SUFFICES ASSUME ArchiveInv, [StaticNext]_staticVars PROVE ArchiveInv'
  OBVIOUS
<1> StaticTypeOK /\ StaticTypeOK'
  BY StaticTypeStep DEF ArchiveInv
<1> USE DEF ArchiveInv, LinkedIsKept, RecordedIsKept
<1>1. CASE Publish
  BY <1>1 DEF Publish, files
<1>2. ASSUME NEW c \in Process,
             DownloadFeed(c) \/ ActivateExisting(c) \/ Select(c) \/ Import(c)
      PROVE  ArchiveInv'
  BY <1>2 DEF StaticTypeOK, DownloadFeed, ActivateExisting, Select, Import, files
<1>3. ASSUME NEW c \in Process, LinkVersion(c) PROVE ArchiveInv'
  BY <1>3 DEF StaticTypeOK, LinkVersion
<1>4. ASSUME NEW c \in Process, ReplaceLatest(c) PROVE ArchiveInv'
  BY <1>4 DEF StaticTypeOK, ReplaceLatest
<1>5. ASSUME NEW c \in Process, RecordSuccess(c) \/ StaticRefreshFails(c) PROVE ArchiveInv'
  BY <1>5 DEF StaticTypeOK, RecordSuccess, StaticRefreshFails, EndRefresh, files
<1>6. CASE UNCHANGED staticVars
  BY <1>6 DEF staticVars, files
<1> QED
  BY <1>1, <1>2, <1>3, <1>4, <1>5, <1>6 DEF StaticNext, Refresh

\* A refresh that was recorded as done has its ZIP under versions/.
THEOREM RecordedZipIsKept == StaticSpec => []RecordedIsKept
<1>1. StaticInit => ArchiveInv
  BY StaticTypeInit DEF StaticInit, ArchiveInv, LinkedIsKept, RecordedIsKept
<1>2. ArchiveInv => RecordedIsKept
  BY DEF ArchiveInv
<1> QED
  BY <1>1, <1>2, ArchiveInvStep, PTL DEF StaticSpec

\* Every variable keeps its type.
THEOREM StaticTypeCorrect == StaticSpec => []StaticTypeOK
  BY StaticTypeInit, StaticTypeStep, PTL DEF StaticSpec
=============================================================================
