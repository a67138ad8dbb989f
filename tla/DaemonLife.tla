------------------------------- MODULE DaemonLife -------------------------------
(***************************************************************************)
(* The life of one bus collector process (run, schedule_task, init, close  *)
(* of bus_daemon.py): its connection pool and the tasks that use it, the   *)
(* first install of a static feed, failures that must not end a task, and  *)
(* the shutdown, which may come at any await: while a thread of the        *)
(* executor reads a ZIP, or while another collector has the import lock.   *)
(*                                                                         *)
(* What a refresh, a poll or a clean-up does to the data is StaticFeed,    *)
(* TripUpdates and VehicleSnapshot. Sleeps have no length here.            *)
(***************************************************************************)
CONSTANT IsKeyed   \* NTA_API_KEY is set

ASSUME LifeAssumption == IsKeyed \in BOOLEAN

\* The refresh started by run, and the workers that schedule_task loops for.
Refreshing == {"startup", "static"}
Workers == {"static", "realtime", "cleanup"}
Task == Refreshing \cup Workers

\* A refresh downloads, checks if the database has the version, selects the bus
\* rows in a thread, writes, and keeps the ZIP in a thread. A poll first looks
\* up the active version.
InRefresh == {"downloading", "checking", "selecting", "writing", "archiving"}
InWork == InRefresh \cup {"looking", "polling", "pruning"}

VARIABLES
  main,        \* where run is
  pool,
  isAsked,     \* the shutdown event
  task,        \* task[t]: where t is
  threadBusy,  \* a call handed to asyncio.to_thread runs
  lockIsTaken, \* another collector has STATIC_IMPORT_LOCK
  feedActive,  \* the database has an active version
  boardFilled  \* a TripUpdates poll has been stored

lifeVars == <<main, pool, isAsked, task, threadBusy, lockIsTaken, feedActive, boardFilled>>

NoTask == [t \in Task |-> "none"]

LifeTypeOK ==
  /\ main \in {"opening", "looking", "installing", "serving", "stopping", "gathering",
               "closed", "exited"}
  /\ pool \in {"none", "open", "closed"}
  /\ isAsked \in BOOLEAN /\ threadBusy \in BOOLEAN /\ lockIsTaken \in BOOLEAN
  /\ feedActive \in BOOLEAN /\ boardFilled \in BOOLEAN
  /\ task \in [Task -> InWork \cup {"none", "queued", "resting", "unwinding", "done"}]

LifeInit ==
  /\ main = "opening"
  /\ pool = "none"
  /\ isAsked = FALSE
  /\ task = NoTask
  /\ threadBusy = FALSE /\ lockIsTaken = FALSE
  /\ feedActive \in BOOLEAN
  /\ boardFilled = FALSE

-----------------------------------------------------------------------------
(* run.                                                                    *)

\* init opens the pool, or closes it again and raises.
Open ==
  /\ main = "opening"
  /\ main' = "looking" /\ pool' = "open"
  /\ UNCHANGED <<isAsked, task, threadBusy, lockIsTaken, feedActive, boardFilled>>

OpenFails ==
  /\ main = "opening"
  /\ main' = "stopping"
  /\ UNCHANGED <<pool, isAsked, task, threadBusy, lockIsTaken, feedActive, boardFilled>>

\* Without a key only the static feed is kept up.
WithWorkers(tasks) ==
  [t \in Task |-> IF t = "static" \/ (t \in Workers /\ IsKeyed) THEN "resting" ELSE tasks[t]]

\* The first look at the active version decides whether workers wait for the
\* first refresh.
LookForFeed ==
  /\ main = "looking"
  /\ LET started == [task EXCEPT !["startup"] = "queued"]
     IN  IF feedActive THEN main' = "serving" /\ task' = WithWorkers(started)
         ELSE main' = "installing" /\ task' = started
  /\ UNCHANGED <<pool, isAsked, threadBusy, lockIsTaken, feedActive, boardFilled>>

LookFails ==
  /\ main = "looking"
  /\ main' = "stopping"
  /\ UNCHANGED <<pool, isAsked, task, threadBusy, lockIsTaken, feedActive, boardFilled>>

\* Mutant: the first refresh has to succeed.
IsInstalled == task["startup"] = "done" /\ feedActive

\* The first refresh has ended, well or not.
IsTried == task["startup"] = "done"

StartWorkers ==
  /\ main = "installing" /\ IsTried /\ ~isAsked
  /\ main' = "serving" /\ task' = WithWorkers(task)
  /\ UNCHANGED <<pool, isAsked, threadBusy, lockIsTaken, feedActive, boardFilled>>

\* The handler of SIGINT and SIGTERM, installed once the pool is open.
Signal ==
  /\ main \in {"looking", "installing", "serving"} /\ ~isAsked
  /\ isAsked' = TRUE
  /\ UNCHANGED <<main, pool, task, threadBusy, lockIsTaken, feedActive, boardFilled>>

\* run returns into its finally clause.
Stop ==
  /\ main \in {"installing", "serving"} /\ isAsked
  /\ main' = "stopping"
  /\ UNCHANGED <<pool, isAsked, task, threadBusy, lockIsTaken, feedActive, boardFilled>>

\* Mutant: only the workers are cancelled.
CancelledWorkers == Workers

\* The tasks that are cancelled.
Cancelled == Task

\* A cancelled task gets the error at its await and gives its connection back
\* after a rollback. A transaction that was being committed may be in force.
CancelTasks ==
  /\ main = "stopping"
  /\ main' = "gathering"
  /\ task' = [t \in Task |-> IF t \notin Cancelled \/ task[t] \in {"none", "done"} THEN task[t]
                             ELSE "unwinding"]
  /\ \/ UNCHANGED <<feedActive, boardFilled>>
     \/ /\ ~lockIsTaken /\ \E t \in Refreshing : task[t] = "writing"
        /\ feedActive' = TRUE /\ UNCHANGED boardFilled
     \/ /\ task["realtime"] = "polling"
        /\ boardFilled' = TRUE /\ UNCHANGED feedActive
  /\ UNCHANGED <<pool, isAsked, threadBusy, lockIsTaken>>

\* Mutant: cancelled tasks are not waited for.
AreCancelled == TRUE

\* gather returns.
HaveEnded == \A t \in Task : task[t] \in {"none", "done"}

Close ==
  /\ main = "gathering" /\ HaveEnded
  /\ main' = "closed"
  /\ pool' = IF pool = "open" THEN "closed" ELSE pool
  /\ UNCHANGED <<isAsked, task, threadBusy, lockIsTaken, feedActive, boardFilled>>

\* asyncio.run waits for the threads of its executor.
Exit ==
  /\ main = "closed" /\ ~threadBusy
  /\ main' = "exited"
  /\ UNCHANGED <<pool, isAsked, task, threadBusy, lockIsTaken, feedActive, boardFilled>>

\* "restart: unless-stopped", or the next deployment.
RestartProcess ==
  /\ main = "exited"
  /\ main' = "opening" /\ pool' = "none" /\ isAsked' = FALSE /\ task' = NoTask
  /\ UNCHANGED <<threadBusy, lockIsTaken, feedActive, boardFilled>>

-----------------------------------------------------------------------------
(* The tasks.                                                              *)

Moves(t, to) == task' = [task EXCEPT ![t] = to]

\* schedule_task's sleep ends by its timeout, or the loop by the event.
WakeTask(t) ==
  /\ task[t] = "resting"
  /\ Moves(t, IF isAsked THEN "done"
              ELSE CASE t = "static" -> "queued" [] t = "realtime" -> "looking"
                     [] t = "cleanup" -> "pruning")
  /\ UNCHANGED <<main, pool, isAsked, threadBusy, lockIsTaken, feedActive, boardFilled>>

\* The function has returned, or raised: schedule_task goes on either way.
AfterWork(t) == IF t \in Workers THEN "resting" ELSE "done"

\* _feed_lock.
TakeFeedLock(t) ==
  /\ task[t] = "queued" /\ \A u \in Refreshing : task[u] \notin InRefresh
  /\ Moves(t, "downloading")
  /\ UNCHANGED <<main, pool, isAsked, threadBusy, lockIsTaken, feedActive, boardFilled>>

Download(t) ==
  /\ task[t] = "downloading"
  /\ Moves(t, "checking")
  /\ UNCHANGED <<main, pool, isAsked, threadBusy, lockIsTaken, feedActive, boardFilled>>

\* The published version is complete in the database and is activated.
ActivateKnown(t) ==
  /\ task[t] = "checking" /\ ~lockIsTaken
  /\ feedActive' = TRUE /\ threadBusy' = TRUE
  /\ Moves(t, "archiving")
  /\ UNCHANGED <<main, pool, isAsked, lockIsTaken, boardFilled>>

SelectRows(t) ==
  /\ task[t] = "checking" /\ ~lockIsTaken
  /\ threadBusy' = TRUE
  /\ Moves(t, "selecting")
  /\ UNCHANGED <<main, pool, isAsked, lockIsTaken, feedActive, boardFilled>>

RowsSelected(t) ==
  /\ task[t] = "selecting" /\ ~threadBusy
  /\ Moves(t, "writing")
  /\ UNCHANGED <<main, pool, isAsked, threadBusy, lockIsTaken, feedActive, boardFilled>>

WriteRows(t) ==
  /\ task[t] = "writing" /\ ~lockIsTaken
  /\ feedActive' = TRUE /\ threadBusy' = TRUE
  /\ Moves(t, "archiving")
  /\ UNCHANGED <<main, pool, isAsked, lockIsTaken, boardFilled>>

ArchiveEnds(t) ==
  /\ task[t] = "archiving" /\ ~threadBusy
  /\ Moves(t, AfterWork(t))
  /\ UNCHANGED <<main, pool, isAsked, threadBusy, lockIsTaken, feedActive, boardFilled>>

\* A thread has no cancellation: it works on after its task is gone.
ThreadEnds ==
  /\ threadBusy
  /\ threadBusy' = FALSE
  /\ UNCHANGED <<main, pool, isAsked, task, lockIsTaken, feedActive, boardFilled>>

\* Another collector begins or ends a transaction of its own refresh, which
\* matters while a refresh of this one needs the lock.
OthersImport ==
  /\ \E t \in Refreshing : task[t] \in {"checking", "writing"}
  /\ lockIsTaken' = ~lockIsTaken
  /\ UNCHANGED <<main, pool, isAsked, task, threadBusy, feedActive, boardFilled>>

\* A refresh that fails is recorded and swallowed. None fails because it waits
\* for the import lock: the wait has no limit.
RefreshFails(t) ==
  /\ \/ task[t] = "downloading"
     \/ task[t] \in {"checking", "writing"} /\ ~lockIsTaken
     \/ task[t] = "selecting" /\ ~threadBusy
  /\ Moves(t, AfterWork(t))
  /\ UNCHANGED <<main, pool, isAsked, threadBusy, lockIsTaken, feedActive, boardFilled>>

\* Without an active version a poll fails before it takes the slot.
FindFeed ==
  /\ task["realtime"] = "looking" /\ feedActive
  /\ Moves("realtime", "polling")
  /\ UNCHANGED <<main, pool, isAsked, threadBusy, lockIsTaken, feedActive, boardFilled>>

StoreTripUpdates ==
  /\ task["realtime"] = "polling"
  /\ boardFilled' = TRUE
  /\ Moves("realtime", AfterWork("realtime"))
  /\ UNCHANGED <<main, pool, isAsked, threadBusy, lockIsTaken, feedActive>>

\* A poll fails, is not due or stores vehicles; the clean-up ends or fails.
WorkEnds(t) ==
  /\ task[t] \in {"looking", "polling", "pruning"}
  /\ Moves(t, AfterWork(t))
  /\ UNCHANGED <<main, pool, isAsked, threadBusy, lockIsTaken, feedActive, boardFilled>>

Unwind(t) ==
  /\ task[t] = "unwinding"
  /\ Moves(t, "done")
  /\ UNCHANGED <<main, pool, isAsked, threadBusy, lockIsTaken, feedActive, boardFilled>>

RefreshSteps(t) ==
  \/ TakeFeedLock(t) \/ Download(t) \/ ActivateKnown(t) \/ SelectRows(t) \/ RowsSelected(t)
  \/ WriteRows(t) \/ ArchiveEnds(t) \/ RefreshFails(t)

RunSteps == StartWorkers \/ Stop \/ CancelTasks \/ Close \/ Exit \/ RestartProcess

LifeNext ==
  \/ Open \/ OpenFails \/ LookForFeed \/ LookFails \/ RunSteps \/ Signal
  \/ \E t \in Refreshing : RefreshSteps(t)
  \/ \E t \in Workers : WakeTask(t) \/ WorkEnds(t)
  \/ \E t \in Task : Unwind(t)
  \/ FindFeed \/ StoreTripUpdates \/ ThreadEnds \/ OthersImport

\* Every await of the process returns. Of what may fail, nothing that is tried
\* again and again always does.
LifeFairness ==
  /\ SF_lifeVars(Open) /\ SF_lifeVars(LookForFeed) /\ WF_lifeVars(RunSteps)
  /\ \A t \in Refreshing : WF_lifeVars(RefreshSteps(t))
  /\ SF_lifeVars(\E t \in Refreshing : Download(t))
  /\ SF_lifeVars(\E t \in Refreshing : SelectRows(t) \/ ActivateKnown(t))
  /\ SF_lifeVars(\E t \in Refreshing : RowsSelected(t))
  /\ SF_lifeVars(\E t \in Refreshing : WriteRows(t))
  /\ \A t \in Workers : WF_lifeVars(WakeTask(t) \/ WorkEnds(t))
  /\ WF_lifeVars(\E t \in Task : Unwind(t)) /\ WF_lifeVars(ThreadEnds)
  /\ SF_lifeVars(FindFeed) /\ SF_lifeVars(StoreTripUpdates)

LifeSpec == LifeInit /\ [][LifeNext]_lifeVars
-----------------------------------------------------------------------------
\* No task finds its pool closed, not even one that is rolling back because it
\* was cancelled; at most one refresh is past the feed lock; and nothing of the
\* process is left to work when its pool is closed.
ConnectionsOutliveTasks ==
  /\ \A t \in Task : task[t] \in InWork \cup {"unwinding"} => pool = "open"
  /\ \A t, u \in Refreshing : task[t] \in InRefresh /\ task[u] \in InRefresh => t = u
  /\ main = "closed" => \A t \in Task : task[t] \in {"none", "done"}

\* A signal ends the process wherever it finds it, with a refresh that waits for
\* the import lock as well, for as long as that takes.
StopsWhenAsked == LifeFairness => (isAsked ~> main = "exited")

\* A new database comes to show departures as long as the process is not
\* stopped and the others give the import lock back, whatever number of
\* refreshes and polls fail: one that fails is not the last, the very first
\* refresh included.
BoardEventuallyFilled ==
  LifeFairness /\ IsKeyed /\ <>[]~isAsked /\ []<>~lockIsTaken => <>boardFilled
================================================================================
