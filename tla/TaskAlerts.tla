------------------------------ MODULE TaskAlerts ------------------------------
(***************************************************************************)
(* The alerts of one task: workers report how its runs ended, open and close *)
(* the failure episode in alert_state, and the watchdog keeps the marker of a *)
(* stale episode in watchdog_alert.                                          *)
(*                                                                           *)
(* A run's slot is free before its end is reported, so several workers may   *)
(* be reporting on one task; the watchdog reads three tables one after the   *)
(* other and acts on what it read.                                           *)
(***************************************************************************)
EXTENDS Integers

CONSTANTS
  Workers,     \* workers of the pool
  Threshold,   \* WatchdogThreshold of the task, in ticks
  MaxTime,     \* bound: ticks of the watchdog's clock
  MaxEnds,     \* bound: runs that end
  MaxPauses,   \* bound: pauses of the task
  MaxFaults    \* bound: failed store calls and crashes

ASSUME AlertBounds ==
  /\ Threshold \in Nat \ {0}
  /\ {MaxTime, MaxEnds, MaxPauses, MaxFaults} \subseteq Nat

\* The watchdog ticks every minute and no derived window is below an hour.
ASSUME WindowOutlastsFaults == Threshold > MaxFaults

VARIABLES
  now,        \* the clock; the task was created at 0
  checked,    \* whether the watchdog looked since the clock moved
  task,       \* the task row: enabled, enabled_at, and how often it was resumed
  success,    \* when the latest success finished, and how many there were
  failure,    \* whether alert_state holds the task's failure episode
  marker,     \* whether watchdog_alert holds the task
  worker,     \* what each worker is reporting
  pass,       \* the watchdog's pass and what it has read; overdue is a history field
  ends, pauses, faults, crashed,
  unrecovered, \* history: failures less the recoveries that were reported
  alarms       \* history: the stale episodes that were reported, and if one was too early

db == <<task, success, failure, marker>>
counters == <<ends, pauses, faults, crashed>>
history == <<unrecovered, alarms>>
taskVars == <<now, checked, db, worker, pass, counters, history>>

Reporting == {"idle", "failing", "closing", "listing", "clearing"}
Reading   == {"idle", "tasks", "successes", "markers", "marked"}

AtRest == [pc |-> "idle", failed |-> FALSE]
Unread == [pc |-> "idle", task |-> [enabled |-> FALSE, at |-> 0, n |-> 0],
           success |-> [at |-> 0, n |-> 0], alerted |-> FALSE, overdue |-> FALSE]

TaskTypeOK ==
  /\ now \in 0 .. MaxTime
  /\ checked \in BOOLEAN /\ failure \in BOOLEAN /\ marker \in BOOLEAN /\ crashed \in BOOLEAN
  /\ task \in [enabled : BOOLEAN, at : 0 .. MaxTime, n : 0 .. MaxPauses]
  /\ success \in [at : 0 .. MaxTime, n : 0 .. MaxEnds]
  /\ worker \in [Workers -> [pc : Reporting, failed : BOOLEAN]]
  /\ \A w \in Workers : worker[w].pc = "idle" => worker[w] = AtRest
  /\ pass \in [pc : Reading, alerted : BOOLEAN, overdue : BOOLEAN,
              success : [at : 0 .. MaxTime, n : 0 .. MaxEnds],
              task : [enabled : BOOLEAN, at : 0 .. MaxTime, n : 0 .. MaxPauses]]
  /\ ends \in 0 .. MaxEnds /\ pauses \in 0 .. MaxPauses /\ faults \in 0 .. MaxFaults
  /\ unrecovered \in -MaxEnds .. MaxEnds + 1
  /\ alarms \in [episodes : SUBSET [resumed : Nat, succeeded : Nat], early : BOOLEAN]

\* A task whose first run has failed: its failure episode is open.
TaskInit ==
  /\ now = 0 /\ checked = FALSE
  /\ task = [enabled |-> TRUE, at |-> 0, n |-> 0]
  /\ success = [at |-> 0, n |-> 0]
  /\ failure = TRUE /\ marker = FALSE
  /\ worker = [w \in Workers |-> AtRest]
  /\ pass = Unread
  /\ ends = 0 /\ pauses = 0 /\ faults = 0 /\ crashed = FALSE
  /\ unrecovered = 1
  /\ alarms = [episodes |-> {}, early |-> FALSE]

Fault ==
  /\ faults < MaxFaults
  /\ faults' = faults + 1
  /\ UNCHANGED <<ends, pauses, crashed>>

-----------------------------------------------------------------------------
\* The clock and the operator.

\* The watchdog ticks more often than a threshold can pass.
Tick ==
  /\ now < MaxTime
  /\ checked
  /\ pass.pc = "idle"
  /\ now' = now + 1
  /\ checked' = FALSE
  /\ UNCHANGED <<db, worker, pass, counters, history>>

Pause ==
  /\ task.enabled
  /\ pauses < MaxPauses
  /\ task' = [task EXCEPT !.enabled = FALSE]
  /\ pauses' = pauses + 1
  /\ UNCHANGED <<now, checked, success, failure, marker, worker, pass,
                 ends, faults, crashed, history>>

\* enabled_at is stamped on the change from off to on.
Resume ==
  /\ ~task.enabled
  /\ task' = [enabled |-> TRUE, at |-> now, n |-> task.n + 1]
  /\ UNCHANGED <<now, checked, success, failure, marker, worker, pass, counters, history>>

-----------------------------------------------------------------------------
\* The workers.

WorkerGoes(w, to) == worker' = [worker EXCEPT ![w] = to]

\* Only the reports of a run are modelled; its row has ended when they begin.
RunSucceeds(w) ==
  /\ worker[w].pc = "idle"
  /\ ends < MaxEnds
  /\ ends' = ends + 1
  /\ success' = [at |-> now, n |-> success.n + 1]
  /\ WorkerGoes(w, [AtRest EXCEPT !.pc = "closing"])
  /\ UNCHANGED <<now, checked, task, failure, marker, pass,
                 pauses, faults, crashed, history>>

RunFails(w) ==
  /\ worker[w].pc = "idle"
  /\ ends < MaxEnds
  /\ ends' = ends + 1
  /\ unrecovered' = unrecovered + 1
  /\ WorkerGoes(w, [AtRest EXCEPT !.pc = "failing"])
  /\ UNCHANGED <<now, checked, db, pass, pauses, faults, crashed, alarms>>

\* failedTerminally: the notice, which takes as long as its channels do, then the
\* episode.
OpenFailure(w) ==
  /\ worker[w].pc = "failing"
  /\ \/ failure' = TRUE /\ UNCHANGED counters
     \/ Fault /\ UNCHANGED failure
  /\ WorkerGoes(w, AtRest)
  /\ UNCHANGED <<now, checked, task, success, marker, pass, history>>

\* Mutant of CloseFailure: the episode is read and not deleted.
CloseFailureKeeps(w) ==
  /\ worker[w].pc = "closing"
  /\ WorkerGoes(w, [worker[w] EXCEPT !.pc = "listing", !.failed = failure])
  /\ UNCHANGED <<now, checked, db, pass, counters, history>>

\* recovery: CloseAlert deletes the episode and says whether there was one.
CloseFailure(w) ==
  /\ worker[w].pc = "closing"
  /\ \/ /\ WorkerGoes(w, [worker[w] EXCEPT !.pc = "listing", !.failed = failure])
        /\ failure' = FALSE
        /\ UNCHANGED counters
     \/ /\ Fault
        /\ WorkerGoes(w, [worker[w] EXCEPT !.pc = "listing"])
        /\ UNCHANGED failure
  /\ UNCHANGED <<now, checked, task, success, marker, pass, history>>

\* The recovered notice: for a failure, or else for the stale episode (not counted).
TellRecovery(w) ==
  /\ unrecovered' = unrecovered - (IF worker[w].failed THEN 1 ELSE 0)
  /\ WorkerGoes(w, AtRest)
  /\ UNCHANGED alarms

ListMarkers(w) ==
  /\ worker[w].pc = "listing"
  /\ \/ /\ marker
        /\ WorkerGoes(w, [worker[w] EXCEPT !.pc = "clearing"])
        /\ UNCHANGED <<counters, history>>
     \/ /\ ~marker
        /\ TellRecovery(w)
        /\ UNCHANGED counters
     \/ Fault /\ TellRecovery(w)
  /\ UNCHANGED <<now, checked, db, pass>>

ClearMarker(w) ==
  /\ worker[w].pc = "clearing"
  /\ \/ marker' = FALSE /\ UNCHANGED counters
     \/ Fault /\ UNCHANGED marker
  /\ TellRecovery(w)
  /\ UNCHANGED <<now, checked, task, success, failure, pass>>

ReportStep(w) ==
  OpenFailure(w) \/ CloseFailure(w) \/ ListMarkers(w) \/ ClearMarker(w)

-----------------------------------------------------------------------------
\* The watchdog.

Later(a, b) == IF a > b THEN a ELSE b

\* The task is stale as it stands in the database.
Overdue == task.enabled /\ now > Later(success.at, task.at) + Threshold

ListEnabledTasks ==
  /\ pass.pc = "idle"
  /\ pass' = [Unread EXCEPT !.pc = "tasks", !.task = task, !.overdue = Overdue]
  /\ UNCHANGED <<now, checked, db, worker, counters, history>>

LastSuccessByTask ==
  /\ pass.pc = "tasks"
  /\ pass' = [pass EXCEPT !.pc = "successes", !.success = success]
  /\ UNCHANGED <<now, checked, db, worker, counters, history>>

ListWatchdogAlerts ==
  /\ pass.pc = "successes"
  /\ pass' = [pass EXCEPT !.pc = "markers", !.alerted = marker]
  /\ UNCHANGED <<now, checked, db, worker, counters, history>>

\* A read failed, the pass is given up.
ReadFails ==
  /\ pass.pc \in {"tasks", "successes"}
  /\ Fault
  /\ pass' = Unread
  /\ checked' = TRUE
  /\ UNCHANGED <<now, db, worker, history>>

\* Mutant of Since: the time of the latest success or of the task's creation.
SinceSuccess(c) == c.success.at

\* evaluateWatchdog: from when the task has been without a backup.
Since(c) == Later(c.success.at, c.task.at)

Stale(c) == c.task.enabled /\ now > Since(c) + Threshold

\* The marker comes first: without it the next tick would alert again.
MarkAlerted ==
  /\ pass.pc = "markers"
  /\ Stale(pass) /\ ~pass.alerted
  /\ \/ marker' = TRUE /\ pass' = [pass EXCEPT !.pc = "marked"]
        /\ UNCHANGED <<checked, counters>>
     \/ Fault /\ pass' = Unread /\ checked' = TRUE /\ UNCHANGED marker
  /\ UNCHANGED <<now, task, success, failure, worker, history>>

\* The stale episode a pass has found: since the n-th resumption and success.
Episode(c) == [resumed |-> c.task.n, succeeded |-> c.success.n]

SendStale ==
  /\ pass.pc = "marked"
  /\ alarms' = [episodes |-> alarms.episodes \cup {Episode(pass)},
                early |-> alarms.early \/ ~pass.overdue]
  /\ pass' = Unread
  /\ checked' = TRUE
  /\ UNCHANGED <<now, db, worker, counters, unrecovered>>

\* Mutant of ClearAlert: the marker stays.
ClearAlertKeeps ==
  /\ pass.pc = "markers"
  /\ ~Stale(pass) /\ pass.alerted
  /\ pass' = Unread
  /\ checked' = TRUE
  /\ UNCHANGED <<now, db, worker, counters, history>>

\* The task is not stale any more, or nobody watches it any more.
ClearAlert ==
  /\ pass.pc = "markers"
  /\ ~Stale(pass) /\ pass.alerted
  /\ \/ marker' = FALSE /\ UNCHANGED counters
     \/ Fault /\ UNCHANGED marker
  /\ pass' = Unread
  /\ checked' = TRUE
  /\ UNCHANGED <<now, task, success, failure, worker, history>>

\* Stale and already reported, or neither.
NothingNew ==
  /\ pass.pc = "markers"
  /\ Stale(pass) = pass.alerted
  /\ pass' = Unread
  /\ checked' = TRUE
  /\ UNCHANGED <<now, db, worker, counters, history>>

CheckStep ==
  \/ ListEnabledTasks \/ LastSuccessByTask \/ ListWatchdogAlerts \/ ReadFails
  \/ MarkAlerted \/ SendStale \/ ClearAlert \/ NothingNew

-----------------------------------------------------------------------------
\* The daemon dies, perhaps in the middle of a run, and starts again:
\* ReportInterrupted opens the episode of a run that was cut short.
DaemonRestarts ==
  /\ faults < MaxFaults
  /\ faults' = faults + 1
  /\ crashed' = TRUE
  /\ worker' = [w \in Workers |-> AtRest]
  /\ pass' = Unread
  /\ \/ UNCHANGED <<failure, ends, unrecovered>>
     \/ /\ ends < MaxEnds
        /\ ends' = ends + 1
        /\ unrecovered' = unrecovered + 1
        /\ failure' = TRUE
  /\ UNCHANGED <<now, checked, task, success, marker, pauses, alarms>>

TaskNext ==
  \/ Tick \/ Pause \/ Resume \/ CheckStep \/ DaemonRestarts
  \/ \E w \in Workers : RunSucceeds(w) \/ RunFails(w) \/ ReportStep(w)

\* The watchdog's ticker keeps ticking while the daemon runs.
TaskFairness == WF_taskVars(CheckStep) /\ \A w \in Workers : WF_taskVars(ReportStep(w))

TaskSpec == TaskInit /\ [][TaskNext]_taskVars /\ TaskFairness

-----------------------------------------------------------------------------
(***************************************************************************)
(* Properties.                                                             *)
(***************************************************************************)

\* The task is stale, and nobody was told of this episode.
Untold ==
  /\ Overdue
  /\ [resumed |-> task.n, succeeded |-> success.n] \notin alarms.episodes

\* A task that stays stale is reported, whatever marker earlier episodes, races
\* with a success and failed deletions left behind (watchdog.go:157-160: a marker
\* nobody clears would "silence every future episode"); only a crash between the
\* marker and the notice may swallow one. The window is longer than the store can
\* fail (WindowOutlastsFaults), as an hour is to a tick of a minute.
EveryEpisodeIsTold == Untold ~> (~Untold \/ crashed)

\* Each failure is recovered from at most once, though several workers report
\* successes at the same time (runevents.go:96-122, CloseAlert).
RecoversOnce == unrecovered >= 0

\* A notice is only sent of a task that was stale in the database when the pass
\* began, although its rows are read one table after the other while runs end and the
\* task is paused and resumed: a task back from a pause gets a fresh window
\* (watchdog.go:189-194).
NoEarlyAlarm == ~alarms.early

=============================================================================
