---------------------------- MODULE Alerts_proofs ----------------------------
(***************************************************************************)
(* Theorems about what people are told: of the runs of a task, for any     *)
(* number of workers, and of storages and slow runs, for any number of     *)
(* both; with any number of failed store calls and restarts.               *)
(***************************************************************************)
EXTENDS TaskAlerts, StorageAlerts, FiniteSetTheorems, TLAPS

-----------------------------------------------------------------------------
(***************************************************************************)
(* The alerts of a task (TaskAlerts).                                       *)
(***************************************************************************)

\* The bounds are numbers.
LEMMA TaskNumbers ==
  /\ Threshold \in Nat \ {0}
  /\ MaxTime \in Nat /\ MaxEnds \in Nat /\ MaxPauses \in Nat /\ MaxFaults \in Nat
BY AlertBounds

\* The copies in the rows count what has happened: every success is an end, every
\* resumption follows a pause of its own.
Counts ==
  /\ success.n <= ends
  /\ task.enabled => task.n <= pauses
  /\ ~task.enabled => task.n < pauses
  /\ unrecovered <= ends + 1

\* The workers that will open an episode or report a recovery from one.
Owing == {w \in Workers : worker[w].pc = "failing" \/ worker[w].failed}

\* Every failure not recovered from is in the episode or with a worker at most.
Recovery ==
  /\ \A w \in Workers : worker[w].pc \in {"failing", "closing"} => ~worker[w].failed
  /\ IsFiniteSet(Owing)
  /\ unrecovered >= Cardinality(Owing) + (IF failure THEN 1 ELSE 0)

\* What the pass has read so far calls the task overdue only if it was when the pass
\* began; what is still to be read can only have become better since.
Timely ==
  /\ pass.pc = "tasks" =>
       (pass.task.enabled /\ now > Later(success.at, pass.task.at) + Threshold => pass.overdue)
  /\ pass.pc \in {"successes", "markers"} => (Stale(pass) => pass.overdue)
  /\ pass.pc = "marked" => pass.overdue

\* A worker goes on alone.
LEMMA WorkerGoesAlone ==
  ASSUME TaskTypeOK, NEW w \in Workers, NEW to, WorkerGoes(w, to)
  PROVE  worker'[w] = to /\ \A v \in Workers : v # w => worker'[v] = worker[v]
BY DEF TaskTypeOK, WorkerGoes

\* A worker that goes to a well-typed report leaves the workers well typed.
LEMMA WorkerGoesTyped ==
  ASSUME TaskTypeOK, NEW w \in Workers, NEW to \in [pc : Reporting, failed : BOOLEAN],
         to.pc = "idle" => to = AtRest, WorkerGoes(w, to)
  PROVE  /\ worker' \in [Workers -> [pc : Reporting, failed : BOOLEAN]]
         /\ \A v \in Workers : worker'[v].pc = "idle" => worker'[v] = AtRest
BY DEF TaskTypeOK, WorkerGoes

\* What the watchdog's pass holds.
Passes == [pc : Reading, alerted : BOOLEAN, overdue : BOOLEAN,
           success : [at : 0 .. MaxTime, n : 0 .. MaxEnds],
           task : [enabled : BOOLEAN, at : 0 .. MaxTime, n : 0 .. MaxPauses]]

\* The watchdog's steps leave its pass and the marker well typed, and the rest alone.
LEMMA CheckTypes ==
  ASSUME TaskTypeOK, CheckStep
  PROVE  /\ pass' \in Passes /\ marker' \in BOOLEAN /\ checked' \in BOOLEAN
         /\ faults' \in 0 .. MaxFaults
         /\ alarms' \in [episodes : SUBSET [resumed : Nat, succeeded : Nat], early : BOOLEAN]
         /\ UNCHANGED <<now, task, success, failure, worker, ends, pauses, crashed, unrecovered>>
<1>0. pass \in Passes /\ faults \in 0 .. MaxFaults
  BY DEF TaskTypeOK, Passes
<1>1. Unread \in Passes
  BY TaskNumbers DEF Unread, Passes, Reading
<1>2. Fault => /\ faults' \in 0 .. MaxFaults
               /\ UNCHANGED <<ends, pauses, crashed>>
  BY <1>0, TaskNumbers DEF Fault
<1>3. CASE ListEnabledTasks
  <2>1. Overdue \in BOOLEAN
    BY DEF Overdue, TaskTypeOK
  <2>2. PICK late \in BOOLEAN : late = Overdue
    BY <2>1
  <2>3. [Unread EXCEPT !.pc = "tasks", !.task = task, !.overdue = late] \in Passes
    BY <1>1 DEF Passes, Reading, TaskTypeOK
  <2>4. pass' = [Unread EXCEPT !.pc = "tasks", !.task = task, !.overdue = late]
    BY <1>3, <2>2 DEF ListEnabledTasks
  <2> QED BY <1>3, <2>3, <2>4, <1>0 DEF ListEnabledTasks, TaskTypeOK, db, counters, history
<1>4. CASE LastSuccessByTask
  <2>1. [pass EXCEPT !.pc = "successes", !.success = success] \in Passes
    BY <1>0 DEF Passes, Reading, TaskTypeOK
  <2> QED BY <1>4, <2>1, <1>0 DEF LastSuccessByTask, TaskTypeOK, db, counters, history
<1>5. CASE ListWatchdogAlerts
  <2>1. [pass EXCEPT !.pc = "markers", !.alerted = marker] \in Passes
    BY <1>0 DEF Passes, Reading, TaskTypeOK
  <2> QED BY <1>5, <2>1, <1>0 DEF ListWatchdogAlerts, TaskTypeOK, db, counters, history
<1>6. CASE ReadFails
  BY <1>6, <1>1, <1>2 DEF ReadFails, TaskTypeOK, db, history
<1>7. CASE MarkAlerted
  <2>1. [pass EXCEPT !.pc = "marked"] \in Passes
    BY <1>0 DEF Passes, Reading
  <2> QED BY <1>7, <2>1, <1>0, <1>1, <1>2 DEF MarkAlerted, TaskTypeOK, counters, history
<1>8. CASE SendStale
  <2>1. Episode(pass) \in [resumed : Nat, succeeded : Nat]
    BY <1>0, TaskNumbers DEF Episode, Passes
  <2>2. pass.overdue \in BOOLEAN
    BY <1>0 DEF Passes
  <2>3. alarms' \in [episodes : SUBSET [resumed : Nat, succeeded : Nat], early : BOOLEAN]
    BY <1>8, <2>1, <2>2 DEF SendStale, TaskTypeOK
  <2> QED BY <1>8, <2>3, <1>0, <1>1 DEF SendStale, TaskTypeOK, db, counters
<1>9. CASE ClearAlert
  BY <1>9, <1>0, <1>1, <1>2 DEF ClearAlert, TaskTypeOK, counters, history
<1>10. CASE NothingNew
  BY <1>10, <1>0, <1>1 DEF NothingNew, TaskTypeOK, db, counters, history
<1> QED BY <1>3, <1>4, <1>5, <1>6, <1>7, <1>8, <1>9, <1>10 DEF CheckStep

\* Every step keeps the types and the counts; the count of recoveries is bounded from
\* below by Recovery.
LEMMA TaskTypeStep ==
  ASSUME TaskTypeOK, Counts, [TaskNext]_taskVars, unrecovered' >= 0
  PROVE  TaskTypeOK' /\ Counts'
<1> USE TaskNumbers
<1>0. Fault => /\ faults' \in 0 .. MaxFaults
               /\ UNCHANGED <<ends, pauses, crashed>>
  BY DEF Fault, TaskTypeOK
<1>1. CASE Tick
  <2>1. UNCHANGED <<task, success, failure, marker, worker, pass, ends, pauses, faults, crashed,
                    unrecovered, alarms>>
    BY <1>1 DEF Tick, db, counters, history
  <2>2. now' \in 0 .. MaxTime /\ checked' = FALSE
    BY <1>1 DEF Tick, TaskTypeOK
  <2> QED BY <2>1, <2>2 DEF TaskTypeOK, Counts
<1>2. CASE Pause
  <2>1. PICK paused : paused = [task EXCEPT !.enabled = FALSE]
    OBVIOUS
  <2>2. paused.enabled = FALSE /\ paused.n = task.n
        /\ paused \in [enabled : BOOLEAN, at : 0 .. MaxTime, n : 0 .. MaxPauses]
    BY <2>1 DEF TaskTypeOK
  <2>3. task' = paused
    BY <1>2, <2>1 DEF Pause
  <2>4. pauses' \in 0 .. MaxPauses /\ task.n < pauses'
    BY <1>2 DEF Pause, TaskTypeOK, Counts
  <2> QED BY <1>2, <2>2, <2>3, <2>4 DEF Pause, TaskTypeOK, Counts, history
<1>3. CASE Resume
  BY <1>3 DEF Resume, TaskTypeOK, Counts, counters, history
<1>4. CASE CheckStep
  <2>1. TaskTypeOK'
    BY <1>4, CheckTypes DEF TaskTypeOK, Passes
  <2> QED BY <1>4, <2>1, CheckTypes DEF Counts
<1>5. CASE DaemonRestarts
  <2>1. worker' \in [Workers -> [pc : Reporting, failed : BOOLEAN]]
        /\ \A w \in Workers : worker'[w].pc = "idle" => worker'[w] = AtRest
    BY <1>5 DEF DaemonRestarts, AtRest, Reporting
  <2>2. pass' \in Passes
    BY <1>5 DEF DaemonRestarts, Unread, Passes, Reading
  <2>3. ends' \in {ends, ends + 1} /\ ends' \in 0 .. MaxEnds /\ faults' \in 0 .. MaxFaults
        /\ unrecovered' - unrecovered = ends' - ends
    BY <1>5 DEF DaemonRestarts, TaskTypeOK
  <2>4. /\ UNCHANGED <<now, checked, task, success, marker, pauses, alarms>>
        /\ crashed' = TRUE /\ failure' \in BOOLEAN
    BY <1>5 DEF DaemonRestarts, TaskTypeOK
  <2>5. unrecovered' \in -MaxEnds .. MaxEnds + 1 /\ unrecovered' \in Int
    BY <1>5, <2>3 DEF DaemonRestarts, TaskTypeOK, Counts
  <2>6. Counts'
    <3>1. success'.n <= ends'
      BY <2>3, <2>4 DEF Counts, TaskTypeOK
    <3>2. unrecovered' <= ends' + 1
      BY <1>5, <2>3 DEF Counts, TaskTypeOK, DaemonRestarts
    <3> QED BY <3>1, <3>2, <2>4 DEF Counts
  <2> QED BY <2>1, <2>2, <2>3, <2>4, <2>5, <2>6 DEF TaskTypeOK, Passes
<1>6. ASSUME NEW w \in Workers, RunSucceeds(w) PROVE TaskTypeOK' /\ Counts'
  <2>1. [AtRest EXCEPT !.pc = "closing"] \in [pc : Reporting, failed : BOOLEAN]
        /\ [AtRest EXCEPT !.pc = "closing"].pc # "idle"
    BY DEF AtRest, Reporting
  <2>2. worker' \in [Workers -> [pc : Reporting, failed : BOOLEAN]]
        /\ \A v \in Workers : worker'[v].pc = "idle" => worker'[v] = AtRest
    BY <1>6, <2>1, WorkerGoesTyped DEF RunSucceeds
  <2> QED BY <1>6, <2>2 DEF RunSucceeds, TaskTypeOK, Counts, history
<1>7. ASSUME NEW w \in Workers, RunFails(w) PROVE TaskTypeOK' /\ Counts'
  <2>1. [AtRest EXCEPT !.pc = "failing"] \in [pc : Reporting, failed : BOOLEAN]
        /\ [AtRest EXCEPT !.pc = "failing"].pc # "idle"
    BY DEF AtRest, Reporting
  <2>2. worker' \in [Workers -> [pc : Reporting, failed : BOOLEAN]]
        /\ \A v \in Workers : worker'[v].pc = "idle" => worker'[v] = AtRest
    BY <1>7, <2>1, WorkerGoesTyped DEF RunFails
  <2> QED BY <1>7, <2>2 DEF RunFails, TaskTypeOK, Counts, db
<1>8. ASSUME NEW w \in Workers, ReportStep(w) PROVE TaskTypeOK' /\ Counts'
  <2>0. AtRest \in [pc : Reporting, failed : BOOLEAN]
        /\ worker[w] \in [pc : Reporting, failed : BOOLEAN]
    BY DEF AtRest, Reporting, TaskTypeOK
  <2>1. \E to \in [pc : Reporting, failed : BOOLEAN] :
           (to.pc = "idle" => to = AtRest) /\ WorkerGoes(w, to)
    <3>1. \A f \in BOOLEAN :
             /\ [worker[w] EXCEPT !.pc = "listing", !.failed = f]
                  \in [pc : Reporting, failed : BOOLEAN]
             /\ [worker[w] EXCEPT !.pc = "listing", !.failed = f].pc # "idle"
      BY <2>0 DEF Reporting
    <3>2. /\ [worker[w] EXCEPT !.pc = "listing"] \in [pc : Reporting, failed : BOOLEAN]
          /\ [worker[w] EXCEPT !.pc = "listing"].pc # "idle"
          /\ [worker[w] EXCEPT !.pc = "clearing"] \in [pc : Reporting, failed : BOOLEAN]
          /\ [worker[w] EXCEPT !.pc = "clearing"].pc # "idle"
      BY <2>0 DEF Reporting
    <3>3. failure \in BOOLEAN
      BY DEF TaskTypeOK
    <3>4. CASE OpenFailure(w)
      BY <3>4, <2>0 DEF OpenFailure
    <3>5. CASE CloseFailure(w)
      BY <3>5, <3>1, <3>2, <3>3 DEF CloseFailure
    <3>6. CASE ListMarkers(w)
      BY <3>6, <2>0, <3>2 DEF ListMarkers, TellRecovery
    <3>7. CASE ClearMarker(w)
      BY <3>7, <2>0 DEF ClearMarker, TellRecovery
    <3> QED BY <1>8, <3>4, <3>5, <3>6, <3>7 DEF ReportStep
  <2>2. worker' \in [Workers -> [pc : Reporting, failed : BOOLEAN]]
        /\ \A v \in Workers : worker'[v].pc = "idle" => worker'[v] = AtRest
    BY <2>1, WorkerGoesTyped
  <2>3. /\ UNCHANGED <<now, checked, task, success, pass, ends, pauses, crashed, alarms>>
        /\ failure' \in BOOLEAN /\ marker' \in BOOLEAN /\ faults' \in 0 .. MaxFaults
    BY <1>8, <1>0 DEF ReportStep, OpenFailure, CloseFailure, ListMarkers, ClearMarker,
       TellRecovery, TaskTypeOK, db, counters, history
  <2>4. unrecovered' \in {unrecovered, unrecovered - 1}
    BY <1>8 DEF ReportStep, OpenFailure, CloseFailure, ListMarkers, ClearMarker,
       TellRecovery, history, TaskTypeOK
  <2>5. unrecovered' \in -MaxEnds .. MaxEnds + 1 /\ unrecovered' <= ends + 1
    BY <2>4 DEF TaskTypeOK, Counts
  <2> QED BY <2>2, <2>3, <2>5 DEF TaskTypeOK, Counts
<1>9. CASE UNCHANGED taskVars
  BY <1>9 DEF taskVars, db, counters, history, TaskTypeOK, Counts
<1> QED BY <1>1, <1>2, <1>3, <1>4, <1>5, <1>6, <1>7, <1>8, <1>9 DEF TaskNext

-----------------------------------------------------------------------------
(***************************************************************************)
(* Each failure is recovered from once: the episode is handed to one worker, *)
(* by the deletion that says whether there was one.                          *)
(***************************************************************************)

\* Who goes to a report that owes nothing leaves Owing, who goes to another joins it.
LEMMA OwingStep ==
  ASSUME TaskTypeOK, Recovery, NEW w \in Workers, NEW to, WorkerGoes(w, to)
  PROVE  /\ IsFiniteSet(Owing')
         /\ Cardinality(Owing) \in Nat /\ Cardinality(Owing') \in Nat
         /\ Cardinality(Owing') + (IF worker[w].pc = "failing" \/ worker[w].failed THEN 1 ELSE 0)
              = Cardinality(Owing) + (IF to.pc = "failing" \/ to.failed THEN 1 ELSE 0)
<1>0. IsFiniteSet(Owing) /\ Cardinality(Owing) \in Nat
  BY FS_CardinalityType DEF Recovery
<1>1. worker'[w] = to /\ \A v \in Workers : v # w => worker'[v] = worker[v]
  BY WorkerGoesAlone
<1>2. CASE to.pc = "failing" \/ to.failed
  <2>1. Owing' = Owing \cup {w}
    BY <1>1, <1>2 DEF Owing
  <2>2. w \in Owing <=> (worker[w].pc = "failing" \/ worker[w].failed)
    BY DEF Owing
  <2>3. IsFiniteSet(Owing \cup {w})
        /\ Cardinality(Owing \cup {w}) = IF w \in Owing THEN Cardinality(Owing)
                                         ELSE Cardinality(Owing) + 1
    BY <1>0, FS_AddElement
  <2> QED BY <1>0, <1>2, <2>1, <2>2, <2>3
<1>3. CASE ~(to.pc = "failing" \/ to.failed)
  <2>1. Owing' = Owing \ {w}
    BY <1>1, <1>3 DEF Owing
  <2>2. w \in Owing <=> (worker[w].pc = "failing" \/ worker[w].failed)
    BY DEF Owing
  <2>3. IsFiniteSet(Owing \ {w})
        /\ Cardinality(Owing \ {w}) = IF w \in Owing THEN Cardinality(Owing) - 1
                                      ELSE Cardinality(Owing)
    BY <1>0, FS_RemoveElement
  <2>4. Cardinality(Owing \ {w}) \in Nat
    BY <2>3, FS_CardinalityType
  <2> QED BY <1>0, <1>3, <2>1, <2>2, <2>3, <2>4
<1> QED BY <1>2, <1>3

\* A worker's step of the report keeps the account (runevents.go:50-123).
LEMMA ReportKeepsRecovery ==
  ASSUME TaskTypeOK, Recovery, NEW w \in Workers, ReportStep(w)
  PROVE  Recovery'
<1> DEFINE Owes(x) == x.pc = "failing" \/ x.failed
           Sound(x) == x.pc \in {"failing", "closing"} => ~x.failed
           Open(f) == IF f THEN 1 ELSE 0
<1>0. /\ worker[w] \in [pc : Reporting, failed : BOOLEAN]
      /\ Sound(worker[w]) /\ failure \in BOOLEAN /\ unrecovered \in Int
  BY DEF TaskTypeOK, Recovery
<1>1. ASSUME NEW to, WorkerGoes(w, to), Sound(to), unrecovered' \in Int,
             unrecovered' - Open(failure') - Open(Owes(to))
               >= unrecovered - Open(failure) - Open(Owes(worker[w]))
      PROVE  Recovery'
  <2>1. /\ IsFiniteSet(Owing')
        /\ Cardinality(Owing) \in Nat /\ Cardinality(Owing') \in Nat
        /\ Cardinality(Owing') + Open(Owes(worker[w])) = Cardinality(Owing) + Open(Owes(to))
    BY <1>1, OwingStep
  <2>2. unrecovered >= Cardinality(Owing) + Open(failure)
    BY DEF Recovery
  <2>3. \A v \in Workers : Sound(worker'[v])
    BY <1>1, WorkerGoesAlone DEF Recovery
  <2>4. Open(failure') \in Int /\ Open(failure) \in Int /\ Open(Owes(to)) \in Int
        /\ Open(Owes(worker[w])) \in Int
    OBVIOUS
  <2>5. unrecovered' >= Cardinality(Owing') + Open(failure')
    <3> HIDE DEF Open, Owes
    <3> QED BY <1>0, <1>1, <2>1, <2>2, <2>4
  <2> QED BY <2>1, <2>3, <2>5 DEF Recovery
<1>2. CASE OpenFailure(w)
  BY <1>2, <1>0, <1>1 DEF OpenFailure, AtRest, history
<1>3. CASE CloseFailure(w)
  <2>1. ~worker[w].failed /\ worker[w].pc = "closing" /\ unrecovered' = unrecovered
    BY <1>3, <1>0 DEF CloseFailure, history
  <2>2. CASE /\ WorkerGoes(w, [worker[w] EXCEPT !.pc = "listing", !.failed = failure])
             /\ failure' = FALSE
    <3>1. PICK to : to = [worker[w] EXCEPT !.pc = "listing", !.failed = failure]
      OBVIOUS
    <3>2. to.pc = "listing" /\ to.failed = failure
      BY <3>1, <1>0
    <3>3. WorkerGoes(w, to)
      BY <2>2, <3>1
    <3> QED BY <2>1, <2>2, <3>2, <3>3, <1>0, <1>1
  <2>3. CASE /\ WorkerGoes(w, [worker[w] EXCEPT !.pc = "listing"])
             /\ UNCHANGED failure
    <3>1. PICK to : to = [worker[w] EXCEPT !.pc = "listing"]
      OBVIOUS
    <3>2. to.pc = "listing" /\ to.failed = worker[w].failed
      BY <3>1, <1>0
    <3>3. WorkerGoes(w, to)
      BY <2>3, <3>1
    <3> QED BY <2>1, <2>3, <3>2, <3>3, <1>0, <1>1
  <2> QED BY <1>3, <2>2, <2>3 DEF CloseFailure
<1>4. CASE ListMarkers(w)
  BY <1>4, <1>0, <1>1 DEF ListMarkers, TellRecovery, AtRest, history, db
<1>5. CASE ClearMarker(w)
  BY <1>5, <1>0, <1>1 DEF ClearMarker, TellRecovery, AtRest
<1> QED BY <1>2, <1>3, <1>4, <1>5 DEF ReportStep

\* Every step keeps the account.
LEMMA RecoveryStep == TaskTypeOK /\ Recovery /\ [TaskNext]_taskVars => Recovery'
<1> SUFFICES ASSUME TaskTypeOK, Recovery, [TaskNext]_taskVars PROVE Recovery'
  OBVIOUS
<1>0. ASSUME UNCHANGED <<worker, failure, unrecovered>> PROVE Recovery'
  BY <1>0 DEF Recovery, Owing
<1>1. CASE Tick \/ Pause \/ Resume
  BY <1>0, <1>1 DEF Tick, Pause, Resume, db, history
<1>2. CASE CheckStep
  BY <1>0, <1>2, CheckTypes
<1>3. CASE DaemonRestarts
  <2>1. Owing' = {} /\ \A w \in Workers : worker'[w] = AtRest
    BY <1>3 DEF DaemonRestarts, Owing, AtRest
  <2>2. IsFiniteSet(Owing') /\ Cardinality(Owing') = 0
    BY <2>1, FS_EmptySet
  <2>3. Cardinality(Owing) \in Nat /\ unrecovered \in Int
        /\ unrecovered >= Cardinality(Owing) + (IF failure THEN 1 ELSE 0)
    BY FS_CardinalityType DEF Recovery, TaskTypeOK
  <2>4. unrecovered' >= (IF failure' THEN 1 ELSE 0)
    BY <1>3, <2>3 DEF DaemonRestarts
  <2>5. unrecovered' >= Cardinality(Owing') + (IF failure' THEN 1 ELSE 0)
    BY <2>2, <2>4
  <2>6. \A w \in Workers : worker'[w].pc \in {"failing", "closing"} => ~worker'[w].failed
    BY <2>1 DEF AtRest
  <2> QED BY <2>2, <2>5, <2>6 DEF Recovery
<1>4. ASSUME NEW w \in Workers, RunSucceeds(w) PROVE Recovery'
  <2>1. WorkerGoes(w, [AtRest EXCEPT !.pc = "closing"]) /\ worker[w] = AtRest
    BY <1>4 DEF RunSucceeds, TaskTypeOK
  <2>2. IsFiniteSet(Owing') /\ Cardinality(Owing') = Cardinality(Owing)
    BY <2>1, OwingStep DEF AtRest
  <2>3. \A v \in Workers : worker'[v].pc \in {"failing", "closing"} => ~worker'[v].failed
    BY <2>1, WorkerGoesAlone DEF Recovery, AtRest
  <2> QED BY <1>4, <2>2, <2>3 DEF RunSucceeds, Recovery, history
<1>5. ASSUME NEW w \in Workers, RunFails(w) PROVE Recovery'
  <2>1. WorkerGoes(w, [AtRest EXCEPT !.pc = "failing"]) /\ worker[w] = AtRest
    BY <1>5 DEF RunFails, TaskTypeOK
  <2>2. IsFiniteSet(Owing') /\ Cardinality(Owing') = Cardinality(Owing) + 1
        /\ Cardinality(Owing) \in Nat
    BY <2>1, OwingStep DEF AtRest
  <2>3. \A v \in Workers : worker'[v].pc \in {"failing", "closing"} => ~worker'[v].failed
    BY <2>1, WorkerGoesAlone DEF Recovery, AtRest
  <2>4. failure' = failure /\ unrecovered' = unrecovered + 1 /\ unrecovered \in Int
    BY <1>5 DEF RunFails, db, TaskTypeOK
  <2>5. unrecovered' >= Cardinality(Owing') + (IF failure' THEN 1 ELSE 0)
    BY <2>2, <2>4 DEF Recovery
  <2> QED BY <2>2, <2>3, <2>5 DEF Recovery
<1>6. ASSUME NEW w \in Workers, ReportStep(w) PROVE Recovery'
  BY <1>6, ReportKeepsRecovery
<1>7. CASE UNCHANGED taskVars
  BY <1>0, <1>7 DEF taskVars, db, history
<1> QED BY <1>1, <1>2, <1>3, <1>4, <1>5, <1>6, <1>7 DEF TaskNext

-----------------------------------------------------------------------------
(***************************************************************************)
(* No early alarm: between two reads of a pass the clock stands still, and    *)
(* what happens then only makes the task less overdue than it was.           *)
(***************************************************************************)

\* The watchdog's own steps: what is read next is as stale as what was kept.
LEMMA CheckIsTimely ==
  ASSUME TaskTypeOK, Timely, NoEarlyAlarm, CheckStep
  PROVE  Timely' /\ NoEarlyAlarm'
<1>0. /\ pass \in Passes /\ now \in Nat /\ success.at \in Nat /\ task.at \in Nat
      /\ task.enabled \in BOOLEAN
  BY TaskNumbers DEF TaskTypeOK, Passes
<1>1. ASSUME pass' = Unread, UNCHANGED alarms PROVE Timely' /\ NoEarlyAlarm'
  BY <1>1 DEF Timely, Unread, NoEarlyAlarm
<1>2. CASE ListEnabledTasks
  <2>1. /\ pass'.pc = "tasks" /\ pass'.task = task /\ pass'.overdue = Overdue
        /\ UNCHANGED <<now, success, alarms>>
    BY <1>2 DEF ListEnabledTasks, Unread, db, history
  <2> QED BY <2>1 DEF Timely, Overdue, NoEarlyAlarm
<1>3. CASE LastSuccessByTask
  <2>1. /\ pass.pc = "tasks" /\ pass'.pc = "successes" /\ pass'.success = success
        /\ pass'.task = pass.task /\ pass'.overdue = pass.overdue
        /\ UNCHANGED <<now, success, alarms>>
    BY <1>3, <1>0 DEF LastSuccessByTask, Passes, db, history
  <2> QED BY <2>1 DEF Timely, Stale, Since, NoEarlyAlarm
<1>4. CASE ListWatchdogAlerts
  <2>1. /\ pass.pc = "successes" /\ pass'.pc = "markers" /\ pass'.success = pass.success
        /\ pass'.task = pass.task /\ pass'.overdue = pass.overdue
        /\ UNCHANGED <<now, success, alarms>>
    BY <1>4, <1>0 DEF ListWatchdogAlerts, Passes, db, history
  <2> QED BY <2>1 DEF Timely, Stale, Since, NoEarlyAlarm
<1>5. CASE MarkAlerted
  <2>1. CASE pass' = Unread
    BY <1>1, <1>5, <2>1 DEF MarkAlerted, history
  <2>2. CASE pass' = [pass EXCEPT !.pc = "marked"]
    <3>1. /\ pass.pc = "markers" /\ Stale(pass) /\ pass'.pc = "marked"
          /\ pass'.overdue = pass.overdue /\ UNCHANGED alarms
      BY <1>5, <2>2, <1>0 DEF MarkAlerted, Passes, history
    <3> QED BY <3>1 DEF Timely, NoEarlyAlarm
  <2> QED BY <1>5, <2>1, <2>2 DEF MarkAlerted
<1>6. CASE SendStale
  <2>1. pass' = Unread /\ pass.overdue /\ alarms'.early = (alarms.early \/ ~pass.overdue)
    BY <1>6 DEF SendStale, Timely
  <2> QED BY <2>1 DEF Timely, Unread, NoEarlyAlarm
<1>7. CASE ReadFails \/ ClearAlert \/ NothingNew
  BY <1>1, <1>7 DEF ReadFails, ClearAlert, NothingNew, history
<1> QED BY <1>2, <1>3, <1>4, <1>5, <1>6, <1>7 DEF CheckStep

\* A run that succeeds during a pass does so now, so the task is not overdue.
LEMMA TimelyStep ==
  TaskTypeOK /\ Timely /\ NoEarlyAlarm /\ [TaskNext]_taskVars => Timely' /\ NoEarlyAlarm'
<1> SUFFICES ASSUME TaskTypeOK, Timely, NoEarlyAlarm, [TaskNext]_taskVars
             PROVE  Timely' /\ NoEarlyAlarm'
  OBVIOUS
<1>0. ASSUME UNCHANGED <<now, success, pass, alarms>> PROVE Timely' /\ NoEarlyAlarm'
  BY <1>0 DEF Timely, Stale, Since, NoEarlyAlarm
<1>1. CASE Tick
  <2>1. pass'.pc = "idle" /\ UNCHANGED alarms
    BY <1>1 DEF Tick, history
  <2> QED BY <2>1 DEF Timely, NoEarlyAlarm
<1>2. CASE Pause \/ Resume
  BY <1>0, <1>2 DEF Pause, Resume, history
<1>3. CASE CheckStep
  BY <1>3, CheckIsTimely
<1>4. CASE DaemonRestarts
  BY <1>4 DEF DaemonRestarts, Timely, Unread, NoEarlyAlarm
<1>5. ASSUME NEW w \in Workers, RunSucceeds(w) PROVE Timely' /\ NoEarlyAlarm'
  <2>1. UNCHANGED <<now, pass, alarms>> /\ success'.at = now
    BY <1>5 DEF RunSucceeds, history
  <2>2. now \in Nat /\ Threshold \in Nat /\ pass.task.at \in Nat
    BY TaskNumbers DEF TaskTypeOK
  <2>3. ~(now > Later(now, pass.task.at) + Threshold)
    BY <2>2 DEF Later
  <2> QED BY <2>1, <2>3 DEF Timely, Stale, Since, NoEarlyAlarm
<1>6. ASSUME NEW w \in Workers, RunFails(w) \/ ReportStep(w) PROVE Timely' /\ NoEarlyAlarm'
  BY <1>0, <1>6 DEF RunFails, ReportStep, OpenFailure, CloseFailure, ListMarkers, ClearMarker,
     TellRecovery, db, history
<1>7. CASE UNCHANGED taskVars
  BY <1>0, <1>7 DEF taskVars, db, history
<1> QED BY <1>1, <1>2, <1>3, <1>4, <1>5, <1>6, <1>7 DEF TaskNext

-----------------------------------------------------------------------------
\* What is true of the alerts of a task in every state.
TaskInv == TaskTypeOK /\ Counts /\ Recovery /\ Timely /\ NoEarlyAlarm

\* The account leaves no recovery without its failure.
LEMMA RecoveryCounts ==
  ASSUME Recovery, unrecovered \in Int PROVE unrecovered >= 0
<1>1. Cardinality(Owing) \in Nat
  BY FS_CardinalityType DEF Recovery
<1> QED BY <1>1 DEF Recovery

\* It holds at the start, of a task whose first run has failed.
LEMMA TaskInvInit == TaskInit => TaskInv
<1> SUFFICES ASSUME TaskInit PROVE TaskInv
  OBVIOUS
<1>1. Owing = {}
  BY DEF TaskInit, Owing, AtRest
<1>2. Recovery
  BY <1>1, FS_EmptySet DEF TaskInit, Recovery, AtRest
<1>3. worker \in [Workers -> [pc : Reporting, failed : BOOLEAN]]
      /\ \A w \in Workers : worker[w].pc = "idle" => worker[w] = AtRest
  BY DEF TaskInit, AtRest, Reporting
<1>4. Unread \in Passes
  BY TaskNumbers DEF Unread, Passes, Reading
<1>5. TaskTypeOK
  <2>1. pass \in Passes
    BY <1>4 DEF TaskInit
  <2>2. /\ task \in [enabled : BOOLEAN, at : 0 .. MaxTime, n : 0 .. MaxPauses]
        /\ success \in [at : 0 .. MaxTime, n : 0 .. MaxEnds]
        /\ alarms \in [episodes : SUBSET [resumed : Nat, succeeded : Nat], early : BOOLEAN]
    BY TaskNumbers DEF TaskInit
  <2>3. /\ now \in 0 .. MaxTime /\ ends \in 0 .. MaxEnds /\ pauses \in 0 .. MaxPauses
        /\ faults \in 0 .. MaxFaults
    BY TaskNumbers DEF TaskInit
  <2>4. unrecovered \in -MaxEnds .. MaxEnds + 1
    BY TaskNumbers DEF TaskInit
  <2>5. /\ checked \in BOOLEAN /\ failure \in BOOLEAN /\ marker \in BOOLEAN
        /\ crashed \in BOOLEAN
    BY DEF TaskInit
  <2> QED BY <1>3, <2>1, <2>2, <2>3, <2>4, <2>5 DEF TaskTypeOK, Passes
<1>6. Counts /\ Timely /\ NoEarlyAlarm
  BY DEF TaskInit, Counts, Timely, Unread, NoEarlyAlarm
<1> QED BY <1>2, <1>5, <1>6 DEF TaskInv

\* Every step keeps it.
LEMMA TaskInvStep == TaskInv /\ [TaskNext]_taskVars => TaskInv'
<1> SUFFICES ASSUME TaskInv, [TaskNext]_taskVars PROVE TaskInv'
  OBVIOUS
<1>1. Recovery' /\ Timely' /\ NoEarlyAlarm'
  BY RecoveryStep, TimelyStep DEF TaskInv
<1>2. unrecovered \in Int
  BY TaskNumbers DEF TaskInv, TaskTypeOK
<1>3. unrecovered' \in Int
  <2>1. CASE CheckStep
    BY <1>2, <2>1, CheckTypes DEF TaskInv
  <2>2. CASE Tick \/ Pause \/ Resume \/ DaemonRestarts \/ UNCHANGED taskVars
    BY <1>2, <2>2 DEF taskVars, Tick, Pause, Resume, DaemonRestarts, history
  <2>3. ASSUME NEW w \in Workers, RunSucceeds(w) \/ RunFails(w) \/ ReportStep(w)
        PROVE  unrecovered' \in Int
    BY <1>2, <2>3 DEF RunSucceeds, RunFails, ReportStep, OpenFailure, CloseFailure, ListMarkers,
       ClearMarker, TellRecovery, history
  <2> QED BY <2>1, <2>2, <2>3 DEF TaskNext
<1>4. unrecovered' >= 0
  <2>1. Cardinality(Owing)' \in Nat
    BY <1>1, FS_CardinalityType DEF Recovery
  <2> QED BY <1>1, <1>3, <2>1 DEF Recovery
<1>5. TaskTypeOK' /\ Counts'
  BY <1>4, TaskTypeStep DEF TaskInv
<1> QED BY <1>1, <1>5 DEF TaskInv

\* The alerts of a task keep their types and bounds (alert_state, watchdog_alert).
THEOREM TaskAlertsTypes == TaskSpec => []TaskTypeOK
<1>1. TaskInv => TaskTypeOK
  BY DEF TaskInv
<1> QED BY <1>1, TaskInvInit, TaskInvStep, PTL DEF TaskSpec

\* However many workers report successes at once, a failure is recovered from at most
\* once, with failed store calls and restarts between any two of their steps
\* (runevents.go:96-122).
THEOREM FailuresRecoverOnce == TaskSpec => []RecoversOnce
<1>1. TaskInv => RecoversOnce
  <2> SUFFICES ASSUME TaskInv PROVE RecoversOnce
    OBVIOUS
  <2>1. unrecovered \in Int
    BY TaskNumbers DEF TaskInv, TaskTypeOK
  <2> QED BY <2>1, RecoveryCounts DEF TaskInv, RecoversOnce
<1> QED BY <1>1, TaskInvInit, TaskInvStep, PTL DEF TaskSpec

\* A stale notice is only sent of a task that was stale in the database when the pass
\* began, whatever ends or is paused and resumed between its reads
\* (watchdog.go:109-197).
THEOREM AlarmsAreNotEarly == TaskSpec => []NoEarlyAlarm
<1>1. TaskInv => NoEarlyAlarm
  BY DEF TaskInv
<1> QED BY <1>1, TaskInvInit, TaskInvStep, PTL DEF TaskSpec

-----------------------------------------------------------------------------
(***************************************************************************)
(* The alerts of storages and slow runs (StorageAlerts).                    *)
(***************************************************************************)

Places == {"idle", "probe", "unreachable", "reachable", "measure", "open", "close", "tell",
           "recovered", "up"}
Checks == [pc : Places, level : 0 .. 2, gone : BOOLEAN]
Books  == [unreachable : 0 .. 1, low : 0 .. 2, loud : SUBSET {1, 2}, doubt : SUBSET {1, 2},
           failed : 0 .. 2, inherited : 0 .. 2, excused : SUBSET Kinds]

\* The constants of the code and the bounds are numbers.
LEMMA StorageNumbers ==
  /\ lowWarn = 1 /\ lowCritical = 2 /\ unreachableAfter = 2
  /\ Frees \subseteq Nat /\ Rounds \subseteq Nat /\ Usuals \subseteq Nat
  /\ MaxAge \in Nat /\ MaxMoves \in Nat /\ MaxFailures \in Nat /\ MaxRestarts \in Nat
BY StorageAlertsAssumption DEF lowWarn, lowCritical, unreachableAfter

\* What is kept of the storages has its type.
StoragesTyped ==
  /\ alert \in [Kinds -> [Storages -> 0 .. 2]]
  /\ misses \in [Storages -> 0 .. 2]
  /\ check \in [Storages -> Checks]
  /\ said \in [Storages -> Books]

\* The check of storage s goes on; nothing is done to another.
Local(s) ==
  /\ StoragesTyped'
  /\ \A t \in Storages \ {s} :
       /\ check'[t] = check[t] /\ misses'[t] = misses[t] /\ said'[t] = said[t]
       /\ alert'["low"][t] = alert["low"][t]
       /\ alert'["unreachable"][t] = alert["unreachable"][t]

\* The levels that an action names.
LEMMA Levels == 0 \in 0 .. 2 /\ 1 \in 0 .. 2 /\ 0 \in 0 .. 1 /\ 1 \in 0 .. 1
OBVIOUS

\* A goroutine that waits, and one that begins.
LEMMA IdleIsCheck ==
  /\ Idle \in Checks /\ Idle.pc = "idle"
  /\ [Idle EXCEPT !.pc = "probe"] \in Checks /\ [Idle EXCEPT !.pc = "probe"].pc = "probe"
<1>1. PICK n \in 0 .. 2 : n = 0
  BY Levels
<1>2. Idle = [pc |-> "idle", level |-> n, gone |-> FALSE]
  BY <1>1 DEF Idle
<1>3. "idle" \in Places /\ "probe" \in Places
  BY DEF Places
<1> QED BY <1>2, <1>3, Zenon DEF Checks

\* A goroutine goes on alone.
LEMMA GoesToAlone ==
  ASSUME StoragesTyped, NEW s \in Storages, NEW pc \in Places, NEW level \in 0 .. 2,
         GoesTo(s, pc, level)
  PROVE  /\ check' \in [Storages -> Checks]
         /\ check'[s].pc = pc /\ check'[s].level = level
         /\ \A t \in Storages \ {s} : check'[t] = check[t]
<1>0. check[s] \in Checks
  BY DEF StoragesTyped
<1>1. PICK c : c = [check[s] EXCEPT !.pc = pc, !.level = level]
  OBVIOUS
<1>2. c \in Checks /\ c.pc = pc /\ c.level = level
  BY <1>0, <1>1 DEF Checks
<1>3. check' = [check EXCEPT ![s] = c]
  BY <1>1 DEF GoesTo
<1> QED BY <1>2, <1>3 DEF StoragesTyped

\* The same, to a place without a level.
LEMMA GoesOn ==
  ASSUME StoragesTyped, NEW s \in Storages, NEW pc \in Places, Goes(s, pc)
  PROVE  /\ check' \in [Storages -> Checks]
         /\ check'[s].pc = pc /\ check'[s].level = 0
         /\ \A t \in Storages \ {s} : check'[t] = check[t]
<1>1. GoesTo(s, pc, 0)
  BY DEF Goes
<1> QED BY <1>1, GoesToAlone

\* One row of alert_state is written.
LEMMA RowIsWritten ==
  ASSUME StoragesTyped, NEW s \in Storages, NEW k \in Kinds, NEW level \in 0 .. 2,
         alert' = [alert EXCEPT ![k][s] = level]
  PROVE  /\ alert' \in [Kinds -> [Storages -> 0 .. 2]]
         /\ alert'[k][s] = level
         /\ \A t \in Storages \ {s} : alert'[k][t] = alert[k][t]
         /\ \A j \in Kinds \ {k} : alert'[j] = alert[j]
BY DEF StoragesTyped

\* What is known of one storage changes.
LEMMA BookIsKept ==
  ASSUME StoragesTyped, NEW s \in Storages, NEW b \in Books, said' = [said EXCEPT ![s] = b]
  PROVE  /\ said' \in [Storages -> Books] /\ said'[s] = b
         /\ \A t \in Storages \ {s} : said'[t] = said[t]
BY DEF StoragesTyped

-----------------------------------------------------------------------------
\* What each step of a check does to its storage.

\* A failed probe counts a miss and ends the check, or goes on to the episode.
LEMMA MissEffect ==
  ASSUME StoragesTyped, NEW s \in Storages, Miss(s)
  PROVE  /\ Local(s) /\ check[s].pc = "probe"
         /\ UNCHANGED <<alert, world, monitor, budget, runVars>>
         /\ misses'[s] = AtMost(misses[s] + 1, 2)
         /\ check'[s].pc = (IF misses'[s] < 2 THEN "idle" ELSE "unreachable")
         /\ check'[s].level = 0
         /\ \/ said'[s] = [said[s] EXCEPT !.failed = AtMost(said[s].failed + 1, 2)]
            \/ said'[s] = [said[s] EXCEPT !.inherited = AtMost(said[s].inherited + 1, 2)]
<1>0. said[s] \in Books /\ misses[s] \in 0 .. 2
  BY DEF StoragesTyped
<1>1. PICK n \in 0 .. 2 : n = AtMost(said[s].failed + 1, 2)
  BY <1>0 DEF AtMost, Books
<1>i. PICK i \in 0 .. 2 : i = AtMost(said[s].inherited + 1, 2)
  BY <1>0 DEF AtMost, Books
<1>2. PICK m \in 0 .. 2 : m = AtMost(misses[s] + 1, 2)
  BY <1>0 DEF AtMost
<1>3. \/ said' = [said EXCEPT ![s] = [said[s] EXCEPT !.failed = n]]
      \/ said' = [said EXCEPT ![s] = [said[s] EXCEPT !.inherited = i]]
  <2>1. CASE check[s].gone
    BY <1>i, <2>1, StorageNumbers DEF Miss
  <2>2. CASE ~check[s].gone
    BY <1>1, <2>2, StorageNumbers DEF Miss
  <2> QED BY <2>1, <2>2
<1>4. /\ [said[s] EXCEPT !.failed = n] \in Books
      /\ [said[s] EXCEPT !.inherited = i] \in Books
  BY <1>0 DEF Books
<1>5. misses' = [misses EXCEPT ![s] = m]
  BY <1>2, StorageNumbers DEF Miss
<1>6. misses' \in [Storages -> 0 .. 2] /\ misses'[s] = m
      /\ \A t \in Storages \ {s} : misses'[t] = misses[t]
  BY <1>5 DEF StoragesTyped
<1>7. Goes(s, IF misses'[s] < 2 THEN "idle" ELSE "unreachable")
  BY StorageNumbers DEF Miss
<1>8. (IF misses'[s] < 2 THEN "idle" ELSE "unreachable") \in Places
  BY DEF Places
<1>9. /\ check' \in [Storages -> Checks]
      /\ check'[s].pc = (IF misses'[s] < 2 THEN "idle" ELSE "unreachable")
      /\ check'[s].level = 0
      /\ \A t \in Storages \ {s} : check'[t] = check[t]
  BY <1>7, <1>8, GoesOn
<1>10. /\ said' \in [Storages -> Books]
       /\ \/ said'[s] = [said[s] EXCEPT !.failed = n]
          \/ said'[s] = [said[s] EXCEPT !.inherited = i]
       /\ \A t \in Storages \ {s} : said'[t] = said[t]
  BY <1>3, <1>4, BookIsKept
<1>11. check[s].pc = "probe" /\ UNCHANGED <<alert, world, monitor, budget, runVars>>
  BY DEF Miss
<1> QED BY <1>1, <1>i, <1>2, <1>6, <1>9, <1>10, <1>11 DEF Local, StoragesTyped

-----------------------------------------------------------------------------
(***************************************************************************)
(* What is true of one storage. A check holds what it goes by: the row it    *)
(* has written, the level it found, the probes that failed.                  *)
(***************************************************************************)

\* The row agrees with the notice that is due.
Standing(s) ==
  /\ alert["unreachable"][s] \in 0 .. 1
  /\ check[s].pc = "open" => check[s].level > 0
  /\ check[s].pc = "up" => alert["unreachable"][s] = 0
  /\ check[s].pc = "recovered" => alert["low"][s] = 0
  /\ check[s].pc = "tell" /\ check[s].level = 0 => alert["unreachable"][s] = 1
  /\ check[s].pc = "tell" /\ check[s].level > 0 => alert["low"][s] = check[s].level

\* What the monitor counted has failed since the last answer, of this storage or of the
\* one that had its id before.
Counted(s) ==
  /\ misses[s] <= said[s].failed + said[s].inherited
  /\ check[s].pc = "unreachable" \/ (check[s].pc = "tell" /\ check[s].level = 0) => misses[s] = 2

\* The levels that were told and that no check found left.
Loud(s) == said[s].loud \ said[s].doubt

\* A level that was told and not found left with room to spare since is still open, or
\* the check under way leaves it open.
Quieted(s) ==
  /\ \A l \in Loud(s) : l <= alert["low"][s]
  /\ check[s].pc = "close" => Loud(s) = {}
  /\ check[s].pc = "open" =>
       /\ check[s].level # alert["low"][s]
       /\ \A l \in Loud(s) : l <= check[s].level
  /\ check[s].pc = "tell" /\ check[s].level > 0 => \A l \in Loud(s) : l < check[s].level

\* People know of the episode, or are being told, or may not know.
KnownUnreachable(s) ==
  \/ "unreachable" \in said[s].excused
  \/ check[s].pc = "up"
  \/ check[s].pc = "tell" /\ check[s].level = 0
  \/ /\ alert["unreachable"][s] <= said[s].unreachable
     /\ said[s].unreachable > 0 => alert["unreachable"][s] > 0

KnownLow(s) ==
  \/ "low" \in said[s].excused
  \/ check[s].pc = "recovered"
  \/ check[s].pc = "tell" /\ check[s].level > 0
  \/ /\ alert["low"][s] <= said[s].low
     /\ said[s].low > 0 => alert["low"][s] > 0

StorageInv(s) ==
  Standing(s) /\ Counted(s) /\ Quieted(s) /\ KnownUnreachable(s) /\ KnownLow(s)

\* The types of what is kept of one storage.
LEMMA StorageTypes ==
  ASSUME StoragesTyped, NEW s \in Storages
  PROVE  /\ said[s] \in Books /\ check[s] \in Checks /\ misses[s] \in 0 .. 2
         /\ alert["low"][s] \in 0 .. 2 /\ alert["unreachable"][s] \in 0 .. 2
BY DEF StoragesTyped, Kinds

\* A storage nothing is done to.
LEMMA StorageStays ==
  ASSUME NEW s \in Storages, StorageInv(s),
         check'[s] = check[s], misses'[s] = misses[s], said'[s] = said[s],
         alert'["low"][s] = alert["low"][s], alert'["unreachable"][s] = alert["unreachable"][s]
  PROVE  StorageInv(s)'
BY DEF StorageInv, Standing, Counted, Quieted, Loud, KnownUnreachable, KnownLow

\* A failed probe is counted on both sides.
LEMMA MissKeeps ==
  ASSUME StoragesTyped, NEW s \in Storages, StorageInv(s), Miss(s)
  PROVE  Local(s) /\ StorageInv(s)' /\ AwayWhenTold(s)
<1>1. PICK b : /\ \/ b = [said[s] EXCEPT !.failed = AtMost(said[s].failed + 1, 2)]
                  \/ b = [said[s] EXCEPT !.inherited = AtMost(said[s].inherited + 1, 2)]
               /\ said'[s] = b
  BY MissEffect
<1>2. said[s] \in Books /\ misses[s] \in 0 .. 2
  BY StorageTypes
<1>3. /\ b.unreachable = said[s].unreachable /\ b.low = said[s].low
      /\ b.loud = said[s].loud /\ b.doubt = said[s].doubt /\ b.excused = said[s].excused
  BY <1>1, <1>2 DEF Books
<1>c. \/ b.failed = AtMost(said[s].failed + 1, 2) /\ b.inherited = said[s].inherited
      \/ b.inherited = AtMost(said[s].inherited + 1, 2) /\ b.failed = said[s].failed
  BY <1>1, <1>2 DEF Books
<1>4. said'[s] = b /\ UNCHANGED alert
  BY <1>1, MissEffect
<1>5. /\ Local(s) /\ check[s].pc = "probe"
      /\ misses'[s] = AtMost(misses[s] + 1, 2)
      /\ check'[s].pc = (IF misses'[s] < 2 THEN "idle" ELSE "unreachable")
  BY MissEffect
<1>6. misses'[s] <= said'[s].failed + said'[s].inherited
      /\ (~(misses'[s] < 2) => misses'[s] = 2)
  <2>1. /\ said[s].failed \in 0 .. 2 /\ said[s].inherited \in 0 .. 2
        /\ misses[s] <= said[s].failed + said[s].inherited
    BY <1>2 DEF StorageInv, Counted, Books
  <2> QED BY <1>2, <1>c, <1>4, <1>5, <2>1 DEF AtMost
<1>7. check'[s].pc \in {"idle", "unreachable"}
      /\ (check'[s].pc = "unreachable" => misses'[s] = 2)
  BY <1>5, <1>6
<1>8. Counted(s)'
  BY <1>6, <1>7 DEF Counted
<1>9. Standing(s)' /\ Quieted(s)' /\ KnownUnreachable(s)' /\ KnownLow(s)'
  BY <1>3, <1>4, <1>5 DEF StorageInv, Standing, Quieted, Loud, KnownUnreachable, KnownLow
<1>10. AwayWhenTold(s)
  BY <1>3, <1>4, <1>2 DEF AwayWhenTold, Books
<1> QED BY <1>5, <1>8, <1>9, <1>10 DEF StorageInv

\* An answer forgets the misses on both sides.
LEMMA AnswerKeeps ==
  ASSUME StoragesTyped, NEW s \in Storages, StorageInv(s), Answer(s)
  PROVE  Local(s) /\ StorageInv(s)' /\ AwayWhenTold(s)
<1>1. PICK b : b = [said[s] EXCEPT !.failed = 0, !.inherited = 0]
  OBVIOUS
<1>2. said[s] \in Books /\ misses[s] \in 0 .. 2
  BY StorageTypes
<1>3. /\ b \in Books /\ b.failed = 0 /\ b.inherited = 0
      /\ b.unreachable = said[s].unreachable /\ b.low = said[s].low
      /\ b.loud = said[s].loud /\ b.doubt = said[s].doubt /\ b.excused = said[s].excused
  BY <1>1, <1>2, Levels DEF Books
<1>4. said' = [said EXCEPT ![s] = b]
  BY <1>1 DEF Answer
<1>5. /\ said' \in [Storages -> Books] /\ said'[s] = b
      /\ \A t \in Storages \ {s} : said'[t] = said[t]
  BY <1>3, <1>4, BookIsKept
<1>6. /\ misses' \in [Storages -> 0 .. 2] /\ misses'[s] = 0
      /\ \A t \in Storages \ {s} : misses'[t] = misses[t]
  <2>1. misses' = [misses EXCEPT ![s] = 0] /\ 0 \in 0 .. 2
    BY DEF Answer
  <2> QED BY <2>1 DEF StoragesTyped
<1>7. Goes(s, "reachable") /\ "reachable" \in Places
  BY DEF Answer, Places
<1>8. /\ check' \in [Storages -> Checks] /\ check'[s].pc = "reachable"
      /\ \A t \in Storages \ {s} : check'[t] = check[t]
  BY <1>7, GoesOn
<1>9. UNCHANGED alert /\ check[s].pc = "probe"
  BY DEF Answer
<1>10. Local(s)
  BY <1>5, <1>6, <1>8, <1>9 DEF Local, StoragesTyped
<1>11. StorageInv(s)'
  BY <1>3, <1>5, <1>6, <1>8, <1>9
     DEF StorageInv, Standing, Counted, Quieted, Loud, KnownUnreachable, KnownLow
<1>12. AwayWhenTold(s)
  BY <1>2, <1>3, <1>5 DEF AwayWhenTold, Books
<1> QED BY <1>10, <1>11, <1>12

\* A step that only goes on, and perhaps writes the row of one kind.
LEMMA RowOnly ==
  ASSUME StoragesTyped, NEW s \in Storages, NEW pc \in Places, NEW level \in 0 .. 2,
         GoesTo(s, pc, level), UNCHANGED <<misses, said>>,
         \/ UNCHANGED alert
         \/ \E k \in Kinds, n \in 0 .. 2 : alert' = [alert EXCEPT ![k][s] = n]
  PROVE  /\ Local(s) /\ AwayWhenTold(s)
         /\ check'[s].pc = pc /\ check'[s].level = level
<1>1. /\ check' \in [Storages -> Checks]
      /\ check'[s].pc = pc /\ check'[s].level = level
      /\ \A t \in Storages \ {s} : check'[t] = check[t]
  BY GoesToAlone
<1>2. /\ alert' \in [Kinds -> [Storages -> 0 .. 2]]
      /\ \A t \in Storages \ {s}, k \in Kinds : alert'[k][t] = alert[k][t]
  <2>1. CASE UNCHANGED alert
    BY <2>1 DEF StoragesTyped
  <2>2. ASSUME NEW k \in Kinds, NEW n \in 0 .. 2, alert' = [alert EXCEPT ![k][s] = n]
        PROVE  /\ alert' \in [Kinds -> [Storages -> 0 .. 2]]
               /\ \A t \in Storages \ {s}, j \in Kinds : alert'[j][t] = alert[j][t]
    <3>1. /\ alert' \in [Kinds -> [Storages -> 0 .. 2]]
          /\ \A t \in Storages \ {s} : alert'[k][t] = alert[k][t]
          /\ \A j \in Kinds \ {k} : alert'[j] = alert[j]
      BY <2>2, RowIsWritten, ZenonT(60)
    <3> QED BY <3>1
  <2> QED BY <2>1, <2>2
<1>3. "low" \in Kinds /\ "unreachable" \in Kinds
  BY DEF Kinds
<1>4. AwayWhenTold(s)
  <2>1. said' = said
    OBVIOUS
  <2> QED BY <2>1 DEF AwayWhenTold
<1> QED BY <1>1, <1>2, <1>3, <1>4 DEF Local, StoragesTyped

\* The row of the outage is written before anybody is told.
LEMMA OpenUnreachableKeeps ==
  ASSUME StoragesTyped, NEW s \in Storages, StorageInv(s), OpenUnreachable(s)
  PROVE  Local(s) /\ StorageInv(s)' /\ AwayWhenTold(s)
<1>1. PICK pc \in {"tell", "idle"} : pc = IF alert["unreachable"][s] = 0 THEN "tell" ELSE "idle"
  OBVIOUS
<1>2. /\ GoesTo(s, pc, 0) /\ pc \in Places /\ "unreachable" \in Kinds
      /\ alert' = [alert EXCEPT !["unreachable"][s] = 1]
      /\ UNCHANGED <<misses, said>> /\ check[s].pc = "unreachable"
  BY <1>1 DEF OpenUnreachable, Goes, Places, Kinds
<1>3. /\ Local(s) /\ AwayWhenTold(s)
      /\ check'[s].pc = pc /\ check'[s].level = 0
  BY <1>2, Levels, RowOnly
<1>4. alert'["unreachable"][s] = 1 /\ alert'["low"][s] = alert["low"][s]
  BY <1>2, Levels, RowIsWritten, ZenonT(60) DEF Kinds
<1>5. said'[s] = said[s] /\ misses'[s] = misses[s]
  BY <1>2
<1>6. said[s].unreachable \in 0 .. 1 /\ alert["unreachable"][s] \in 0 .. 1
  BY StorageTypes DEF StorageInv, Standing, Books
<1>7. StorageInv(s)'
  BY <1>1, <1>2, <1>3, <1>4, <1>5, <1>6
     DEF StorageInv, Standing, Counted, Quieted, Loud, KnownUnreachable, KnownLow
<1> QED BY <1>3, <1>7

\* The row goes, and whoever saw it there tells the recovery.
LEMMA CloseUnreachableKeeps ==
  ASSUME StoragesTyped, NEW s \in Storages, StorageInv(s), CloseUnreachable(s)
  PROVE  Local(s) /\ StorageInv(s)' /\ AwayWhenTold(s)
<1>1. PICK pc \in {"up", "measure"} : pc = IF alert["unreachable"][s] = 1 THEN "up" ELSE "measure"
  OBVIOUS
<1>2. /\ GoesTo(s, pc, 0) /\ pc \in Places /\ "unreachable" \in Kinds
      /\ alert' = [alert EXCEPT !["unreachable"][s] = 0]
      /\ UNCHANGED <<misses, said>> /\ check[s].pc = "reachable"
  BY <1>1 DEF CloseUnreachable, Goes, Places, Kinds
<1>3. /\ Local(s) /\ AwayWhenTold(s)
      /\ check'[s].pc = pc /\ check'[s].level = 0
  BY <1>2, Levels, RowOnly
<1>4. alert'["unreachable"][s] = 0 /\ alert'["low"][s] = alert["low"][s]
  BY <1>2, Levels, RowIsWritten DEF Kinds
<1>5. said'[s] = said[s] /\ misses'[s] = misses[s]
  BY <1>2
<1>6. said[s].unreachable \in 0 .. 1 /\ alert["unreachable"][s] \in 0 .. 1
  BY StorageTypes DEF StorageInv, Standing, Books
<1>7. StorageInv(s)'
  BY <1>1, <1>2, <1>3, <1>4, <1>5, <1>6
     DEF StorageInv, Standing, Counted, Quieted, Loud, KnownUnreachable, KnownLow
<1> QED BY <1>3, <1>7

\* The row of the level is written before anybody is told, and a lower level is not told.
LEMMA OpenLowKeeps ==
  ASSUME StoragesTyped, NEW s \in Storages, StorageInv(s), OpenLow(s)
  PROVE  Local(s) /\ StorageInv(s)' /\ AwayWhenTold(s)
<1>0. /\ check[s].level \in 0 .. 2 /\ alert["low"][s] \in 0 .. 2 /\ said[s].low \in 0 .. 2
      /\ said[s].loud \subseteq {1, 2}
  BY StorageTypes DEF Checks, Books
<1>1. PICK pc \in {"tell", "idle"} :
         pc = IF check[s].level < alert["low"][s] THEN "idle" ELSE "tell"
  OBVIOUS
<1>2. /\ GoesTo(s, pc, check[s].level) /\ pc \in Places /\ "low" \in Kinds
      /\ alert' = [alert EXCEPT !["low"][s] = check[s].level]
      /\ UNCHANGED <<misses, said>> /\ check[s].pc = "open"
  BY <1>1 DEF OpenLow, Places, Kinds
<1>3. /\ Local(s) /\ AwayWhenTold(s)
      /\ check'[s].pc = pc /\ check'[s].level = check[s].level
  BY <1>0, <1>2, RowOnly
<1>4. alert'["low"][s] = check[s].level /\ alert'["unreachable"][s] = alert["unreachable"][s]
  BY <1>0, <1>2, RowIsWritten DEF Kinds
<1>5. said'[s] = said[s] /\ misses'[s] = misses[s]
  BY <1>2
<1>6. check[s].level > 0 /\ check[s].level # alert["low"][s]
      /\ \A l \in Loud(s) : l <= check[s].level /\ l <= alert["low"][s]
  BY <1>2 DEF StorageInv, Standing, Quieted
<1>7. CASE check[s].level < alert["low"][s]
  BY <1>0, <1>1, <1>2, <1>3, <1>4, <1>5, <1>6, <1>7
     DEF StorageInv, Standing, Counted, Quieted, Loud, KnownUnreachable, KnownLow
<1>8. CASE ~(check[s].level < alert["low"][s])
  <2>1. \A l \in Loud(s) : l < check[s].level
    BY <1>0, <1>6, <1>8 DEF Loud
  <2> QED BY <1>0, <1>1, <1>2, <1>3, <1>4, <1>5, <1>6, <1>8, <2>1
          DEF StorageInv, Standing, Counted, Quieted, Loud, KnownUnreachable, KnownLow
<1> QED BY <1>7, <1>8

\* The row goes once nothing loud is left.
LEMMA CloseLowKeeps ==
  ASSUME StoragesTyped, NEW s \in Storages, StorageInv(s), CloseLow(s)
  PROVE  Local(s) /\ StorageInv(s)' /\ AwayWhenTold(s)
<1>1. /\ GoesTo(s, "recovered", 0) /\ "recovered" \in Places /\ "low" \in Kinds
      /\ alert' = [alert EXCEPT !["low"][s] = 0]
      /\ UNCHANGED <<misses, said>> /\ check[s].pc = "close"
  BY DEF CloseLow, Goes, Places, Kinds
<1>2. /\ Local(s) /\ AwayWhenTold(s)
      /\ check'[s].pc = "recovered" /\ check'[s].level = 0
  BY <1>1, Levels, RowOnly
<1>3. alert'["low"][s] = 0 /\ alert'["unreachable"][s] = alert["unreachable"][s]
  BY <1>1, Levels, RowIsWritten DEF Kinds
<1>4. said'[s] = said[s] /\ misses'[s] = misses[s]
  BY <1>1
<1>5. StorageInv(s)'
  BY <1>1, <1>2, <1>3, <1>4
     DEF StorageInv, Standing, Counted, Quieted, Loud, KnownUnreachable, KnownLow
<1> QED BY <1>2, <1>5

\* A check that is given up, or goes on to measure, owes nobody a notice.
LEMMA GivingUpKeeps ==
  ASSUME StoragesTyped, NEW s \in Storages, StorageInv(s), CannotMeasure(s) \/ StoreFails(s)
  PROVE  Local(s) /\ StorageInv(s)' /\ AwayWhenTold(s)
<1>1. PICK pc \in {"idle", "measure"} : Goes(s, pc)
  BY DEF CannotMeasure, StoreFails
<1>2. /\ GoesTo(s, pc, 0) /\ pc \in Places
      /\ UNCHANGED <<misses, said, alert>>
      /\ check[s].pc \in {"unreachable", "reachable", "measure", "open", "close"}
  BY <1>1 DEF CannotMeasure, StoreFails, Goes, Places
<1>3. /\ Local(s) /\ AwayWhenTold(s)
      /\ check'[s].pc = pc /\ check'[s].level = 0
  BY <1>2, Levels, RowOnly
<1>4. StorageInv(s)'
  BY <1>1, <1>2, <1>3 DEF StorageInv, Standing, Counted, Quieted, Loud, KnownUnreachable, KnownLow
<1> QED BY <1>3, <1>4

\* lowLevel goes below the open level only past every level between them with room to
\* spare, whatever the room, the rounds and the thresholds are (monitor.go:350-372).
LEMMA LeavingTakesRoom ==
  ASSUME NEW free, NEW round, NEW prev \in 0 .. 2
  PROVE  /\ LowLevel(free, round, prev) \in 0 .. 2
         /\ \A l \in {1, 2} : LowLevel(free, round, prev) < l /\ l <= prev
                                => ~Below(l, free, round, 12)
BY DEF LowLevel, lowCritical, lowWarn

\* A part of the round is compared with the level that is open.
LEMMA CompareKeeps ==
  ASSUME StoragesTyped, NEW s \in Storages, StorageInv(s), NEW free, NEW round, NEW part,
         Compare(s, free, round, part)
  PROVE  Local(s) /\ StorageInv(s)' /\ AwayWhenTold(s)
<1> DEFINE prev == alert["low"][s]
           found == LowLevel(free, part, prev)
<1>0. /\ said[s] \in Books /\ prev \in 0 .. 2
      /\ said[s].loud \subseteq {1, 2} /\ said[s].doubt \subseteq {1, 2}
      /\ said[s].unreachable \in 0 .. 1
  BY StorageTypes DEF Books
<1>1. PICK level \in 0 .. 2 : level = found
  BY <1>0, LeavingTakesRoom
<1>2. PICK pc \in {"idle", "close", "open"} :
         pc = IF level = prev THEN "idle" ELSE IF level = 0 THEN "close" ELSE "open"
  OBVIOUS
<1>l. PICK loud \in SUBSET {1, 2} : loud = said[s].loud \ Comfortable(free, round)
  BY <1>0
<1>d. PICK doubt \in SUBSET {1, 2} :
         doubt = (said[s].doubt \union (said[s].loud \intersect Comfortable(free, part)))
                    \ Comfortable(free, round)
  BY <1>0
<1>3. PICK b : b = [said[s] EXCEPT !.loud = loud, !.doubt = doubt]
  OBVIOUS
<1>4. /\ b \in Books /\ b.loud = loud /\ b.doubt = doubt
      /\ b.failed = said[s].failed /\ b.unreachable = said[s].unreachable
      /\ b.inherited = said[s].inherited
      /\ b.low = said[s].low /\ b.excused = said[s].excused
  BY <1>0, <1>3 DEF Books
<1>5. said' = [said EXCEPT ![s] = b] /\ UNCHANGED <<alert, misses>> /\ check[s].pc = "measure"
  BY <1>3, <1>l, <1>d DEF Compare
<1>6. GoesTo(s, pc, level) /\ pc \in Places
  BY <1>1, <1>2 DEF Compare, Places
<1>7. /\ check' \in [Storages -> Checks] /\ check'[s].pc = pc /\ check'[s].level = level
      /\ \A t \in Storages \ {s} : check'[t] = check[t]
  BY <1>6, GoesToAlone
<1>8. /\ said' \in [Storages -> Books] /\ said'[s] = b
      /\ \A t \in Storages \ {s} : said'[t] = said[t]
  BY <1>4, <1>5, BookIsKept
<1>9. Local(s)
  BY <1>5, <1>7, <1>8 DEF Local, StoragesTyped
<1>10. \A l \in loud \ doubt : l <= prev /\ l <= level
  <2>1. TAKE l \in loud \ doubt
  <2>2. l \in {1, 2} /\ l \in Loud(s) /\ l \notin Comfortable(free, part)
    BY <1>0, <1>l, <1>d DEF Loud
  <2>3. l <= prev
    BY <2>2 DEF StorageInv, Quieted
  <2>4. Below(l, free, part, 12)
    BY <2>2 DEF Comfortable, lowWarn, lowCritical
  <2>5. ~(level < l)
    BY <1>0, <1>1, <2>2, <2>3, <2>4, LeavingTakesRoom
  <2> QED BY <2>2, <2>3, <2>5
<1>11. Loud(s)' = loud \ doubt
  BY <1>4, <1>8 DEF Loud
<1>12. Quieted(s)'
  <2>1. level = 0 => loud \ doubt = {}
    BY <1>0, <1>10
  <2> QED BY <1>2, <1>5, <1>7, <1>10, <1>11, <2>1 DEF Quieted
<1>13. Standing(s)' /\ Counted(s)' /\ KnownUnreachable(s)' /\ KnownLow(s)'
  BY <1>2, <1>4, <1>5, <1>7, <1>8 DEF StorageInv, Standing, Counted, KnownUnreachable, KnownLow
<1>14. AwayWhenTold(s)
  BY <1>0, <1>4, <1>8 DEF AwayWhenTold
<1> QED BY <1>9, <1>12, <1>13, <1>14 DEF StorageInv

\* The whole round is compared, or what could be read of it.
LEMMA JudgeKeeps ==
  ASSUME StoragesTyped, NEW s \in Storages, StorageInv(s), Judge(s) \/ JudgePartial(s)
  PROVE  Local(s) /\ StorageInv(s)' /\ AwayWhenTold(s)
BY CompareKeeps DEF Judge, JudgePartial

\* What is known of a storage after a notice about its reachability.
LEMMA ReachableBook ==
  ASSUME NEW x \in Books, NEW u \in 0 .. 1, NEW e \in SUBSET Kinds
  PROVE  [x EXCEPT !.unreachable = u, !.excused = e] \in Books
BY DEF Books

\* The same, of its room.
LEMMA RoomBook ==
  ASSUME NEW x \in Books, NEW n \in 0 .. 2, NEW e \in SUBSET Kinds
  PROVE  [x EXCEPT !.low = n, !.excused = e] \in Books
BY DEF Books

\* The same, of a level.
LEMMA LevelBook ==
  ASSUME NEW x \in Books, NEW n \in 0 .. 2, NEW l \in SUBSET {1, 2},
         NEW d \in SUBSET {1, 2}, NEW e \in SUBSET Kinds
  PROVE  [x EXCEPT !.low = n, !.loud = l, !.doubt = d, !.excused = e] \in Books
BY DEF Books

\* A notice goes out: what is known of the storage changes, and the check goes on.
LEMMA NoticeGoesOut ==
  ASSUME StoragesTyped, NEW s \in Storages, NEW pc \in Places, Goes(s, pc), NEW b \in Books,
         said' = [said EXCEPT ![s] = b], UNCHANGED <<alert, misses>>
  PROVE  Local(s) /\ said'[s] = b /\ check'[s].pc = pc /\ check'[s].level = 0
<1>1. /\ said' \in [Storages -> Books] /\ said'[s] = b
      /\ \A t \in Storages \ {s} : said'[t] = said[t]
  BY BookIsKept
<1>2. /\ check' \in [Storages -> Checks] /\ check'[s].pc = pc /\ check'[s].level = 0
      /\ \A t \in Storages \ {s} : check'[t] = check[t]
  BY GoesOn
<1> QED BY <1>1, <1>2 DEF Local, StoragesTyped

\* The beginning of an episode, or a worse level, is told.
LEMMA TellKeeps ==
  ASSUME StoragesTyped, NEW s \in Storages, StorageInv(s), Tell(s)
  PROVE  Local(s) /\ StorageInv(s)' /\ AwayWhenTold(s)
<1> DEFINE level == check[s].level
<1>0. /\ said[s] \in Books /\ level \in 0 .. 2 /\ said[s].loud \subseteq {1, 2}
      /\ said[s].unreachable \in 0 .. 1 /\ said[s].failed \in 0 .. 2
      /\ said[s].doubt \subseteq {1, 2} /\ said[s].inherited \in 0 .. 2
  BY StorageTypes DEF Books, Checks
<1>1. Goes(s, "idle") /\ "idle" \in Places /\ check[s].pc = "tell" /\ UNCHANGED <<alert, misses>>
  BY DEF Tell, Places
<1>2. CASE level = 0
  <2>e. PICK e \in SUBSET Kinds : e = said[s].excused \ {"unreachable"}
    BY <1>0 DEF Books
  <2>b. [said[s] EXCEPT !.unreachable = 1, !.excused = e] \in Books
    BY <1>0, Levels, ReachableBook
  <2>1. PICK b \in Books : b = [said[s] EXCEPT !.unreachable = 1, !.excused = e]
    BY <2>b
  <2>2. /\ b \in Books /\ b.unreachable = 1 /\ b.excused = said[s].excused \ {"unreachable"}
        /\ b.low = said[s].low /\ b.loud = said[s].loud /\ b.failed = said[s].failed
        /\ b.doubt = said[s].doubt /\ b.inherited = said[s].inherited
    BY <1>0, <2>1, <2>e DEF Books
  <2>3. said' = [said EXCEPT ![s] = b]
    BY <1>2, <2>1, <2>e DEF Tell
  <2>4. Local(s) /\ said'[s] = b /\ check'[s].pc = "idle"
    BY <1>1, <2>2, <2>3, NoticeGoesOut
  <2>5. alert["unreachable"][s] = 1 /\ misses[s] = 2
        /\ misses[s] <= said[s].failed + said[s].inherited
    BY <1>1, <1>2 DEF StorageInv, Standing, Counted
  <2>6. StorageInv(s)'
    BY <1>1, <1>2, <2>2, <2>4, <2>5
       DEF StorageInv, Standing, Counted, Quieted, Loud, KnownUnreachable, KnownLow
  <2>7. AwayWhenTold(s)
    BY <1>0, <2>5 DEF AwayWhenTold, unreachableAfter
  <2> QED BY <2>4, <2>6, <2>7
<1>3. CASE level # 0
  <2>e. PICK e \in SUBSET Kinds, loud \in SUBSET {1, 2}, doubt \in SUBSET {1, 2} :
            /\ e = said[s].excused \ {"low"} /\ loud = said[s].loud \union {level}
            /\ doubt = said[s].doubt \ {level}
    <3>1. said[s].loud \union {level} \in SUBSET {1, 2}
      BY <1>0, <1>3
    <3> QED BY <1>0, <3>1 DEF Books
  <2>1. PICK b \in Books :
           b = [said[s] EXCEPT !.low = level, !.loud = loud, !.doubt = doubt, !.excused = e]
    BY <1>0, LevelBook
  <2>2. /\ b \in Books /\ b.low = level /\ b.loud = said[s].loud \union {level}
        /\ b.doubt = said[s].doubt \ {level} /\ b.excused = said[s].excused \ {"low"}
        /\ b.unreachable = said[s].unreachable /\ b.failed = said[s].failed
        /\ b.inherited = said[s].inherited
    BY <1>0, <1>3, <2>1, <2>e DEF Books
  <2>3. said' = [said EXCEPT ![s] = b]
    BY <1>3, <2>1, <2>e DEF Tell
  <2>4. Local(s) /\ said'[s] = b /\ check'[s].pc = "idle"
    BY <1>1, <2>2, <2>3, NoticeGoesOut
  <2>5. alert["low"][s] = level /\ \A l \in Loud(s) : l < level
    BY <1>0, <1>1, <1>3 DEF StorageInv, Standing, Quieted
  <2>6. StorageInv(s)'
    BY <1>0, <1>1, <1>3, <2>2, <2>4, <2>5
       DEF StorageInv, Standing, Counted, Quieted, Loud, KnownUnreachable, KnownLow
  <2>7. AwayWhenTold(s)
    BY <1>0, <2>2, <2>4 DEF AwayWhenTold
  <2> QED BY <2>4, <2>6, <2>7
<1> QED BY <1>2, <1>3

\* The end of an outage is told.
LEMMA TellUpKeeps ==
  ASSUME StoragesTyped, NEW s \in Storages, StorageInv(s), TellUp(s)
  PROVE  Local(s) /\ StorageInv(s)' /\ AwayWhenTold(s)
<1>0. said[s] \in Books
  BY StorageTypes
<1>e. PICK e \in SUBSET Kinds : e = said[s].excused \ {"unreachable"}
  BY <1>0 DEF Books
<1>b. [said[s] EXCEPT !.unreachable = 0, !.excused = e] \in Books
  BY <1>0, Levels, ReachableBook
<1>1. PICK b \in Books : b = [said[s] EXCEPT !.unreachable = 0, !.excused = e]
  BY <1>b
<1>2. /\ b \in Books /\ b.unreachable = 0 /\ b.excused = said[s].excused \ {"unreachable"}
      /\ b.low = said[s].low /\ b.loud = said[s].loud /\ b.failed = said[s].failed
      /\ b.doubt = said[s].doubt /\ b.inherited = said[s].inherited
  BY <1>0, <1>1, <1>e DEF Books
<1>3. /\ said' = [said EXCEPT ![s] = b] /\ Goes(s, "measure") /\ "measure" \in Places
      /\ check[s].pc = "up" /\ UNCHANGED <<alert, misses>>
  BY <1>1, <1>e DEF TellUp, Places
<1>4. Local(s) /\ said'[s] = b /\ check'[s].pc = "measure"
  BY <1>2, <1>3, NoticeGoesOut
<1>5. StorageInv(s)'
  BY <1>2, <1>3, <1>4 DEF StorageInv, Standing, Counted, Quieted, Loud, KnownUnreachable, KnownLow
<1>6. AwayWhenTold(s)
  BY <1>2, <1>4 DEF AwayWhenTold
<1> QED BY <1>4, <1>5, <1>6

\* The end of a shortage is told.
LEMMA TellRoomKeeps ==
  ASSUME StoragesTyped, NEW s \in Storages, StorageInv(s), TellRoom(s)
  PROVE  Local(s) /\ StorageInv(s)' /\ AwayWhenTold(s)
<1>0. said[s] \in Books
  BY StorageTypes
<1>e. PICK e \in SUBSET Kinds : e = said[s].excused \ {"low"}
  BY <1>0 DEF Books
<1>b. [said[s] EXCEPT !.low = 0, !.excused = e] \in Books
  BY <1>0, Levels, RoomBook
<1>1. PICK b \in Books : b = [said[s] EXCEPT !.low = 0, !.excused = e]
  BY <1>b
<1>2. /\ b \in Books /\ b.low = 0 /\ b.excused = said[s].excused \ {"low"}
      /\ b.unreachable = said[s].unreachable /\ b.loud = said[s].loud
      /\ b.doubt = said[s].doubt /\ b.failed = said[s].failed
      /\ b.inherited = said[s].inherited
  BY <1>0, <1>1, <1>e DEF Books
<1>3. /\ said' = [said EXCEPT ![s] = b] /\ Goes(s, "idle") /\ "idle" \in Places
      /\ check[s].pc = "recovered" /\ UNCHANGED <<alert, misses>>
  BY <1>1, <1>e DEF TellRoom, Places
<1>4. Local(s) /\ said'[s] = b /\ check'[s].pc = "idle"
  BY <1>2, <1>3, NoticeGoesOut
<1>5. StorageInv(s)'
  BY <1>2, <1>3, <1>4 DEF StorageInv, Standing, Counted, Quieted, Loud, KnownUnreachable, KnownLow
<1>6. AwayWhenTold(s)
  BY <1>0, <1>2, <1>4 DEF AwayWhenTold, Books
<1> QED BY <1>4, <1>5, <1>6

-----------------------------------------------------------------------------
(***************************************************************************)
(* All storages. Between passes no check is under way, so that none is lost  *)
(* when the next pass begins.                                                *)
(***************************************************************************)

Quiescent == monitor # "storages" => \A s \in Storages : check[s].pc = "idle"

StoragesInv == StoragesTyped /\ Quiescent /\ \A s \in Storages : StorageInv(s)

\* What a step must leave behind.
StoragesKept == StoragesInv' /\ \A s \in Storages : AwayWhenTold(s)

\* A step of the check of one storage.
LEMMA LocalKeeps ==
  ASSUME StoragesInv, NEW s \in Storages, Local(s), StorageInv(s)', AwayWhenTold(s),
         check[s].pc # "idle", UNCHANGED monitor
  PROVE  StoragesKept
<1>1. monitor' = "storages"
  BY DEF StoragesInv, Quiescent
<1>2. ASSUME NEW t \in Storages PROVE StorageInv(t)' /\ AwayWhenTold(t)
  <2>1. CASE t = s
    BY <2>1
  <2>2. CASE t # s
    <3>1. /\ check'[t] = check[t] /\ misses'[t] = misses[t] /\ said'[t] = said[t]
          /\ alert'["low"][t] = alert["low"][t]
          /\ alert'["unreachable"][t] = alert["unreachable"][t]
      BY <2>2 DEF Local
    <3>2. StorageInv(t)'
      BY <3>1, StorageStays DEF StoragesInv
    <3>3. AwayWhenTold(t)
      BY <3>1 DEF AwayWhenTold
    <3> QED BY <3>2, <3>3
  <2> QED BY <2>1, <2>2
<1> QED BY <1>1, <1>2 DEF StoragesKept, StoragesInv, Quiescent, Local

\* A step that leaves the storages, the checks and what is known of them alone.
LEMMA StoragesStay ==
  ASSUME StoragesInv, UNCHANGED <<alert, misses, check, said>>, Quiescent'
  PROVE  StoragesKept
<1>1. ASSUME NEW s \in Storages PROVE StorageInv(s)' /\ AwayWhenTold(s)
  <2>1. StorageInv(s)'
    BY StorageStays DEF StoragesInv
  <2> QED BY <2>1 DEF AwayWhenTold
<1> QED BY <1>1 DEF StoragesKept, StoragesInv, StoragesTyped

\* A storage that takes over an id: nobody has been told of it, and what the id still
\* carries is excused.
LEMMA ReplaceKeeps ==
  ASSUME StoragesInv, NEW s \in Storages, ReplaceStorage(s)
  PROVE  StoragesKept
<1> DEFINE carried == {k \in Kinds : alert[k][s] > 0 \/ check[s].pc # "idle"}
<1>0. misses[s] \in 0 .. 2 /\ StoragesTyped /\ StorageInv(s)
  BY StorageTypes DEF StoragesInv
<1>1. PICK e \in SUBSET Kinds : e = carried
  OBVIOUS
<1>2. Quiet \in Books
  BY DEF Quiet, Books
<1>3. PICK b : b = [Quiet EXCEPT !.inherited = misses[s], !.excused = e]
  OBVIOUS
<1>4. b \in Books
  BY <1>0, <1>2, <1>3 DEF Books
<1>5. /\ b.failed = 0 /\ b.inherited = misses[s] /\ b.excused = e
      /\ b.unreachable = 0 /\ b.low = 0 /\ b.loud = {}
  BY <1>3 DEF Quiet
<1>c. PICK c : c = [check[s] EXCEPT !.gone = TRUE]
  OBVIOUS
<1>g. c \in Checks /\ c.pc = check[s].pc /\ c.level = check[s].level
  BY <1>0, <1>c, StorageTypes DEF Checks
<1>6. /\ said' = [said EXCEPT ![s] = b] /\ check' = [check EXCEPT ![s] = c]
      /\ UNCHANGED <<alert, misses, monitor>>
  BY <1>1, <1>3, <1>c DEF ReplaceStorage
<1>7. /\ said' \in [Storages -> Books] /\ said'[s] = b
      /\ \A t \in Storages \ {s} : said'[t] = said[t]
  BY <1>0, <1>4, <1>6, BookIsKept
<1>h. /\ check' \in [Storages -> Checks]
      /\ check'[s].pc = check[s].pc /\ check'[s].level = check[s].level
      /\ \A t \in Storages \ {s} : check'[t] = check[t]
  BY <1>0, <1>6, <1>g DEF StoragesTyped
<1>8. StorageInv(s)'
  <2>1. /\ "low" \notin e => alert["low"][s] <= 0
        /\ "unreachable" \notin e => alert["unreachable"][s] <= 0
    BY <1>0, <1>1, StorageTypes DEF Kinds
  <2>l. Loud(s)' = {}
    BY <1>5, <1>7 DEF Loud
  <2>2. Standing(s)' /\ Counted(s)' /\ Quieted(s)'
    BY <1>0, <1>5, <1>6, <1>7, <1>h, <2>l DEF StorageInv, Standing, Counted, Quieted
  <2>3. KnownUnreachable(s)' /\ KnownLow(s)'
    BY <1>5, <1>6, <1>7, <2>1 DEF KnownUnreachable, KnownLow
  <2> QED BY <2>2, <2>3 DEF StorageInv
<1>9. AwayWhenTold(s)
  BY <1>5, <1>7 DEF AwayWhenTold
<1>10. ASSUME NEW t \in Storages, t # s PROVE StorageInv(t)' /\ AwayWhenTold(t)
  <2>1. said'[t] = said[t] /\ check'[t] = check[t]
    BY <1>7, <1>h, <1>10
  <2>2. StorageInv(t)'
    BY <1>6, <2>1, StorageStays DEF StoragesInv
  <2> QED BY <2>1, <2>2 DEF AwayWhenTold
<1>11. Quiescent'
  BY <1>6, <1>h DEF StoragesInv, Quiescent
<1> QED BY <1>0, <1>6, <1>7, <1>h, <1>8, <1>9, <1>10, <1>11
        DEF StoragesKept, StoragesInv, StoragesTyped

\* A restart forgets the misses and the checks; a notice that was due is excused.
LEMMA RestartKeeps ==
  ASSUME StoragesInv, Restart
  PROVE  StoragesKept
<1>1. /\ UNCHANGED alert /\ monitor' = "idle"
      /\ check' = [s \in Storages |-> Idle]
      /\ misses' = [s \in Storages |-> 0]
      /\ said' = [s \in Storages |->
                    [said[s] EXCEPT !.excused = @ \union Pending(s), !.inherited = 0]]
  BY DEF Restart
<1>2. ASSUME NEW s \in Storages
      PROVE  StorageInv(s)' /\ AwayWhenTold(s) /\ said'[s] \in Books
  <2>0. said[s] \in Books /\ StorageInv(s) /\ said[s].failed \in 0 .. 2
    BY StorageTypes DEF StoragesInv, Books
  <2>1. Pending(s) \in SUBSET Kinds
    BY DEF Pending, Kinds
  <2>2. PICK e \in SUBSET Kinds : e = said[s].excused \union Pending(s)
    BY <2>0, <2>1 DEF Books
  <2>3. PICK b : b = [said[s] EXCEPT !.excused = e, !.inherited = 0]
    OBVIOUS
  <2>4. /\ b \in Books /\ b.excused = e /\ b.unreachable = said[s].unreachable
        /\ b.low = said[s].low /\ b.loud = said[s].loud /\ b.failed = said[s].failed
        /\ b.doubt = said[s].doubt /\ b.inherited = 0
    BY <2>0, <2>3, Levels DEF Books
  <2>5. said'[s] = b /\ check'[s] = Idle /\ misses'[s] = 0
    BY <1>1, <2>2, <2>3
  <2>6. check'[s].pc = "idle"
    BY <2>5 DEF Idle
  <2>7. check[s].pc = "up" \/ (check[s].pc = "tell" /\ check[s].level = 0)
          => "unreachable" \in Pending(s)
    BY DEF Pending
  <2>8. check[s].pc = "recovered" \/ (check[s].pc = "tell" /\ check[s].level > 0)
          => "low" \in Pending(s)
    BY DEF Pending
  <2>9. KnownUnreachable(s)' /\ KnownLow(s)'
    BY <1>1, <2>0, <2>2, <2>4, <2>5, <2>7, <2>8 DEF StorageInv, KnownUnreachable, KnownLow
  <2>10. Standing(s)' /\ Counted(s)' /\ Quieted(s)'
    <3>1. Standing(s)'
      BY <1>1, <2>0, <2>6 DEF StorageInv, Standing
    <3>2. Counted(s)'
      BY <2>0, <2>4, <2>5, <2>6 DEF Counted
    <3>3. Quieted(s)'
      BY <1>1, <2>0, <2>4, <2>5, <2>6 DEF StorageInv, Quieted, Loud
    <3> QED BY <3>1, <3>2, <3>3
  <2>11. AwayWhenTold(s)
    <3>1. said[s].unreachable \in 0 .. 1
      BY <2>0 DEF Books
    <3> QED BY <2>4, <2>5, <3>1 DEF AwayWhenTold
  <2> QED BY <2>4, <2>5, <2>9, <2>10, <2>11 DEF StorageInv
<1>3. Idle \in Checks /\ Idle.pc = "idle"
  BY IdleIsCheck
<1>4. said' \in [Storages -> Books]
  BY <1>1, <1>2
<1>5. check' \in [Storages -> Checks] /\ misses' \in [Storages -> 0 .. 2]
  BY <1>1, <1>3, Levels
<1>6. StoragesTyped' /\ Quiescent'
  BY <1>1, <1>3, <1>4, <1>5 DEF StoragesInv, StoragesTyped, Quiescent
<1> QED BY <1>2, <1>6 DEF StoragesKept, StoragesInv

\* A pass begins when no check is under way.
LEMMA PassBegins ==
  ASSUME StoragesInv, BeginPass
  PROVE  StoragesKept
<1>1. /\ UNCHANGED <<alert, misses, said>> /\ monitor' = "storages"
      /\ \A s \in Storages : check[s].pc = "idle"
      /\ check' = [s \in Storages |-> IF world[s].used THEN [Idle EXCEPT !.pc = "probe"] ELSE Idle]
  BY DEF BeginPass, StoragesInv, Quiescent
<1>2. /\ Idle \in Checks /\ Idle.pc = "idle"
      /\ [Idle EXCEPT !.pc = "probe"] \in Checks /\ [Idle EXCEPT !.pc = "probe"].pc = "probe"
  BY IdleIsCheck
<1>3. check' \in [Storages -> Checks]
      /\ \A s \in Storages : check'[s].pc \in {"idle", "probe"}
  BY <1>1, <1>2
<1>4. ASSUME NEW s \in Storages PROVE StorageInv(s)' /\ AwayWhenTold(s)
  <2>1. StorageInv(s)'
    BY <1>1, <1>3 DEF StoragesInv, StorageInv, Standing, Counted, Quieted, Loud, KnownUnreachable, KnownLow
  <2> QED BY <1>1, <2>1 DEF AwayWhenTold
<1> QED BY <1>1, <1>3, <1>4 DEF StoragesKept, StoragesInv, StoragesTyped, Quiescent

\* Every step keeps all of it.
LEMMA StoragesStep == StoragesInv /\ [Next]_vars => StoragesKept
<1> SUFFICES ASSUME StoragesInv, [Next]_vars PROVE StoragesKept
  OBVIOUS
<1>1. ASSUME NEW s \in Storages, \/ CheckStorage(s) \/ CannotMeasure(s) \/ JudgePartial(s)
                                 \/ StoreFails(s)
      PROVE  StoragesKept
  <2>1. StoragesTyped /\ StorageInv(s)
    BY DEF StoragesInv
  <2>2. check[s].pc # "idle" /\ UNCHANGED monitor
    BY <1>1 DEF CheckStorage, Miss, Answer, OpenUnreachable, CloseUnreachable, Judge, JudgePartial,
       Compare, OpenLow, CloseLow, Tell, TellUp, TellRoom, CannotMeasure, StoreFails
  <2>3. Local(s) /\ StorageInv(s)' /\ AwayWhenTold(s)
    BY <1>1, <2>1, MissKeeps, AnswerKeeps, OpenUnreachableKeeps, CloseUnreachableKeeps, JudgeKeeps,
       OpenLowKeeps, CloseLowKeeps, TellKeeps, TellUpKeeps, TellRoomKeeps, GivingUpKeeps
       DEF CheckStorage
  <2> QED BY <2>2, <2>3, LocalKeeps
<1>2. ASSUME NEW s \in Storages, WorldMoves(s) PROVE StoragesKept
  <2>1. UNCHANGED <<alert, misses, check, said, monitor>>
    BY <1>2 DEF WorldMoves
  <2> QED BY <2>1, StoragesStay DEF StoragesInv, Quiescent
<1>3. ASSUME NEW s \in Storages, ReplaceStorage(s) PROVE StoragesKept
  BY <1>3, ReplaceKeeps
<1>4. ASSUME NEW r \in Runs, \/ RunStarts(r) \/ RunAges(r) \/ RunEnds(r)
                             \/ PassRun(r) \/ ReportRun(r)
      PROVE  StoragesKept
  <2>1. UNCHANGED <<alert, misses, check, said, monitor>>
    BY <1>4 DEF RunStarts, RunAges, RunEnds, PassRun, ReportRun, storageVars
  <2> QED BY <2>1, StoragesStay DEF StoragesInv, Quiescent
<1>5. CASE ListRunning \/ CheckRunsFails \/ ForgetFinished \/ EndPass
  <2>1. UNCHANGED <<alert, misses, check, said>>
    BY <1>5 DEF ListRunning, CheckRunsFails, ForgetFinished, EndPass, storageVars
  <2>2. \A s \in Storages : check[s].pc = "idle"
    BY <1>5 DEF ListRunning, CheckRunsFails, ForgetFinished, EndPass, StoragesInv, Quiescent
  <2> QED BY <2>1, <2>2, StoragesStay DEF Quiescent
<1>6. CASE BeginPass
  BY <1>6, PassBegins
<1>7. CASE Restart
  BY <1>7, RestartKeeps
<1>8. CASE UNCHANGED vars
  <2>1. UNCHANGED <<alert, misses, check, said, monitor>>
    BY <1>8 DEF vars, storageVars
  <2> QED BY <2>1, StoragesStay DEF StoragesInv, Quiescent
<1> QED BY <1>1, <1>2, <1>3, <1>4, <1>5, <1>6, <1>7, <1>8 DEF Next, CheckRuns

\* It holds at the start.
LEMMA StoragesInit == Init => StoragesInv
<1> SUFFICES ASSUME Init PROVE StoragesInv
  OBVIOUS
<1>1. Idle \in Checks /\ Quiet \in Books
  BY IdleIsCheck DEF Quiet, Books
<1>2. StoragesTyped
  BY <1>1 DEF Init, StoragesTyped
<1>3. ASSUME NEW s \in Storages
      PROVE  /\ check[s].pc = "idle" /\ alert["low"][s] = 0 /\ alert["unreachable"][s] = 0
             /\ misses[s] = 0 /\ said[s] = Quiet
  BY DEF Init, Idle, Kinds
<1>4. ASSUME NEW s \in Storages PROVE StorageInv(s)
  <2>1. /\ said[s].unreachable = 0 /\ said[s].low = 0 /\ said[s].loud = {}
        /\ said[s].failed = 0 /\ said[s].inherited = 0
    BY <1>3 DEF Quiet
  <2> QED BY <1>3, <2>1 DEF StorageInv, Standing, Counted, Quieted, Loud, KnownUnreachable, KnownLow
<1> QED BY <1>2, <1>3, <1>4 DEF StoragesInv, Quiescent

-----------------------------------------------------------------------------
(***************************************************************************)
(* Slow runs. A run that was reported is remembered, or has ended where the   *)
(* monitor cannot list it any more.                                          *)
(***************************************************************************)

RunsTyped ==
  /\ row \in [Runs -> [state : {"new", "running", "ended"}, age : 0 .. MaxAge, usual : Usuals]]
  /\ slow \subseteq Runs /\ listed \subseteq live /\ live \subseteq Runs
  /\ told \in [Runs -> Nat]

RunInv(r) ==
  /\ told[r] <= 1
  /\ r \in live => row[r].state # "new"
  /\ told[r] > 0 => /\ row[r].state # "new"
                    /\ r \in slow \/ (row[r].state = "ended" /\ r \notin live)
                    /\ monitor = "runs" /\ r \notin live => row[r].state = "ended"

RunsInv == RunsTyped /\ \A r \in Runs : RunInv(r)

\* The row of one run changes.
LEMMA RunGoesOn ==
  ASSUME RunsInv, NEW r \in Runs, RunStarts(r) \/ RunAges(r) \/ RunEnds(r)
  PROVE  RunsInv'
<1>0. row[r] \in [state : {"new", "running", "ended"}, age : 0 .. MaxAge, usual : Usuals]
  BY DEF RunsInv, RunsTyped
<1>1. UNCHANGED <<slow, listed, live, told, monitor>>
  BY DEF RunStarts, RunAges, RunEnds
<1>2. \E new \in [state : {"new", "running", "ended"}, age : 0 .. MaxAge, usual : Usuals] :
         /\ row' = [row EXCEPT ![r] = new]
         /\ new.state # "new"
         /\ row[r].state # "ended"
         /\ row[r].state = "new" => new.state = "running"
  <2>1. CASE RunStarts(r)
    <3>1. PICK new : new = [row[r] EXCEPT !.state = "running"]
      OBVIOUS
    <3>2. /\ new \in [state : {"new", "running", "ended"}, age : 0 .. MaxAge, usual : Usuals]
          /\ new.state = "running"
      BY <1>0, <3>1
    <3> QED BY <2>1, <3>1, <3>2 DEF RunStarts
  <2>2. CASE RunAges(r)
    <3>1. PICK age \in 0 .. MaxAge : age = row[r].age + 1
      BY <1>0, <2>2, StorageNumbers DEF RunAges
    <3>2. PICK new : new = [row[r] EXCEPT !.age = age]
      OBVIOUS
    <3>3. /\ new \in [state : {"new", "running", "ended"}, age : 0 .. MaxAge, usual : Usuals]
          /\ new.state = "running"
      BY <1>0, <2>2, <3>2 DEF RunAges
    <3> QED BY <2>2, <3>1, <3>2, <3>3 DEF RunAges
  <2>3. CASE RunEnds(r)
    <3>1. PICK new : new = [row[r] EXCEPT !.state = "ended"]
      OBVIOUS
    <3>2. /\ new \in [state : {"new", "running", "ended"}, age : 0 .. MaxAge, usual : Usuals]
          /\ new.state = "ended"
      BY <1>0, <3>1
    <3> QED BY <2>3, <3>1, <3>2 DEF RunEnds
  <2> QED BY <2>1, <2>2, <2>3
<1>3. /\ row' \in [Runs -> [state : {"new", "running", "ended"}, age : 0 .. MaxAge, usual : Usuals]]
      /\ \A q \in Runs : q # r => row'[q] = row[q]
      /\ row'[r].state # "new" /\ row[r].state # "ended"
  BY <1>2 DEF RunsInv, RunsTyped
<1>4. ASSUME NEW q \in Runs PROVE RunInv(q)'
  <2>1. RunInv(q)
    BY DEF RunsInv
  <2>2. CASE q # r
    BY <1>1, <1>3, <2>1, <2>2 DEF RunInv
  <2>3. CASE q = r
    BY <1>1, <1>3, <2>1, <2>3 DEF RunInv
  <2> QED BY <2>2, <2>3
<1> QED BY <1>1, <1>3, <1>4 DEF RunsInv, RunsTyped

\* CheckRuns: what it lists it has seen, and what it reports it marks.
LEMMA CheckRunsKeeps ==
  ASSUME RunsInv, ListRunning \/ CheckRuns \/ CheckRunsFails
  PROVE  RunsInv'
<1>1. CASE ListRunning
  <2>1. /\ monitor' = "runs" /\ UNCHANGED <<row, slow, told>>
        /\ live' = {r \in Runs : row[r].state = "running"} /\ listed' = live'
    BY <1>1 DEF ListRunning
  <2>2. ASSUME NEW r \in Runs PROVE RunInv(r)'
    <3>1. row[r].state \in {"new", "running", "ended"}
      BY DEF RunsInv, RunsTyped
    <3> QED BY <2>1, <3>1 DEF RunsInv, RunInv
  <2> QED BY <2>1, <2>2 DEF RunsInv, RunsTyped
<1>2. ASSUME NEW r \in Runs, PassRun(r) PROVE RunsInv'
  <2>1. listed' \subseteq listed /\ UNCHANGED <<row, slow, live, told, monitor>>
    BY <1>2 DEF PassRun
  <2> QED BY <2>1 DEF RunsInv, RunsTyped, RunInv
<1>3. ASSUME NEW r \in Runs, ReportRun(r) PROVE RunsInv'
  <2>1. /\ monitor = "runs" /\ r \in live /\ r \notin slow
        /\ slow' = slow \union {r} /\ listed' \subseteq listed
        /\ UNCHANGED <<row, live, monitor>>
    BY <1>3 DEF ReportRun, RunsInv, RunsTyped
  <2>2. told[r] = 0 /\ row[r].state # "new"
    BY <2>1 DEF RunsInv, RunsTyped, RunInv
  <2>3. told' \in [Runs -> Nat] /\ told'[r] = 1 /\ \A q \in Runs : q # r => told'[q] = told[q]
    BY <1>3, <2>2 DEF ReportRun, RunsInv, RunsTyped
  <2>4. ASSUME NEW q \in Runs PROVE RunInv(q)'
    BY <2>1, <2>2, <2>3 DEF RunsInv, RunInv
  <2> QED BY <2>1, <2>3, <2>4 DEF RunsInv, RunsTyped
<1>4. CASE CheckRunsFails
  <2>1. /\ monitor = "runs" /\ monitor' = "idle" /\ listed' = {} /\ live' = {}
        /\ UNCHANGED <<row, slow, told>>
    BY <1>4 DEF CheckRunsFails
  <2> QED BY <2>1 DEF RunsInv, RunsTyped, RunInv
<1>5. CASE ForgetFinished
  <2>1. /\ monitor = "runs" /\ monitor' = "idle" /\ listed' = {} /\ live' = {}
        /\ slow' = slow \intersect live /\ UNCHANGED <<row, told>>
    BY <1>5 DEF ForgetFinished
  <2> QED BY <2>1 DEF RunsInv, RunsTyped, RunInv
<1> QED BY <1>1, <1>2, <1>3, <1>4, <1>5 DEF CheckRuns

\* The start of the daemon reaps the running runs, so none is listed again.
LEMMA ReapedAreNotListed ==
  ASSUME RunsInv, Restart
  PROVE  RunsInv'
<1> DEFINE Row == [state : {"new", "running", "ended"}, age : 0 .. MaxAge, usual : Usuals]
<1>1. /\ row' = [r \in Runs |-> [row[r] EXCEPT !.state = IF @ = "running" THEN "ended" ELSE @]]
      /\ slow' = {} /\ listed' = {} /\ live' = {} /\ monitor' = "idle" /\ UNCHANGED told
  BY DEF Restart
<1>2. ASSUME NEW r \in Runs
      PROVE  /\ row'[r] \in Row
             /\ row[r].state = "running" => row'[r].state = "ended"
             /\ row[r].state # "running" => row'[r].state = row[r].state
             /\ row[r].state \in {"new", "running", "ended"}
  <2>1. row[r] \in Row
    BY DEF RunsInv, RunsTyped
  <2>2. PICK state \in {"new", "ended"} :
           state = IF row[r].state = "running" THEN "ended" ELSE row[r].state
    BY <2>1
  <2>3. row'[r] = [row[r] EXCEPT !.state = state]
    BY <1>1, <2>2
  <2>4. [row[r] EXCEPT !.state = state] \in Row /\ [row[r] EXCEPT !.state = state].state = state
    BY <2>1
  <2> QED BY <2>1, <2>2, <2>3, <2>4
<1>3. row' \in [Runs -> Row]
  BY <1>1, <1>2
<1>4. ASSUME NEW r \in Runs PROVE RunInv(r)'
  BY <1>1, <1>2 DEF RunsInv, RunInv
<1> QED BY <1>1, <1>3, <1>4 DEF RunsInv, RunsTyped

\* Every step keeps what is true of the runs; a pass of the storages is none of the runs.
LEMMA RunsStep == RunsInv /\ [Next]_vars => RunsInv'
<1> SUFFICES ASSUME RunsInv, [Next]_vars PROVE RunsInv'
  OBVIOUS
<1>0. ASSUME UNCHANGED runVars, monitor' = "runs" => monitor = "runs" PROVE RunsInv'
  BY <1>0 DEF runVars, RunsInv, RunsTyped, RunInv
<1>1. ASSUME NEW s \in Storages, \/ CheckStorage(s) \/ CannotMeasure(s) \/ JudgePartial(s)
                                 \/ StoreFails(s) \/ WorldMoves(s) \/ ReplaceStorage(s)
      PROVE  RunsInv'
  <2>1. UNCHANGED <<runVars, monitor>>
    BY <1>1 DEF CheckStorage, Miss, Answer, OpenUnreachable, CloseUnreachable, Judge, JudgePartial,
       Compare, OpenLow, CloseLow, Tell, TellUp, TellRoom, CannotMeasure, StoreFails, WorldMoves,
       ReplaceStorage
  <2> QED BY <1>0, <2>1
<1>2. CASE BeginPass \/ EndPass
  <2>1. UNCHANGED runVars /\ monitor' # "runs"
    BY <1>2 DEF BeginPass, EndPass
  <2> QED BY <1>0, <2>1
<1>3. CASE UNCHANGED vars
  BY <1>0, <1>3 DEF vars
<1>4. ASSUME NEW r \in Runs, RunStarts(r) \/ RunAges(r) \/ RunEnds(r) PROVE RunsInv'
  BY <1>4, RunGoesOn
<1> QED BY <1>1, <1>2, <1>3, <1>4, CheckRunsKeeps, ReapedAreNotListed DEF Next

\* It holds at the start.
LEMMA RunsInit == Init => RunsInv
BY StorageNumbers DEF Init, RunsInv, RunsTyped, RunInv

-----------------------------------------------------------------------------
\* The rest of the types: the world, the goroutine and the bounds.
RestTyped ==
  /\ world \in [Storages -> [used : BOOLEAN, up : BOOLEAN, free : Frees, round : Rounds]]
  /\ monitor \in {"idle", "storages", "runs"}
  /\ budget \in [moves : 0 .. MaxMoves, faults : 0 .. MaxFailures, restarts : 0 .. MaxRestarts]

\* What was spent stays within the bounds.
LEMMA SpendTyped ==
  ASSUME RestTyped, NEW what \in {"moves", "faults", "restarts"}, Spend(what)
  PROVE  budget' \in [moves : 0 .. MaxMoves, faults : 0 .. MaxFailures, restarts : 0 .. MaxRestarts]
<1>1. budget[what] \in Nat /\ budget[what] > 0
  BY StorageNumbers DEF RestTyped, Spend
<1>2. PICK n \in Nat : n = budget[what] - 1 /\ n <= budget[what]
  BY <1>1
<1>3. budget' = [budget EXCEPT ![what] = n]
  BY <1>2 DEF Spend
<1> QED BY <1>2, <1>3, StorageNumbers DEF RestTyped

\* Every step keeps them.
LEMMA RestStep == RestTyped /\ [Next]_vars => RestTyped'
<1> SUFFICES ASSUME RestTyped, [Next]_vars PROVE RestTyped'
  OBVIOUS
<1>1. ASSUME NEW s \in Storages, WorldMoves(s) PROVE RestTyped'
  <2>0. world[s] \in [used : BOOLEAN, up : BOOLEAN, free : Frees, round : Rounds]
    BY DEF RestTyped
  <2>1. world' \in [Storages -> [used : BOOLEAN, up : BOOLEAN, free : Frees, round : Rounds]]
    <3>1. CASE world' = [world EXCEPT ![s].used = ~@]
      <4>1. PICK b \in BOOLEAN : b = ~world[s].used
        OBVIOUS
      <4>2. world' = [world EXCEPT ![s].used = b]
        BY <3>1, <4>1
      <4> QED BY <4>2 DEF RestTyped
    <3>2. CASE world' = [world EXCEPT ![s].up = ~@]
      <4>1. PICK b \in BOOLEAN : b = ~world[s].up
        OBVIOUS
      <4>2. world' = [world EXCEPT ![s].up = b]
        BY <3>2, <4>1
      <4> QED BY <4>2 DEF RestTyped
    <3>3. CASE \E free \in Frees : world' = [world EXCEPT ![s].free = free]
      BY <3>3 DEF RestTyped
    <3>4. CASE \E round \in Rounds : world' = [world EXCEPT ![s].round = round]
      BY <3>4 DEF RestTyped
    <3> QED BY <1>1, <3>1, <3>2, <3>3, <3>4 DEF WorldMoves
  <2>2. Spend("moves") /\ UNCHANGED monitor
    BY <1>1 DEF WorldMoves
  <2> QED BY <2>1, <2>2, SpendTyped DEF RestTyped
<1>2. ASSUME NEW s \in Storages, ReplaceStorage(s) PROVE RestTyped'
  <2>1. PICK free \in Frees :
           world' = [world EXCEPT ![s].used = TRUE, ![s].up = TRUE, ![s].free = free]
    BY <1>2 DEF ReplaceStorage
  <2>2. world' \in [Storages -> [used : BOOLEAN, up : BOOLEAN, free : Frees, round : Rounds]]
    BY <2>1, ZenonT(60) DEF RestTyped
  <2> QED BY <1>2, <2>2 DEF ReplaceStorage, RestTyped
<1>3. ASSUME NEW s \in Storages, StoreFails(s) \/ JudgePartial(s) PROVE RestTyped'
  <2>1. Spend("faults") /\ UNCHANGED <<world, monitor>>
    BY <1>3 DEF StoreFails, JudgePartial, Compare
  <2> QED BY <2>1, SpendTyped DEF RestTyped
<1>4. ASSUME NEW s \in Storages, CheckStorage(s) \/ CannotMeasure(s) PROVE RestTyped'
  <2>1. UNCHANGED <<world, monitor, budget>>
    BY <1>4 DEF CheckStorage, Miss, Answer, OpenUnreachable, CloseUnreachable, Judge, Compare,
       OpenLow, CloseLow, Tell, TellUp, TellRoom, CannotMeasure
  <2> QED BY <2>1 DEF RestTyped
<1>5. ASSUME NEW r \in Runs, \/ RunStarts(r) \/ RunAges(r) \/ RunEnds(r)
                             \/ PassRun(r) \/ ReportRun(r)
      PROVE  RestTyped'
  <2>1. UNCHANGED <<world, monitor, budget>>
    BY <1>5 DEF RunStarts, RunAges, RunEnds, PassRun, ReportRun, storageVars
  <2> QED BY <2>1 DEF RestTyped
<1>6. CASE ListRunning \/ ForgetFinished \/ BeginPass \/ EndPass
  <2>1. UNCHANGED <<world, budget>> /\ monitor' \in {"idle", "storages", "runs"}
    BY <1>6 DEF ListRunning, ForgetFinished, BeginPass, EndPass, storageVars
  <2> QED BY <2>1 DEF RestTyped
<1>7. CASE CheckRunsFails \/ Restart
  <2>1. UNCHANGED world /\ monitor' = "idle" /\ (Spend("faults") \/ Spend("restarts"))
    BY <1>7 DEF CheckRunsFails, Restart, storageVars
  <2> QED BY <2>1, SpendTyped DEF RestTyped
<1>8. CASE UNCHANGED vars
  BY <1>8 DEF vars, storageVars, RestTyped
<1> QED BY <1>1, <1>2, <1>3, <1>4, <1>5, <1>6, <1>7, <1>8 DEF Next, CheckRuns

\* They hold at the start.
LEMMA RestInit == Init => RestTyped
<1> SUFFICES ASSUME Init PROVE RestTyped
  OBVIOUS
<1>1. budget \in [moves : 0 .. MaxMoves, faults : 0 .. MaxFailures, restarts : 0 .. MaxRestarts]
  BY StorageNumbers DEF Init
<1>2. world \in [Storages -> [used : BOOLEAN, up : BOOLEAN, free : Frees, round : Rounds]]
  BY DEF Init
<1> QED BY <1>1, <1>2 DEF Init, RestTyped

-----------------------------------------------------------------------------
\* Storages, runs, goroutine and notices keep their types (alert_state, Monitor).
THEOREM StorageAlertsTypes == Spec => []TypeOK
<1>1. StoragesInv /\ RunsInv /\ RestTyped => TypeOK
  BY DEF StoragesInv, StoragesTyped, RunsInv, RunsTyped, RestTyped, TypeOK, Checks, Places, Books,
     lowCritical, unreachableAfter
<1>2. StoragesInv /\ [Next]_vars => StoragesInv'
  BY StoragesStep DEF StoragesKept
<1> QED BY <1>1, <1>2, StoragesInit, RunsInit, RunsStep, RestInit, RestStep, PTL DEF Spec

\* What is known of every storage is what its rows say.
LEMMA KnownAreTold == StoragesInv => EpisodesAreTold
<1> SUFFICES ASSUME StoragesInv, NEW s \in Storages,
                    NEW k \in Kinds \ (said[s].excused \union Pending(s))
             PROVE  /\ alert[k][s] <= said[s][k]
                    /\ said[s][k] > 0 => alert[k][s] > 0
  BY DEF EpisodesAreTold
<1>1. StorageInv(s) /\ check[s].level \in 0 .. 2
  BY StorageTypes DEF StoragesInv, Checks
<1>2. CASE k = "unreachable"
  <2>1. ~(check[s].pc = "up" \/ (check[s].pc = "tell" /\ check[s].level = 0))
    BY <1>2 DEF Pending
  <2> QED BY <1>1, <1>2, <2>1 DEF StorageInv, KnownUnreachable
<1>3. CASE k = "low"
  <2>1. ~(check[s].pc = "recovered" \/ (check[s].pc = "tell" /\ check[s].level > 0))
    BY <1>1, <1>3 DEF Pending
  <2> QED BY <1>1, <1>3, <2>1 DEF StorageInv, KnownLow
<1> QED BY <1>2, <1>3 DEF Kinds

\* People know of every open episode of every storage, and of no other, with any number
\* of storages, store calls that fail, and checks that go on side by side; a restart
\* between row and notice and a storage that takes over an id are the exceptions
\* (monitor.go:289-298, 304-311, 323-346).
THEOREM EpisodesAreKnown == Spec => []EpisodesAreTold
<1>1. StoragesInv /\ [Next]_vars => StoragesInv'
  BY StoragesStep DEF StoragesKept
<1> QED BY <1>1, KnownAreTold, StoragesInit, PTL DEF Spec

\* Whatever the sizes, the thresholds' rounds and the order of probes, notices and
\* restarts: nobody is told of a blip, nor twice of a level that no check found left with
\* room to spare; misses that come with an id and rounds read in part are the exceptions
\* (monitor.go:57-59, 268-303, 350-372).
THEOREM NobodyIsWokenForNothing == Spec => NoFalseAlarm
<1>1. StoragesInv /\ [Next]_vars => StoragesInv'
  BY StoragesStep DEF StoragesKept
<1>2. StoragesInv /\ [Next]_vars => \A s \in Storages : AwayWhenTold(s) /\ LeftBeforeToldAgain(s)
  <2> SUFFICES ASSUME StoragesInv, [Next]_vars, NEW s \in Storages
               PROVE  AwayWhenTold(s) /\ LeftBeforeToldAgain(s)
    OBVIOUS
  <2>1. AwayWhenTold(s)
    BY StoragesStep DEF StoragesKept
  <2>2. LeftBeforeToldAgain(s)
    <3> SUFFICES ASSUME NEW level \in {lowWarn, lowCritical}, Tell(s), check[s].level = level
                 PROVE  level \notin said[s].loud \ said[s].doubt
      BY DEF LeftBeforeToldAgain
    <3>1. check[s].pc = "tell" /\ level \in {1, 2}
      BY DEF Tell, lowWarn, lowCritical
    <3>2. \A l \in said[s].loud \ said[s].doubt : l < level
      BY <3>1 DEF StoragesInv, StorageInv, Quieted, Loud
    <3> QED BY <3>1, <3>2
  <2> QED BY <2>1, <2>2
<1> QED BY <1>1, <1>2, StoragesInit, PTL DEF Spec, NoFalseAlarm

\* A run is reported as slow once, for any number of runs: it is remembered until a pass
\* has not listed it, and a run that was reaped or ended is not listed again
\* (monitor.go:142-203).
THEOREM SlowRunsAreToldOnce == Spec => []SlowRunIsToldOnce
<1>1. RunsInv => SlowRunIsToldOnce
  BY DEF RunsInv, RunInv, SlowRunIsToldOnce
<1> QED BY <1>1, RunsInit, RunsStep, PTL DEF Spec

================================================================================
