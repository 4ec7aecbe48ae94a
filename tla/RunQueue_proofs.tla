--------------------------- MODULE RunQueue_proofs ---------------------------
(***************************************************************************)
(* Theorems about the run queue, for any number of workers, command-line    *)
(* processes, tasks, runs, retries, restarts and store errors.              *)
(***************************************************************************)
EXTENDS RunQueue, FiniteSetTheorems, TLAPS

ProcRecords == [pc : PCs, run : Runs \cup {0}, task : Tasks \cup {0}, attempt : Nat]

-----------------------------------------------------------------------------
\* What the helpers of the model preserve.

\* A process that moves to another step keeps a well-typed record.
LEMMA GotoType ==
  ASSUME TypeOK, NEW p \in Procs, NEW pc \in PCs, Goto(p, pc)
  PROVE  proc' \in [Procs -> ProcRecords]
BY DEF TypeOK, Goto, ProcRecords

\* A process that is done has the idle record.
LEMMA LeaveType ==
  ASSUME TypeOK, NEW p \in Procs, Leave(p)
  PROVE  proc' \in [Procs -> ProcRecords]
BY DEF TypeOK, Leave, NoProc, PCs, ProcRecords

\* Finish with a status of the schema keeps the rows well typed.
LEMMA FinishType ==
  ASSUME TypeOK, NEW r, NEW s \in Statuses, Finish(r, s)
  PROVE  /\ status' \in [Runs -> Statuses]
         /\ UNCHANGED <<taskOf, attempt, catalog, told>>
BY DEF TypeOK, Finish

\* So does an insert.
LEMMA InsertType ==
  ASSUME TypeOK, NEW t \in Tasks, NEW s \in Statuses, NEW n \in Nat, NEW r \in Runs,
         InsertRun(t, s, n, r)
  PROVE  /\ status' \in [Runs -> Statuses]
         /\ taskOf' \in [Runs -> Tasks \cup {0}]
         /\ attempt' \in [Runs -> Nat]
         /\ UNCHANGED <<catalog, told>>
BY DEF TypeOK, InsertRun

\* A notice adds to what was told of a run.
LEMMA TellType ==
  ASSUME TypeOK, NEW r, NEW n \in Notices, Tell(r, n)
  PROVE  told' \in [Runs -> SUBSET Notices]
BY DEF TypeOK, Tell

\* A store error is counted within its bound.
LEMMA FaultType ==
  ASSUME TypeOK, Fault
  PROVE  faults' \in 0 .. MaxFaults
BY BoundsAssumption DEF TypeOK, Fault

\* A crash or a shutdown is counted within its bound.
LEMMA RestartType ==
  ASSUME TypeOK, restarts < MaxRestarts, restarts' = restarts + 1
  PROVE  restarts' \in 0 .. MaxRestarts
BY BoundsAssumption DEF TypeOK

-----------------------------------------------------------------------------
\* Type correctness.

LEMMA InitTypeOK == Init => TypeOK
BY BoundsAssumption DEF Init, TypeOK, Statuses, PCs, NoProc

LEMMA DaemonTypeOK ==
  ASSUME TypeOK, Daemon
  PROVE  TypeOK'
<1>1. CASE Startup
  BY <1>1 DEF TypeOK, Startup, Statuses
<1>2. ASSUME NEW r \in Runs, ReportInterrupted(r)
      PROVE  TypeOK'
  <2>1. told' \in [Runs -> SUBSET Notices]
    BY <1>2, TellType DEF ReportInterrupted, Notices
  <2> QED
    BY <1>2, <2>1 DEF TypeOK, ReportInterrupted
<1>3. CASE EngineRun
  BY <1>3 DEF TypeOK, EngineRun, rows
<1>4. CASE Shutdown
  BY <1>4, RestartType DEF TypeOK, Shutdown, rows
<1>5. CASE Drained
  BY <1>5 DEF TypeOK, Drained, rows
<1>6. CASE Crash
  <2>1. restarts' \in 0 .. MaxRestarts
    BY <1>6, RestartType DEF Crash
  <2>2. proc' \in [Procs -> ProcRecords]
    BY <1>6 DEF TypeOK, Crash, NoProc, PCs, ProcRecords
  <2> QED
    BY <1>6, <2>1, <2>2 DEF TypeOK, Crash, rows, ProcRecords
<1> QED
  BY <1>1, <1>2, <1>3, <1>4, <1>5, <1>6 DEF Daemon

LEMMA RequestTypeOK ==
  ASSUME TypeOK, Request
  PROVE  TypeOK'
<1>1. ASSUME NEW S \in SUBSET tasks, TickLists(S)
      PROVE  TypeOK'
  BY <1>1 DEF TypeOK, TickLists, rows
<1>2. ASSUME NEW t \in Tasks, TickSkips(t)
      PROVE  TypeOK'
  BY <1>2 DEF TypeOK, TickSkips, rows
<1>3. ASSUME NEW t \in Tasks, NEW r \in Runs, TickEnqueues(t, r)
      PROVE  TypeOK'
  <2>1. InsertRun(t, "queued", 1, r)
    BY <1>3 DEF TickEnqueues
  <2> QED
    BY <1>3, <2>1, InsertType DEF TypeOK, TickEnqueues, Statuses
<1>4. ASSUME NEW t \in Tasks, NEW r \in Runs, RunNow(t, r)
      PROVE  TypeOK'
  <2>1. InsertRun(t, "queued", 1, r)
    BY <1>4 DEF RunNow
  <2> QED
    BY <1>4, <2>1, InsertType DEF TypeOK, RunNow, Statuses
<1> QED
  BY <1>1, <1>2, <1>3, <1>4 DEF Request

LEMMA WorkerTypeOK ==
  ASSUME TypeOK, NEW w \in Workers, Worker(w)
  PROVE  TypeOK'
<1> w \in Procs
  BY DEF Procs
<1>1. CASE LoadTask(w)
  <2>1. proc' \in [Procs -> ProcRecords]
    BY <1>1, GotoType DEF LoadTask, PCs
  <2> QED
    BY <1>1, <2>1 DEF TypeOK, LoadTask, rows, ProcRecords
<1>2. CASE LoadTaskFails(w)
  <2>1. proc' \in [Procs -> ProcRecords]
    BY <1>2, LeaveType DEF LoadTaskFails
  <2>2. faults' \in 0 .. MaxFaults
    BY <1>2, FaultType DEF LoadTaskFails, TypeOK
  <2>3. /\ status' \in [Runs -> Statuses]
        /\ UNCHANGED <<taskOf, attempt, catalog, told>>
    BY <1>2, FinishType DEF LoadTaskFails, Statuses
  <2> QED
    BY <1>2, <2>1, <2>2, <2>3 DEF TypeOK, LoadTaskFails, ProcRecords
<1>3. CASE Succeeded(w)
  <2>1. proc' \in [Procs -> ProcRecords]
    BY <1>3, LeaveType DEF Succeeded
  <2>2. told' \in [Runs -> SUBSET Notices]
    BY <1>3, TellType DEF Succeeded, Notices
  <2> QED
    BY <1>3, <2>1, <2>2 DEF TypeOK, Succeeded, ProcRecords
<1>4. CASE FailedTerminally(w)
  <2>1. proc' \in [Procs -> ProcRecords]
    BY <1>4, LeaveType DEF FailedTerminally
  <2>2. told' \in [Runs -> SUBSET Notices]
    BY <1>4, TellType DEF FailedTerminally, Notices
  <2> QED
    BY <1>4, <2>1, <2>2 DEF TypeOK, FailedTerminally, ProcRecords
<1>5. CASE RequeueRefused(w)
  <2>1. proc' \in [Procs -> ProcRecords]
    BY <1>5, LeaveType DEF RequeueRefused
  <2>2. faults' \in 0 .. MaxFaults
    BY <1>5, FaultType DEF RequeueRefused, TypeOK
  <2> QED
    BY <1>5, <2>1, <2>2 DEF TypeOK, RequeueRefused, rows, ProcRecords
<1>6. ASSUME NEW r \in Runs, ClaimNext(w, r)
      PROVE  TypeOK'
  <2>1. proc' \in [Procs -> ProcRecords]
    BY <1>6 DEF TypeOK, ClaimNext, PCs, ProcRecords
  <2> QED
    BY <1>6, <2>1 DEF TypeOK, ClaimNext, Statuses, ProcRecords
<1>7. ASSUME NEW r \in Runs, Requeue(w, r)
      PROVE  TypeOK'
  <2>1. proc' \in [Procs -> ProcRecords]
    BY <1>7, LeaveType DEF Requeue
  <2>2. InsertRun(proc[w].task, "queued", proc[w].attempt + 1, r)
    BY <1>7 DEF Requeue
  <2>3. proc[w].task \in Tasks /\ proc[w].attempt + 1 \in Nat
    BY <2>2 DEF TypeOK, InsertRun, Insertable
  <2>4. /\ status' \in [Runs -> Statuses]
        /\ taskOf' \in [Runs -> Tasks \cup {0}]
        /\ attempt' \in [Runs -> Nat]
        /\ UNCHANGED <<catalog, told>>
    BY <2>2, <2>3, InsertType DEF Statuses
  <2> QED
    BY <1>7, <2>1, <2>4 DEF TypeOK, Requeue, ProcRecords
<1>8. CASE LoadFailureNotRecorded(w)
  <2>1. proc' \in [Procs -> ProcRecords]
    BY <1>8, LeaveType DEF LoadFailureNotRecorded
  <2>2. faults' \in 0 .. MaxFaults
    BY <1>8, FaultType DEF LoadFailureNotRecorded, TypeOK
  <2> QED
    BY <1>8, <2>1, <2>2 DEF TypeOK, LoadFailureNotRecorded, rows, ProcRecords
<1> QED
  BY <1>1, <1>2, <1>3, <1>4, <1>5, <1>6, <1>7, <1>8 DEF Worker

\* The executor's type correctness needs one more fact: a process that is busy
\* knows a run and a task.
BusyHasRun ==
  \A p \in Procs : proc[p].pc # "idle" => proc[p].run \in Runs /\ proc[p].task \in Tasks

LEMMA ExecuteTypeOK ==
  ASSUME TypeOK, BusyHasRun, NEW p \in Procs, Execute(p)
  PROVE  TypeOK'
<1>1. CASE DumpStored(p)
  <2>1. proc' \in [Procs -> ProcRecords]
    BY <1>1, GotoType DEF DumpStored, PCs
  <2> QED
    BY <1>1, <2>1 DEF TypeOK, DumpStored, rows, ProcRecords
<1>2. CASE DumpFails(p)
  <2>1. proc' \in [Procs -> ProcRecords]
    BY <1>2, GotoType DEF DumpFails, PCs
  <2>2. /\ status' \in [Runs -> Statuses]
        /\ UNCHANGED <<taskOf, attempt, catalog, told>>
    BY <1>2, FinishType DEF DumpFails, Statuses
  <2> QED
    BY <1>2, <2>1, <2>2 DEF TypeOK, DumpFails, ProcRecords
<1>3. CASE FailureNotRecorded(p)
  <2>1. proc' \in [Procs -> ProcRecords]
    BY <1>3, GotoType DEF FailureNotRecorded, PCs
  <2>2. faults' \in 0 .. MaxFaults
    BY <1>3, FaultType DEF FailureNotRecorded
  <2> QED
    BY <1>3, <2>1, <2>2 DEF TypeOK, FailureNotRecorded, rows, ProcRecords
<1>4. CASE InsertArtifact(p)
  <2>1. proc' \in [Procs -> ProcRecords]
    BY <1>4, GotoType DEF InsertArtifact, PCs
  <2>2. catalog' \in [Runs -> SUBSET Tasks]
    BY <1>4 DEF TypeOK, BusyHasRun, InsertArtifact
  <2> QED
    BY <1>4, <2>1, <2>2 DEF TypeOK, InsertArtifact, ProcRecords
<1>5. CASE InsertArtifactFails(p)
  <2>1. proc' \in [Procs -> ProcRecords]
    BY <1>5, GotoType DEF InsertArtifactFails, PCs
  <2>2. /\ status' \in [Runs -> Statuses]
        /\ UNCHANGED <<taskOf, attempt, catalog, told>>
    BY <1>5, FinishType DEF InsertArtifactFails, Statuses
  <2>3. faults' \in 0 .. MaxFaults
    BY <1>5, FaultType DEF InsertArtifactFails, TypeOK
  <2> QED
    BY <1>5, <2>1, <2>2, <2>3 DEF TypeOK, InsertArtifactFails, ProcRecords
<1>6. CASE FinishSuccess(p)
  <2>1. proc' \in [Procs -> ProcRecords]
    BY <1>6, GotoType DEF FinishSuccess, PCs
  <2>2. /\ status' \in [Runs -> Statuses]
        /\ UNCHANGED <<taskOf, attempt, catalog, told>>
    BY <1>6, FinishType DEF FinishSuccess, Statuses
  <2> QED
    BY <1>6, <2>1, <2>2 DEF TypeOK, FinishSuccess, ProcRecords
<1>7. CASE FinishSuccessFails(p)
  <2>1. proc' \in [Procs -> ProcRecords]
    BY <1>7, GotoType DEF FinishSuccessFails, PCs
  <2>2. /\ status' \in [Runs -> Statuses]
        /\ UNCHANGED <<taskOf, attempt, catalog, told>>
    BY <1>7, FinishType DEF FinishSuccessFails, Statuses
  <2>3. faults' \in 0 .. MaxFaults
    BY <1>7, FaultType DEF FinishSuccessFails
  <2> QED
    BY <1>7, <2>1, <2>2, <2>3 DEF TypeOK, FinishSuccessFails, ProcRecords
<1> QED
  BY <1>1, <1>2, <1>3, <1>4, <1>5, <1>6, <1>7 DEF Execute

LEMMA CliTypeOK ==
  ASSUME TypeOK, NEW c \in Clis, Cli(c)
  PROVE  TypeOK'
<1> c \in Procs
  BY DEF Procs
<1>1. CASE CliExits(c)
  <2>1. proc' \in [Procs -> ProcRecords]
    BY <1>1, LeaveType DEF CliExits
  <2> QED
    BY <1>1, <2>1 DEF TypeOK, CliExits, rows, ProcRecords
<1>2. ASSUME NEW t \in Tasks, NEW r \in Runs, StartManualRun(c, t, r)
      PROVE  TypeOK'
  <2>1. InsertRun(t, "running", 1, r)
    BY <1>2 DEF StartManualRun
  <2>2. /\ status' \in [Runs -> Statuses]
        /\ taskOf' \in [Runs -> Tasks \cup {0}]
        /\ attempt' \in [Runs -> Nat]
        /\ UNCHANGED <<catalog, told>>
    BY <2>1, InsertType DEF Statuses
  <2>3. proc' \in [Procs -> ProcRecords]
    BY <1>2 DEF TypeOK, StartManualRun, PCs, ProcRecords
  <2> QED
    BY <1>2, <2>2, <2>3 DEF TypeOK, StartManualRun, ProcRecords
<1> QED
  BY <1>1, <1>2 DEF Cli

LEMMA DeleteTypeOK ==
  ASSUME TypeOK, NEW d \in Deleters, Delete(d)
  PROVE  TypeOK'
<1>1. CASE DeleteTask(d)
  BY <1>1 DEF TypeOK, DeleteTask, Statuses
<1>2. ASSUME NEW t \in Tasks, DeleteTaskChecks(d, t)
      PROVE  TypeOK'
  BY <1>2 DEF TypeOK, DeleteTaskChecks, rows
<1> QED
  BY <1>1, <1>2 DEF Delete

LEMMA NextTypeOK ==
  ASSUME TypeOK, BusyHasRun, [Next]_vars
  PROVE  TypeOK'
<1>1. ASSUME NEW t \in Tasks, CreateTask(t)
      PROVE  TypeOK'
  BY <1>1 DEF TypeOK, CreateTask, rows
<1>2. CASE UNCHANGED vars
  BY <1>2 DEF TypeOK, vars
<1> QED
  BY <1>1, <1>2, DaemonTypeOK, RequestTypeOK, WorkerTypeOK, ExecuteTypeOK, CliTypeOK,
     DeleteTypeOK DEF Next

-----------------------------------------------------------------------------
\* What a step may do to the rows.  Every action is one of three: it writes
\* statuses without making any row active, it inserts a row the constraints let
\* through, or it deletes a task with its rows.

ActiveStatuses == {"queued", "running"}

Settles ==
  /\ UNCHANGED taskOf
  /\ tasks \subseteq tasks'
  /\ \A r \in Runs :
       /\ status'[r] = "none" <=> status[r] = "none"
       /\ status'[r] \in ActiveStatuses => status[r] \in ActiveStatuses

Inserts ==
  /\ UNCHANGED tasks
  /\ \E t \in Tasks, r \in Runs, s \in ActiveStatuses, n \in Nat : InsertRun(t, s, n, r)

Cascades == \E d \in Deleters : DeleteTask(d)

\* Finish with an end status settles.
LEMMA FinishSettles ==
  ASSUME TypeOK, NEW r, NEW s \in {"success", "failed"}, Finish(r, s), UNCHANGED tasks
  PROVE  Settles
BY DEF TypeOK, Finish, Settles, ActiveStatuses, Statuses

LEMMA StepShapes ==
  ASSUME TypeOK, [Next]_vars
  PROVE  Settles \/ Inserts \/ Cascades
<1>1. CASE Daemon
  <2>1. CASE Startup
    BY <2>1 DEF Startup, Settles, TypeOK, ActiveStatuses
  <2>2. CASE Shutdown \/ EngineRun \/ Drained \/ Crash
    BY <2>2 DEF Shutdown, EngineRun, Drained, Crash, rows, Settles
  <2>3. ASSUME NEW r \in Runs, ReportInterrupted(r)
        PROVE  Settles
    BY <2>3 DEF ReportInterrupted, Settles
  <2> QED
    BY <1>1, <2>1, <2>2, <2>3 DEF Daemon
<1>2. CASE Request
  <2>1. ASSUME NEW S \in SUBSET tasks, TickLists(S)
        PROVE  Settles
    BY <2>1 DEF TickLists, rows, Settles
  <2>2. ASSUME NEW t \in Tasks, TickSkips(t)
        PROVE  Settles
    BY <2>2 DEF TickSkips, rows, Settles
  <2>3. ASSUME NEW t \in Tasks, NEW r \in Runs, TickEnqueues(t, r) \/ RunNow(t, r)
        PROVE  Inserts
    BY <2>3 DEF TickEnqueues, RunNow, Inserts, ActiveStatuses
  <2> QED
    BY <1>2, <2>1, <2>2, <2>3 DEF Request
<1>3. ASSUME NEW w \in Workers, Worker(w)
      PROVE  Settles \/ Inserts
  <2>1. CASE LoadTask(w) \/ RequeueRefused(w) \/ LoadFailureNotRecorded(w)
    BY <2>1 DEF LoadTask, RequeueRefused, LoadFailureNotRecorded, rows, Settles
  <2>2. CASE Succeeded(w) \/ FailedTerminally(w)
    BY <2>2 DEF Succeeded, FailedTerminally, Settles
  <2>3. CASE LoadTaskFails(w)
    BY <2>3, FinishSettles DEF LoadTaskFails
  <2>4. ASSUME NEW r \in Runs, ClaimNext(w, r)
        PROVE  Settles
    BY <2>4 DEF ClaimNext, OldestQueued, Settles, TypeOK, ActiveStatuses
  <2>5. ASSUME NEW r \in Runs, Requeue(w, r)
        PROVE  Inserts
    <3> w \in Procs
      BY DEF Procs
    <3>1. InsertRun(proc[w].task, "queued", proc[w].attempt + 1, r)
      BY <2>5 DEF Requeue
    <3>2. proc[w].task \in Tasks /\ proc[w].attempt + 1 \in Nat
      BY <3>1 DEF TypeOK, InsertRun, Insertable
    <3> QED
      BY <2>5, <3>1, <3>2 DEF Requeue, Inserts, ActiveStatuses
  <2> QED
    BY <1>3, <2>1, <2>2, <2>3, <2>4, <2>5 DEF Worker
<1>4. ASSUME NEW p \in Procs, Execute(p)
      PROVE  Settles
  <2>1. CASE DumpStored(p) \/ FailureNotRecorded(p) \/ InsertArtifact(p)
    BY <2>1 DEF DumpStored, FailureNotRecorded, InsertArtifact, rows, Settles
  <2>2. CASE DumpFails(p) \/ InsertArtifactFails(p) \/ FinishSuccess(p) \/ FinishSuccessFails(p)
    BY <2>2, FinishSettles DEF DumpFails, InsertArtifactFails, FinishSuccess, FinishSuccessFails
  <2> QED
    BY <1>4, <2>1, <2>2 DEF Execute
<1>5. ASSUME NEW c \in Clis, Cli(c)
      PROVE  Settles \/ Inserts
  <2>1. CASE CliExits(c)
    BY <2>1 DEF CliExits, rows, Settles
  <2>2. ASSUME NEW t \in Tasks, NEW r \in Runs, StartManualRun(c, t, r)
        PROVE  Inserts
    BY <2>2 DEF StartManualRun, Inserts, ActiveStatuses
  <2> QED
    BY <1>5, <2>1, <2>2 DEF Cli
<1>6. ASSUME NEW d \in Deleters, Delete(d)
      PROVE  Settles \/ Cascades
  <2>1. ASSUME NEW t \in Tasks, DeleteTaskChecks(d, t)
        PROVE  Settles
    BY <2>1 DEF DeleteTaskChecks, rows, Settles
  <2> QED
    BY <1>6, <2>1 DEF Delete, Cascades
<1>7. ASSUME NEW t \in Tasks, CreateTask(t)
      PROVE  Settles
  BY <1>7 DEF CreateTask, rows, Settles
<1>8. CASE UNCHANGED vars
  BY <1>8 DEF vars, Settles
<1> QED
  BY <1>1, <1>2, <1>3, <1>4, <1>5, <1>6, <1>7, <1>8 DEF Next

-----------------------------------------------------------------------------
\* Runs have tasks, and the processes know theirs.

LEMMA NextNoOrphanRuns ==
  ASSUME TypeOK, NoOrphanRuns, [Next]_vars
  PROVE  NoOrphanRuns'
<1>1. CASE Settles
  BY <1>1 DEF Settles, NoOrphanRuns, Present
<1>2. CASE Inserts
  BY <1>2 DEF Inserts, InsertRun, Insertable, NoOrphanRuns, Present, TypeOK
<1>3. CASE Cascades
  BY <1>3 DEF Cascades, DeleteTask, NoOrphanRuns, Present, TypeOK
<1> QED
  BY <1>1, <1>2, <1>3, StepShapes

LEMMA NextBusyHasRun ==
  ASSUME TypeOK, NoOrphanRuns, BusyHasRun, [Next]_vars
  PROVE  BusyHasRun'
<1>1. ASSUME UNCHANGED proc
      PROVE  BusyHasRun'
  BY <1>1 DEF BusyHasRun
<1>2. ASSUME NEW p \in Procs, Leave(p)
      PROVE  BusyHasRun'
  BY <1>2 DEF BusyHasRun, Leave, NoProc, TypeOK
<1>3. ASSUME NEW p \in Procs, NEW pc \in PCs, proc[p].pc # "idle", Goto(p, pc)
      PROVE  BusyHasRun'
  BY <1>3 DEF BusyHasRun, Goto, TypeOK
<1>4. CASE Daemon
  <2>1. CASE Crash
    BY <2>1 DEF Crash, BusyHasRun, NoProc, TypeOK
  <2>2. CASE ~Crash
    BY <1>1, <1>4, <2>2
    DEF Daemon, Startup, ReportInterrupted, EngineRun, Shutdown, Drained
  <2> QED
    BY <2>1, <2>2
<1>5. CASE Request
  BY <1>1, <1>5 DEF Request, TickLists, TickSkips, TickEnqueues, RunNow
<1>6. ASSUME NEW w \in Workers, Worker(w)
      PROVE  BusyHasRun'
  <2> w \in Procs
    BY DEF Procs
  <2>1. CASE LoadTask(w)
    BY <2>1, <1>3 DEF LoadTask, PCs
  <2>2. CASE \/ LoadTaskFails(w) \/ LoadFailureNotRecorded(w)
             \/ Succeeded(w) \/ FailedTerminally(w) \/ RequeueRefused(w)
    BY <2>2, <1>2 DEF LoadTaskFails, LoadFailureNotRecorded, Succeeded, FailedTerminally,
       RequeueRefused
  <2>3. ASSUME NEW r \in Runs, Requeue(w, r)
        PROVE  BusyHasRun'
    BY <2>3, <1>2 DEF Requeue
  <2>4. ASSUME NEW r \in Runs, ClaimNext(w, r)
        PROVE  BusyHasRun'
    <3>1. taskOf[r] \in Tasks
      BY <2>4 DEF ClaimNext, OldestQueued, NoOrphanRuns, Present, TypeOK
    <3> QED
      BY <2>4, <3>1 DEF ClaimNext, BusyHasRun, TypeOK
  <2> QED
    BY <1>6, <2>1, <2>2, <2>3, <2>4 DEF Worker
<1>7. ASSUME NEW p \in Procs, Execute(p)
      PROVE  BusyHasRun'
  BY <1>3, <1>7 DEF Execute, DumpStored, DumpFails, FailureNotRecorded, InsertArtifact,
     InsertArtifactFails, FinishSuccess, FinishSuccessFails, PCs
<1>8. ASSUME NEW c \in Clis, Cli(c)
      PROVE  BusyHasRun'
  <2> c \in Procs
    BY DEF Procs
  <2>1. CASE CliExits(c)
    BY <2>1, <1>2 DEF CliExits
  <2>2. ASSUME NEW t \in Tasks, NEW r \in Runs, StartManualRun(c, t, r)
        PROVE  BusyHasRun'
    BY <2>2 DEF StartManualRun, BusyHasRun, TypeOK
  <2> QED
    BY <1>8, <2>1, <2>2 DEF Cli
<1>9. ASSUME NEW d \in Deleters, Delete(d)
      PROVE  BusyHasRun'
  BY <1>1, <1>9 DEF Delete, DeleteTask, DeleteTaskChecks
<1>10. ASSUME NEW t \in Tasks, CreateTask(t)
       PROVE  BusyHasRun'
  BY <1>1, <1>10 DEF CreateTask
<1>11. CASE UNCHANGED vars
  BY <1>1, <1>11 DEF vars
<1> QED
  BY <1>4, <1>5, <1>6, <1>7, <1>8, <1>9, <1>10, <1>11 DEF Next

\* The inductive invariant behind type correctness.
WellFormed == TypeOK /\ NoOrphanRuns /\ BusyHasRun

LEMMA WellFormedInvariant == Spec => []WellFormed
<1>1. Init => WellFormed
  BY InitTypeOK DEF Init, WellFormed, NoOrphanRuns, Present, BusyHasRun, NoProc
<1>2. WellFormed /\ [Next]_vars => WellFormed'
  BY NextTypeOK, NextNoOrphanRuns, NextBusyHasRun DEF WellFormed
<1> QED
  BY <1>1, <1>2, PTL DEF Spec

\* Every variable keeps its type: the rows, the processes' copies of them, the
\* daemon's working sets and the counters within their bounds.
THEOREM TypeCorrectness == Spec => []TypeOK
<1>1. WellFormed => TypeOK
  BY DEF WellFormed
<1> QED
  BY <1>1, WellFormedInvariant, PTL

\* The foreign key and the cascade keep every run row with a task that exists,
\* whoever deletes and creates tasks meanwhile.
THEOREM ReferentialIntegrity == Spec => []NoOrphanRuns
<1>1. WellFormed => NoOrphanRuns
  BY DEF WellFormed
<1> QED
  BY <1>1, WellFormedInvariant, PTL

-----------------------------------------------------------------------------
\* At most one active run per task.

LEMMA NextOneActive ==
  ASSUME TypeOK, OneActivePerTask, [Next]_vars
  PROVE  OneActivePerTask'
<1>1. CASE Settles
  BY <1>1 DEF Settles, OneActivePerTask, ActiveStatuses
<1>2. CASE Inserts
  <2>1. PICK t \in Tasks, r \in Runs, s \in ActiveStatuses, n \in Nat : InsertRun(t, s, n, r)
    BY <1>2 DEF Inserts
  <2>2. \A q \in Runs : status[q] \in ActiveStatuses => taskOf[q] # t
    BY <2>1 DEF InsertRun, Insertable, Active, ActiveStatuses
  <2>3. ASSUME NEW q \in Runs, q # r
        PROVE  status'[q] = status[q] /\ taskOf'[q] = taskOf[q]
    BY <2>1, <2>3 DEF InsertRun, TypeOK
  <2>4. taskOf'[r] = t
    BY <2>1 DEF InsertRun, TypeOK
  <2> QED
    BY <2>2, <2>3, <2>4 DEF OneActivePerTask, ActiveStatuses
<1>3. CASE Cascades
  BY <1>3 DEF Cascades, DeleteTask, OneActivePerTask, TypeOK
<1> QED
  BY <1>1, <1>2, <1>3, StepShapes

\* The partial unique index holds against every writer at once: ticks, "run now",
\* retries, the command line, the reap, deletions and restarts.
THEOREM OneActive == Spec => []OneActivePerTask
<1>1. Init => OneActivePerTask
  BY DEF Init, OneActivePerTask
<1>2. TypeOK /\ OneActivePerTask /\ [Next]_vars => OneActivePerTask'
  BY NextOneActive
<1> QED
  BY <1>1, <1>2, TypeCorrectness, PTL DEF Spec

-----------------------------------------------------------------------------
\* A worker owns the row of the run it works on, provided no task is deleted.

\* No worker works while the daemon is down or still reporting.
Quiet == daemon \in {"down", "starting"} => \A w \in Workers : proc[w].pc = "idle"

\* A run somebody works on has left the queue.
InFlight == \A p \in Procs : proc[p].pc \in Working => status[proc[p].run] \notin {"none", "queued"}

\* A worker's run is running and of the worker's task.
WorkerRow ==
  \A w \in Workers : proc[w].pc \in Working =>
    /\ status[proc[w].run] = "running"
    /\ taskOf[proc[w].run] = proc[w].task

\* No two processes work on one run.
Distinct ==
  \A p, q \in Procs :
    proc[p].pc \in Working /\ proc[q].pc \in Working /\ proc[p].run = proc[q].run => p = q

Ownership == Quiet /\ InFlight /\ WorkerRow /\ Distinct

\* Ownership carries over a step in which nobody starts to work and the rows of
\* those who go on working stay as they are.
LEMMA CarryOwnership ==
  ASSUME WellFormed, Ownership, Quiet',
         \A p \in Procs : proc'[p].pc \in Working =>
           /\ proc[p].pc \in Working
           /\ proc'[p].run = proc[p].run
           /\ proc'[p].task = proc[p].task
           /\ status'[proc[p].run] = status[proc[p].run]
           /\ taskOf'[proc[p].run] = taskOf[proc[p].run]
  PROVE  Ownership'
<1>1. InFlight'
  BY DEF Ownership, InFlight
<1>2. WorkerRow'
  BY DEF Ownership, WorkerRow, Procs
<1>3. Distinct'
  BY DEF Ownership, Distinct
<1> QED
  BY <1>1, <1>2, <1>3 DEF Ownership

\* An insert takes an unused row and leaves the others alone.
LEMMA InsertIsFresh ==
  ASSUME TypeOK, NEW t, NEW s, NEW n, NEW r \in Runs, InsertRun(t, s, n, r)
  PROVE  /\ status[r] = "none"
         /\ \A q \in Runs : status[q] # "none" =>
              q # r /\ status'[q] = status[q] /\ taskOf'[q] = taskOf[q]
<1>1. r \notin Present
  BY BoundsAssumption DEF InsertRun, IsNextRowid, Runs, Present
<1> QED
  BY <1>1 DEF Present, InsertRun, TypeOK

\* Moving between steps of which the second is not work, or leaving, makes
\* nobody start to work.
LEMMA GotoOrLeave ==
  ASSUME TypeOK, NEW p \in Procs, NEW pc \in PCs, Goto(p, pc) \/ Leave(p)
  PROVE  /\ \A q \in Procs : q # p => proc'[q] = proc[q]
         /\ Goto(p, pc) => proc'[p].pc = pc /\ proc'[p].run = proc[p].run
                           /\ proc'[p].task = proc[p].task
         /\ Leave(p) => proc'[p].pc = "idle"
BY DEF TypeOK, Goto, Leave, NoProc

\* A process that ends its own run touches nobody else's.
LEMMA EndCarriesOwnership ==
  ASSUME WellFormed, Ownership, NEW p \in Procs, proc[p].pc \in Working,
         NEW s \in Statuses, Finish(proc[p].run, s),
         NEW pc \in PCs \ Working, Goto(p, pc) \/ Leave(p),
         UNCHANGED daemon
  PROVE  Ownership'
<1>1. \A q \in Procs : q # p => proc'[q] = proc[q]
  BY GotoOrLeave DEF WellFormed
<1>2. proc'[p].pc \notin Working
  BY GotoOrLeave DEF WellFormed, Working
<1>3. ASSUME NEW q \in Procs, proc'[q].pc \in Working
      PROVE  /\ proc[q].pc \in Working
             /\ proc'[q] = proc[q]
             /\ status'[proc[q].run] = status[proc[q].run]
             /\ UNCHANGED taskOf
  <2>1. q # p /\ proc[q].pc \in Working /\ proc'[q] = proc[q]
    BY <1>1, <1>2, <1>3
  <2>2. proc[q].run # proc[p].run /\ proc[q].run \in Runs
    BY <2>1 DEF Ownership, Distinct, WellFormed, BusyHasRun, Working
  <2> QED
    BY <2>1, <2>2 DEF Finish
<1>4. Quiet'
  <2>1. daemon \notin {"down", "starting"} \/ p \notin Workers
    BY DEF Ownership, Quiet, Working
  <2> QED
    BY <2>1, <1>1 DEF Ownership, Quiet, Procs
<1> QED
  BY <1>3, <1>4, CarryOwnership

\* A process that moves on within its work, or whose work was over, keeps
\* everybody's ownership.
LEMMA MoveCarriesOwnership ==
  ASSUME WellFormed, Ownership, NEW p \in Procs, proc[p].pc # "idle",
         NEW pc \in PCs, Goto(p, pc) \/ Leave(p),
         Goto(p, pc) => proc[p].pc \in Working,
         UNCHANGED <<status, taskOf, daemon>>
  PROVE  Ownership'
<1>1. \A q \in Procs : proc'[q].pc \in Working =>
        /\ proc[q].pc \in Working
        /\ proc'[q].run = proc[q].run
        /\ proc'[q].task = proc[q].task
  BY GotoOrLeave DEF WellFormed, Working
<1>2. Quiet'
  BY GotoOrLeave DEF WellFormed, Ownership, Quiet, Procs
<1> QED
  BY <1>1, <1>2, CarryOwnership

LEMMA DaemonOwnership ==
  ASSUME WellFormed, Ownership, Daemon
  PROVE  Ownership'
<1>1. CASE Startup
  <2>1. \A w \in Workers : proc[w].pc = "idle"
    BY <1>1 DEF Startup, Ownership, Quiet
  <2>2. Quiet' /\ WorkerRow'
    BY <1>1, <2>1 DEF Startup, Quiet, WorkerRow, Working
  <2>3. InFlight'
    BY <1>1 DEF Startup, Ownership, InFlight, WellFormed, TypeOK, BusyHasRun, Working
  <2>4. Distinct'
    BY <1>1 DEF Startup, Ownership, Distinct
  <2> QED
    BY <2>2, <2>3, <2>4 DEF Ownership
<1>2. CASE Crash
  <2>1. \A p \in Procs : proc'[p].pc \in Working => proc'[p] = proc[p] /\ proc[p].pc \in Working
    BY <1>2 DEF Crash, NoProc, Working
  <2>2. Quiet'
    BY <1>2 DEF Crash, Quiet, NoProc, Procs
  <2> QED
    BY <1>2, <2>1, <2>2, CarryOwnership DEF Crash, rows
<1>3. ASSUME UNCHANGED <<status, taskOf, proc>>, Quiet'
      PROVE  Ownership'
  BY <1>3, CarryOwnership
<1>4. CASE EngineRun \/ Shutdown \/ Drained
  BY <1>3, <1>4 DEF EngineRun, Shutdown, Drained, rows, Quiet
<1>5. ASSUME NEW r \in Runs, ReportInterrupted(r)
      PROVE  Ownership'
  BY <1>3, <1>5 DEF ReportInterrupted, Ownership, Quiet
<1> QED
  BY <1>1, <1>2, <1>4, <1>5 DEF Daemon

LEMMA RequestOwnership ==
  ASSUME WellFormed, Ownership, Request
  PROVE  Ownership'
<1>1. ASSUME UNCHANGED <<status, taskOf, proc, daemon>>
      PROVE  Ownership'
  BY <1>1, CarryOwnership DEF Ownership, Quiet
<1>2. ASSUME NEW t \in Tasks, NEW r \in Runs, InsertRun(t, "queued", 1, r),
             UNCHANGED <<proc, daemon>>
      PROVE  Ownership'
  <2>1. \A p \in Procs : proc[p].pc \in Working =>
          /\ status'[proc[p].run] = status[proc[p].run]
          /\ taskOf'[proc[p].run] = taskOf[proc[p].run]
    BY <1>2, InsertIsFresh DEF WellFormed, BusyHasRun, Ownership, InFlight, Working
  <2> QED
    BY <1>2, <2>1, CarryOwnership DEF Ownership, Quiet
<1>3. ASSUME NEW S \in SUBSET tasks, TickLists(S)
      PROVE  Ownership'
  BY <1>1, <1>3 DEF TickLists, rows
<1>4. ASSUME NEW t \in Tasks, TickSkips(t)
      PROVE  Ownership'
  BY <1>1, <1>4 DEF TickSkips, rows
<1>5. ASSUME NEW t \in Tasks, NEW r \in Runs, TickEnqueues(t, r) \/ RunNow(t, r)
      PROVE  Ownership'
  BY <1>2, <1>5 DEF TickEnqueues, RunNow
<1> QED
  BY <1>3, <1>4, <1>5 DEF Request

LEMMA WorkerOwnership ==
  ASSUME WellFormed, Ownership, NEW w \in Workers, Worker(w)
  PROVE  Ownership'
<1> w \in Procs
  BY DEF Procs
<1>1. CASE LoadTask(w)
  BY <1>1, MoveCarriesOwnership DEF LoadTask, rows, PCs, Working
<1>2. CASE LoadTaskFails(w)
  <2>1. Finish(proc[w].run, "failed") /\ Leave(w) /\ UNCHANGED daemon
    BY <1>2 DEF LoadTaskFails
  <2>2. proc[w].pc \in Working /\ "idle" \in PCs \ Working
    BY <1>2 DEF LoadTaskFails, PCs, Working
  <2> QED
    BY <2>1, <2>2, EndCarriesOwnership DEF Statuses
<1>3. CASE \/ Succeeded(w) \/ FailedTerminally(w) \/ RequeueRefused(w)
         \/ LoadFailureNotRecorded(w)
  <2>1. proc[w].pc # "idle" /\ Leave(w)
    BY <1>3 DEF Succeeded, FailedTerminally, RequeueRefused, LoadFailureNotRecorded
  <2>2. UNCHANGED <<status, taskOf, daemon>>
    BY <1>3 DEF Succeeded, FailedTerminally, RequeueRefused, LoadFailureNotRecorded, rows
  <2>3. ~Goto(w, "failed")
    BY <2>1 DEF WellFormed, TypeOK, Goto, Leave, NoProc
  <2> QED
    BY <2>1, <2>2, <2>3, MoveCarriesOwnership DEF PCs
<1>4. ASSUME NEW r \in Runs, Requeue(w, r)
      PROVE  Ownership'
  <2>1. Leave(w) /\ UNCHANGED daemon
    BY <1>4 DEF Requeue
  <2>2. \A q \in Runs : status[q] # "none" => status'[q] = status[q] /\ taskOf'[q] = taskOf[q]
    BY <1>4, InsertIsFresh DEF Requeue, WellFormed
  <2>3. \A p \in Procs : proc'[p].pc \in Working => proc'[p] = proc[p]
    BY <2>1 DEF WellFormed, TypeOK, Leave, NoProc, Working
  <2>4. Quiet'
    BY <2>1 DEF WellFormed, TypeOK, Leave, NoProc, Ownership, Quiet, Procs
  <2> QED
    BY <2>2, <2>3, <2>4, CarryOwnership DEF WellFormed, BusyHasRun, Ownership, InFlight, Working
<1>5. ASSUME NEW r \in Runs, ClaimNext(w, r)
      PROVE  Ownership'
  <2>1. \A p \in Procs : p # w => proc'[p] = proc[p]
    BY <1>5 DEF ClaimNext, WellFormed, TypeOK
  <2>2. proc'[w] = [pc |-> "claimed", run |-> r, task |-> taskOf[r], attempt |-> attempt[r]]
    BY <1>5 DEF ClaimNext, WellFormed, TypeOK
  <2>3. \A p \in Procs : proc[p].pc \in Working => proc[p].run # r /\ proc[p].run \in Runs
    BY <1>5 DEF ClaimNext, OldestQueued, Ownership, InFlight, WellFormed, BusyHasRun, Working
  <2>4. status'[r] = "running" /\ \A q \in Runs : q # r => status'[q] = status[q]
    BY <1>5 DEF ClaimNext, WellFormed, TypeOK
  <2>5. UNCHANGED taskOf
    BY <1>5 DEF ClaimNext
  <2>6. Quiet'
    BY <1>5 DEF ClaimNext, Quiet
  <2>7. InFlight'
    BY <2>1, <2>2, <2>3, <2>4 DEF Ownership, InFlight
  <2>8. WorkerRow'
    BY <2>1, <2>2, <2>3, <2>4, <2>5 DEF Ownership, WorkerRow, Procs
  <2>9. Distinct'
    BY <2>1, <2>2, <2>3 DEF Ownership, Distinct
  <2> QED
    BY <2>6, <2>7, <2>8, <2>9 DEF Ownership
<1> QED
  BY <1>1, <1>2, <1>3, <1>4, <1>5 DEF Worker

LEMMA ExecuteOwnership ==
  ASSUME WellFormed, Ownership, NEW p \in Procs, Execute(p)
  PROVE  Ownership'
<1>1. CASE DumpStored(p) \/ InsertArtifact(p)
  BY <1>1, MoveCarriesOwnership DEF DumpStored, InsertArtifact, rows, PCs, Working
<1>2. CASE FailureNotRecorded(p)
  BY <1>2, MoveCarriesOwnership DEF FailureNotRecorded, rows, PCs, Working
<1>3. CASE DumpFails(p) \/ InsertArtifactFails(p) \/ FinishSuccessFails(p)
  <2>1. Finish(proc[p].run, "failed") /\ Goto(p, "failed") /\ UNCHANGED daemon
    BY <1>3 DEF DumpFails, InsertArtifactFails, FinishSuccessFails
  <2>2. proc[p].pc \in Working
    BY <1>3 DEF DumpFails, InsertArtifactFails, FinishSuccessFails, Working
  <2> QED
    BY <2>1, <2>2, EndCarriesOwnership DEF Statuses, PCs, Working
<1>4. CASE FinishSuccess(p)
  <2>1. Finish(proc[p].run, "success") /\ Goto(p, "succeeded") /\ UNCHANGED daemon
    BY <1>4 DEF FinishSuccess
  <2>2. proc[p].pc \in Working
    BY <1>4 DEF FinishSuccess, Working
  <2> QED
    BY <2>1, <2>2, EndCarriesOwnership DEF Statuses, PCs, Working
<1> QED
  BY <1>1, <1>2, <1>3, <1>4 DEF Execute

LEMMA CliOwnership ==
  ASSUME WellFormed, Ownership, NEW c \in Clis, Cli(c)
  PROVE  Ownership'
<1> c \in Procs /\ c \notin Workers
  BY ProcsAssumption DEF Procs
<1>1. CASE CliExits(c)
  <2>1. \A p \in Procs : proc'[p].pc \in Working => proc'[p] = proc[p]
    BY <1>1 DEF CliExits, WellFormed, TypeOK, Leave, NoProc, Working
  <2>2. Quiet'
    BY <1>1 DEF CliExits, WellFormed, TypeOK, Leave, Ownership, Quiet, Procs
  <2> QED
    BY <1>1, <2>1, <2>2, CarryOwnership DEF CliExits, rows
<1>2. ASSUME NEW t \in Tasks, NEW r \in Runs, StartManualRun(c, t, r)
      PROVE  Ownership'
  <2>1. InsertRun(t, "running", 1, r)
    BY <1>2 DEF StartManualRun
  <2>2. \A p \in Procs : p # c => proc'[p] = proc[p]
    BY <1>2 DEF StartManualRun, WellFormed, TypeOK
  <2>3. proc'[c] = [pc |-> "dumping", run |-> r, task |-> t, attempt |-> 1]
    BY <1>2 DEF StartManualRun, WellFormed, TypeOK
  <2>4. status'[r] = "running"
    BY <2>1 DEF InsertRun, WellFormed, TypeOK
  <2>5. \A p \in Procs : proc[p].pc \in Working =>
          /\ proc[p].run # r
          /\ status'[proc[p].run] = status[proc[p].run]
          /\ taskOf'[proc[p].run] = taskOf[proc[p].run]
    BY <2>1, InsertIsFresh DEF WellFormed, BusyHasRun, Ownership, InFlight, Working
  <2>6. Quiet'
    BY <1>2, <2>2 DEF StartManualRun, Ownership, Quiet, Procs
  <2>7. InFlight'
    BY <2>2, <2>3, <2>4, <2>5 DEF Ownership, InFlight
  <2>8. WorkerRow'
    BY <2>2, <2>5 DEF Ownership, WorkerRow, Procs
  <2>9. Distinct'
    BY <2>2, <2>3, <2>5 DEF Ownership, Distinct
  <2> QED
    BY <2>6, <2>7, <2>8, <2>9 DEF Ownership
<1> QED
  BY <1>1, <1>2 DEF Cli

LEMMA NextOwnership ==
  ASSUME Deleters = {}, WellFormed, Ownership, [Next]_vars
  PROVE  Ownership'
<1>1. ASSUME UNCHANGED <<status, taskOf, proc, daemon>>
      PROVE  Ownership'
  BY <1>1, CarryOwnership DEF Ownership, Quiet
<1>2. ASSUME NEW t \in Tasks, CreateTask(t)
      PROVE  Ownership'
  BY <1>1, <1>2 DEF CreateTask, rows
<1>3. CASE UNCHANGED vars
  BY <1>1, <1>3 DEF vars
<1> QED
  BY <1>2, <1>3, DaemonOwnership, RequestOwnership, WorkerOwnership, ExecuteOwnership,
     CliOwnership DEF Next

LEMMA OwnershipInvariant ==
  ASSUME Deleters = {}
  PROVE  Spec => []Ownership
<1>1. Init => Ownership
  BY DEF Init, Ownership, Quiet, InFlight, WorkerRow, Distinct, NoProc, Working, Procs
<1>2. WellFormed /\ Ownership /\ [Next]_vars => Ownership'
  BY NextOwnership
<1> QED
  BY <1>1, <1>2, WellFormedInvariant, PTL DEF Spec

\* As long as no task is deleted, a worker's run stays its own, with any number
\* of command-line runs beside the pool and any number of restarts, and no two
\* workers dump one task: the reap happens only when no worker is alive, every
\* Finish hits the caller's own row, and two runs of one task are never active.
THEOREM WorkersOwnTheirRuns ==
  ASSUME Deleters = {}
  PROVE  Spec => []RowOwned
<1>1. WellFormed /\ Ownership /\ OneActivePerTask => RowOwned
  <2> SUFFICES ASSUME WellFormed, Ownership, OneActivePerTask
               PROVE  RowOwned
    OBVIOUS
  <2>1. ASSUME NEW w \in Workers, proc[w].pc \in Working
        PROVE  /\ proc[w].run \in Runs
               /\ status[proc[w].run] = "running"
               /\ taskOf[proc[w].run] = proc[w].task
    BY <2>1 DEF WellFormed, BusyHasRun, Ownership, WorkerRow, Working, Procs
  <2>2. OneExecutor(Workers)
    <3> SUFFICES ASSUME NEW v \in Workers, NEW w \in Workers,
                        proc[v].pc \in Working, proc[w].pc \in Working,
                        proc[v].task = proc[w].task
                 PROVE  v = w
      BY DEF OneExecutor
    <3>1. proc[v].run = proc[w].run
      BY <2>1 DEF OneActivePerTask
    <3> QED
      BY <3>1 DEF Ownership, Distinct, Procs
  <2> QED
    BY <2>1, <2>2 DEF RowOwned
<1> QED
  BY <1>1, WellFormedInvariant, OwnershipInvariant, OneActive, PTL

-----------------------------------------------------------------------------
\* Ends are final.

LEMMA NextTerminal ==
  ASSUME Deleters = {}, Clis = {}, WellFormed, Ownership, [Next]_vars,
         NEW r \in Runs, status[r] \in {"success", "failed"}
  PROVE  status'[r] = status[r]
<1>1. ASSUME NEW p \in Procs, NEW s, proc[p].pc \in Working, Finish(proc[p].run, s)
      PROVE  status'[r] = status[r]
  BY <1>1 DEF Procs, Ownership, WorkerRow, Finish
<1>2. ASSUME NEW t, NEW s, NEW n, NEW q \in Runs, InsertRun(t, s, n, q)
      PROVE  status'[r] = status[r]
  BY <1>2, InsertIsFresh DEF WellFormed
<1>3. CASE Daemon
  <2>1. CASE Startup
    BY <2>1 DEF Startup, WellFormed, TypeOK
  <2> QED
    BY <1>3, <2>1 DEF Daemon, ReportInterrupted, EngineRun, Shutdown, Drained, Crash, rows
<1>4. CASE Request
  BY <1>2, <1>4 DEF Request, TickLists, TickSkips, TickEnqueues, RunNow, rows
<1>5. ASSUME NEW w \in Workers, Worker(w)
      PROVE  status'[r] = status[r]
  <2>1. CASE LoadTaskFails(w)
    BY <2>1, <1>1 DEF LoadTaskFails, Working, Procs
  <2>2. ASSUME NEW q \in Runs, Requeue(w, q)
        PROVE  status'[r] = status[r]
    BY <2>2, <1>2 DEF Requeue
  <2>3. ASSUME NEW q \in Runs, ClaimNext(w, q)
        PROVE  status'[r] = status[r]
    BY <2>3 DEF ClaimNext, OldestQueued, WellFormed, TypeOK
  <2> QED
    BY <1>5, <2>1, <2>2, <2>3
    DEF Worker, LoadTask, LoadFailureNotRecorded, Succeeded, FailedTerminally,
        RequeueRefused, rows
<1>6. ASSUME NEW p \in Procs, Execute(p)
      PROVE  status'[r] = status[r]
  <2>1. CASE DumpFails(p) \/ InsertArtifactFails(p) \/ FinishSuccess(p) \/ FinishSuccessFails(p)
    BY <2>1, <1>1
    DEF DumpFails, InsertArtifactFails, FinishSuccess, FinishSuccessFails, Working
  <2> QED
    BY <1>6, <2>1 DEF Execute, DumpStored, FailureNotRecorded, InsertArtifact, rows
<1>7. ASSUME NEW t \in Tasks, CreateTask(t)
      PROVE  status'[r] = status[r]
  BY <1>7 DEF CreateTask, rows
<1>8. CASE UNCHANGED vars
  BY <1>8 DEF vars
<1> QED
  BY <1>3, <1>4, <1>5, <1>6, <1>7, <1>8 DEF Next

\* In a daemon without command-line runs and deletions, no retry, reap or late
\* write changes how a run ended.
THEOREM EndsAreFinal ==
  ASSUME Deleters = {}, Clis = {}
  PROVE  Spec => TerminalIsFinal
<1>1. WellFormed /\ Ownership /\ [Next]_vars =>
        [\A r \in Runs : status[r] \in {"success", "failed"} => status'[r] = status[r]]_vars
  BY NextTerminal
<1> QED
  BY <1>1, WellFormedInvariant, OwnershipInvariant, PTL DEF Spec, TerminalIsFinal

-----------------------------------------------------------------------------
\* The queue implements TaskSlots.

\* What the proof needs of the reachable states.
Implementing == WellFormed /\ Ownership /\ OneActivePerTask /\ RowOwned

LEMMA ImplementingInvariant ==
  ASSUME Deleters = {}
  PROVE  Spec => []Implementing
BY WellFormedInvariant, OwnershipInvariant, OneActive, WorkersOwnTheirRuns, PTL
DEF Implementing

\* What a task's slot shows, told from its active row.
LEMMA SlotShows ==
  ASSUME TypeOK, OneActivePerTask, NEW t \in Tasks
  PROVE  /\ Slot(t) = "free" <=> ~Active(t)
         /\ \A r \in Runs : taskOf[r] = t /\ status[r] \in ActiveStatuses => Slot(t) = status[r]
BY DEF Slot, Active, OneActivePerTask, ActiveStatuses

\* A worker at work on t is t's only holder, and t's slot is taken.
LEMMA WorkerHolds ==
  ASSUME Implementing, NEW w \in Workers, proc[w].pc \in Working
  PROVE  /\ proc[w].task \in Tasks
         /\ proc[w].run \in Runs
         /\ taskOf[proc[w].run] = proc[w].task
         /\ Holders(proc[w].task) = {w}
         /\ Slot(proc[w].task) = "running"
<1>1. /\ proc[w].task \in Tasks
      /\ proc[w].run \in Runs
      /\ taskOf[proc[w].run] = proc[w].task
      /\ status[proc[w].run] = "running"
  BY DEF Implementing, RowOwned, WellFormed, BusyHasRun, Working, Procs
<1>2. Holders(proc[w].task) = {w}
  BY DEF Holders, Implementing, RowOwned, OneExecutor
<1>3. Slot(proc[w].task) = "running"
  BY <1>1, SlotShows DEF Implementing, WellFormed, ActiveStatuses
<1> QED
  BY <1>1, <1>2, <1>3

\* Steps that change neither rows nor who works on what are stutters.
LEMMA Stutters ==
  ASSUME UNCHANGED <<status, taskOf>>,
         \A w \in Workers :
           /\ proc'[w].pc \in Working <=> proc[w].pc \in Working
           /\ proc'[w].pc \in Working => proc'[w].task = proc[w].task
  PROVE  UNCHANGED Slots!vars
<1>1. ASSUME NEW t \in Tasks
      PROVE  Slot(t)' = Slot(t)
  BY DEF Slot
<1>2. ASSUME NEW t \in Tasks
      PROVE  Holders(t)' = Holders(t)
  BY DEF Holders
<1> QED
  BY <1>1, <1>2 DEF Slots!vars

\* A queued row for a task is a request for its slot.
LEMMA InsertRequests ==
  ASSUME Implementing, NEW t \in Tasks, NEW n, NEW r \in Runs,
         InsertRun(t, "queued", n, r),
         \A u \in Tasks : Holders(u)' = Holders(u)
  PROVE  Slots!Request(t)
<1>1. ~Active(t)
  BY DEF InsertRun, Insertable
<1>2. Slot(t) = "free"
  BY <1>1, SlotShows DEF Implementing, WellFormed
<1>3. taskOf'[r] = t /\ status'[r] = "queued"
  BY DEF InsertRun, Implementing, WellFormed, TypeOK
<1>4. Slot(t)' = "queued"
  BY <1>3 DEF Slot
<1>5. ASSUME NEW u \in Tasks, u # t
      PROVE  Slot(u)' = Slot(u)
  <2>1. \A q \in Runs : q # r => status'[q] = status[q] /\ taskOf'[q] = taskOf[q]
    BY DEF InsertRun, Implementing, WellFormed, TypeOK
  <2>2. status[r] = "none"
    BY InsertIsFresh DEF Implementing, WellFormed
  <2> QED
    BY <1>3, <1>5, <2>1, <2>2 DEF Slot
<1> QED
  BY <1>2, <1>4, <1>5 DEF Slots!Request

\* The worker that ends its run gives the slot back.
LEMMA EndGivesBack ==
  ASSUME Implementing, NEW w \in Workers, proc[w].pc \in Working,
         NEW s \in {"success", "failed"}, Finish(proc[w].run, s),
         NEW pc \in PCs \ Working, Goto(w, pc) \/ Leave(w)
  PROVE  \E t \in Tasks : Slots!GiveBack(t, w)
<1> SUFFICES ASSUME NEW t \in Tasks, t = proc[w].task,
                    NEW r \in Runs, r = proc[w].run
             PROVE  Slots!GiveBack(t, w)
  BY WorkerHolds
<1>1. taskOf[r] = t /\ Holders(t) = {w} /\ Slot(t) = "running"
  BY WorkerHolds
<1>2. \A q \in Procs : q # w => proc'[q] = proc[q]
  BY GotoOrLeave DEF Implementing, WellFormed, Procs
<1>3. proc'[w].pc \notin Working
  BY GotoOrLeave DEF Implementing, WellFormed, Procs, Working
<1>4. Holders(t)' = {}
  BY <1>1, <1>2, <1>3 DEF Holders, Procs
<1>5. ASSUME NEW u \in Tasks, u # t
      PROVE  Holders(u)' = Holders(u) /\ Slot(u)' = Slot(u)
  <2>1. Holders(u)' = Holders(u)
    BY <1>2, <1>3, <1>5 DEF Holders, Procs
  <2>2. Slot(u)' = Slot(u)
    BY <1>1, <1>5 DEF Slot, Finish
  <2> QED
    BY <2>1, <2>2
<1>6. Slot(t)' = "free"
  <2>1. status[r] = "running"
    BY DEF Implementing, RowOwned
  <2>2. \A q \in Runs : taskOf[q] = t /\ q # r => status[q] \notin ActiveStatuses
    BY <1>1, <2>1 DEF Implementing, OneActivePerTask, ActiveStatuses
  <2>3. \A q \in Runs : taskOf'[q] = t => status'[q] \notin ActiveStatuses
    BY <2>1, <2>2 DEF Finish, ActiveStatuses
  <2> QED
    BY <2>3 DEF Slot, ActiveStatuses
<1> QED
  BY <1>1, <1>4, <1>5, <1>6 DEF Slots!GiveBack

\* The worker whose last write is lost abandons the slot.
LEMMA LostWriteAbandons ==
  ASSUME Implementing, NEW w \in Workers,
         FailureNotRecorded(w) \/ LoadFailureNotRecorded(w)
  PROVE  \E t \in Tasks : Slots!Abandon(t, w)
<1>0. (Goto(w, "failed") \/ Leave(w)) /\ UNCHANGED rows
  BY DEF FailureNotRecorded, LoadFailureNotRecorded
<1>1. proc[w].pc \in Working
  BY DEF FailureNotRecorded, LoadFailureNotRecorded, Working
<1> SUFFICES ASSUME NEW t \in Tasks, t = proc[w].task
             PROVE  Slots!Abandon(t, w)
  BY <1>1, WorkerHolds
<1>2. Holders(t) = {w}
  BY <1>1, WorkerHolds
<1>3. \A q \in Procs : q # w => proc'[q] = proc[q]
  BY <1>0, GotoOrLeave DEF Implementing, WellFormed, Procs, PCs
<1>4. proc'[w].pc \notin Working
  BY <1>0, GotoOrLeave DEF Implementing, WellFormed, Procs, PCs, Working
<1>5. Holders(t)' = {}
  BY <1>2, <1>3, <1>4 DEF Holders, Procs
<1>6. ASSUME NEW u \in Tasks, u # t
      PROVE  Holders(u)' = Holders(u)
  BY <1>3, <1>4, <1>6 DEF Holders, Procs
<1>7. ASSUME NEW u \in Tasks
      PROVE  Slot(u)' = Slot(u)
  BY <1>0 DEF Slot, rows
<1> QED
  BY <1>2, <1>5, <1>6, <1>7 DEF Slots!Abandon

\* A claim takes the slot of the claimed run's task.
LEMMA ClaimTakes ==
  ASSUME Implementing, NEW w \in Workers, NEW r \in Runs, ClaimNext(w, r)
  PROVE  \E t \in Tasks : Slots!Take(t, w)
<1> USE DEF Implementing, WellFormed
<1>1. taskOf[r] \in Tasks /\ status[r] = "queued"
  BY DEF ClaimNext, OldestQueued, NoOrphanRuns, Present, TypeOK
<1> SUFFICES ASSUME NEW t \in Tasks, t = taskOf[r]
             PROVE  Slots!Take(t, w)
  BY <1>1
<1>2. Slot(t) = "queued"
  BY <1>1, SlotShows DEF ActiveStatuses
<1>3. Holders(t) = {}
  <2>1. \A v \in Workers : proc[v].pc \in Working => proc[v].task # t
    BY <1>2, WorkerHolds
  <2> QED
    BY <2>1 DEF Holders
<1>4. \A u \in Tasks : w \notin Holders(u)
  BY DEF Holders, ClaimNext, Working
<1>5. /\ \A v \in Workers : v # w => proc'[v] = proc[v]
      /\ proc'[w].pc = "claimed" /\ proc'[w].task = t
  BY DEF ClaimNext, TypeOK, Procs
<1>6. Holders(t)' = {w}
  BY <1>3, <1>5 DEF Holders, Working
<1>7. status'[r] = "running" /\ \A q \in Runs : q # r => status'[q] = status[q]
  BY DEF ClaimNext, TypeOK
<1>8. UNCHANGED taskOf
  BY DEF ClaimNext
<1>9. ASSUME NEW u \in Tasks, u # t
      PROVE  Holders(u)' = Holders(u) /\ Slot(u)' = Slot(u)
  <2>1. Holders(u)' = Holders(u)
    BY <1>4, <1>5, <1>9 DEF Holders
  <2>2. Slot(u)' = Slot(u)
    BY <1>7, <1>8, <1>9 DEF Slot
  <2> QED
    BY <2>1, <2>2
<1>10. Slot(t)' = "running"
  <2>1. \A q \in Runs : taskOf[q] = t /\ status[q] = "queued" => q = r
    BY <1>1 DEF OneActivePerTask
  <2>2. ~\E q \in Runs : taskOf'[q] = t /\ status'[q] = "queued"
    BY <1>7, <1>8, <2>1
  <2> QED
    BY <1>7, <1>8, <2>2 DEF Slot
<1> QED
  BY <1>2, <1>3, <1>4, <1>6, <1>9, <1>10 DEF Slots!Take

\* The start-up reap frees every taken slot, when nobody holds one.
LEMMA StartupReaps ==
  ASSUME Implementing, Startup
  PROVE  Slots!Reap
<1> USE DEF Implementing, WellFormed
<1>1. \A w \in Workers : proc[w].pc \notin Working /\ proc'[w].pc \notin Working
  BY DEF Startup, Ownership, Quiet, Working
<1>2. ASSUME NEW t \in Tasks
      PROVE  Holders(t) = {} /\ Holders(t)' = {}
  BY <1>1 DEF Holders
<1>3. ASSUME NEW t \in Tasks
      PROVE  Slot(t)' = IF Slot(t) = "running" THEN "free" ELSE Slot(t)
  <2>1. \A r \in Runs :
          /\ taskOf'[r] = taskOf[r]
          /\ status'[r] # "running"
          /\ status'[r] = "queued" <=> status[r] = "queued"
    BY DEF Startup, TypeOK
  <2> QED
    BY <2>1 DEF Slot
<1> QED
  BY <1>2, <1>3 DEF Slots!Reap

\* Every step of the queue is a step of the slots, or none.
LEMMA StepSimulates ==
  ASSUME Deleters = {}, Clis = {}, Implementing, [Next]_vars
  PROVE  [Slots!Next]_(Slots!vars)
<1> USE DEF Implementing, WellFormed
<1> Procs = Workers
  BY DEF Procs
<1>1. ASSUME UNCHANGED <<status, taskOf, proc>>
      PROVE  UNCHANGED Slots!vars
  BY <1>1, Stutters
<1>2. ASSUME NEW t \in Tasks, NEW r \in Runs, NEW n, InsertRun(t, "queued", n, r),
             \A u \in Tasks : Holders(u)' = Holders(u)
      PROVE  Slots!Next
  BY <1>2, InsertRequests DEF Slots!Next
<1>3. CASE Daemon
  <2>1. CASE Startup
    BY <2>1, StartupReaps DEF Slots!Next
  <2>2. CASE Crash
    <3>1. ASSUME NEW t \in Tasks
          PROVE  Holders(t)' = {} /\ Slot(t)' = Slot(t)
      BY <2>2 DEF Crash, NoProc, Working, Holders, Slot, rows
    <3> QED
      BY <3>1 DEF Slots!Die, Slots!Next
  <2>3. CASE EngineRun \/ Shutdown \/ Drained
    BY <2>3, <1>1 DEF EngineRun, Shutdown, Drained, rows
  <2>4. ASSUME NEW r \in Runs, ReportInterrupted(r)
        PROVE  UNCHANGED Slots!vars
    BY <2>4, <1>1 DEF ReportInterrupted
  <2> QED
    BY <1>3, <2>1, <2>2, <2>3, <2>4 DEF Daemon
<1>4. CASE Request
  <2>1. ASSUME NEW t \in Tasks, NEW r \in Runs, TickEnqueues(t, r) \/ RunNow(t, r)
        PROVE  Slots!Next
    BY <2>1, <1>2 DEF TickEnqueues, RunNow, Holders
  <2>2. ASSUME NEW S \in SUBSET tasks, TickLists(S)
        PROVE  UNCHANGED Slots!vars
    BY <2>2, <1>1 DEF TickLists, rows
  <2>3. ASSUME NEW t \in Tasks, TickSkips(t)
        PROVE  UNCHANGED Slots!vars
    BY <2>3, <1>1 DEF TickSkips, rows
  <2> QED
    BY <1>4, <2>1, <2>2, <2>3 DEF Request
<1>5. ASSUME NEW w \in Workers, Worker(w)
      PROVE  [Slots!Next]_(Slots!vars)
  <2>1. CASE LoadTask(w)
    <3>1. \A v \in Workers :
            /\ proc'[v].pc \in Working <=> proc[v].pc \in Working
            /\ proc'[v].task = proc[v].task
      BY <2>1 DEF LoadTask, Goto, TypeOK, Working
    <3> QED
      BY <2>1, <3>1, Stutters DEF LoadTask, rows
  <2>2. CASE LoadTaskFails(w)
    BY <2>2, EndGivesBack DEF LoadTaskFails, Working, PCs, Slots!Next
  <2>3. ASSUME Leave(w), proc[w].pc \notin Working
        PROVE  \A v \in Workers :
                 /\ proc'[v].pc \in Working <=> proc[v].pc \in Working
                 /\ proc'[v].pc \in Working => proc'[v].task = proc[v].task
    BY <2>3 DEF Leave, NoProc, TypeOK, Working
  <2>4. CASE Succeeded(w) \/ FailedTerminally(w) \/ RequeueRefused(w)
    <3>1. Leave(w) /\ proc[w].pc \notin Working /\ UNCHANGED <<status, taskOf>>
      BY <2>4 DEF Succeeded, FailedTerminally, RequeueRefused, rows, Working
    <3> QED
      BY <3>1, <2>3, Stutters
  <2>5. ASSUME NEW r \in Runs, Requeue(w, r)
        PROVE  Slots!Next
    <3>1. /\ InsertRun(proc[w].task, "queued", proc[w].attempt + 1, r)
          /\ Leave(w)
          /\ proc[w].pc \notin Working
      BY <2>5 DEF Requeue, Working
    <3>2. proc[w].task \in Tasks
      BY <3>1 DEF InsertRun, Insertable, TypeOK
    <3>3. \A u \in Tasks : Holders(u)' = Holders(u)
      BY <3>1, <2>3 DEF Holders
    <3> QED
      BY <3>1, <3>2, <3>3, <1>2
  <2>6. ASSUME NEW r \in Runs, ClaimNext(w, r)
        PROVE  Slots!Next
    BY <2>6, ClaimTakes DEF Slots!Next
  <2>7. CASE LoadFailureNotRecorded(w)
    BY <2>7, LostWriteAbandons DEF Slots!Next
  <2> QED
    BY <1>5, <2>1, <2>2, <2>4, <2>5, <2>6, <2>7 DEF Worker
<1>6. ASSUME NEW w \in Workers, Execute(w)
      PROVE  [Slots!Next]_(Slots!vars)
  <2>1. CASE DumpStored(w) \/ InsertArtifact(w)
    <3>1. proc[w].pc \in Working /\ (Goto(w, "stored") \/ Goto(w, "recorded"))
      BY <2>1 DEF DumpStored, InsertArtifact, Working
    <3>2. \A v \in Workers :
            /\ proc'[v].pc \in Working <=> proc[v].pc \in Working
            /\ proc'[v].task = proc[v].task
      <4>1. "stored" \in PCs \cap Working /\ "recorded" \in PCs \cap Working
        BY DEF PCs, Working
      <4>2. /\ \A v \in Workers : v # w => proc'[v] = proc[v]
            /\ proc'[w].pc \in Working /\ proc'[w].task = proc[w].task
        BY <3>1, <4>1, GotoOrLeave
      <4> QED
        BY <3>1, <4>2
    <3>3. UNCHANGED <<status, taskOf>>
      BY <2>1 DEF DumpStored, InsertArtifact, rows
    <3> QED
      BY <3>2, <3>3, Stutters
  <2>2. CASE FailureNotRecorded(w)
    BY <2>2, LostWriteAbandons DEF Slots!Next
  <2>3. CASE DumpFails(w) \/ InsertArtifactFails(w) \/ FinishSuccessFails(w)
    <3>1. proc[w].pc \in Working /\ Finish(proc[w].run, "failed") /\ Goto(w, "failed")
      BY <2>3 DEF DumpFails, InsertArtifactFails, FinishSuccessFails, Working
    <3> QED
      BY <3>1, EndGivesBack DEF PCs, Working, Slots!Next
  <2>4. CASE FinishSuccess(w)
    <3>1. proc[w].pc \in Working /\ Finish(proc[w].run, "success") /\ Goto(w, "succeeded")
      BY <2>4 DEF FinishSuccess, Working
    <3> QED
      BY <3>1, EndGivesBack DEF PCs, Working, Slots!Next
  <2> QED
    BY <1>6, <2>1, <2>2, <2>3, <2>4 DEF Execute
<1>7. ASSUME NEW t \in Tasks, CreateTask(t)
      PROVE  UNCHANGED Slots!vars
  BY <1>7, <1>1 DEF CreateTask, rows
<1>8. CASE UNCHANGED vars
  BY <1>8, <1>1 DEF vars
<1> QED
  BY <1>3, <1>4, <1>5, <1>6, <1>7, <1>8 DEF Next

\* A daemon on its own, its tasks left in place, is one slot per task: a slot is
\* given back only by the worker that took it, or swept up when none is alive.
THEOREM QueueImplementsSlots ==
  ASSUME Deleters = {}, Clis = {}
  PROVE  Spec => ImplementsTaskSlots
<1>1. Init => Slots!Init
  BY DEF Init, Slots!Init, Slot, Holders, NoProc, Working, Procs
<1>2. Implementing /\ [Next]_vars => [Slots!Next]_(Slots!vars)
  BY StepSimulates
<1> QED
  BY <1>1, <1>2, ImplementingInvariant, PTL DEF Spec, ImplementsTaskSlots, Slots!Spec

-----------------------------------------------------------------------------
\* What the channels and the catalogue say of a run.

\* No two workers hold one run, also after its end.
NoTwoHold ==
  \A v, w \in Workers :
    proc[v].pc # "idle" /\ proc[w].pc # "idle" /\ proc[v].run = proc[w].run => v = w

\* What a worker at a step of its run knows of the run's row: the channels are
\* silent until the end, the artifact is catalogued before the success, and a
\* failure is on the row unless the store refused it.
ProcStory(w) ==
  /\ proc[w].pc \in Working => told[proc[w].run] = {}
  /\ proc[w].pc = "recorded" => catalog[proc[w].run] # {}
  /\ proc[w].pc = "succeeded" =>
       status[proc[w].run] = "success" /\ told[proc[w].run] = {}
  /\ proc[w].pc = "failed" =>
       status[proc[w].run] = "failed" \/ (status[proc[w].run] = "running" /\ faults > 0)

\* What a row, its catalogue entry and its notices say of one another.
RowStory(r) ==
  /\ status[r] \in {"none", "queued"} => told[r] = {} /\ catalog[r] = {}
  /\ r \in toReport => status[r] = "failed"
  /\ "success" \in told[r] => status[r] = "success" /\ told[r] = {"success"}
  /\ told[r] \cap {"failure", "interrupted"} # {} =>
       status[r] = "failed" \/ (status[r] = "running" /\ faults > 0)
  /\ catalog[r] \subseteq {taskOf[r]}
  /\ status[r] = "success" => catalog[r] # {}

Stories ==
  /\ NoTwoHold
  /\ \A w \in Workers : ProcStory(w)
  /\ \A r \in Runs : RowStory(r)

\* Most steps concern one run: they change its row and the worker that holds it.
\* Such a step keeps every story if it keeps those of that row and that worker.
LEMMA OneRunStories ==
  ASSUME Stories, TypeOK, BusyHasRun, NEW r \in Runs,
         \A v \in Workers : proc'[v].pc # "idle" =>
           \/ proc'[v] = proc[v] /\ proc[v].run # r
           \/ proc'[v].run = r /\ ProcStory(v)',
         \A v, w \in Workers :
           /\ proc'[v].pc # "idle" /\ proc'[v].run = r
           /\ proc'[w].pc # "idle" /\ proc'[w].run = r
           => v = w,
         \A q \in Runs : q # r =>
           /\ status'[q] = status[q]
           /\ told'[q] = told[q]
           /\ catalog'[q] = catalog[q]
           /\ taskOf'[q] = taskOf[q]
           /\ q \in toReport' => q \in toReport,
         faults' >= faults,
         faults' \in Nat,
         RowStory(r)'
  PROVE  Stories'
<1>1. faults \in Nat
  BY BoundsAssumption DEF TypeOK
<1>2. NoTwoHold'
  BY DEF Stories, NoTwoHold
<1>3. ASSUME NEW v \in Workers
      PROVE  ProcStory(v)'
  <2>1. CASE proc'[v].pc = "idle"
    BY <2>1 DEF ProcStory, Working
  <2>2. CASE proc'[v] = proc[v] /\ proc[v].run # r /\ proc[v].pc # "idle"
    <3>1. proc[v].run \in Runs
      BY <2>2 DEF BusyHasRun, Procs
    <3> QED
      BY <1>1, <2>2, <3>1 DEF Stories, ProcStory
  <2> QED
    BY <2>1, <2>2
<1>4. ASSUME NEW q \in Runs, q # r
      PROVE  RowStory(q)'
  BY <1>1, <1>4 DEF Stories, RowStory
<1> QED
  BY <1>2, <1>3, <1>4 DEF Stories

\* A worker that goes on tells its own run's story only.
LEMMA MoveStories ==
  ASSUME Stories, TypeOK, BusyHasRun, NEW w \in Workers, proc[w].pc # "idle",
         NEW r \in Runs, r = proc[w].run, NEW pc \in PCs, Goto(w, pc),
         UNCHANGED <<taskOf, toReport>>,
         \A q \in Runs : q # r =>
           /\ status'[q] = status[q]
           /\ told'[q] = told[q]
           /\ catalog'[q] = catalog[q],
         faults' >= faults,
         faults' \in Nat,
         ProcStory(w)',
         RowStory(r)'
  PROVE  Stories'
<1>1. /\ \A v \in Workers : v # w => proc'[v] = proc[v]
      /\ proc'[w].run = r
  BY GotoOrLeave DEF Procs
<1>2. \A v \in Workers : v # w /\ proc[v].pc # "idle" => proc[v].run # r
  BY DEF Stories, NoTwoHold
<1> QED
  BY <1>1, <1>2, OneRunStories

\* A worker that leaves has told it.
LEMMA LeaveStories ==
  ASSUME Stories, TypeOK, BusyHasRun, NEW w \in Workers, proc[w].pc # "idle",
         NEW r \in Runs, r = proc[w].run, Leave(w),
         UNCHANGED <<taskOf, toReport>>,
         \A q \in Runs : q # r =>
           /\ status'[q] = status[q]
           /\ told'[q] = told[q]
           /\ catalog'[q] = catalog[q],
         faults' >= faults,
         faults' \in Nat,
         RowStory(r)'
  PROVE  Stories'
<1>1. /\ \A v \in Workers : v # w => proc'[v] = proc[v]
      /\ proc'[w].pc = "idle"
  BY DEF Leave, NoProc, TypeOK, Procs
<1>2. \A v \in Workers : v # w /\ proc[v].pc # "idle" => proc[v].run # r
  BY DEF Stories, NoTwoHold
<1> QED
  BY <1>1, <1>2, OneRunStories

\* An insert starts a new story, provided whoever takes the row knows nothing yet.
LEMMA InsertStories ==
  ASSUME Stories, WellFormed, Ownership, Clis = {}, NEW t \in Tasks, NEW n, NEW r \in Runs,
         InsertRun(t, "queued", n, r),
         \A v \in Workers : proc'[v].pc # "idle" => proc'[v] = proc[v],
         UNCHANGED <<toReport, faults>>
  PROVE  Stories'
<1> USE DEF WellFormed
<1>1. status[r] = "none"
  BY InsertIsFresh
<1>2. \A v \in Workers : proc[v].pc # "idle" => proc[v].run # r
  <2> SUFFICES ASSUME NEW v \in Workers, proc[v].pc # "idle", proc[v].run = r
               PROVE  FALSE
    OBVIOUS
  <2>1. v \in Procs /\ proc[v].pc \in PCs
    BY DEF TypeOK, Procs
  <2> QED
    BY <1>1, <2>1 DEF Stories, ProcStory, Ownership, InFlight, Working, PCs
<1>3. RowStory(r)'
  <2>1. told[r] = {} /\ catalog[r] = {} /\ r \notin toReport
    BY <1>1 DEF Stories, RowStory
  <2>2. status'[r] = "queued" /\ UNCHANGED <<told, catalog>>
    BY DEF InsertRun, TypeOK
  <2> QED
    BY <2>1, <2>2 DEF RowStory
<1>4. \A q \in Runs : q # r => status'[q] = status[q] /\ taskOf'[q] = taskOf[q]
  BY DEF InsertRun, TypeOK
<1>5. faults \in Nat
  BY BoundsAssumption DEF TypeOK
<1>6. UNCHANGED <<told, catalog>>
  BY DEF InsertRun
<1> QED
  BY <1>2, <1>3, <1>4, <1>5, <1>6, OneRunStories

\* Steps that touch no row, and at most let workers go.
LEMMA QuietStories ==
  ASSUME Stories, TypeOK,
         UNCHANGED <<status, taskOf, catalog, told, faults>>,
         toReport' \subseteq toReport,
         \A v \in Workers : proc'[v].pc # "idle" => proc'[v] = proc[v]
  PROVE  Stories'
<1>1. NoTwoHold'
  BY DEF Stories, NoTwoHold
<1>2. \A v \in Workers : ProcStory(v)'
  BY DEF Stories, ProcStory, Working
<1>3. \A r \in Runs : RowStory(r)'
  BY DEF Stories, RowStory
<1> QED
  BY <1>1, <1>2, <1>3 DEF Stories

LEMMA DaemonStories ==
  ASSUME WellFormed, Ownership, Stories, Daemon
  PROVE  Stories'
<1> USE DEF WellFormed
<1>1. CASE Startup
  <2>1. \A w \in Workers : proc'[w].pc = "idle"
    BY <1>1 DEF Startup, Ownership, Quiet
  <2>2. ASSUME NEW r \in Runs
        PROVE  RowStory(r)'
    BY <1>1 DEF Startup, Stories, RowStory
  <2> QED
    BY <2>1, <2>2 DEF Stories, NoTwoHold, ProcStory, Working
<1>2. ASSUME NEW r \in Runs, ReportInterrupted(r)
      PROVE  Stories'
  <2>1. \A w \in Workers : proc'[w].pc = "idle"
    BY <1>2 DEF ReportInterrupted, Ownership, Quiet
  <2>2. ASSUME NEW q \in Runs
        PROVE  RowStory(q)'
    BY <1>2 DEF ReportInterrupted, Tell, Stories, RowStory, TypeOK
  <2> QED
    BY <2>1, <2>2 DEF Stories, NoTwoHold, ProcStory, Working
<1>3. CASE EngineRun \/ Shutdown \/ Drained
  BY <1>3, QuietStories DEF EngineRun, Shutdown, Drained, rows
<1>4. CASE Crash
  <2>1. \A v \in Workers : proc'[v].pc # "idle" => proc'[v] = proc[v]
    BY <1>4 DEF Crash, NoProc, Procs
  <2> QED
    BY <1>4, <2>1, QuietStories DEF Crash, rows
<1> QED
  BY <1>1, <1>2, <1>3, <1>4 DEF Daemon

LEMMA RequestStories ==
  ASSUME Clis = {}, WellFormed, Ownership, Stories, Request
  PROVE  Stories'
<1>1. ASSUME NEW t \in Tasks, NEW r \in Runs, TickEnqueues(t, r) \/ RunNow(t, r)
      PROVE  Stories'
  BY <1>1, InsertStories DEF TickEnqueues, RunNow
<1>2. ASSUME NEW S \in SUBSET tasks, TickLists(S)
      PROVE  Stories'
  BY <1>2, QuietStories DEF TickLists, rows, WellFormed
<1>3. ASSUME NEW t \in Tasks, TickSkips(t)
      PROVE  Stories'
  BY <1>3, QuietStories DEF TickSkips, rows, WellFormed
<1> QED
  BY <1>1, <1>2, <1>3 DEF Request

LEMMA WorkerStories ==
  ASSUME Deleters = {}, Clis = {}, WellFormed, Ownership, Stories, NEW w \in Workers, Worker(w)
  PROVE  Stories'
<1> USE DEF WellFormed
<1>0. faults \in Nat /\ w \in Procs /\ proc[w].pc \in PCs
  BY BoundsAssumption DEF TypeOK, Procs
<1>1. CASE LoadTask(w)
  <2> SUFFICES ASSUME NEW r \in Runs, r = proc[w].run
               PROVE  Stories'
    BY <1>0, <1>1 DEF LoadTask, BusyHasRun
  <2>1. Goto(w, "dumping") /\ proc'[w] = [proc[w] EXCEPT !.pc = "dumping"]
    BY <1>0, <1>1 DEF LoadTask, Goto, TypeOK
  <2>2. ProcStory(w)'
    BY <1>0, <1>1, <2>1 DEF LoadTask, rows, Stories, ProcStory, Working, TypeOK
  <2>3. RowStory(r)'
    BY <1>1 DEF LoadTask, rows, Stories, RowStory
  <2> QED
    BY <1>0, <1>1, <2>1, <2>2, <2>3, MoveStories DEF LoadTask, rows, PCs
<1>2. CASE LoadTaskFails(w)
  <2> SUFFICES ASSUME NEW r \in Runs, r = proc[w].run
               PROVE  Stories'
    BY <1>0, <1>2 DEF LoadTaskFails, BusyHasRun
  <2>1. faults' >= faults /\ faults' \in Nat
    BY <1>0, <1>2 DEF LoadTaskFails, Fault
  <2>2. status[r] = "running"
    BY <1>2 DEF LoadTaskFails, Ownership, WorkerRow, Working
  <2>3. RowStory(r)'
    BY <1>2, <2>1, <2>2 DEF LoadTaskFails, Finish, Stories, RowStory
  <2> QED
    BY <1>0, <1>2, <2>1, <2>3, LeaveStories DEF LoadTaskFails, Finish
<1>3. CASE Succeeded(w)
  <2> SUFFICES ASSUME NEW r \in Runs, r = proc[w].run
               PROVE  Stories'
    BY <1>0, <1>3 DEF Succeeded, BusyHasRun
  <2>1. status[r] = "success" /\ told[r] = {}
    BY <1>3 DEF Succeeded, Stories, ProcStory
  <2>2. RowStory(r)'
    BY <1>3, <2>1 DEF Succeeded, Tell, Stories, RowStory
  <2> QED
    BY <1>0, <1>3, <2>2, LeaveStories DEF Succeeded, Tell
<1>4. CASE FailedTerminally(w)
  <2> SUFFICES ASSUME NEW r \in Runs, r = proc[w].run
               PROVE  Stories'
    BY <1>0, <1>4 DEF FailedTerminally, BusyHasRun
  <2>1. status[r] = "failed" \/ (status[r] = "running" /\ faults > 0)
    BY <1>4 DEF FailedTerminally, Stories, ProcStory
  <2>2. RowStory(r)'
    BY <1>4, <2>1 DEF FailedTerminally, Tell, Stories, RowStory
  <2> QED
    BY <1>0, <1>4, <2>2, LeaveStories DEF FailedTerminally, Tell
<1>5. CASE RequeueRefused(w)
  <2> SUFFICES ASSUME NEW r \in Runs, r = proc[w].run
               PROVE  Stories'
    BY <1>0, <1>5 DEF RequeueRefused, BusyHasRun
  <2>1. faults' >= faults /\ faults' \in Nat
    BY <1>0, <1>5 DEF RequeueRefused, Fault
  <2>2. RowStory(r)'
    BY <1>0, <1>5, <2>1 DEF RequeueRefused, rows, Stories, RowStory
  <2> QED
    BY <1>0, <1>5, <2>1, <2>2, LeaveStories DEF RequeueRefused, rows
<1>6. ASSUME NEW r \in Runs, Requeue(w, r)
      PROVE  Stories'
  <2>1. \A v \in Workers : proc'[v].pc # "idle" => proc'[v] = proc[v]
    BY <1>0, <1>6 DEF Requeue, Leave, NoProc, TypeOK, Procs
  <2>2. proc[w].task \in Tasks
    BY <1>0, <1>6 DEF Requeue, BusyHasRun
  <2> QED
    BY <1>6, <2>1, <2>2, InsertStories DEF Requeue
<1>7. ASSUME NEW r \in Runs, ClaimNext(w, r)
      PROVE  Stories'
  <2>1. /\ \A v \in Workers : v # w => proc'[v] = proc[v]
        /\ proc'[w].run = r /\ proc'[w].pc = "claimed"
    BY <1>7 DEF ClaimNext, TypeOK, Procs
  <2>2. status[r] = "queued" /\ told[r] = {} /\ catalog[r] = {} /\ r \notin toReport
    BY <1>7 DEF ClaimNext, OldestQueued, Stories, RowStory
  <2>3. \A v \in Workers : proc[v].pc # "idle" => proc[v].run # r
    <3> SUFFICES ASSUME NEW v \in Workers, proc[v].pc # "idle", proc[v].run = r
                 PROVE  FALSE
      OBVIOUS
    <3>1. v \in Procs /\ proc[v].pc \in PCs
      BY DEF TypeOK, Procs
    <3> QED
      BY <2>2, <3>1 DEF Stories, ProcStory, Ownership, InFlight, Working, PCs
  <2>4. ProcStory(w)'
    BY <1>7, <2>1, <2>2 DEF ClaimNext, ProcStory, Working
  <2>5. RowStory(r)'
    BY <1>7, <2>2 DEF ClaimNext, RowStory, TypeOK
  <2>6. \A q \in Runs : q # r => status'[q] = status[q]
    BY <1>7 DEF ClaimNext, TypeOK
  <2> QED
    BY <1>0, <1>7, <2>1, <2>3, <2>4, <2>5, <2>6, OneRunStories DEF ClaimNext
<1>8. CASE LoadFailureNotRecorded(w)
  <2> SUFFICES ASSUME NEW r \in Runs, r = proc[w].run
               PROVE  Stories'
    BY <1>0, <1>8 DEF LoadFailureNotRecorded, BusyHasRun
  <2>1. faults' > 0 /\ faults' >= faults /\ faults' \in Nat
    BY <1>0, <1>8 DEF LoadFailureNotRecorded, Fault
  <2>2. RowStory(r)'
    BY <1>0, <1>8, <2>1 DEF LoadFailureNotRecorded, rows, Stories, RowStory
  <2> QED
    BY <1>0, <1>8, <2>1, <2>2, LeaveStories DEF LoadFailureNotRecorded, rows
<1> QED
  BY <1>1, <1>2, <1>3, <1>4, <1>5, <1>6, <1>7, <1>8 DEF Worker

LEMMA ExecuteStories ==
  ASSUME Clis = {}, WellFormed, Ownership, Stories, NEW w \in Workers, Execute(w)
  PROVE  Stories'
<1> USE DEF WellFormed
<1>0. faults \in Nat /\ w \in Procs /\ proc[w].pc \in Working /\ proc[w].pc # "idle"
  BY BoundsAssumption DEF TypeOK, Procs, Working, Execute, DumpStored, DumpFails,
     FailureNotRecorded, InsertArtifact, InsertArtifactFails, FinishSuccess, FinishSuccessFails
<1> SUFFICES ASSUME NEW r \in Runs, r = proc[w].run
             PROVE  Stories'
  BY <1>0 DEF BusyHasRun
<1>1. status[r] = "running" /\ told[r] = {} /\ taskOf[r] = proc[w].task
  BY <1>0 DEF Ownership, WorkerRow, Stories, ProcStory
<1>2. ASSUME NEW pc \in PCs, Goto(w, pc)
      PROVE  proc'[w].pc = pc /\ proc'[w].run = r
  BY <1>0, <1>2, GotoOrLeave
<1>3. CASE DumpStored(w)
  <2>1. ProcStory(w)' /\ RowStory(r)'
    BY <1>1, <1>2, <1>3 DEF DumpStored, rows, ProcStory, RowStory, PCs, Stories
  <2> QED
    BY <1>0, <1>3, <2>1, MoveStories DEF DumpStored, rows, PCs
<1>4. CASE InsertArtifact(w)
  <2>1. ProcStory(w)'
    BY <1>1, <1>2, <1>4 DEF InsertArtifact, ProcStory, PCs, TypeOK
  <2>2. RowStory(r)'
    BY <1>1, <1>4 DEF InsertArtifact, RowStory, Stories, TypeOK
  <2>3. \A q \in Runs : q # r => catalog'[q] = catalog[q]
    BY <1>4 DEF InsertArtifact, TypeOK
  <2> QED
    BY <1>0, <1>4, <2>1, <2>2, <2>3, MoveStories DEF InsertArtifact, PCs
<1>5. CASE FailureNotRecorded(w)
  <2>1. faults' > 0 /\ faults' \in Nat /\ faults' >= faults
    BY <1>0, <1>5 DEF FailureNotRecorded, Fault
  <2>2. ProcStory(w)' /\ RowStory(r)'
    BY <1>1, <1>2, <1>5, <2>1
    DEF FailureNotRecorded, rows, ProcStory, RowStory, PCs, Stories, Working
  <2> QED
    BY <1>0, <1>5, <2>1, <2>2, MoveStories DEF FailureNotRecorded, rows, PCs
<1>6. CASE DumpFails(w) \/ InsertArtifactFails(w) \/ FinishSuccessFails(w)
  <2>1. /\ Finish(r, "failed") /\ Goto(w, "failed") /\ UNCHANGED toReport
        /\ faults' \in Nat /\ faults' >= faults
    BY <1>0, <1>6 DEF DumpFails, InsertArtifactFails, FinishSuccessFails, Fault
  <2>2. ProcStory(w)' /\ RowStory(r)'
    BY <1>1, <1>2, <2>1 DEF Finish, ProcStory, RowStory, PCs, Stories, Working
  <2> QED
    BY <1>0, <2>1, <2>2, MoveStories DEF Finish, PCs
<1>7. CASE FinishSuccess(w)
  <2>1. catalog[r] # {}
    BY <1>7 DEF FinishSuccess, Stories, ProcStory
  <2>2. ProcStory(w)' /\ RowStory(r)'
    BY <1>1, <1>2, <1>7, <2>1 DEF FinishSuccess, Finish, ProcStory, RowStory, PCs, Stories, Working
  <2> QED
    BY <1>0, <1>7, <2>2, MoveStories DEF FinishSuccess, Finish, PCs
<1> QED
  BY <1>3, <1>4, <1>5, <1>6, <1>7 DEF Execute

LEMMA NextStories ==
  ASSUME Deleters = {}, Clis = {}, WellFormed, Ownership, Stories, [Next]_vars
  PROVE  Stories'
<1>1. Procs = Workers
  BY DEF Procs
<1>2. ASSUME NEW t \in Tasks, CreateTask(t)
      PROVE  Stories'
  BY <1>2, QuietStories DEF CreateTask, rows, WellFormed
<1>3. CASE UNCHANGED vars
  BY <1>3, QuietStories DEF vars, WellFormed
<1> QED
  BY <1>1, <1>2, <1>3, DaemonStories, RequestStories, WorkerStories, ExecuteStories DEF Next

LEMMA StoriesInvariant ==
  ASSUME Deleters = {}, Clis = {}
  PROVE  Spec => []Stories
<1>1. Init => Stories
  BY DEF Init, Stories, NoTwoHold, ProcStory, RowStory, NoProc, Working, Procs
<1>2. WellFormed /\ Ownership /\ Stories /\ [Next]_vars => Stories'
  BY NextStories
<1> QED
  BY <1>1, <1>2, WellFormedInvariant, OwnershipInvariant, PTL DEF Spec

\* In a daemon without command-line runs and deletions, the three records of a
\* run agree whatever parts their writes: nobody is told a success that is not on
\* the row, a failure only of a run that will never succeed, and every recorded
\* success has a catalogued artifact, of its own task.
THEOREM RecordsAgree ==
  ASSUME Deleters = {}, Clis = {}
  PROVE  Spec => []Truthful
<1>1. Stories => Truthful
  BY DEF Stories, RowStory, Truthful, NoticeTruthful, CatalogTruthful
<1> QED
  BY <1>1, StoriesInvariant, PTL

-----------------------------------------------------------------------------
\* Every failure is followed up, and by one retry at most.

\* A worker's copies of its run's row are still the row's.
Copies ==
  \A w \in Workers : proc[w].pc # "idle" =>
    /\ proc[w].run \in Present
    /\ proc[w].task = taskOf[proc[w].run]
    /\ proc[w].attempt = attempt[proc[w].run]

AttemptsInRange == \A r \in Present : attempt[r] \in 1 .. Retries[taskOf[r]] + 1

\* Second and later attempts.
IsRetry(r) == r \in Present /\ attempt[r] > 1

\* f gives each retry the failed run it follows, of its task and one attempt
\* earlier; no two retries follow one run, and none a run still in a worker's hands.
Lineage(f) ==
  /\ \A r \in Runs : IsRetry(r) =>
       /\ status[f[r]] = "failed"
       /\ taskOf[f[r]] = taskOf[r]
       /\ attempt[f[r]] + 1 = attempt[r]
       /\ \A w \in Workers : proc[w].pc # "idle" => proc[w].run # f[r]
  /\ \A r, q \in Runs : IsRetry(r) /\ IsRetry(q) /\ f[r] = f[q] => r = q

HasLineage == \E f \in [Runs -> Runs] : Lineage(f)

\* Rowids are handed out in order, so an active run is the last of its task.
NoGaps == \E k \in 0 .. MaxRun : Present = 1 .. k

ActiveIsNewest ==
  \A r, q \in Runs :
    /\ status[r] # "none"
    /\ status[q] \in ActiveStatuses
    /\ taskOf[r] = taskOf[q]
    => r <= q

\* Interruptions are announced before the pool starts; the pool drains only
\* after a shutdown.
LifeCycle ==
  /\ toReport # {} => daemon = "starting"
  /\ daemon = "draining" => restarts > 0

\* Somebody has heard, is hearing or will hear of a failed run, or the task went on.
Heard(r) ==
  \/ told[r] # {}
  \/ r \in toReport
  \/ \E w \in Workers : proc[w].pc # "idle" /\ proc[w].run = r
  \/ \E q \in Present : q > r /\ taskOf[q] = taskOf[r]
  \/ MaxRun \in Present

FailuresHeard ==
  restarts = 0 /\ faults = 0 => \A r \in Runs : status[r] = "failed" => Heard(r)

FollowUps ==
  /\ Copies
  /\ AttemptsInRange
  /\ HasLineage
  /\ NoGaps
  /\ ActiveIsNewest
  /\ LifeCycle
  /\ FailuresHeard

\* What the invariants so far say of a step.
Grounds == WellFormed /\ Ownership /\ OneActivePerTask /\ Stories

\* Steps without an insert: every row keeps its task and attempt, none becomes
\* active, and what has failed has failed.
Keeps ==
  /\ UNCHANGED <<taskOf, attempt>>
  /\ \A r \in Runs :
       /\ status'[r] = "none" <=> status[r] = "none"
       /\ status'[r] \in ActiveStatuses => status[r] \in ActiveStatuses
       /\ status[r] = "failed" => status'[r] = "failed"

LEMMA KeepsRows ==
  ASSUME Keeps
  PROVE  /\ Present' = Present
         /\ \A r \in Runs : IsRetry(r)' <=> IsRetry(r)
         /\ AttemptsInRange => AttemptsInRange'
         /\ NoGaps => NoGaps'
         /\ ActiveIsNewest => ActiveIsNewest'
<1>1. Present' = Present
  BY DEF Keeps, Present
<1> QED
  BY <1>1 DEF Keeps, IsRetry, AttemptsInRange, NoGaps, ActiveIsNewest

\* If workers only let go of failed runs or pick up runs that have not failed, the
\* retries keep their parents.
LEMMA KeepsLineage ==
  ASSUME Keeps, HasLineage,
         \A w \in Workers : proc'[w].pc # "idle" =>
           \/ proc[w].pc # "idle" /\ proc'[w].run = proc[w].run
           \/ status[proc'[w].run] # "failed"
  PROVE  HasLineage'
<1>1. PICK f \in [Runs -> Runs] : Lineage(f)
  BY DEF HasLineage
<1>2. \A r \in Runs : IsRetry(r)' <=> IsRetry(r)
  BY KeepsRows
<1>3. Lineage(f)'
  BY <1>1, <1>2 DEF Lineage, Keeps
<1> QED
  BY <1>3 DEF HasLineage

\* A new row is the newest of all, and keeps ids and attempts in order.
LEMMA InsertExtends ==
  ASSUME TypeOK, NoGaps, ActiveIsNewest, AttemptsInRange,
         NEW t \in Tasks, NEW n \in 1 .. Retries[t] + 1, NEW r \in Runs,
         InsertRun(t, "queued", n, r)
  PROVE  /\ \A q \in Present : q < r
         /\ Present' = Present \cup {r}
         /\ status[r] = "none" /\ status'[r] = "queued"
         /\ taskOf'[r] = t /\ attempt'[r] = n
         /\ \A q \in Runs : q # r =>
              status'[q] = status[q] /\ taskOf'[q] = taskOf[q] /\ attempt'[q] = attempt[q]
         /\ NoGaps' /\ ActiveIsNewest' /\ AttemptsInRange'
<1>1. \A q \in Present : q < r
  BY DEF InsertRun, IsNextRowid
<1>2. status[r] = "none"
  BY InsertIsFresh
<1>3. /\ status'[r] = "queued" /\ taskOf'[r] = t /\ attempt'[r] = n
      /\ \A q \in Runs : q # r =>
           status'[q] = status[q] /\ taskOf'[q] = taskOf[q] /\ attempt'[q] = attempt[q]
  BY DEF InsertRun, TypeOK
<1>4. Present' = Present \cup {r}
  BY <1>3 DEF Present
<1>5. NoGaps'
  <2>1. PICK k \in 0 .. MaxRun : Present = 1 .. k
    BY DEF NoGaps
  <2>2. r = k + 1
    BY <1>1, <2>1 DEF InsertRun, IsNextRowid, Runs
  <2>3. Present' = 1 .. k + 1 /\ k + 1 \in 0 .. MaxRun
    BY <1>4, <2>1, <2>2, BoundsAssumption DEF Runs
  <2> QED
    BY <2>3 DEF NoGaps
<1>6. ActiveIsNewest'
  <2> SUFFICES ASSUME NEW p \in Runs, NEW q \in Runs, status'[p] # "none",
                      status'[q] \in ActiveStatuses, taskOf'[p] = taskOf'[q]
               PROVE  p <= q
    BY DEF ActiveIsNewest
  <2>1. CASE q = r
    BY <1>1, <1>3, <2>1 DEF Present, Runs
  <2>2. CASE q # r
    <3>1. p # r
      BY <1>3, <2>2 DEF InsertRun, Insertable, Active, ActiveStatuses
    <3> QED
      BY <1>3, <2>2, <3>1 DEF ActiveIsNewest
  <2> QED
    BY <2>1, <2>2
<1>7. AttemptsInRange'
  BY <1>3, <1>4 DEF AttemptsInRange, Present
<1> QED
  BY <1>1, <1>2, <1>3, <1>4, <1>5, <1>6, <1>7

\* A first attempt owes nothing to a failure.
LEMMA FirstAttemptLineage ==
  ASSUME TypeOK, HasLineage, NEW r \in Runs,
         status[r] = "none", attempt'[r] = 1,
         \A q \in Runs : q # r =>
           status'[q] = status[q] /\ taskOf'[q] = taskOf[q] /\ attempt'[q] = attempt[q],
         UNCHANGED proc
  PROVE  HasLineage'
<1>1. PICK f \in [Runs -> Runs] : Lineage(f)
  BY DEF HasLineage
<1>2. ~IsRetry(r)' /\ ~IsRetry(r) /\ \A q \in Runs : q # r => (IsRetry(q)' <=> IsRetry(q))
  BY DEF IsRetry, Present
<1>3. \A q \in Runs : IsRetry(q) => f[q] \in Runs /\ f[q] # r
  BY <1>1 DEF Lineage
<1>4. Lineage(f)'
  BY <1>1, <1>2, <1>3 DEF Lineage
<1> QED
  BY <1>4 DEF HasLineage

\* A retry follows the failed run its worker lets go of.
LEMMA RetryLineage ==
  ASSUME TypeOK, HasLineage, NoTwoHold, NEW w \in Workers, NEW p \in Runs, NEW r \in Runs,
         proc[w].pc # "idle", proc[w].run = p, status[p] = "failed",
         status[r] = "none", status'[r] = "queued",
         taskOf'[r] = taskOf[p], attempt'[r] = attempt[p] + 1,
         \A q \in Runs : q # r =>
           status'[q] = status[q] /\ taskOf'[q] = taskOf[q] /\ attempt'[q] = attempt[q],
         Leave(w)
  PROVE  HasLineage'
<1>1. PICK f \in [Runs -> Runs] : Lineage(f)
  BY DEF HasLineage
<1> DEFINE g == [f EXCEPT ![r] = p]
<1>2. ~IsRetry(r) /\ \A q \in Runs : q # r => (IsRetry(q)' <=> IsRetry(q))
  BY DEF IsRetry, Present
<1>3. g \in [Runs -> Runs] /\ g[r] = p /\ \A q \in Runs : q # r => g[q] = f[q]
  OBVIOUS
<1>4. \A q \in Runs : IsRetry(q) => f[q] \in Runs /\ f[q] # r /\ f[q] # p
  BY <1>1 DEF Lineage
<1>5. \A v \in Workers : proc'[v].pc # "idle" => proc'[v] = proc[v] /\ proc[v].run # p
  BY DEF Leave, NoProc, NoTwoHold, TypeOK, Procs
<1> HIDE DEF g
<1>6. Lineage(g)'
  <2>1. ASSUME NEW q \in Runs, IsRetry(q)'
        PROVE  /\ status'[g[q]] = "failed"
               /\ taskOf'[g[q]] = taskOf'[q]
               /\ attempt'[g[q]] + 1 = attempt'[q]
               /\ \A v \in Workers : proc'[v].pc # "idle" => proc'[v].run # g[q]
    <3>1. CASE q = r
      BY <1>3, <1>5, <3>1
    <3>2. CASE q # r
      BY <1>1, <1>2, <1>3, <1>4, <1>5, <2>1, <3>2 DEF Lineage
    <3> QED
      BY <3>1, <3>2
  <2>2. ASSUME NEW q \in Runs, NEW x \in Runs, IsRetry(q)', IsRetry(x)', g[q] = g[x]
        PROVE  q = x
    BY <1>1, <1>2, <1>3, <1>4, <2>2 DEF Lineage
  <2> QED
    BY <2>1, <2>2 DEF Lineage
<1> QED
  BY <1>3, <1>6 DEF HasLineage

\* A step keeps every failure heard if it hears the ones that are new and those
\* whose worker or pending report it takes away.
LEMMA StillHeard ==
  ASSUME FailuresHeard, TypeOK,
         restarts' = 0 /\ faults' = 0 => restarts = 0 /\ faults = 0,
         Present \subseteq Present',
         \A r \in Present : taskOf'[r] = taskOf[r] /\ told[r] \subseteq told'[r],
         \A r \in Runs : restarts' = 0 /\ faults' = 0 /\ status'[r] = "failed" =>
           \/ Heard(r)'
           \/ /\ status[r] = "failed"
              /\ r \in toReport => r \in toReport'
              /\ \A w \in Workers : proc[w].pc # "idle" /\ proc[w].run = r =>
                   proc'[w].pc # "idle" /\ proc'[w].run = r
  PROVE  FailuresHeard'
<1> SUFFICES ASSUME restarts' = 0, faults' = 0, NEW r \in Runs, status'[r] = "failed", ~Heard(r)'
             PROVE  FALSE
  BY DEF FailuresHeard
<1>1. status[r] = "failed" /\ Heard(r) /\ r \in Present
  BY DEF FailuresHeard, Present
<1>2. told[r] = {} /\ r \notin toReport
  BY <1>1 DEF Heard
<1>3. ~\E w \in Workers : proc[w].pc # "idle" /\ proc[w].run = r
  BY DEF Heard
<1>4. ~\E q \in Present : q > r /\ taskOf[q] = taskOf[r]
  BY <1>1 DEF Heard
<1> QED
  BY <1>1, <1>2, <1>3, <1>4 DEF Heard

LEMMA NextLifeCycle ==
  ASSUME TypeOK, LifeCycle, [Next]_vars
  PROVE  LifeCycle'
<1>0. restarts \in Nat
  BY DEF TypeOK
<1>1. CASE Daemon
  BY <1>0, <1>1 DEF Daemon, Startup, ReportInterrupted, EngineRun, Shutdown, Drained, Crash,
     LifeCycle
<1>2. ASSUME UNCHANGED <<daemon, toReport, restarts>>
      PROVE  LifeCycle'
  BY <1>2 DEF LifeCycle
<1>3. CASE Request
  BY <1>2, <1>3 DEF Request, TickLists, TickSkips, TickEnqueues, RunNow
<1>4. ASSUME NEW w \in Workers, Worker(w)
      PROVE  LifeCycle'
  BY <1>2, <1>4 DEF Worker, LoadTask, LoadTaskFails, LoadFailureNotRecorded, Succeeded,
     FailedTerminally, RequeueRefused, ClaimNext, Requeue
<1>5. ASSUME NEW p \in Procs, Execute(p)
      PROVE  LifeCycle'
  BY <1>2, <1>5 DEF Execute, DumpStored, DumpFails, FailureNotRecorded, InsertArtifact,
     InsertArtifactFails, FinishSuccess, FinishSuccessFails
<1>6. ASSUME NEW c \in Clis, Cli(c)
      PROVE  LifeCycle'
  BY <1>2, <1>6 DEF Cli, CliExits, StartManualRun
<1>7. ASSUME NEW d \in Deleters, Delete(d)
      PROVE  LifeCycle'
  BY <1>2, <1>7 DEF Delete, DeleteTask, DeleteTaskChecks
<1>8. ASSUME NEW t \in Tasks, CreateTask(t)
      PROVE  LifeCycle'
  BY <1>2, <1>8 DEF CreateTask
<1>9. CASE UNCHANGED vars
  BY <1>2, <1>9 DEF vars
<1> QED
  BY <1>1, <1>3, <1>4, <1>5, <1>6, <1>7, <1>8, <1>9 DEF Next

\* Steps without an insert.
LEMMA KeepsFollowUps ==
  ASSUME TypeOK, FollowUps, Keeps, LifeCycle',
         \A w \in Workers : proc'[w].pc # "idle" =>
           \/ /\ proc[w].pc # "idle"
              /\ proc'[w].run = proc[w].run
              /\ proc'[w].task = proc[w].task
              /\ proc'[w].attempt = proc[w].attempt
           \/ /\ proc'[w].run \in Present
              /\ status[proc'[w].run] # "failed"
              /\ proc'[w].task = taskOf[proc'[w].run]
              /\ proc'[w].attempt = attempt[proc'[w].run],
         restarts' = 0 /\ faults' = 0 => restarts = 0 /\ faults = 0,
         \A r \in Runs : told[r] \subseteq told'[r],
         \A r \in Runs : restarts' = 0 /\ faults' = 0 /\ status'[r] = "failed" =>
           \/ Heard(r)'
           \/ /\ status[r] = "failed"
              /\ r \in toReport => r \in toReport'
              /\ \A w \in Workers : proc[w].pc # "idle" /\ proc[w].run = r =>
                   proc'[w].pc # "idle" /\ proc'[w].run = r
  PROVE  FollowUps'
<1>1. Present' = Present /\ AttemptsInRange' /\ NoGaps' /\ ActiveIsNewest'
  BY KeepsRows DEF FollowUps
<1>2. Copies'
  BY <1>1 DEF FollowUps, Copies, Keeps
<1>3. HasLineage'
  BY KeepsLineage DEF FollowUps
<1>4. FailuresHeard'
  <2>1. \A r \in Present : taskOf'[r] = taskOf[r] /\ told[r] \subseteq told'[r]
    BY DEF Keeps, Present
  <2> QED
    BY <1>1, <2>1, StillHeard DEF FollowUps
<1> QED
  BY <1>1, <1>2, <1>3, <1>4 DEF FollowUps

LEMMA DaemonFollowUps ==
  ASSUME Grounds, FollowUps, LifeCycle', Daemon
  PROVE  FollowUps'
<1> USE DEF Grounds, WellFormed
<1>0. restarts \in Nat
  BY DEF TypeOK
<1>1. CASE Startup
  <2>1. Keeps
    BY <1>1 DEF Startup, Keeps, TypeOK, ActiveStatuses
  <2>2. \A r \in Runs : status'[r] = "failed" => status[r] = "failed" \/ Heard(r)'
    BY <1>1 DEF Startup, Heard
  <2>3. toReport = {}
    BY <1>1 DEF Startup, FollowUps, LifeCycle
  <2> QED
    BY <1>1, <2>1, <2>2, <2>3, KeepsFollowUps DEF Startup
<1>2. ASSUME NEW q \in Runs, ReportInterrupted(q)
      PROVE  FollowUps'
  <2>1. Keeps
    BY <1>2 DEF ReportInterrupted, Keeps
  <2>2. \A r \in Runs : told[r] \subseteq told'[r]
    BY <1>2 DEF ReportInterrupted, Tell
  <2>3. Heard(q)'
    BY <1>2 DEF ReportInterrupted, Tell, Heard, Stories, RowStory
  <2> QED
    BY <1>2, <2>1, <2>2, <2>3, KeepsFollowUps DEF ReportInterrupted
<1>3. CASE EngineRun \/ Drained
  <2>1. Keeps
    BY <1>3 DEF EngineRun, Drained, rows, Keeps
  <2> QED
    BY <1>3, <2>1, KeepsFollowUps DEF EngineRun, Drained, rows
<1>4. CASE Shutdown \/ Crash
  <2>1. Keeps
    BY <1>4 DEF Shutdown, Crash, rows, Keeps
  <2>2. \A w \in Workers : proc'[w].pc # "idle" => proc'[w] = proc[w]
    BY <1>4 DEF Shutdown, Crash, NoProc, Procs
  <2>3. restarts' # 0
    BY <1>0, <1>4 DEF Shutdown, Crash
  <2> QED
    BY <1>4, <2>1, <2>2, <2>3, KeepsFollowUps DEF Shutdown, Crash, rows
<1> QED
  BY <1>1, <1>2, <1>3, <1>4 DEF Daemon

\* An insert, from outside or by a worker that leaves.
LEMMA InsertFollowUps ==
  ASSUME TypeOK, FollowUps, LifeCycle', NEW t \in Tasks, NEW n \in 1 .. Retries[t] + 1,
         NEW r \in Runs, InsertRun(t, "queued", n, r), HasLineage',
         \A w \in Workers : proc'[w].pc # "idle" => proc'[w] = proc[w],
         \A w \in Workers : proc[w].pc # "idle" /\ proc'[w] # proc[w] => proc[w].task = t,
         UNCHANGED <<toReport, restarts, faults>>
  PROVE  FollowUps'
<1> USE DEF FollowUps
<1>1. /\ \A q \in Present : q < r
      /\ Present' = Present \cup {r}
      /\ status[r] = "none" /\ status'[r] = "queued"
      /\ taskOf'[r] = t /\ attempt'[r] = n
      /\ \A q \in Runs : q # r =>
           status'[q] = status[q] /\ taskOf'[q] = taskOf[q] /\ attempt'[q] = attempt[q]
      /\ NoGaps' /\ ActiveIsNewest' /\ AttemptsInRange'
  BY InsertExtends
<1>2. Copies'
  BY <1>1 DEF Copies, Present
<1>3. \A q \in Present : taskOf'[q] = taskOf[q] /\ told[q] \subseteq told'[q]
  BY <1>1 DEF InsertRun, Present
<1>4. ASSUME NEW q \in Runs, status'[q] = "failed"
      PROVE  \/ Heard(q)'
             \/ /\ status[q] = "failed"
                /\ q \in toReport => q \in toReport'
                /\ \A w \in Workers : proc[w].pc # "idle" /\ proc[w].run = q =>
                     proc'[w].pc # "idle" /\ proc'[w].run = q
  <2>1. q \in Present /\ q # r /\ status[q] = "failed"
    BY <1>1, <1>4 DEF Present
  <2>2. ASSUME NEW w \in Workers, proc[w].pc # "idle", proc[w].run = q, proc'[w] # proc[w]
        PROVE  Heard(q)'
    <3>1. taskOf[q] = t
      BY <2>2 DEF Copies
    <3>2. r \in Present' /\ r > q /\ taskOf'[r] = taskOf'[q]
      BY <1>1, <2>1, <3>1 DEF Runs
    <3> QED
      BY <3>2 DEF Heard
  <2> QED
    BY <2>1, <2>2
<1>5. FailuresHeard'
  <2>1. Present \subseteq Present'
    BY <1>1
  <2> QED
    BY <1>3, <1>4, <2>1, StillHeard
<1> QED
  BY <1>1, <1>2, <1>5

LEMMA RequestFollowUps ==
  ASSUME Grounds, FollowUps, LifeCycle', Request
  PROVE  FollowUps'
<1> USE DEF Grounds, WellFormed
<1>1. ASSUME NEW t \in Tasks, NEW r \in Runs, TickEnqueues(t, r) \/ RunNow(t, r)
      PROVE  FollowUps'
  <2>1. InsertRun(t, "queued", 1, r) /\ UNCHANGED <<proc, toReport, restarts, faults>>
    BY <1>1 DEF TickEnqueues, RunNow
  <2>2. 1 \in 1 .. Retries[t] + 1
    BY RetriesAssumption
  <2>3. HasLineage'
    BY <2>1, <2>2, InsertExtends, FirstAttemptLineage DEF FollowUps
  <2> QED
    BY <2>1, <2>2, <2>3, InsertFollowUps
<1>2. ASSUME UNCHANGED <<rows, proc, toReport, restarts, faults>>
      PROVE  FollowUps'
  <2>1. Keeps
    BY <1>2 DEF rows, Keeps
  <2> QED
    BY <1>2, <2>1, KeepsFollowUps DEF rows
<1>3. ASSUME NEW S \in SUBSET tasks, TickLists(S)
      PROVE  FollowUps'
  BY <1>2, <1>3 DEF TickLists
<1>4. ASSUME NEW t \in Tasks, TickSkips(t)
      PROVE  FollowUps'
  BY <1>2, <1>4 DEF TickSkips
<1> QED
  BY <1>1, <1>3, <1>4 DEF Request

\* A worker within its run changes that row's status only, and keeps the run.
LEMMA ExecuteFollowUps ==
  ASSUME Deleters = {}, Clis = {}, Grounds, FollowUps, LifeCycle', NEW w \in Workers, Execute(w),
         [Next]_vars
  PROVE  FollowUps'
<1> USE DEF Grounds, WellFormed
<1>0. faults \in Nat /\ w \in Procs
  BY BoundsAssumption DEF TypeOK, Procs
<1>1. PICK pc \in PCs \ {"idle"} : Goto(w, pc)
  BY DEF Execute, DumpStored, DumpFails, FailureNotRecorded, InsertArtifact,
     InsertArtifactFails, FinishSuccess, FinishSuccessFails, PCs
<1>2. /\ \A v \in Workers : v # w => proc'[v] = proc[v]
      /\ proc'[w] = [proc[w] EXCEPT !.pc = pc]
  BY <1>0, <1>1 DEF Goto, TypeOK, Procs
<1>3. proc[w].pc # "idle"
  BY DEF Execute, DumpStored, DumpFails, FailureNotRecorded, InsertArtifact,
     InsertArtifactFails, FinishSuccess, FinishSuccessFails
<1>4. /\ proc'[w].pc # "idle" /\ proc'[w].run = proc[w].run
      /\ proc'[w].task = proc[w].task /\ proc'[w].attempt = proc[w].attempt
  BY <1>0, <1>1, <1>2 DEF TypeOK
<1>5. /\ UNCHANGED <<taskOf, attempt, told, toReport, restarts>>
      /\ faults' = 0 => faults = 0
      /\ \A r \in Runs : status'[r] = "none" <=> status[r] = "none"
      /\ \A r \in Runs : status'[r] # status[r] =>
           r = proc[w].run /\ status'[r] \in {"success", "failed"}
  BY <1>0 DEF Execute, DumpStored, DumpFails, FailureNotRecorded, InsertArtifact,
     InsertArtifactFails, FinishSuccess, FinishSuccessFails, Fault, Finish, rows
<1>6. Keeps
  BY <1>5, NextTerminal DEF Keeps, ActiveStatuses
<1>7. \A r \in Runs : status'[r] = "failed" => status[r] = "failed" \/ Heard(r)'
  BY <1>4, <1>5 DEF Heard
<1> QED
  BY <1>2, <1>3, <1>4, <1>5, <1>6, <1>7, KeepsFollowUps

LEMMA WorkerFollowUps ==
  ASSUME Deleters = {}, Clis = {}, Grounds, FollowUps, LifeCycle', NEW w \in Workers, Worker(w),
         [Next]_vars
  PROVE  FollowUps'
<1> USE DEF Grounds, WellFormed
<1>0. faults \in Nat /\ w \in Procs /\ Present = {r \in Runs : status[r] # "none"}
  BY BoundsAssumption DEF TypeOK, Procs, Present
<1>1. ASSUME NEW r \in Runs, ClaimNext(w, r)
      PROVE  FollowUps'
  <2>1. Keeps
    BY <1>1 DEF ClaimNext, OldestQueued, Keeps, TypeOK, ActiveStatuses
  <2>2. /\ \A v \in Workers : v # w => proc'[v] = proc[v]
        /\ proc'[w] = [pc |-> "claimed", run |-> r, task |-> taskOf[r], attempt |-> attempt[r]]
        /\ proc[w].pc = "idle"
    BY <1>1 DEF ClaimNext, TypeOK, Procs
  <2>3. r \in Present /\ status[r] # "failed"
    BY <1>0, <1>1 DEF ClaimNext, OldestQueued
  <2>4. \A q \in Runs : status'[q] = "failed" => status[q] = "failed"
    BY <1>1 DEF ClaimNext, TypeOK
  <2> QED
    BY <1>1, <2>1, <2>2, <2>3, <2>4, KeepsFollowUps DEF ClaimNext
<1>2. CASE LoadTask(w)
  <2>1. Keeps
    BY <1>2 DEF LoadTask, rows, Keeps
  <2>2. /\ \A v \in Workers : v # w => proc'[v] = proc[v]
        /\ proc'[w] = [proc[w] EXCEPT !.pc = "dumping"]
        /\ proc[w].pc = "claimed"
    BY <1>0, <1>2 DEF LoadTask, Goto, TypeOK, Procs
  <2>3. /\ proc'[w].pc # "idle" /\ proc'[w].run = proc[w].run
        /\ proc'[w].task = proc[w].task /\ proc'[w].attempt = proc[w].attempt
    BY <1>0, <2>2 DEF TypeOK
  <2> QED
    BY <1>2, <2>1, <2>2, <2>3, KeepsFollowUps DEF LoadTask, rows
  \* A worker that leaves a run: somebody heard, or the store failed.
<1>3. ASSUME Leave(w), Keeps, NEW p \in Runs, proc[w].pc # "idle", p = proc[w].run,
             \A r \in Runs : status'[r] = "failed" => status[r] = "failed" \/ r = p,
             \A r \in Runs : told[r] \subseteq told'[r],
             UNCHANGED <<toReport, restarts>>,
             faults' = 0 => faults = 0,
             restarts' = 0 /\ faults' = 0 /\ status'[p] = "failed" => Heard(p)'
      PROVE  FollowUps'
  <2>1. \A v \in Workers : v # w => proc'[v] = proc[v]
    BY <1>3 DEF Leave, TypeOK, Procs
  <2>2. proc'[w].pc = "idle"
    BY <1>0, <1>3 DEF Leave, NoProc, TypeOK
  <2> QED
    BY <1>3, <2>1, <2>2, KeepsFollowUps
<1>4. CASE LoadTaskFails(w)
  <2> SUFFICES ASSUME NEW p \in Runs, p = proc[w].run
               PROVE  FollowUps'
    BY <1>0, <1>4 DEF LoadTaskFails, BusyHasRun
  <2>1. Keeps
    BY <1>4, NextTerminal DEF LoadTaskFails, Finish, Keeps, ActiveStatuses
  <2>2. proc[w].task \in tasks
    BY <1>0, <1>4 DEF LoadTaskFails, NoOrphanRuns, FollowUps, Copies
  <2>3. restarts # 0 \/ faults' # 0
    BY <1>0, <1>4, <2>2 DEF LoadTaskFails, FollowUps, LifeCycle, Fault, TypeOK
  <2> QED
    BY <1>0, <1>3, <1>4, <2>1, <2>3 DEF LoadTaskFails, Finish, Fault
<1>5. CASE Succeeded(w)
  <2> SUFFICES ASSUME NEW p \in Runs, p = proc[w].run
               PROVE  FollowUps'
    BY <1>0, <1>5 DEF Succeeded, BusyHasRun
  <2>1. Keeps /\ status[p] = "success"
    BY <1>5 DEF Succeeded, Keeps, Stories, ProcStory
  <2> QED
    BY <1>3, <1>5, <2>1 DEF Succeeded, Tell
<1>6. CASE FailedTerminally(w)
  <2> SUFFICES ASSUME NEW p \in Runs, p = proc[w].run
               PROVE  FollowUps'
    BY <1>0, <1>6 DEF FailedTerminally, BusyHasRun
  <2>1. Keeps
    BY <1>6 DEF FailedTerminally, Keeps
  <2>2. status'[p] = "failed" => Heard(p)'
    BY <1>6 DEF FailedTerminally, Tell, Heard
  <2> QED
    BY <1>3, <1>6, <2>1, <2>2 DEF FailedTerminally, Tell
<1>7. CASE RequeueRefused(w)
  <2> SUFFICES ASSUME NEW p \in Runs, p = proc[w].run
               PROVE  FollowUps'
    BY <1>0, <1>7 DEF RequeueRefused, BusyHasRun
  <2>1. Keeps
    BY <1>7 DEF RequeueRefused, rows, Keeps
  <2>2. /\ UNCHANGED rows
        /\ faults' = 0 => faults = 0
    BY <1>0, <1>7 DEF RequeueRefused, Fault
  <2>3. proc[w].task = taskOf[p] /\ taskOf[p] \in tasks
    BY <1>0, <1>7 DEF RequeueRefused, NoOrphanRuns, FollowUps, Copies
  <2>4. ASSUME faults' = 0, status[p] = "failed"
        PROVE  \/ \E q \in Present : q > p /\ taskOf[q] = taskOf[p]
               \/ MaxRun \in Present
    <3>1. ~Insertable(taskOf[p])
      BY <1>0, <1>7, <2>3, <2>4 DEF RequeueRefused, Fault
    <3>2. CASE Active(taskOf[p])
      <4>1. PICK q \in Runs : taskOf[q] = taskOf[p] /\ status[q] \in ActiveStatuses
        BY <3>2 DEF Active, ActiveStatuses
      <4>2. q \in Present /\ q # p /\ p <= q
        BY <1>0, <2>4, <4>1 DEF FollowUps, ActiveIsNewest, ActiveStatuses
      <4> QED
        BY <4>1, <4>2 DEF Runs
    <3>3. CASE ~\E r \in Runs : IsNextRowid(Present, r)
      <4>1. PICK k \in 0 .. MaxRun : Present = 1 .. k
        BY DEF FollowUps, NoGaps
      <4>2. k < MaxRun => IsNextRowid(Present, k + 1) /\ k + 1 \in Runs
        BY <4>1, BoundsAssumption DEF IsNextRowid, Runs
      <4>3. k = MaxRun
        BY <3>3, <4>2, BoundsAssumption
      <4> QED
        BY <1>0, <4>1, <4>3, BoundsAssumption, <2>4 DEF Runs
    <3> QED
      BY <2>3, <3>1, <3>2, <3>3 DEF Insertable
  <2>5. ASSUME faults' = 0, status[p] = "failed"
        PROVE  Heard(p)'
    <3>1. UNCHANGED <<taskOf, Present>>
      BY <2>2 DEF rows, Present
    <3> QED
      BY <2>4, <2>5, <3>1 DEF Heard
  <2> QED
    BY <1>3, <1>7, <2>1, <2>2, <2>5 DEF RequeueRefused, rows
<1>8. ASSUME NEW r \in Runs, Requeue(w, r)
      PROVE  FollowUps'
  <2> SUFFICES ASSUME NEW p \in Runs, p = proc[w].run
               PROVE  FollowUps'
    BY <1>0, <1>8 DEF Requeue, BusyHasRun
  <2>1. proc[w].task = taskOf[p] /\ proc[w].attempt = attempt[p] /\ p \in Present
    BY <1>0, <1>8 DEF Requeue, FollowUps, Copies
  <2>2. taskOf[p] \in Tasks /\ attempt[p] \in 1 .. Retries[taskOf[p]] + 1
    BY <1>0, <1>8, <2>1 DEF Requeue, BusyHasRun, FollowUps, AttemptsInRange
  <2>3. InsertRun(taskOf[p], "queued", attempt[p] + 1, r)
    BY <1>8, <2>1 DEF Requeue
  <2>4. attempt[p] + 1 \in 1 .. Retries[taskOf[p]] + 1
    BY <1>8, <2>1, <2>2, RetriesAssumption DEF Requeue, RetriesLeft
  <2>5. status[p] = "failed"
    <3>1. status[p] \in {"failed", "running"}
      BY <1>8 DEF Requeue, Stories, ProcStory
    <3> QED
      BY <2>3, <3>1 DEF InsertRun, Insertable, Active
  <2>6. HasLineage'
    BY <1>8, <2>2, <2>3, <2>4, <2>5, InsertExtends, RetryLineage DEF FollowUps, Stories, Requeue
  <2>7. \A v \in Workers : v # w => proc'[v] = proc[v]
    BY <1>8 DEF Requeue, Leave, TypeOK, Procs
  <2>8. proc'[w].pc = "idle"
    BY <1>0, <1>8 DEF Requeue, Leave, NoProc, TypeOK
  <2> QED
    BY <1>8, <2>1, <2>2, <2>3, <2>4, <2>6, <2>7, <2>8, InsertFollowUps DEF Requeue
<1>9. CASE LoadFailureNotRecorded(w)
  <2> SUFFICES ASSUME NEW p \in Runs, p = proc[w].run
               PROVE  FollowUps'
    BY <1>0, <1>9 DEF LoadFailureNotRecorded, BusyHasRun
  <2>1. Keeps
    BY <1>9 DEF LoadFailureNotRecorded, rows, Keeps
  <2>2. faults' # 0
    BY <1>0, <1>9 DEF LoadFailureNotRecorded, Fault
  <2> QED
    BY <1>3, <1>9, <2>1, <2>2 DEF LoadFailureNotRecorded, rows
<1> QED
  BY <1>1, <1>2, <1>4, <1>5, <1>6, <1>7, <1>8, <1>9 DEF Worker

LEMMA NextFollowUps ==
  ASSUME Deleters = {}, Clis = {}, Grounds, FollowUps, [Next]_vars
  PROVE  FollowUps'
<1>1. LifeCycle'
  BY NextLifeCycle DEF Grounds, WellFormed, FollowUps
<1>2. ASSUME UNCHANGED <<rows, proc, toReport, restarts, faults>>
      PROVE  FollowUps'
  <2>1. Keeps
    BY <1>2 DEF rows, Keeps
  <2> QED
    BY <1>1, <1>2, <2>1, KeepsFollowUps DEF rows, Grounds, WellFormed
<1>3. ASSUME NEW t \in Tasks, CreateTask(t)
      PROVE  FollowUps'
  BY <1>2, <1>3 DEF CreateTask
<1>4. CASE UNCHANGED vars
  BY <1>2, <1>4 DEF vars, rows
<1>5. Procs = Workers
  BY DEF Procs
<1> QED
  BY <1>1, <1>3, <1>4, <1>5, DaemonFollowUps, RequestFollowUps, WorkerFollowUps,
     ExecuteFollowUps DEF Next

LEMMA GroundsInvariant ==
  ASSUME Deleters = {}, Clis = {}
  PROVE  Spec => []Grounds
BY WellFormedInvariant, OwnershipInvariant, OneActive, StoriesInvariant, PTL DEF Grounds

LEMMA FollowUpsInvariant ==
  ASSUME Deleters = {}, Clis = {}
  PROVE  Spec => []FollowUps
<1>1. Init => FollowUps
  <2> SUFFICES ASSUME Init
               PROVE  FollowUps
    OBVIOUS
  <2>1. Present = {}
    BY DEF Init, Present
  <2>2. NoGaps
    <3>1. Present = 1 .. 0 /\ 0 \in 0 .. MaxRun
      BY <2>1, BoundsAssumption
    <3> QED
      BY <3>1 DEF NoGaps
  <2>3. HasLineage
    <3>1. [r \in Runs |-> r] \in [Runs -> Runs] /\ Lineage([r \in Runs |-> r])
      BY <2>1 DEF Lineage, IsRetry
    <3> QED
      BY <3>1 DEF HasLineage
  <2> QED
    BY <2>1, <2>2, <2>3 DEF Init, FollowUps, Copies, AttemptsInRange, ActiveIsNewest,
       ActiveStatuses, LifeCycle, FailuresHeard, NoProc, Procs
<1>2. Grounds /\ FollowUps /\ [Next]_vars => FollowUps'
  BY NextFollowUps
<1> QED
  BY <1>1, <1>2, GroundsInvariant, PTL DEF Spec

\* A family of runs that each follow a run of another family, no two the same one,
\* is no larger: at most one retry for every failure.
LEMMA LineageBounds ==
  ASSUME TypeOK, AttemptsInRange, HasLineage, NEW t \in Tasks, NEW n \in Nat \ {0}
  PROVE  Cardinality({r \in Present : taskOf[r] = t /\ attempt[r] = n + 1})
           <= Cardinality({r \in Present : taskOf[r] = t /\ attempt[r] = n
                                           /\ status[r] = "failed"})
<1> DEFINE S == {r \in Present : taskOf[r] = t /\ attempt[r] = n + 1}
           T == {r \in Present : taskOf[r] = t /\ attempt[r] = n /\ status[r] = "failed"}
<1>1. PICK f \in [Runs -> Runs] : Lineage(f)
  BY DEF HasLineage
<1>2. \A r \in S : r \in Runs /\ IsRetry(r)
  BY DEF IsRetry, Present
<1>3. \A r \in S : f[r] \in T
  BY SMTT(30), <1>1, <1>2 DEF Lineage, Present, TypeOK
<1> DEFINE g == [r \in S |-> f[r]]
<1>4. g \in Injection(S, T)
  BY <1>1, <1>2, <1>3 DEF Lineage, Injection, IsInjective
<1>5. IsFiniteSet(T)
  <2>1. IsFiniteSet(Runs)
    BY FS_Interval, BoundsAssumption DEF Runs
  <2>2. T \subseteq Runs
    BY DEF Present
  <2> QED
    BY <2>1, <2>2, FS_Subset
<1> QED
  BY <1>4, <1>5, FS_Injection

\* In a daemon without command-line runs and deletions: while it keeps running and
\* the store works, every failed run is told, retried or overtaken by a newer run
\* of its task; and at all times no task has more retries than failures to retry,
\* nor a run beyond its configured attempts.
THEOREM FailuresFollowed ==
  ASSUME Deleters = {}, Clis = {}
  PROVE  Spec => []FailuresAreFollowedUp
<1>1. TypeOK /\ FollowUps => NoSilentLoss
  <2> SUFFICES ASSUME TypeOK, FollowUps, restarts = 0, faults = 0, NEW r \in Runs,
                      LostSilently(r)
               PROVE  FALSE
    BY DEF NoSilentLoss
  <2>1. Heard(r)
    BY DEF FollowUps, FailuresHeard, LostSilently
  <2> QED
    BY <2>1 DEF Heard, LostSilently, Procs, Present
<1>2. TypeOK /\ FollowUps => RetryBudget
  <2> SUFFICES ASSUME TypeOK, FollowUps
               PROVE  RetryBudget
    OBVIOUS
  <2>1. \A n \in {attempt[r] : r \in Present} : n \in Nat \ {0}
    BY DEF FollowUps, AttemptsInRange, TypeOK, Present
  <2> QED
    BY <2>1, LineageBounds DEF RetryBudget, FollowUps, AttemptsInRange
<1>3. TypeOK /\ FollowUps => FailuresAreFollowedUp
  BY <1>1, <1>2 DEF FailuresAreFollowedUp
<1> QED
  BY <1>3, TypeCorrectness, FollowUpsInvariant, PTL
=============================================================================
