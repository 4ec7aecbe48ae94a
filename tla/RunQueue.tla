------------------------------ MODULE RunQueue ------------------------------
(***************************************************************************)
(* The durable run queue and everything that writes it: the SQLite table    *)
(* `run` with its partial unique index ux_run_active, the worker pool, the  *)
(* executor's terminal writes, the dispatcher, the HTTP "run now" and       *)
(* "delete task" handlers, the command-line `duskrun run`, and the daemon's *)
(* life cycle (start-up reap, graceful drain, crash).                       *)
(*                                                                          *)
(* One action is one statement the store serialises (the write pool has one *)
(* connection) or one local step between two of them.  The pipeline that    *)
(* moves the bytes is a single outcome here: stored, or not.                *)
(***************************************************************************)
EXTENDS Naturals, FiniteSets

CONSTANTS
  Workers,      \* goroutines of the daemon's pool
  Clis,         \* slots for `duskrun run` processes
  Deleters,     \* HTTP requests deleting a task
  MaxTask,      \* bound: highest task rowid
  MaxRun,       \* bound: highest run rowid
  Retries,      \* Retries[t]: the task's configured retries
  MaxRestarts,  \* bound: crashes and shutdowns together
  MaxFaults     \* bound: store errors other than constraint violations; one
                \* error may hit the consecutive writes of one executor

Tasks == 1 .. MaxTask
Runs == 1 .. MaxRun
Procs == Workers \cup Clis

ASSUME BoundsAssumption ==
  /\ MaxTask \in Nat
  /\ MaxRun \in Nat
  /\ MaxRestarts \in Nat
  /\ MaxFaults \in Nat

ASSUME RetriesAssumption == Retries \in [Tasks -> Nat]

ASSUME ProcsAssumption == Workers \cap Clis = {}

VARIABLES
  tasks,      \* rowids present in table task
  status,     \* status[r]: column status of run row r, "none" when there is no row
  taskOf,     \* taskOf[r]: column task_id, 0 when there is no row
  attempt,    \* attempt[r]: column attempt, 0 when there is no row
  catalog,    \* catalog[r]: whose dumps the artifact rows of run r describe
  told,       \* told[r]: what the task's channels were told of run r
  proc,       \* proc[p]: the program counter and local copies of an executor
  daemon,     \* "down", "starting", "up" or "draining"
  toReport,   \* reaped runs ReportInterrupted has yet to announce
  due,        \* tasks the running Tick has yet to enqueue
  del,        \* del[d]: the task a delete request has found idle, else 0
  restarts,   \* crashes and shutdowns so far
  faults      \* store errors so far

rows == <<status, taskOf, attempt, catalog, told>>
vars == <<tasks, status, taskOf, attempt, catalog, told, proc, daemon,
          toReport, due, del, restarts, faults>>

Statuses == {"none", "queued", "running", "success", "failed"}
Notices == {"success", "failure", "interrupted"}
PCs == {"idle", "claimed", "dumping", "stored", "recorded", "failed", "succeeded"}
Working == {"claimed", "dumping", "stored", "recorded"}

NoProc == [pc |-> "idle", run |-> 0, task |-> 0, attempt |-> 0]

TypeOK ==
  /\ tasks \subseteq Tasks
  /\ status \in [Runs -> Statuses]
  /\ taskOf \in [Runs -> Tasks \cup {0}]
  /\ attempt \in [Runs -> Nat]
  /\ catalog \in [Runs -> SUBSET Tasks]
  /\ told \in [Runs -> SUBSET Notices]
  /\ proc \in [Procs -> [pc : PCs, run : Runs \cup {0},
                         task : Tasks \cup {0}, attempt : Nat]]
  /\ daemon \in {"down", "starting", "up", "draining"}
  /\ toReport \subseteq Runs
  /\ due \subseteq Tasks
  /\ del \in [Deleters -> Tasks \cup {0}]
  /\ restarts \in 0 .. MaxRestarts
  /\ faults \in 0 .. MaxFaults

Init ==
  /\ tasks = Tasks
  /\ status = [r \in Runs |-> "none"]
  /\ taskOf = [r \in Runs |-> 0]
  /\ attempt = [r \in Runs |-> 0]
  /\ catalog = [r \in Runs |-> {}]
  /\ told = [r \in Runs |-> {}]
  /\ proc = [p \in Procs |-> NoProc]
  /\ daemon = "down"
  /\ toReport = {}
  /\ due = {}
  /\ del = [d \in Deleters |-> 0]
  /\ restarts = 0
  /\ faults = 0

-----------------------------------------------------------------------------
\* The store.

\* rowid of the next INSERT: one past the highest, so ids of deleted rows at
\* the top of the table are handed out again (no AUTOINCREMENT).
IsNextRowid(S, x) == (\A y \in S : y < x) /\ (x = 1 \/ x - 1 \in S)

Present == {r \in Runs : status[r] # "none"}
Active(t) == \E r \in Runs : taskOf[r] = t /\ status[r] \in {"queued", "running"}

\* Mutant of Insertable: the index ux_run_active is not partial on status.
InsertableWithoutIndex(t) ==
  /\ t \in tasks
  /\ \E r \in Runs : IsNextRowid(Present, r)

\* Mutant of Insertable: foreign keys are off.
InsertableWithoutForeignKey(t) ==
  /\ ~Active(t)
  /\ \E r \in Runs : IsNextRowid(Present, r)

\* An INSERT the foreign key and ux_run_active let through, with a rowid left.
Insertable(t) ==
  /\ t \in tasks
  /\ ~Active(t)
  /\ \E r \in Runs : IsNextRowid(Present, r)

InsertRun(t, s, n, r) ==
  /\ Insertable(t)
  /\ IsNextRowid(Present, r)
  /\ status' = [status EXCEPT ![r] = s]
  /\ taskOf' = [taskOf EXCEPT ![r] = t]
  /\ attempt' = [attempt EXCEPT ![r] = n]
  /\ UNCHANGED <<catalog, told>>

\* UPDATE run SET status ... WHERE id = r: touches nothing when the row is gone,
\* and looks at no other column.
Finish(r, s) ==
  /\ status' = [q \in Runs |-> IF q = r /\ status[q] # "none" THEN s ELSE status[q]]
  /\ UNCHANGED <<taskOf, attempt, catalog, told>>

Fault ==
  /\ faults < MaxFaults
  /\ faults' = faults + 1

Goto(p, pc) == proc' = [proc EXCEPT ![p].pc = pc]
Leave(p) == proc' = [proc EXCEPT ![p] = NoProc]
Tell(r, n) ==
  told' = [q \in Runs |-> IF q = r /\ status[q] # "none" THEN told[q] \cup {n} ELSE told[q]]

-----------------------------------------------------------------------------
\* The daemon's life cycle.

\* Mutant of Startup: nothing is reaped.
StartupWithoutReap ==
  /\ daemon = "down"
  /\ daemon' = "starting"
  /\ UNCHANGED <<tasks, rows, proc, toReport, due, del, restarts, faults>>

Startup ==
  /\ daemon = "down"
  /\ daemon' = "starting"
  /\ status' = [r \in Runs |-> IF status[r] = "running" THEN "failed" ELSE status[r]]
  /\ toReport' = {r \in Runs : status[r] = "running"}
  /\ UNCHANGED <<tasks, taskOf, attempt, catalog, told, proc, due, del, restarts, faults>>

ReportInterrupted(r) ==
  /\ daemon = "starting"
  /\ r \in toReport
  /\ \A q \in toReport : r <= q
  /\ toReport' = toReport \ {r}
  /\ Tell(r, "interrupted")
  /\ UNCHANGED <<tasks, status, taskOf, attempt, catalog, proc, daemon, due, del,
                 restarts, faults>>

EngineRun ==
  /\ daemon = "starting"
  /\ toReport = {}
  /\ daemon' = "up"
  /\ UNCHANGED <<tasks, rows, proc, toReport, due, del, restarts, faults>>

\* SIGTERM: the context every loop shares is cancelled.  The tick in progress
\* loses its remaining enqueues, a start-up loses its remaining reports.
Shutdown ==
  /\ daemon \in {"starting", "up"}
  /\ restarts < MaxRestarts
  /\ restarts' = restarts + 1
  /\ daemon' = "draining"
  /\ due' = {}
  /\ toReport' = {}
  /\ UNCHANGED <<tasks, rows, proc, del, faults>>

\* wg.Wait returned: no worker holds a run.
Drained ==
  /\ daemon = "draining"
  /\ \A w \in Workers : proc[w].pc = "idle"
  /\ daemon' = "down"
  /\ del' = [d \in Deleters |-> 0]
  /\ UNCHANGED <<tasks, rows, proc, toReport, due, restarts, faults>>

Crash ==
  /\ daemon # "down"
  /\ restarts < MaxRestarts
  /\ restarts' = restarts + 1
  /\ daemon' = "down"
  /\ proc' = [p \in Procs |-> IF p \in Workers THEN NoProc ELSE proc[p]]
  /\ toReport' = {}
  /\ due' = {}
  /\ del' = [d \in Deleters |-> 0]
  /\ UNCHANGED <<tasks, rows, faults>>

-----------------------------------------------------------------------------
\* Who asks for runs.

\* Tick has listed the enabled tasks; S is what is due of them.
TickLists(S) ==
  /\ daemon = "up"
  /\ due = {}
  /\ S # {}
  /\ due' = S
  /\ UNCHANGED <<tasks, rows, proc, daemon, toReport, del, restarts, faults>>

TickEnqueues(t, r) ==
  /\ t \in due
  /\ \A u \in due : t <= u
  /\ InsertRun(t, "queued", 1, r)
  /\ due' = due \ {t}
  /\ UNCHANGED <<tasks, proc, daemon, toReport, del, restarts, faults>>

\* ErrAlreadyActive, or the task was deleted under the list: logged, not kept.
TickSkips(t) ==
  /\ t \in due
  /\ \A u \in due : t <= u
  /\ ~Insertable(t)
  /\ due' = due \ {t}
  /\ UNCHANGED <<tasks, rows, proc, daemon, toReport, del, restarts, faults>>

\* A request accepted before a shutdown may still complete while it drains.
RunNow(t, r) ==
  /\ daemon \in {"up", "draining"}
  /\ InsertRun(t, "queued", 1, r)
  /\ UNCHANGED <<tasks, proc, daemon, toReport, due, del, restarts, faults>>

-----------------------------------------------------------------------------
\* A pool worker.

\* Mutant of OldestQueued: the subselect takes any active row.
AnyActive(r) == status[r] \in {"queued", "running"}

OldestQueued(r) ==
  /\ status[r] = "queued"
  /\ \A q \in Runs : status[q] = "queued" => r <= q

ClaimNext(w, r) ==
  /\ daemon = "up"
  /\ proc[w].pc = "idle"
  /\ OldestQueued(r)
  /\ status' = [status EXCEPT ![r] = "running"]
  /\ proc' = [proc EXCEPT ![w] = [pc |-> "claimed", run |-> r, task |-> taskOf[r],
                                  attempt |-> attempt[r]]]
  /\ UNCHANGED <<tasks, taskOf, attempt, catalog, told, daemon, toReport, due, del,
                 restarts, faults>>

LoadTask(w) ==
  /\ daemon = "up"
  /\ proc[w].pc = "claimed"
  /\ proc[w].task \in tasks
  /\ Goto(w, "dumping")
  /\ UNCHANGED <<tasks, rows, daemon, toReport, due, del, restarts, faults>>

\* GetTask runs under the shared context: a shutdown right after the claim, a
\* deleted task or a store error ends the run with neither a retry nor a notice.
LoadTaskFails(w) ==
  /\ proc[w].pc = "claimed"
  /\ \/ (daemon = "draining" \/ proc[w].task \notin tasks) /\ UNCHANGED faults
     \/ Fault
  /\ Finish(proc[w].run, "failed")
  /\ Leave(w)
  /\ UNCHANGED <<tasks, daemon, toReport, due, del, restarts>>

\* The same, and the store refuses that Finish too: its error is discarded, the
\* row stays running until a restart reaps it.
LoadFailureNotRecorded(w) ==
  /\ proc[w].pc = "claimed"
  /\ Fault
  /\ Leave(w)
  /\ UNCHANGED <<tasks, rows, daemon, toReport, due, del, restarts>>

Succeeded(w) ==
  /\ proc[w].pc = "succeeded"
  /\ Tell(proc[w].run, "success")
  /\ Leave(w)
  /\ UNCHANGED <<tasks, status, taskOf, attempt, catalog, daemon, toReport, due, del,
                 restarts, faults>>

RetriesLeft(w) == proc[w].attempt + 1 <= Retries[proc[w].task] + 1

FailedTerminally(w) ==
  /\ proc[w].pc = "failed"
  /\ ~RetriesLeft(w)
  /\ Tell(proc[w].run, "failure")
  /\ Leave(w)
  /\ UNCHANGED <<tasks, status, taskOf, attempt, catalog, daemon, toReport, due, del,
                 restarts, faults>>

\* Mutant of Requeue: the failed row goes back to the queue.
RequeueInPlace(w, r) ==
  /\ proc[w].pc = "failed"
  /\ RetriesLeft(w)
  /\ r = proc[w].run
  /\ status' = [status EXCEPT ![r] = "queued"]
  /\ attempt' = [attempt EXCEPT ![r] = @ + 1]
  /\ Leave(w)
  /\ UNCHANGED <<tasks, taskOf, catalog, told, daemon, toReport, due, del, restarts, faults>>

\* After the backoff, which a shutdown cuts short; the insert itself is detached.
Requeue(w, r) ==
  /\ proc[w].pc = "failed"
  /\ RetriesLeft(w)
  /\ InsertRun(proc[w].task, "queued", proc[w].attempt + 1, r)
  /\ Leave(w)
  /\ UNCHANGED <<tasks, daemon, toReport, due, del, restarts, faults>>

\* Mutant of RequeueRefused: Requeue itself drops the last allowed attempt.
RequeueRefusedEarly(w) ==
  /\ proc[w].pc = "failed"
  /\ RetriesLeft(w)
  /\ \/ proc[w].attempt + 1 >= Retries[proc[w].task] + 1 /\ UNCHANGED faults
     \/ Fault
  /\ Leave(w)
  /\ UNCHANGED <<tasks, rows, daemon, toReport, due, del, restarts>>

RequeueRefused(w) ==
  /\ proc[w].pc = "failed"
  /\ RetriesLeft(w)
  /\ \/ ~Insertable(proc[w].task) /\ UNCHANGED faults
     \/ Fault
  /\ Leave(w)
  /\ UNCHANGED <<tasks, rows, daemon, toReport, due, del, restarts>>

-----------------------------------------------------------------------------
\* Executor.Run, the same code in a worker and in the command line.

DumpStored(p) ==
  /\ proc[p].pc = "dumping"
  /\ Goto(p, "stored")
  /\ UNCHANGED <<tasks, rows, daemon, toReport, due, del, restarts, faults>>

\* Any error before the upload completed, the task's timeout and the shutdown's
\* cancellation included.
DumpFails(p) ==
  /\ proc[p].pc = "dumping"
  /\ Finish(proc[p].run, "failed")
  /\ Goto(p, "failed")
  /\ UNCHANGED <<tasks, daemon, toReport, due, del, restarts, faults>>

\* The store refuses Finish(failed), after a failed dump or as the next of the
\* writes it refuses (the artifact, the success); the executor discards that
\* error and the row stays running until a restart reaps it.
FailureNotRecorded(p) ==
  /\ proc[p].pc \in {"dumping", "stored", "recorded"}
  /\ Fault
  /\ Goto(p, "failed")
  /\ UNCHANGED <<tasks, rows, daemon, toReport, due, del, restarts>>

InsertArtifact(p) ==
  /\ proc[p].pc = "stored"
  /\ status[proc[p].run] # "none"
  /\ catalog' = [catalog EXCEPT ![proc[p].run] = @ \cup {proc[p].task}]
  /\ Goto(p, "recorded")
  /\ UNCHANGED <<tasks, status, taskOf, attempt, told, daemon, toReport, due, del,
                 restarts, faults>>

\* The run row is gone (foreign key), or the store fails: the object stays
\* uploaded, the run ends failed (unless FailureNotRecorded).
InsertArtifactFails(p) ==
  /\ proc[p].pc = "stored"
  /\ \/ status[proc[p].run] = "none" /\ UNCHANGED faults
     \/ Fault
  /\ Finish(proc[p].run, "failed")
  /\ Goto(p, "failed")
  /\ UNCHANGED <<tasks, daemon, toReport, due, del, restarts>>

\* Mutant of FinishSuccess: the run succeeds before its artifact is catalogued.
FinishSuccessBeforeCatalog(p) ==
  /\ proc[p].pc \in {"stored", "recorded"}
  /\ Finish(proc[p].run, "success")
  /\ Goto(p, "succeeded")
  /\ UNCHANGED <<tasks, daemon, toReport, due, del, restarts, faults>>

FinishSuccess(p) ==
  /\ proc[p].pc = "recorded"
  /\ Finish(proc[p].run, "success")
  /\ Goto(p, "succeeded")
  /\ UNCHANGED <<tasks, daemon, toReport, due, del, restarts, faults>>

\* The first Finish fails, the second, failed one goes through.
FinishSuccessFails(p) ==
  /\ proc[p].pc = "recorded"
  /\ Fault
  /\ Finish(proc[p].run, "failed")
  /\ Goto(p, "failed")
  /\ UNCHANGED <<tasks, daemon, toReport, due, del, restarts>>

-----------------------------------------------------------------------------
\* `duskrun run`: a process of its own on the same database file.

StartManualRun(c, t, r) ==
  /\ proc[c].pc = "idle"
  /\ InsertRun(t, "running", 1, r)
  /\ proc' = [proc EXCEPT ![c] = [pc |-> "dumping", run |-> r, task |-> t, attempt |-> 1]]
  /\ UNCHANGED <<tasks, daemon, toReport, due, del, restarts, faults>>

\* The command prints its outcome and exits, or it is interrupted at any point
\* (it installs no signal handler): no retry, no notice, no terminal write.
CliExits(c) ==
  /\ proc[c].pc # "idle"
  /\ Leave(c)
  /\ UNCHANGED <<tasks, rows, daemon, toReport, due, del, restarts, faults>>

-----------------------------------------------------------------------------
\* Deleting and creating tasks.

\* The count of active runs, on the read pool.
DeleteTaskChecks(d, t) ==
  /\ daemon \in {"up", "draining"}
  /\ del[d] = 0
  /\ t \in tasks
  /\ ~Active(t)
  /\ del' = [del EXCEPT ![d] = t]
  /\ UNCHANGED <<tasks, rows, proc, daemon, toReport, due, restarts, faults>>

\* DELETE FROM task, a separate statement: run and artifact rows cascade.
DeleteTask(d) ==
  /\ del[d] # 0
  /\ LET Kept(f, none) == [r \in Runs |-> IF taskOf[r] = del[d] THEN none ELSE f[r]] IN
     /\ status' = Kept(status, "none")
     /\ taskOf' = Kept(taskOf, 0)
     /\ attempt' = Kept(attempt, 0)
     /\ catalog' = Kept(catalog, {})
     /\ told' = Kept(told, {})
  /\ tasks' = tasks \ {del[d]}
  /\ del' = [del EXCEPT ![d] = 0]
  /\ UNCHANGED <<proc, daemon, toReport, due, restarts, faults>>

CreateTask(t) ==
  /\ daemon \in {"up", "draining"}
  /\ IsNextRowid(tasks, t)
  /\ tasks' = tasks \cup {t}
  /\ UNCHANGED <<rows, proc, daemon, toReport, due, del, restarts, faults>>

-----------------------------------------------------------------------------
Daemon ==
  \/ Startup
  \/ \E r \in Runs : ReportInterrupted(r)
  \/ EngineRun
  \/ Shutdown
  \/ Drained
  \/ Crash

Request ==
  \/ \E S \in SUBSET tasks : TickLists(S)
  \/ \E t \in Tasks : TickSkips(t)
  \/ \E t \in Tasks, r \in Runs : TickEnqueues(t, r) \/ RunNow(t, r)

Worker(w) ==
  \/ LoadTask(w) \/ LoadTaskFails(w) \/ LoadFailureNotRecorded(w)
  \/ Succeeded(w) \/ FailedTerminally(w) \/ RequeueRefused(w)
  \/ \E r \in Runs : ClaimNext(w, r) \/ Requeue(w, r)

Execute(p) ==
  \/ DumpStored(p) \/ DumpFails(p) \/ FailureNotRecorded(p)
  \/ InsertArtifact(p) \/ InsertArtifactFails(p)
  \/ FinishSuccess(p) \/ FinishSuccessFails(p)

Cli(c) ==
  \/ CliExits(c)
  \/ \E t \in Tasks, r \in Runs : StartManualRun(c, t, r)

Delete(d) ==
  \/ DeleteTask(d)
  \/ \E t \in Tasks : DeleteTaskChecks(d, t)

Next ==
  \/ Daemon
  \/ Request
  \/ \E w \in Workers : Worker(w)
  \/ \E p \in Procs : Execute(p)
  \/ \E c \in Clis : Cli(c)
  \/ \E d \in Deleters : Delete(d)
  \/ \E t \in Tasks : CreateTask(t)

Spec == Init /\ [][Next]_vars

-----------------------------------------------------------------------------
\* Fairness.  Goroutines are scheduled, a statement sent to the store returns, and
\* a supervisor starts the daemon again after it stopped.  Nobody is obliged to ask
\* for a run, to delete a task or to use the CLI, and no dump is obliged to end:
\* a task may have no timeout (worker.go), and an ssh handshake or a silent sftp
\* server holds a run past its timeout (see Pipeline).
Fairness ==
  /\ WF_vars(Startup)
  /\ WF_vars(\E r \in Runs : ReportInterrupted(r))
  /\ WF_vars(EngineRun)
  /\ WF_vars(Drained)
  /\ \A w \in Workers :
       /\ WF_vars(Worker(w))
       /\ WF_vars(proc[w].pc # "dumping" /\ Execute(w))

FairSpec == Spec /\ Fairness

-----------------------------------------------------------------------------
\* Properties.

\* A task never has two active runs, whoever asked for them: the tick, "run
\* now", a retry waking from its backoff or the command line (ux_run_active,
\* migrations/0001_init.sql).
OneActivePerTask ==
  \A r, q \in Runs :
    /\ status[r] \in {"queued", "running"}
    /\ status[q] \in {"queued", "running"}
    /\ taskOf[r] = taskOf[q]
    => r = q

\* Cascades and the foreign key leave no run of a task that does not exist,
\* even when a retry or a tick still holds the id of a deleted task.
NoOrphanRuns == \A r \in Present : taskOf[r] \in tasks

OneExecutor(P) ==
  \A p, q \in P :
    /\ proc[p].pc \in Working
    /\ proc[q].pc \in Working
    /\ proc[p].task = proc[q].task
    => p = q

\* "Two runs of one task at once" is impossible: of all executors, in the daemon
\* and outside it, at most one works on a task.
OneExecutorPerTask == OneExecutor(Procs)

\* While a worker works on a run, the row is its own: it is still running, still
\* of the task the worker dumps, and no other worker works on that task.  Neither
\* the start-up reap nor another worker's Finish, which looks at no status, can
\* take it away.
RowOwned ==
  /\ \A w \in Workers : proc[w].pc \in Working =>
       /\ proc[w].run \in Runs
       /\ status[proc[w].run] = "running"
       /\ taskOf[proc[w].run] = proc[w].task
  /\ OneExecutor(Workers)

\* A run that ended stays as it ended, through retries, reaps and late writes:
\* a retry is a new row, and Finish never hits a row twice.
TerminalIsFinal ==
  [][\A r \in Runs : status[r] \in {"success", "failed"} => status'[r] = status[r]]_vars

\* What the channels were told of a run agrees with its row: success only of a
\* recorded success and then nothing else, failure or interruption only of a run
\* that will never succeed.  (A failure the store refused to record leaves the
\* row running until the next reap, after which it is announced once more.)
NoticeTruthful ==
  \A r \in Runs :
    /\ "success" \in told[r] => status[r] = "success" /\ told[r] = {"success"}
    /\ told[r] \cap {"failure", "interrupted"} # {} =>
         status[r] = "failed" \/ (status[r] = "running" /\ faults > 0)

\* The catalogue lists under a run only dumps of the run's own task, and no run
\* counts as a success without one.
CatalogTruthful ==
  \A r \in Runs :
    /\ catalog[r] \subseteq {taskOf[r]}
    /\ status[r] = "success" => catalog[r] # {}

\* Of a run nobody is told what its row does not say, and no success is recorded
\* without its dump: artifact, status and notice are three writes (Executor.run,
\* Pool.execute) that a crash, a shutdown or a store error may part.
Truthful == NoticeTruthful /\ CatalogTruthful

\* Runs start in the order they were asked for: no run younger than a waiting
\* one has left the queue.
QueueOrder ==
  \A r, q \in Runs : r < q /\ status[r] = "queued" => status[q] \in {"none", "queued"}

\* Retries are bounded and each is owed to a failure: no more runs of attempt
\* n + 1 than failed runs of attempt n, none beyond the configured retries.
RetryBudget ==
  /\ \A r \in Present : attempt[r] \in 1 .. Retries[taskOf[r]] + 1
  /\ \A t \in Tasks, n \in {attempt[r] : r \in Present} :
       Cardinality({r \in Present : taskOf[r] = t /\ attempt[r] = n + 1})
         <= Cardinality({r \in Present : taskOf[r] = t /\ attempt[r] = n
                                         /\ status[r] = "failed"})

\* A failed run nobody is going to hear of: no worker is still handling it, no
\* report is pending, nothing was told, and no later run of the task follows.
LostSilently(r) ==
  /\ status[r] = "failed"
  /\ told[r] = {}
  /\ r \notin toReport
  /\ \A p \in Procs : proc[p].run # r
  /\ ~\E q \in Runs : q > r /\ taskOf[q] = taskOf[r]
  /\ MaxRun \notin Present  \* the bound did not refuse the retry

\* As long as the daemon keeps running and the store works, every failure is
\* either retried, overtaken by a newer run of the task, or told.
NoSilentLoss == restarts = 0 /\ faults = 0 => \A r \in Runs : ~LostSilently(r)

\* A failed run is followed up once: with its retry, a newer run or a notice, and never
\* with more retries than its task is configured for (Pool.execute, Store.Requeue),
\* although the retry waits without a slot and others take it.
FailuresAreFollowedUp == NoSilentLoss /\ RetryBudget

\* The same with restarts: "tells each task's channels that its run was cut
\* short by a daemon restart" (runevents.go).
RestartLosesNothing == \A r \in Runs : ~LostSilently(r)

\* What the code leaves to the systems it talks to: no worker dumps for ever.
DumpsEnd == \A w \in Workers : []<>(proc[w].pc # "dumping")

\* If every dump ends, every run asked for ends, across crashes, shutdowns and
\* restarts, unless the store refused one of its writes: a worker that returned
\* serves the queue again, a drain ends, a restart reaps what a crash cut.
EveryRunEnds ==
  DumpsEnd =>
    \A r \in Runs :
      status[r] \in {"queued", "running"} ~>
        (status[r] \in {"success", "failed"} \/ faults > 0)

\* The queue implements one slot per task.
Slot(t) ==
  IF \E r \in Runs : taskOf[r] = t /\ status[r] = "queued" THEN "queued"
  ELSE IF \E r \in Runs : taskOf[r] = t /\ status[r] = "running" THEN "running"
  ELSE "free"

Holders(t) == {w \in Workers : proc[w].pc \in Working /\ proc[w].task = t}

Slots == INSTANCE TaskSlots WITH
  Executors <- Workers,
  slot <- [t \in Tasks |-> Slot(t)],
  holder <- [t \in Tasks |-> Holders(t)]

\* Requests, claims, ends, lost writes, crashes and the reap are steps of the
\* slot specification: a slot is freed by the worker that holds it, or by the
\* reap when no worker is alive.
ImplementsTaskSlots == Slots!Spec
=============================================================================
