------------------------------ MODULE Retention ------------------------------
(***************************************************************************)
(* Backups in storage and in the catalog: the executor uploads an object     *)
(* and then inserts its artifact row, the sweeper deletes the object and     *)
(* then the row, and reports the objects no row knows.                       *)
(*                                                                           *)
(* Time is counted in minutes, the resolution of an artifact key's stamp.    *)
(* A key is the task's prefix and the minute its run built it.  Rows take    *)
(* rowids without AUTOINCREMENT, and deleting a task cascades to its rows.   *)
(***************************************************************************)
EXTENDS Naturals, FiniteSets, Sequences, SequencesExt

CONSTANTS
  Tasks,             \* task rows
  Storages,          \* storages a task can be pointed at
  Policies,          \* retention policies a task can be given
  Sweepers,          \* callers of Sweep and TrySweep
  Locked,            \* runs whose object the storage refuses to delete
  DayLen, WeekLen, MonthLen,  \* the calendar, in minutes
  MinGap,            \* least minutes between the starts of a task's runs
  DeleteMidSweep,    \* whether a task is deleted while a sweep runs
  MaxTime,           \* bound: minutes
  MaxRuns,           \* bound: uploads
  MaxEdits,          \* bound: edits and deletions of tasks
  MaxFaults          \* bound: crashes and failed calls

ASSUME CalendarAssumption ==
  /\ DayLen \in Nat \ {0}
  /\ WeekLen \in Nat \ {0}
  /\ MonthLen \in Nat \ {0}

ASSUME BoundsAssumption ==
  /\ MinGap \in Nat
  /\ "none" \notin Sweepers
  /\ DeleteMidSweep \in BOOLEAN
  /\ {MaxRuns, MaxEdits, MaxFaults} \subseteq Nat /\ MaxTime \in Nat \ {0}
  /\ Policies \subseteq [last : Nat, daily : Nat, weekly : Nat, monthly : Nat]

VARIABLES
  now,      \* the clock
  task,     \* the task rows
  catalog,  \* the artifact rows; run names the upload whose bytes they describe
  objects,  \* what the storages hold; run names the upload whose bytes they are
  upload,   \* per task, the executor's run
  strays,   \* history: uploads whose object lost its row, or never got one
  lock,     \* the sweeper's mutex: who holds it, "none" when free
  sweep,    \* per sweeper, the pass it is making
  runs, edits, faults

vars == <<now, task, catalog, objects, upload, strays, lock, sweep, runs, edits, faults>>

Artifact == [id : Nat, task : Tasks, storage : Storages, key : Nat, at : Nat, run : Nat]
Object   == [storage : Storages, task : Tasks, key : Nat, run : Nat]

NoPolicy == [last |-> 0, daily |-> 0, weekly |-> 0, monthly |-> 0]

NoTask == [name |-> CHOOSE t \in Tasks : TRUE, storage |-> CHOOSE s \in Storages : TRUE,
           policy |-> NoPolicy]

NoUpload == [pc |-> "idle", storage |-> CHOOSE s \in Storages : TRUE, key |-> 0, run |-> 0]

\* todo: copies of the tasks ListTasks returned; del: what Forget left to delete;
\* deleted is reported, removed is what went; known and scopes are what Orphans
\* derives from the rows; catalogued and lost are history: the uploads that had a
\* row, and those that had lost theirs, when Orphans read it.
NoSweep == [pc |-> "idle", todo |-> {}, task |-> NoTask, del |-> <<>>,
            deleted |-> 0, removed |-> 0,
            known |-> {}, scopes |-> {}, catalogued |-> {}, lost |-> {}, orphans |-> {}]

TypeOK ==
  /\ now \in 0 .. MaxTime
  /\ task \in [Tasks -> [exists : BOOLEAN, storage : Storages, policy : Policies, started : Nat]]
  /\ catalog \subseteq Artifact
  /\ \A a, b \in catalog : a.id = b.id => a = b
  /\ objects \subseteq Object
  /\ \A o, p \in objects :
       (o.storage = p.storage /\ o.task = p.task /\ o.key = p.key) => o = p
  /\ upload \in [Tasks -> [pc : {"idle", "writing", "written"}, storage : Storages,
                           key : Nat, run : Nat]]
  /\ strays \subseteq 1 .. MaxRuns
  /\ lock \in Sweepers \cup {"none"}
  /\ \A s \in Sweepers :
       /\ sweep[s].pc \in {"idle", "next", "prune", "row", "orphans", "listing", "listed"}
       /\ sweep[s].del \in Seq(Artifact)
       /\ sweep[s].deleted \in Nat /\ sweep[s].removed \in Nat
       /\ sweep[s].pc # "idle" => lock = s
  /\ runs \in 0 .. MaxRuns /\ edits \in 0 .. MaxEdits /\ faults \in 0 .. MaxFaults

Init ==
  /\ now = 1
  /\ \E s \in Storages, p \in Policies :
       task = [t \in Tasks |-> [exists |-> TRUE, storage |-> s, policy |-> p, started |-> 0]]
  /\ catalog = {}
  /\ objects = {}
  /\ upload = [t \in Tasks |-> NoUpload]
  /\ strays = {}
  /\ lock = "none"
  /\ sweep = [s \in Sweepers |-> NoSweep]
  /\ runs = 0 /\ edits = 0 /\ faults = 0

-----------------------------------------------------------------------------
\* The policy.

RowsOf(t) == {a \in catalog : a.task = t}

\* Newest first, ties broken by the higher id.
Newer(a, b) == a.at > b.at \/ (a.at = b.at /\ a.id > b.id)

Enabled(p) == p.last > 0 \/ p.daily > 0 \/ p.weekly > 0 \/ p.monthly > 0

\* The order of the sort.
Sorted(rows) ==
  CHOOSE q \in [1 .. Cardinality(rows) -> rows] :
    \A i, j \in 1 .. Cardinality(rows) : i < j => Newer(q[i], q[j])

PeriodsOf(rows, len) == {a.at \div len : a \in rows}

\* The scan: the newest row of each of the first count periods of length len.
NewestOfPeriods(sorted, count, len) ==
  LET kept[i \in 0 .. Len(sorted)] ==
        IF i = 0 THEN {}
        ELSE IF \/ sorted[i].at \div len \in PeriodsOf(kept[i - 1], len)
                \/ Cardinality(PeriodsOf(kept[i - 1], len)) >= count
             THEN kept[i - 1]
             ELSE kept[i - 1] \cup {sorted[i]}
  IN kept[Len(sorted)]

\* Mutant of KeepByPeriod: the scan stops one period early.
KeepByPeriodShort(sorted, count, len) == NewestOfPeriods(sorted, count - 1, len)

KeepByPeriod(sorted, count, len) == NewestOfPeriods(sorted, count, len)

\* The delete set, newest first.
Forget(p, rows) ==
  LET sorted == Sorted(rows)
      keep   == {sorted[i] : i \in {i \in DOMAIN sorted : i <= p.last}}
                  \cup KeepByPeriod(sorted, p.daily, DayLen)
                  \cup KeepByPeriod(sorted, p.weekly, WeekLen)
                  \cup KeepByPeriod(sorted, p.monthly, MonthLen)
  IN Sorted(rows \ keep)

-----------------------------------------------------------------------------
\* The clock, the operator and the executor.

Tick ==
  /\ now < MaxTime
  /\ now' = now + 1
  /\ UNCHANGED <<task, catalog, objects, upload, strays, lock, sweep, runs, edits, faults>>

\* PATCH /tasks/{id}: a new storage or a new policy.
EditTask(t) ==
  /\ task[t].exists
  /\ edits < MaxEdits
  /\ \E s \in Storages, p \in Policies :
       /\ <<s, p>> # <<task[t].storage, task[t].policy>>
       /\ task' = [task EXCEPT ![t].storage = s, ![t].policy = p]
  /\ edits' = edits + 1
  /\ UNCHANGED <<now, catalog, objects, upload, strays, lock, sweep, runs, faults>>

\* DELETE /tasks/{id}, refused while a run is queued or running.
DeleteTask(t) ==
  /\ task[t].exists
  /\ upload[t].pc = "idle"
  /\ lock = "none" \/ DeleteMidSweep
  /\ edits < MaxEdits
  /\ task' = [task EXCEPT ![t].exists = FALSE]
  /\ catalog' = catalog \ RowsOf(t)
  /\ strays' = strays \cup {a.run : a \in RowsOf(t)}
  /\ edits' = edits + 1
  /\ UNCHANGED <<now, objects, upload, lock, sweep, runs, faults>>

\* A run takes its copy of the task and builds its key.
StartUpload(t) ==
  /\ task[t].exists
  /\ upload[t].pc = "idle"
  /\ runs < MaxRuns
  /\ now >= task[t].started + MinGap
  /\ upload' = [upload EXCEPT ![t] = [pc |-> "writing", storage |-> task[t].storage,
                                      key |-> now, run |-> runs + 1]]
  /\ task' = [task EXCEPT ![t].started = now]
  /\ runs' = runs + 1
  /\ UNCHANGED <<now, catalog, objects, strays, lock, sweep, edits, faults>>

\* A write replaces what is stored under the key.
WriteObject(t) ==
  /\ upload[t].pc = "writing"
  /\ LET u == upload[t] IN
     objects' = {o \in objects : ~(o.storage = u.storage /\ o.task = t /\ o.key = u.key)}
                  \cup {[storage |-> u.storage, task |-> t, key |-> u.key, run |-> u.run]}
  /\ upload' = [upload EXCEPT ![t].pc = "written"]
  /\ UNCHANGED <<now, task, catalog, strays, lock, sweep, runs, edits, faults>>

WriteFails(t) ==
  /\ upload[t].pc = "writing"
  /\ faults < MaxFaults
  /\ upload' = [upload EXCEPT ![t] = NoUpload]
  /\ faults' = faults + 1
  /\ UNCHANGED <<now, task, catalog, objects, strays, lock, sweep, runs, edits>>

\* SQLite hands out one more than the largest rowid in use.
NextId == 1 + Max({0} \cup {a.id : a \in catalog})

InsertArtifactAt(t, storage) ==
  /\ upload[t].pc = "written"
  /\ catalog' = catalog \cup {[id |-> NextId, task |-> t, storage |-> storage,
                               key |-> upload[t].key, at |-> now, run |-> upload[t].run]}
  /\ upload' = [upload EXCEPT ![t] = NoUpload]
  /\ UNCHANGED <<now, task, objects, strays, lock, sweep, runs, edits, faults>>

InsertArtifact(t) == InsertArtifactAt(t, upload[t].storage)

\* The run fails, and its object stays behind.
InsertArtifactFails(t) ==
  /\ upload[t].pc = "written"
  /\ faults < MaxFaults
  /\ strays' = strays \cup {upload[t].run}
  /\ upload' = [upload EXCEPT ![t] = NoUpload]
  /\ faults' = faults + 1
  /\ UNCHANGED <<now, task, catalog, objects, lock, sweep, runs, edits>>

\* The daemon dies, in the middle of whatever it was doing, and comes back.
Crash ==
  /\ faults < MaxFaults
  /\ strays' = strays \cup {upload[t].run : t \in {u \in Tasks : upload[u].pc = "written"}}
  /\ upload' = [t \in Tasks |-> NoUpload]
  /\ lock' = "none"
  /\ sweep' = [s \in Sweepers |-> NoSweep]
  /\ faults' = faults + 1
  /\ UNCHANGED <<now, task, catalog, objects, runs, edits>>

-----------------------------------------------------------------------------
\* The sweeper.

\* Sweep waits for the mutex and TrySweep gives up without it; the one that gets
\* it lists the tasks.
BeginWith(s, free) ==
  /\ sweep[s].pc = "idle"
  /\ free
  /\ lock' = s
  /\ sweep' = [sweep EXCEPT
       ![s] = [NoSweep EXCEPT !.pc = "next",
                 !.todo = {[name |-> t, storage |-> task[t].storage, policy |-> task[t].policy] :
                             t \in {u \in Tasks : task[u].exists}}]]
  /\ UNCHANGED <<now, task, catalog, objects, upload, strays, runs, edits, faults>>

Begin(s) == BeginWith(s, lock = "none")

\* The next task's copy; without a policy there is nothing to prune.
NextTaskWith(s, pruned) ==
  /\ sweep[s].pc = "next"
  /\ \E c \in sweep[s].todo :
       sweep' = [sweep EXCEPT ![s].todo = @ \ {c},
                              ![s].task = c,
                              ![s].del = IF c.policy \in pruned
                                         THEN Forget(c.policy, RowsOf(c.name)) ELSE <<>>,
                              ![s].pc = IF c.policy \in pruned THEN "prune" ELSE "orphans"]
  /\ UNCHANGED <<now, task, catalog, objects, upload, strays, lock, runs, edits, faults>>

\* Mutant of NextTask: an empty policy is handed to Forget.
NextTaskUnchecked(s) == NextTaskWith(s, Policies)

NextTask(s) == NextTaskWith(s, {p \in Policies : Enabled(p)})

\* What lies under the artifact's key, in a given storage.
ObjectAt(storage, a) ==
  {o \in objects : o.storage = storage /\ o.task = a.task /\ o.key = a.key}

\* A missing object counts as deleted.
DeleteObjectIn(s, storage) ==
  /\ sweep[s].pc = "prune"
  /\ sweep[s].del # <<>>
  /\ LET gone == ObjectAt(storage, Head(sweep[s].del)) IN
     /\ \A o \in gone : o.run \notin Locked
     /\ objects' = objects \ gone
  /\ sweep' = [sweep EXCEPT ![s].pc = "row"]
  /\ UNCHANGED <<now, task, catalog, upload, strays, lock, runs, edits, faults>>

\* Mutant of DeleteObject: the task's storage instead of the artifact's.
DeleteObjectElsewhere(s) == DeleteObjectIn(s, sweep[s].task.storage)

DeleteObject(s) == DeleteObjectIn(s, Head(sweep[s].del).storage)

\* The head of the delete set could not be deleted, its row stays.
ObjectRefused(s) ==
  /\ sweep[s].pc = "prune"
  /\ sweep[s].del # <<>>
  /\ \/ /\ \E o \in ObjectAt(Head(sweep[s].del).storage, Head(sweep[s].del)) : o.run \in Locked
        /\ UNCHANGED faults
     \/ faults < MaxFaults /\ faults' = faults + 1

SkipObjectTo(s, rest) ==
  /\ ObjectRefused(s)
  /\ sweep' = [sweep EXCEPT ![s].del = rest]
  /\ UNCHANGED <<now, task, catalog, objects, upload, strays, lock, runs, edits>>

\* Mutant of SkipObject: the first failure ends the task's pruning.
SkipObjectAborts(s) == SkipObjectTo(s, <<>>)

SkipObject(s) == SkipObjectTo(s, Tail(sweep[s].del))

\* DeleteArtifact removes the row with that id, and does not ask whether there was one.
DeleteRow(s) ==
  /\ sweep[s].pc = "row"
  /\ LET gone == {a \in catalog : a.id = Head(sweep[s].del).id} IN
     /\ catalog' = catalog \ gone
     /\ sweep' = [sweep EXCEPT ![s].del = Tail(@), ![s].pc = "prune",
                               ![s].deleted = @ + 1,
                               ![s].removed = @ + Cardinality(gone)]
  /\ UNCHANGED <<now, task, objects, upload, strays, lock, runs, edits, faults>>

DeleteRowFails(s) ==
  /\ sweep[s].pc = "row"
  /\ faults < MaxFaults
  /\ sweep' = [sweep EXCEPT ![s].del = Tail(@), ![s].pc = "prune"]
  /\ faults' = faults + 1
  /\ UNCHANGED <<now, task, catalog, objects, upload, strays, lock, runs, edits>>

PruneEnds(s) ==
  /\ sweep[s].pc = "prune"
  /\ sweep[s].del = <<>>
  /\ sweep' = [sweep EXCEPT ![s].pc = "orphans"]
  /\ UNCHANGED <<now, task, catalog, objects, upload, strays, lock, runs, edits, faults>>

\* The storages to search: the task's own and those its rows name.
Scopes(s) == {sweep[s].task.storage} \cup {a.storage : a \in RowsOf(sweep[s].task.name)}

\* Orphans reads the rows first: what is known, and where to look.
ReadCatalogAs(s, located) ==
  /\ sweep[s].pc = "orphans"
  /\ sweep' = [sweep EXCEPT ![s].pc = "listing",
                            ![s].known = located,
                            ![s].scopes = Scopes(s),
                            ![s].catalogued = {a.run : a \in catalog},
                            ![s].lost = strays]
  /\ UNCHANGED <<now, task, catalog, objects, upload, strays, lock, runs, edits, faults>>

\* Mutant of ReadCatalog: every row is taken to live in the task's storage.
ReadCatalogOneStorage(s) ==
  ReadCatalogAs(s, {<<sweep[s].task.storage, a.key>> : a \in RowsOf(sweep[s].task.name)})

ReadCatalog(s) ==
  ReadCatalogAs(s, {<<a.storage, a.key>> : a \in RowsOf(sweep[s].task.name)})

\* Then it lists the storages; an upload may have ended in between.
ListObjects(s) ==
  /\ sweep[s].pc = "listing"
  /\ sweep' = [sweep EXCEPT
       ![s].pc = "listed",
       ![s].orphans = {o.run : o \in {o \in objects : /\ o.task = sweep[s].task.name
                                                      /\ o.storage \in sweep[s].scopes
                                                      /\ <<o.storage, o.key>> \notin sweep[s].known}}]
  /\ UNCHANGED <<now, task, catalog, objects, upload, strays, lock, runs, edits, faults>>

\* The sweep as it goes on to the next task.
Onward(w) == [NoSweep EXCEPT !.pc = "next", !.todo = w.todo,
                             !.deleted = w.deleted, !.removed = w.removed]

\* A storage cannot be listed; the pass goes on without.
ListFails(s) ==
  /\ sweep[s].pc = "listing"
  /\ faults < MaxFaults
  /\ sweep' = [sweep EXCEPT ![s] = Onward(@)]
  /\ faults' = faults + 1
  /\ UNCHANGED <<now, task, catalog, objects, upload, strays, lock, runs, edits>>

TaskEnds(s) ==
  /\ sweep[s].pc = "listed"
  /\ sweep' = [sweep EXCEPT ![s] = Onward(@)]
  /\ UNCHANGED <<now, task, catalog, objects, upload, strays, lock, runs, edits, faults>>

\* The sweep is recorded and the mutex released.
EndSweep(s) ==
  /\ sweep[s].pc = "next"
  /\ sweep[s].todo = {}
  /\ sweep' = [sweep EXCEPT ![s] = NoSweep]
  /\ lock' = "none"
  /\ UNCHANGED <<now, task, catalog, objects, upload, strays, runs, edits, faults>>

SweepStep(s) ==
  \/ NextTask(s) \/ DeleteObject(s) \/ SkipObject(s) \/ DeleteRow(s) \/ DeleteRowFails(s)
  \/ PruneEnds(s) \/ ReadCatalog(s) \/ ListObjects(s) \/ ListFails(s) \/ TaskEnds(s)
  \/ EndSweep(s)

UploadStep(t) ==
  \/ WriteObject(t) \/ WriteFails(t) \/ InsertArtifact(t) \/ InsertArtifactFails(t)

Next ==
  \/ Tick \/ Crash
  \/ \E t \in Tasks : EditTask(t) \/ DeleteTask(t) \/ StartUpload(t) \/ UploadStep(t)
  \/ \E s \in Sweepers : Begin(s) \/ SweepStep(s)

\* The cleanup cron keeps firing, and a pass goes on until it is done.
Fairness ==
  /\ WF_vars(\E s \in Sweepers : Begin(s))
  /\ \A s \in Sweepers : WF_vars(SweepStep(s))

Spec == Init /\ [][Next]_vars /\ Fairness

-----------------------------------------------------------------------------
(***************************************************************************)
(* Properties.                                                             *)
(***************************************************************************)

\* What the policy says of one row, without an order of evaluation.
Kept(p, rows, a) ==
  LET newer == {b \in rows : Newer(b, a)}
      Latest(len, count) ==
        /\ \A b \in newer : b.at \div len # a.at \div len
        /\ Cardinality({b.at \div len : b \in newer}) < count
  IN \/ Cardinality(newer) < p.last
     \/ Latest(DayLen, p.daily)
     \/ Latest(WeekLen, p.weekly)
     \/ Latest(MonthLen, p.monthly)

\* Forget, a sort and four scans with early exits, deletes exactly the rows that
\* no rule of the policy keeps (retention.go, Forget and keepByPeriod).
ForgetIsPolicy ==
  \A t \in Tasks, p \in Policies :
    ToSet(Forget(p, RowsOf(t))) = {a \in RowsOf(t) : ~Kept(p, RowsOf(t), a)}

Newest(a) == \A b \in RowsOf(a.task) : ~Newer(b, a)

\* A row describes bytes that are there: only the artifact a pass is between the
\* two deletions of, or an older one such a pass failed on, has lost its object.
\* The row is inserted after the upload and removed after the object, whatever
\* was edited, swept or broken meanwhile.
KeptIsRestorable ==
  \A a \in catalog :
    \/ \E o \in ObjectAt(a.storage, a) : o.run = a.run
    \/ \E s \in Sweepers : sweep[s].pc = "row" /\ a = Head(sweep[s].del)
    \/ faults > 0 /\ ~Newest(a)

\* Whatever the policy is, was or becomes, a task's latest backup keeps its
\* object: "An artifact kept by ANY rule is kept" (retention.go:23), and every
\* policy keeps the newest.
NewestHasObject ==
  \A a \in catalog : Newest(a) => ObjectAt(a.storage, a) # {}

\* What the catalog offers can be restored, the newest backup of a task always
\* (Prune deletes the object before the row, Executor.run inserts after the upload).
BackupsAreThere == KeptIsRestorable /\ NewestHasObject

\* A sweep never drops the row of an object that is still stored: "dropping it now
\* would strand the object with nothing left pointing at it" (retention.go:183).
NothingStrands ==
  \A o \in objects :
    \/ o.run \in {a.run : a \in catalog}
    \/ o.run \in {upload[t].run : t \in Tasks}
    \/ o.run \in strays

\* The deleted count a sweep records is the number of rows that went
\* (sweep.go: the mutex that keeps two passes off the same delete set).
AccountingExact ==
  \A s \in Sweepers : sweep[s].deleted = sweep[s].removed

\* The orphans a pass reports are objects no row knew, and of what a crash or a
\* failed insert left in the task's storage none is missing, also after the task
\* moved to another storage (retention.go, Orphans).
OrphansAreExact ==
  \A s \in Sweepers : sweep[s].pc = "listed" =>
    /\ sweep[s].orphans \cap sweep[s].catalogued = {}
    /\ \A o \in objects :
         (/\ o.task = sweep[s].task.name
          /\ o.storage = sweep[s].task.storage
          /\ o.run \in sweep[s].lost) => o.run \in sweep[s].orphans

\* A sweep records what it did and what it found: two at once count no row twice,
\* and no orphan is missed or invented (Sweeper.record, Orphans).
ReportsAreExact == AccountingExact /\ OrphansAreExact

\* The backup of run r is one the task's policy lets go.
Superfluous(r) ==
  \E a \in catalog :
    /\ a.run = r
    /\ Enabled(task[a.task].policy)
    /\ ~Kept(task[a.task].policy, RowsOf(a.task), a)

\* A backup the policy lets go goes eventually, or the policy changes its mind; one
\* object the storage refuses to delete does not hold up the others
\* (retention.go:154-158).
SuperfluousGoes ==
  \A r \in (1 .. MaxRuns) \ Locked : Superfluous(r) ~> ~Superfluous(r)

=============================================================================
