# Verification of duskrun

duskrun is a backup daemon: it runs dumps on a cron schedule, streams them through codecs into a
storage, keeps a catalog in SQLite, prunes by policy, tells people what happened, and offers an
HTTP API with accounts, sessions and second factors. This directory holds TLA+ models of the parts
of it that coordinate (queue, executors, pipeline, sweeper, live progress, alerts, delivery of
notices, settings, accounts), TLC
configurations that check them on small instances, and TLAPS proofs about all of them.

    tlc -config RunQueue_daemon.cfg MC_RunQueue.tla      # a run
    tlapm RunQueue_proofs.tla                            # the proofs

Line numbers below are those of the source at the commit the models were written from.
`PROJECT.json` maps every definition to its lines.

## 1. The system

### Components, state, operations

| Component | State | Operations | Model |
|---|---|---|---|
| run queue (`store/sqlite/queue.go`, `repo.go`) | tables `task`, `run`, `artifact`; unique index `ux_run_active` | Enqueue, ClaimNext, Finish, Requeue, ReapStale, StartManualRun, InsertArtifact | `RunQueue` |
| worker pool (`core/worker.go`, `backoff.go`) | per worker: the run it executes | claim, execute, retry or give up, drain | `RunQueue` |
| executor (`core/executor.go`) | phases of one run | upload, catalog, finish, publish | `RunQueue`, `Progress`, `Retention` |
| dispatcher (`core/dispatcher.go`, `schedule.go`) | `lastTick` in memory | Tick | `RunQueue` (which tasks are due is free) |
| daemon life cycle (`core/engine.go`, `cmd/duskrun/serve.go`) | loops, contexts | start-up reap and report, loops, drain, crash | `RunQueue` |
| command-line run (`cmd/duskrun/run.go`) | a process of its own on the same file | StartManualRun, execute, exit | `RunQueue` |
| task deletion (`store/sqlite/delete.go`) | none | check, then delete with cascades | `RunQueue`, `Retention` |
| live progress (`core/progress.go`, `api/handlers_stream.go`) | hub: per run a ring, a sequence number, subscribers with channels | publish, subscribe, cancel, close, stream, replay | `Progress` |
| retention (`core/retention.go`, `sweep.go`) | catalog rows, stored objects, the sweeper's mutex | Forget, Prune, Orphans, Sweep, TrySweep | `Retention` |
| alerts of a task (`core/watchdog.go`, `runevents.go`) | `alert_state`, `watchdog_alert` | Check, succeeded, failedTerminally, recovery | `TaskAlerts` |
| monitor (`core/monitor.go`) | misses and reported runs in memory, `alert_state` | storage probes, capacity, slow runs | `StorageAlerts` |
| users (`api/handlers_user.go`, `store/sqlite/user.go`) | `app_user` | create, PATCH, delete, reset of a password | `Users` |
| sign-in, second factor (`api/handlers_auth.go`, `handlers_mfa.go`, `mfa.go`, `auth.go`, `store/sqlite/mfa.go`, `session.go`) | `session`, `user_totp`, `webauthn_credential`, `recovery_code`; challenges and limiter in memory | login, login/mfa, enrol, remove, reset, end sessions | `SignIn` |
| pipeline (`core/pipeline.go`) with codecs (`codec/*`) | three threads per run, an `io.Pipe`, a checksum | RunPipeline, feed | `Pipeline`, abstractly `Publishing` |
| connectors (`connector/*`) | ssh client, listener, goroutines, proxy container | Open, Close | `Connector` |
| dumpers (`dumper/*`) | a client process, its exit status, a password file | Dump, Read, Close | `DumpTool` |
| storage backends (`storage/*`) | objects, temporary files | Write | `ArtifactStore`; Delete and List in `Retention` |
| configuration API, secrets (`api/handlers_write.go`, `handlers_delete.go`, `config_mask.go`, `core/secrets.go`, `store/sqlite/repo.go`, `delete.go`) | `secret`, `connection`, `storage`, `task` | create, update, delete | `Settings` |
| notifications and channels (`core/notify.go`, `api/handlers_notifier.go`, `store/sqlite/notifier.go`) | `notifier`, `notification` | create, PATCH, delete a channel; Send, SendSystem, Test | `Settings`, `Notifications` |
| web push (`notifier/webpush/*`, `api/handlers_push.go`, `store/sqlite/push.go`) | `push_vapid`, `push_subscription`, the keys in memory | start, subscribe, hand over, give up, broadcast, test | `WebPush` |
| listings, settings of one row, channel plugins, configuration, web | see `PROJECT.json` | | not modelled |

### How they interact

One SQLite file is shared by the daemon, the command-line commands and the HTTP handlers. Writes
go through a pool with a single connection, so each statement or transaction is atomic; what is
hard is everything that spans two of them: a read on the read pool and a later write, a store call
and a call to a storage, a database write and a change of memory. Row ids are `INTEGER PRIMARY KEY`
without `AUTOINCREMENT`, so the id of a deleted row at the top of a table is handed out again, and
a holder of an old id acts on someone else's row.

    dispatcher, API, CLI --insert--> run table <--claim-- worker --> executor --> storage, artifact
                                        ^                   |            `--> Hub --> event streams
                                        |                   `--> retry / notice / alert episodes
                          start-up reap +                                       ^
                 sweeper --> artifact rows, objects    watchdog, monitor -------+
                                                                                |
    settings API --> task, connection, storage, secret, channel rows    notice -+-> channels -> log
                                                                                    `-> browsers

### What is hard, and what makes it correct

- *Queue.* One active run per task whoever asks; a worker's row is its own while it works; a run
  ends once; retries are bounded; what is announced agrees with what is recorded; a failure is
  retried or announced; every run asked for ends, across crashes and shutdowns.
- *Live progress.* A handler reads the row, then subscribes: nothing is missed or duplicated
  between the two; streams end; the hub forgets ended runs and never sends on a closed channel.
  A run may be deleted before its executor has announced the end, and its id be the next run's.
- *Retention.* Objects and rows are deleted in two steps and created in two steps, by different
  processes, while tasks are edited and storages refuse: a row that stays can be restored from, a
  row goes only after its object, orphan reports are exact, pruning makes progress.
- *Alerts.* Several reads of several tables with runs ending in between, markers whose deletion may
  fail: no early alarm, no episode that nobody hears of, no recovery reported twice.
- *Storages.* Misses are counted in memory and episodes kept in rows, while probes, restarts, failing
  reads and the storages themselves come and go: every episode is told, and once.
- *Pipeline.* Three threads, an error in any of them, cancellation, peers that stop answering and
  power loss: an object is whole or absent, success means it is there, what a run may leave behind
  can be listed, and a run returns unless it waits for a peer nothing bounds.
- *Settings.* A request reads, decides and writes in separate calls, and only foreign keys, unique
  names and one transaction are the database's: references stay whole, a rename takes the tasks
  along, a mask does not spread.
- *Notices.* The sender works with a copy of the task and one read of the channels: whoever was to
  get an event has a true entry in the delivery log, or is one of the exceptions that can be listed.
- *Web push.* A browser is bound to the key it was given, and changes hands: all daemons sign with
  one pair, and a delivery never costs an owner the subscription.
- *Accounts.* PATCHes from stale reads never leave the instance without an administrator.
- *Sign-in.* Two requests with one code, or one challenge, end in one session; wrong answers are
  bounded although each challenge starts its own count. The account may enrol anew, or be deleted
  and its id given to another, between the steps of a request.

`PROJECT.json` lists each hazard at its line with the properties that watch it.

## 2. The modules

| Module | What it stands for | Used by |
|---|---|---|
| `TaskSlots` | abstract specification: one slot per task | instanced by `RunQueue` |
| `RunQueue` | queue, pool, executor's writes, tick, CLI, deletion, life cycle | `MC_RunQueue`, `RunQueue_proofs` |
| `Progress` | hub, publisher, stream handlers | `MC_Progress`, `Progress_proofs` |
| `Retention` | policy, sweep, uploads, task edits | `MC_Retention`, `Retention_proofs` |
| `TaskAlerts` | watchdog pass, reports of run ends | `MC_TaskAlerts`, `Alerts_proofs` |
| `StorageAlerts` | the monitor: storages and slow runs | `MC_StorageAlerts`, `Alerts_proofs` |
| `Publishing` | abstract specification: a run replaces the object under its key in one step, or does not | instanced by `Pipeline` |
| `Connector`, `DumpTool` | one connector, one dump client | instanced by `Pipeline` |
| `ArtifactStore` | Write of the three backends | extended by `Pipeline` |
| `Pipeline` | RunPipeline and its producer, composing the three | `MC_Pipeline`, `Pipeline_proofs` |
| `Settings` | secrets, connections, storages, tasks, channels and the requests that change them | extended by `Notifications` |
| `Notifications` | delivery of an event beside those requests | `MC_Notifications`, `Notifications_proofs` |
| `WebPush` | signing keys, browsers, broadcasts | `MC_WebPush`, `WebPush_proofs` |
| `Users` | accounts and the last administrator | `MC_Users`, `Accounts_proofs` |
| `SignIn` | two-step sign-in and factors of one account | `MC_SignIn`, `Accounts_proofs` |

`Alerts_proofs` and `Accounts_proofs` each extend two components that are kept apart in the code as
in the models. Their definitions have distinct names for that reason: what `Users` and `TaskAlerts`
would call `Init`, `Next`, `Spec` or `TypeOK` has the component's name in front.

Definitions named "Mutant of X" are plausible bugs of the code at X. They are not part of any
specification; `PROJECT.json` pairs each with the property it would break.

### RunQueue and TaskSlots

Rows are `status`, `taskOf`, `attempt` by run id; `catalog[r]` says whose dumps the artifact rows
of a run describe, `told[r]` what was announced of it. A process (`proc`) is a worker or a
command-line run with its program counter and its own copy of run, task and attempt; it goes
idle - claimed - dumping - stored - recorded - succeeded or failed, one action per store call
of `Pool.execute` and `Executor.Run`, and each call may fail (`faults`). Where a failed write is
followed by `Finish(failed)`, that one either goes through or fails with it
(`FailureNotRecorded`, `LoadFailureNotRecorded`): its error is discarded, and the row stays running
until a restart. One fault stands for the consecutive writes of one executor. `daemon` goes down -
starting (ReapStale has run, `toReport` is announced) - up - draining. A tick is two steps,
the list of due tasks and one insert each. Deletion is two steps, as in `DeleteTask`. `Finish`
looks at no status and touches nothing if the row is gone, like the UPDATE.

Abstracted: the pipeline is one outcome; the backoff has no length; which tasks are due is free;
log texts, timestamps, names. `TaskSlots` says what callers may rely on: a slot is filled by a
request, taken by one executor, given back by it, or swept when nobody is alive; the refinement
maps a task's active row to its slot and the workers working on it to the slot's holder.

### Progress

One run id, which may live several times; `pc[l]` is the executor of its life l. A row that is
terminal may be deleted and the id given out again while its executor has yet to publish the end and to
close (`DeleteRow`): the executors of several lives then publish under one id. `hub` is the `liveRun`
entry; `publishLocked`, `Subscribe`, `Close` and the deferred cancel are one action each because they
hold the mutex. `entry` tells one entry of the id from the next, as the address of a `liveRun` does, and
the deferred cancel looks at it; `by` is history, the lives that published into the entry. A viewer is
a request: it loads the row, subscribes or replays, receives, is disconnected or loses its session at a
heartbeat; `heard` is the lives whose executors reached it. Of an event only the sequence number and a
terminal status are kept; `got` keeps the last two events, which is enough to see a gap or something
after the end. A full channel sets `lagged`.

`OneRun(v)` says that one life alone reached the viewer: then what it is told of the end is exact
(`OutcomeIsTold`). A stream that a late executor reached is excepted; `EndIsTold` states it without
the exception and is refuted.

### Retention

Minutes are the clock, since a key is stamped to the minute. `catalog` holds artifact rows with
reused ids, `objects` what each storage holds under which key, both tagged with the run that
produced the bytes (not in the code: it is how the properties tell backups apart). A sweep
lists tasks, computes `Forget`, deletes each object and then its row, reads the catalog for
`Orphans` and lists each storage. Between any two of these uploads end, tasks are edited or deleted, calls fail
and the daemon dies. `Locked` objects are refused for ever, as by an object lock.

### TaskAlerts

One task. A worker whose run ended reports in the order of `succeeded` / `failedTerminally`; the
watchdog reads tasks, last successes and markers in three steps and then marks, tells or clears.
`alarms`, `unrecovered` and `overdue` are history. A pause keeps the marker, and resuming gives a fresh window.

### StorageAlerts

One goroutine per pass and storage. `world` is what the storages are like (external), `said` what
people were told. `CheckStorage(s)` is the goroutine call by call: probe, `Miss` or `Answer` in
memory, the episode's row, the notice, then the level: read, `Judge`, row, notice. Each store call
may fail and the daemon may restart between any two. When the size of one task's last artifact cannot
be read, the check goes on with the others (`JudgePartial`): `said.doubt` has the levels such a
round found left. `lowLevel` is computed with its slack on small numbers. `CheckRuns` lists the
running rows, passes over those that are not late, reports the others and forgets the finished ones. A
storage may be deleted and its id given to a new one (`ReplaceStorage`), also while it is being
checked (`gone`): what the model knows of the new one starts empty, while the misses and the
rows under the id stay, as in the code; `said.inherited` counts those misses.

### Publishing, Connector, DumpTool, ArtifactStore and Pipeline

The stream of a run is a sequence of numbered pieces and one trailer for each codec. `Pipeline` has
`RunPipeline` (open, start the dump, write, wait for the producer, release), `feed` (copy, close the
codecs innermost first, close the pipe with or without an error), and the pipe, whose write blocks
until it is read. Codecs are of three kinds: *stream* (gzip, zstd), *buffer* (tar) and *age*, which
the executor cannot build; when one cannot be built, the outer ones that were stay open
(`OpenCodecs`). `Connector` goes through the calls of Open and Close of the four connectors, failures
included; `DumpTool` has the client process, what a reader sees of its exit status and what Close
waits for; `ArtifactStore` has the temporary file, the write at the writer's own offset, sync, rename
and the answer that may get lost, for `localfs`, `s3` and `sftp`.

A peer may fall silent in any call, and it depends on the code what ends the wait. A local docker
command and a request to s3 end with the run's context; the ssh handshake, a session for docker over
ssh and every request to an sftp server have no bound (`Answered`, `Waits`). A connection may also
break: the `docker run` in flight is cut, and the connector never learns the container's name
(`DockerCut`); an sftp upload loses the session it would remove its temporary file over; the abort of
an s3 upload is sent under the context, so that a cancelled run cannot abort (`Unabortable`).

`localfs` syncs the file and not the directory. `older[k]` is what a power loss may put back under a
key until the directory has reached the disk by itself (`DirectorySettles`); `takenBack` is history.
The temporary name such a file has again is left out, since nobody opens it.
`ImplementsPublishing` maps the object under a key to the run whose whole artifact it is, and to no
run if it is anything else, which `Publishing` never allows; `older` becomes `unsettled`.

`NothingIsLeft` and `EveryRunReturns` list their exceptions one by one. `ContainerIsStopped`,
`BrokenUploadLeavesNothing` and `CancelledRunReturns` state three of them the way the repository does,
without the exception, and are refuted.

### Settings and Notifications

A request is in `request[c]`: what it has read and is about to write. Connections and storages have
the same rules and are one action per operation (`target`). A configuration holds a credential in
plain text, its mask, or the name of a secret; `Unmask` is `unmaskSecrets`. A request may create a
row with any of them: the create handlers have no row to restore a mask from, and store it. Channels
have reused ids, a unique name, and the cascade of a rename in its transaction (`Renamed`). `strayed`
and `blind` remember which names a task lost to an overtaken write, and which rows a mask got into
with no stored configuration to restore it from. An event is loaded (the sender's copy), resolved by
one read of the channels, built one channel after the other with the secrets there are then, delivered
and recorded; `owed` is whom it is for, `took` what arrived. A rename of a channel between the copy and
the read leaves it owed the event under its new name, and so does a list that cannot be read. A test
runs under one deadline, of the delivery and of its record alike (`TestTimesOut`): once it is over,
nothing is recorded. `WantedIsAccounted` names the four exceptions; three of them are claims of
comments, stated without the exception by properties that are refuted. `Loads` says which clients make
requests and which events are sent in one behaviour, `Away` and `Past` are the others.

### WebPush

`OfferKeys` and `OpenKeys` are `loadKeys` before and after the insert that only the first pair
survives. `browser` is the push service's side (external): a subscription is bound to one key, and
once gone it stays gone. `SavePushSubscription` hands the row of an endpoint over. `Broadcast` reads
the rows once, `Spawn` takes a slot, `Answer` is what the push service says, `Settle` drops the
endpoint that is gone, whoever has it by then, and gives the slot back.

### Users

`row` is the table; a PATCH is `ReadUser` (copy, change, self-target guard), `UpdateUser` (reread,
guard on the last administrator, write the whole copy, end sessions) and `SetUserPassword`. The
static token may do what an administrator may not do to the own account.

### SignIn

One account. A request reads, decides and writes in separate steps. `Login` gives a challenge or a
session; `BeginMFA` is the head of `loginMFA` (challenge live, limiter, account enabled), then a
proof is verified (`VerifyTOTP` and `AdvanceTOTPStep`, `UseRecoveryCode`, `VerifyPasskey`) or fails
(`FailMFA`), the challenge is taken, and the session issued. The factors are changed by requests
that decide on the account as their authentication saw it. `issued`, `wrong` and `closed` are history:
the sessions of a second step, the wrong answers of a window, the challenges of accounts deleted since.
A TOTP proof is the enrolment whose secret the code was checked against, the step, and the
enrolment whose `last_step` was advanced; the two differ when the account enrols anew in between,
because the statement compares steps only. A recovery code in the model stands for the set of ten that
is made and removed together; one passkey is enough to make every combination of factors.
Cryptography, the passkey's own round trip and the limiter's address key are left out.

## 3. The runs

| Run | Question | Instance | Distinct states |
|---|---|---|---|
| `daemon` | everything the daemon promises about runs, with a restart and a store error; liveness; refinement of `TaskSlots` | 2 workers, 2 tasks, 3 runs, 1 retry | 226 k |
| `shared` | the same database with a command-line run, deletions and reuse of ids | 1 worker, 1 CLI, 1 deleter, 2 tasks, 2 run ids | 2.0 M |
| `progress` | streams are complete, truthful and end, with late executors of a deleted run | 2 viewers, ring 2, channel 1, 2 lives, 1 report each | 472 k |
| `pipeline` | an object is whole, a success is one, what a run leaves is listed, a run returns; refinement of `Publishing` | every connector, engine, kind of chain and backend; 2 pieces; 2 runs of one key on localfs and s3; 1 cancellation; silent peers, power loss | 548 k |
| `retention` | policy, restorability, orphans, progress of a sweep | 2 storages, 2 sweepers, 3 uploads, 3 policies, 1 edit, 1 fault, 1 locked object | 403 k |
| `task_alerts` | no early, lost or doubled report | 2 workers, window 2, 6 ticks, 1 pause, 1 fault | 1.1 M |
| `storage_alerts` | every episode and slow run is told, and nothing else | 1 storage id, 1 run, 3 levels of room, 2 changes, 1 fault, 1 restart | 866 k |
| `notifications` | references stay whole, a rename takes the tasks along, a mask does not spread; everyone who was to get an event is accounted for | 3 requests, 2 at a time, or 1 event (of a task, of the instance, or a test) beside 2 requests; 1 secret, 1 connection, 2 storages, 1 task, 2 channel names, 1 fault | 1.3 M |
| `web_push` | one key pair; a browser is lost only by its owner's will; deliveries end | 2 users, 2 browsers, 2 daemons with 2 master keys, 3 starts, 1 delivery, 1 slot | 794 k |
| `users` | an administrator remains | 3 ids, 2 PATCHes | 222 k |
| `sign_in` | one session per code and challenge, a budget for guesses | 2 requests, 2 challenges, 2 enrolments | 2.3 M |

Deadlock is not checked: every bound on a counter (runs, restarts, time, enrolments) makes the
model stop where the program would go on.

One more run, `same_key`, ends in a counterexample: two runs of a task within a minute share an object,
and pruning the older row deletes the newest backup (`retention.go:182`), which refutes
`NewestHasObject`. `PROJECT.json` has the quotation under "findings".

The other disagreements between the code and what it says of itself are configurations to be run by
hand, with `tlc -config X.cfg MC_Module.tla`. Each of them refutes the property named; where a
configuration has several, one is in force and the others stand in comments.

| Configuration | Property refuted | What is said | What happens |
|---|---|---|---|
| `Progress_late_close` | `EndIsTold` | events stream "until the run reaches a terminal status" (`handlers_stream.go:25-26`) | A run is deleted after its end is recorded and before it is announced; its id is the next run's, whose stream the old executor then ends, or whose viewer it tells the old outcome (`executor.go:79-94`, `delete.go:73-82`). |
| `StorageAlerts_successor` | `OneMissIsABlip` | "One miss is a blip; the alert waits for the second" (`monitor.go:57-58`) | The misses are kept by storage id: a storage that takes over an id is called unreachable after its first failed probe (`monitor.go:280-288`). |
| `SignIn_refuted` | `CodeOnce` | a code used before "must be refused" (`mfa.go:64-67`) | A code is checked, the account enrols anew, which resets `last_step`, and the code signs in a second time (`mfa.go:68-76`, `handlers_mfa.go:484`). |
| `SignIn_refuted` | `AttemptEndsWithAccount` | "Deleted or disabled between the two steps: the attempt is over" (`handlers_mfa.go:167`) | An account is deleted between the two steps of its sign-in and its id given to another: the sign-in ends in a session of the other (`handlers_mfa.go:163-171`). |
| `SignIn_refuted` | `CodesNeedFactor` | codes "only exist alongside a factor" (`migrations/0008_mfa.sql:5-6`) | Recovery codes are made again while the last factor is removed, and are left alone (`mfa.go:193`). |
| `Notifications_refuted` | `NoMaskIsStored` | "A mask with nothing behind it is dropped rather than kept" (`config_mask.go:120-123`) | A create request with a mask in it is stored as it is (`handlers_write.go:72-95`, `handlers_notifier.go:240-281`). |
| `Notifications_refuted` | `CredentialSurvivesEdit` | masks are restored "or editing the port would overwrite the private key" (`handlers_write.go:106-109`) | The row to be edited cannot be read, and the mask is stored over the credential (`handlers_write.go:110`, `181`). |
| `Notifications_refuted` | `RenamedIsTold` | without the cascade a task "silently stopped notifying" (`notifier.go:80-82`) | A channel is renamed while a task's notice is on its way: the sender's copy of the task has the old name, and there is neither a delivery nor an entry (`notify.go:218`). |
| `Notifications_refuted` | `SystemEventLeavesTrace` | "a read that fails must not make the event disappear" (`notify.go:200-201`) | The list of channels cannot be read and an event about a storage or an account is lost without an entry (`notify.go:138-142`). |
| `Notifications_refuted` | `TestLeavesTrace` | a test "that left no trace would leave the notification page contradicting the result" (`notify.go:239-240`) | A test that takes too long is recorded under the context that has ended, that is, not at all (`notify.go:245-258`). |
| `Pipeline_sftp` | `CancelledRunReturns` | `cancelReader` "stops a transfer when the run's context is cancelled" (`sftp.go:378-380`) | An upload to an sftp server that says nothing does not return when it is cancelled: the context is looked at between reads only (`sftp.go:378-391`). |
| `Pipeline_sftp` | `BrokenUploadLeavesNothing` | the temporary file is removed "on every failure path so a broken upload leaves nothing behind" (`sftp.go:250-251`) | The connection to the server breaks, and with it the way to remove the file (`sftp.go:250-258`). |
| `Pipeline_container` | `ContainerIsStopped` | the proxy container is stopped when the pipeline is over (the repository's `README.md:587-588`) | `docker run` is cut by the context or a broken connection after docker has started the container, whose name is learnt from the output alone (`dockerproxy.go:116-119`, `docker_ssh_proxy.go:141-156`). |
| `Pipeline_same_key` | `ObjectsAreWhole` | writes are atomic (`sftp.go:7-9`) | Two runs of one key on sftp share a temporary file (`sftp.go:245`): one renames what the other has just emptied. |
| `RunQueue_cli_restart` | `OneExecutorPerTask` | | A daemon started during a `duskrun run` reaps its row; a second run of the task starts beside it (`queue.go:132-135`). |
| `RunQueue_delete_race` | `RowOwned` | | A run enqueued between `DeleteTask`'s check and its delete is claimed and then cascaded away under the worker (`delete.go:70-74`). |
| `RunQueue_restart_loss` | `RestartLosesNothing` | | A shutdown right after the claim fails the run without retry, notice or report at the next start (`worker.go:132`, `runevents.go:131-133`). |
| `Retention_id_reuse` | `NothingStrands` | | A task deleted during a sweep frees artifact ids; the sweep then drops another task's new row and its object is left without one (`retention.go:188`). |

`RowOwned` is checked as an invariant of the daemon (it holds there, and is proved) and refuted with
a concurrent deletion; `BackupsAreThere` holds with runs at least a minute apart; `NothingStrands`
holds when no task is deleted during a sweep. The passing configurations state those conditions as
`Deleters = {}`, `MinGap = 1` and `DeleteMidSweep = FALSE`.

Disagreements seen while modelling that no property states:

- A stream of a queued run is answered with its status and closed, where `handlers_stream.go:24-26`
  promises a live stream (`NotLive`, `ReplayFresh` in `Progress`).
- A success between the watchdog's two reads can have the same stale episode reported twice, where
  `watchdog.go:26-28` says once (a `ClearMarker` between `LastSuccessByTask` and
  `ListWatchdogAlerts` in `TaskAlerts`).
- `updateUser`, `updateTask` and `updateNotifier` write back fields nobody sent, from a copy read
  earlier, so a concurrent change of another field (a pause, the muting of a channel) is undone
  (`handlers_user.go:113`, `handlers_write.go:251-268`, `handlers_notifier.go:133-137`).
- `DeleteNotifier` reads the name, the tasks that list it and deletes in three calls; a task edit or a
  rename in between leaves a task with a channel that is gone (`notifier.go:132-134` says it refuses).
  `NoTaskLeftBehind` allows exactly that and nothing else.
- `MarkPushResult` writes by row id, so an outcome can land on the row after its hand-over
  (`push.go:68-71` promises the new owner a clean record).
- The age codec cannot be built, since the executor passes no configuration (`executor.go:136-143`),
  though the repository's README lists it.
- The ssh handshake has no bound: `ssh.Dial`'s timeout ends with the TCP connect (`tunnel.go:129`,
  `docker_ssh_proxy.go:199`), and a session for docker over ssh has none either
  (`docker_ssh_proxy.go:251`). A run that waits there outlives its timeout.
- A cancelled s3 upload leaves its parts, since the abort is sent under the same context
  (`s3.go:152-164`). A chain of codecs that cannot be built leaves the outer ones open
  (`pipeline.go:107-113`). `localfs.go:77` renames without syncing the directory, so that a power loss
  soon after may take a reported success back.
- A host crash leaves mongodb's password file; `RunPipeline` never closes a connector whose Open
  failed; `localfs` lists its own temporary files.
- The scheduled sweep has no timeout (`engine.go:244`), and Delete and List of sftp ignore the context:
  that a pass goes on is assumed of the server in `Retention`.
- A due task whose insert fails loses the activation (`dispatcher.go:76`).
- `backoff.go:43-44` calls the attempt 0-based; `worker.go:165` passes the 1-based one.
- Two tasks whose names yield the same prefix, and a renamed task, make the orphan report name
  objects of the other or of the past; `retention.go:224`.

### Why the bounds are enough

The properties speak about pairs: two executors of a task, two viewers, two requests, a pass and an
upload. The instances have the pair and one more of whatever it competes for. Two run ids suffice
to reuse one, three to have a run, its retry and a newer one. Three catalog rows make each rule of
a policy keep one, drop one and stop early. A ring of two and a channel of one overflow at once. In
`TaskAlerts` the window must be longer than the store can fail (`WindowOutlastsFaults`): in the code
it is at least an hour against a tick of a minute. Two wrong answers stand for five and ten in
`SignIn`. `GuessBudget` allows what the requests in flight may add, because the limiter is read
before and counted after.

One run of the pipeline shows everything but the sharing of a key, so two run only there; two
pieces are enough to lose, repeat or reorder one. In `storage_alerts` the levels are on both sides of
each threshold and inside its slack. Two requests that overlap are enough for every check that is
made before a write; three at a time take the instance past five minutes and add no new kind of pair.
In `notifications` one event at a time is enough, since deliveries share nothing but the rows they
read, and two requests beside it change each of those twice; without an event there are three
(`EitherLoad`). In `progress` a report and the terminal event overflow a channel of one and a ring of two across two
executors. `web_push` has a slot fewer than browsers, and starts enough for two first starts and a
restart.

### Fairness

- `RunQueue`: weak fairness of the life cycle's own steps and of each worker's steps between two dumps.
  Goroutines are scheduled, a statement sent to the store returns, a supervisor restarts the daemon
  (`docker-compose.yml` says `restart: unless-stopped`). No dump has to end: a task may have no timeout
  (`worker.go:142`), and a peer that says nothing can hold a run past it (see `Pipeline`).
  `EveryRunEnds` therefore starts from `DumpsEnd`, in its own formula. Nobody must ask for a run,
  delete or use the CLI.
- `Progress`: weak fairness of each handler's steps and of the heartbeat's ticker. The executor
  promises nothing, except in `EveryStreamEnds`, which assumes it in its own formula.
- `Retention`: the cleanup cron fires again and a pass that began goes on, storages answering.
- `TaskAlerts`: the watchdog's ticker and a worker that has something to report go on.
- `StorageAlerts`: weak fairness of a pass that began; strong fairness of the two ticks, since one
  `select` takes them and chooses among ready cases at random, so neither is passed over for ever.
- `Pipeline`: weak fairness of the program's own threads, among them the steps by which a call sees that
  its context has ended, where it has one (s3's client, a local docker command). The dump tool, the
  servers and the network owe nothing, and each may fall silent in the middle of a call:
  `EveryRunReturns` starts from a tool that has exited or a context that has ended, and excepts a run
  that is in a call nothing bounds.
- `WebPush`: weak fairness of a delivery's goroutines; `sendTimeout` bounds a silent push service.
- `Users`, `SignIn`, `Notifications`: safety only, no fairness.

## 4. What is proved

`tlapm` proves the following for every value of the constants, from the assumptions the modules
state. Most of these only say that bounds are naturals and that values of different kinds differ (a
worker is not a command line, the token is nobody's id, `None` is neither a row nor a pair of keys).
The others: `SignInBounds` has finitely many requests at a time, because `GuessBudget` counts them;
`PlansAssumption` says which connectors, engines and chains of codecs a run may be given, and
`LoadsAssumption` which clients, requests and events there may be at once.
`WindowOutlastsFaults` is not among them: only the liveness TLC checks of `TaskAlerts` needs it.

| Theorem | Says | Provided |
|---|---|---|
| `RunQueue_proofs!TypeCorrectness` | `TypeOK` | |
| `RunQueue_proofs!ReferentialIntegrity` | `NoOrphanRuns`, with deletions, cascades and reused ids | |
| `RunQueue_proofs!OneActive` | `OneActivePerTask`, whoever asks | |
| `RunQueue_proofs!WorkersOwnTheirRuns` | `RowOwned` | no task deletion |
| `RunQueue_proofs!EndsAreFinal` | `TerminalIsFinal` | the daemon alone |
| `RunQueue_proofs!QueueImplementsSlots` | the queue implements `TaskSlots` | the daemon alone |
| `RunQueue_proofs!RecordsAgree` | `Truthful` | the daemon alone |
| `RunQueue_proofs!FailuresFollowed` | `FailuresAreFollowedUp` | the daemon alone |
| `Progress_proofs!ProgressTypes` | `TypeOK` | |
| `Progress_proofs!StreamsAreInOrder` | `StreamInOrder`, any ring, channels, viewers and lives, late executors included | |
| `Progress_proofs!OutcomesAreTold` | `OutcomeIsTold`, of a stream one run alone reached | |
| `Progress_proofs!HubRemembersOnlyTheLive` | `HubForgets` | |
| `Pipeline_proofs!PipelineTypes` | `TypeOK` | |
| `Pipeline_proofs!ObjectsStayWhole` | `ObjectsAreWhole`: under a key is one run's whole artifact or nothing | `OneSftpWriter` |
| `Pipeline_proofs!ResultsAreTrue` | `ResultIsTrue` | `OneSftpWriter` |
| `Pipeline_proofs!NothingStays` | `NothingIsLeft`, with its list of exceptions | `OneSftpWriter` |
| `Pipeline_proofs!PipelinePublishes` | the pipeline implements `Publishing`, power loss before the directory has settled included | `OneSftpWriter` |
| `Notifications_proofs!NotificationsTypes` | `TypeOK` | |
| `Notifications_proofs!RenamesTakeTasksAlong` | `NoTaskLeftBehind` | |
| `Notifications_proofs!RowsStayUsable` | `RowsAreUsable` | |
| `Notifications_proofs!EveryoneIsAccounted` | `WantedIsAccounted`, with its four exceptions | |
| `WebPush_proofs!WebPushTypes` | `TypeOK` | |
| `WebPush_proofs!OnePairSigns` | `EveryDaemonSigns` | |
| `WebPush_proofs!OwnersKeepBrowsers` | `LiveBrowserKept` | |
| `Retention_proofs!ForgetFollowsPolicy` | `ForgetIsPolicy`, any rows and any policy | |
| `Retention_proofs!BackupsStay` | `BackupsAreThere` | minutes apart, no deletion mid-sweep |
| `Retention_proofs!ObjectsKeepTheirRow` | `NothingStrands` | the same |
| `Retention_proofs!ReportsAreTrue` | `ReportsAreExact` | the same |
| `Retention_proofs!RetentionTypes` | `TypeOK` | |
| `Alerts_proofs!TaskAlertsTypes` | `TaskTypeOK` | |
| `Alerts_proofs!FailuresRecoverOnce` | `RecoversOnce`, any number of workers reporting | |
| `Alerts_proofs!AlarmsAreNotEarly` | `NoEarlyAlarm` | |
| `Alerts_proofs!StorageAlertsTypes` | `TypeOK` | |
| `Alerts_proofs!EpisodesAreKnown` | `EpisodesAreTold`, any storages, sizes and thresholds | |
| `Alerts_proofs!NobodyIsWokenForNothing` | `NoFalseAlarm`, rounds read in part and storages under a reused id included | |
| `Alerts_proofs!SlowRunsAreToldOnce` | `SlowRunIsToldOnce` | |
| `Accounts_proofs!UsersTypes` | `UsersTypeOK` | |
| `Accounts_proofs!AnAdminRemains` | `AdminRemains` | |
| `Accounts_proofs!SessionsHaveAnAccount` | `NobodyElsesSession` | |
| `Accounts_proofs!SignInTypes` | `TypeOK` | |
| `Accounts_proofs!ProofsAreSingle` | `ProofOnce`, whichever enrolment a code was checked against | |
| `Accounts_proofs!ChallengesAreSingle` | `ChallengeOnce` | |
| `Accounts_proofs!GuessesAreBounded` | `GuessBudget` | |

*The daemon alone* is `Deleters = {}` and `Clis = {}`; *no task deletion* the former only. The
configurations `RunQueue_delete_race` and `RunQueue_cli_restart` show that neither can be dropped.
`OneSftpWriter` says that no two runs are given one key of an sftp storage; `Pipeline_same_key`
shows what happens otherwise. *Minutes apart* is `MinGap # 0`: two runs of a task never start in one
minute, which no code ensures (a retry after a short backoff can); `Retention_same_key`
is what happens then. *No deletion mid-sweep* is `~DeleteMidSweep`, which the code does not ensure
either; `Retention_id_reuse` is what happens then. The theorems need nothing else.

*RunQueue.* `TypeOK` and the index give `OneActivePerTask` at once: only an insert creates an
active row and its guard is the index. `NoOrphanRuns` is not inductive without knowing that a row
without a status has no task, so `WellFormed` is proved: `TypeOK`, `NoOrphanRuns` and `BusyHasRun`
(a process that is not idle has a run and a task). `RowOwned` needs more, because a worker past its
terminal write still holds a run and because reap, crash and drain change all workers at once:
`Ownership` says that no worker is busy while the daemon is down or starting (`Quiet`), that a run
somebody works on has left the queue (`InFlight`), that a working worker's row is running and of its
task (`WorkerRow`), and that no two processes work on one run (`Distinct`). `TerminalIsFinal` and the
refinement follow from it step by step: each action of the queue is a step of `TaskSlots` or leaves
slots and holders as they are.

`Truthful` relates three records that are written one after the other. `Stories` says for each run
which combinations of row, catalog and notice there can be and, for each worker, which of them
its program counter allows, so that a crash between two writes leaves one of the former.
`FailuresAreFollowedUp` needs two things of `FollowUps`: a failed run nobody told of is in the hands of a
worker that is about to retry or tell, or in the daemon's list of runs to report; and a run's
attempts before it failed, with none left out.

*Users.* `AdminRemains` is inductive together with `TypeOK`. `WriteKeepsAdmin` carries the
argument: writing one row takes the last administrator away only if that row was an administrator's,
becomes something else, and there is no other, which is what `MayBecome` and the guard of
`DeleteUser` exclude, whatever the copy being written was read from.

*SignIn.* `Typed` adds to `TypeOK` that there is one set of codes and finitely many sign-ins. For
`ProofOnce` (`Spending`) a step is behind the `last` of its enrolment, and a recovery code gone from
the table, as soon as some request holds it or has signed in with it. For `ChallengeOnce` (`Taking`) a
challenge that signed in, or that a request took, is gone and stays gone. For `GuessBudget` (`Budget`)
the count exceeds the limit by no more than the requests that were past the limiter when it was
reached, which is why the wrong answers in flight have to be counted as a set. Nothing is claimed of
what outlives an account: the foreign key keeps rows from an account that is absent, and nothing
keeps a request from the account that has its id afterwards (`AttemptEndsWithAccount` is refuted).

*Progress.* The invariant has six parts: types; `Agree`, which rows and outcomes go with where the
executor of each life is (`Fits`), and that the hub's entry is that of the executors at work that
published into it (`Kept`); `Ring`, the ring is the newest events without a gap and, if one executor
alone published into it, the terminal one comes last; `Subscribed`, each subscription is that of an open
channel of this entry; `Placed`, which lives a request may have heard of and that its open channel is
subscribed; `Watching`, what a viewer got, what waits in its channel and what will be published are one
rising sequence, without a gap unless the channel overflowed, and, if it heard of one life only, its
terminal status is one the row of that life allows (`Truth`). The order of a stream thus needs
nothing of who publishes, because numbers are given by the entry; its end does. The operators on
sequences (the newest n, the ring, the last two events) have lemmas of their own.

*Pipeline.* `Inner` holds whatever the plans: types, the grip of the connector and of the dump client at
each step, the order of the pieces through copy, codecs and pipe, and which phases of the three
threads go together. `Grip` says what a connector holds at each step and, of a container that is not
`named`, that nobody will stop it: that is how the one exception of `NothingIsLeft` is told from a
container somebody forgot. `Files` relates it to the storage: a writer's bytes are exactly what it has
read from the pipe, a temporary file belongs to one run, an object is whole, and so is what a power
loss may put in its place (`Objects` is about `object[k]` and `older[k]` alike). It is here that
`OneSftpWriter` is used, because sftp's temporary file is named after the key and not after the run.
`Steady` (a context that has ended stays so) keeps the exception of a cancelled s3 upload. The
refinement is proved action by action from both.

*Notifications.* The settings keep, besides the two properties, what a request has checked as it carries
it to its write (`Checked`): the channels of a task were all there, a channel to be deleted had no
users, a mask is written where it was sent with nothing to restore it from or the row was not read.
`Promise` follows an event from the copy of its task to its entries: whoever is owed it wants it until the
list is read, and is then either before the delivery or dealt with, and never both, or is one of
`Excused`. `owed` follows a rename, so that a channel the sender's copy does not know by its new
name is an exception the formula states and not one the model makes.

*WebPush.* `Signed`: a stored pair never changes, a daemon that signs has opened it, and a live browser was
given its key. `Owned`: whose a browser is has the row, and an answer "gone" in flight is true for
good, so that the deletion it causes hits a dead subscription whoever has the row by then.

*Retention.* `ForgetFollowsPolicy` is about data. `Sorted` is shown to be the one order of the rows, in
which a row's position is the number of newer rows plus one; the scan by periods is a recursive
function of the position, and its loop invariant (`Scanned`) says that after i rows it keeps the rows
among them that are newest of their period and have fewer than count newer periods. The step from i
to i + 1 is `ScanStep`; `AllNumbers` turns steps into all positions. It is stated with a set of
numbers and proved from the least element of its complement, because the library's induction takes an
operator. The invariant under the other three is `Inv`: `Apart`, a minute of a task is
one run's, so rows, uploads and objects with the same task and key are of the same run; `Books`, a row
or an upload is not a stray, and an upload's object is there exactly once it is written; `Accounted`;
`Backed`, a row has its object, or is the one a pass is between the deletions of, or is an older one a
fault left; and `Sweeping`, the delete list of a pass consists of rows that are still there,
without repetition, and a row outside it is newer than all of them. The last is why no pass ever
deletes a task's newest backup, however old its list is by then, and why a crash between the two
deletions leaves a row that is not the newest.

`RetentionTypes` needs none of this, nor the conditions of the three: `Types` follows rows, numbers of
uploads, objects under a key and the passes by themselves (`Fit`: a pass has a task from its first one
on, and a row where it is deleting one).

*TaskAlerts.* `RecoversOnce` is an account (`Recovery`): the failures not recovered from are at least as
many as the workers that owe a notice (`Owing`: about to open the episode, or holding the one they
closed), and one more while the episode is open. Closing moves the episode to one worker, whatever
others do, which is why the set of debtors and its size are in the invariant. `NoEarlyAlarm` needs
`Timely`: what a pass has read so far calls the task stale only if the task was stale when the pass
began, since the clock stands during a pass and a success or a resumption in between can only
make what is read later look better. `Counts` bounds the copies in the rows, for the types.

*StorageAlerts.* `StorageInv` says of one storage what its check may go by: `Standing`, the row is written
before the notice that is due; `Counted`, the misses in memory never exceed the probes that failed since the
last answer, those of the storage that had the id before included; `Quieted`, a level that was told and
that no check found left, be it by a round read in part, is still the open one or below it;
`KnownUnreachable` and `KnownLow`, people know the row, or are about to. It is inductive for each storage alone, and `Quiescent` (no check outlives its pass) puts them together. The operator lemma
is `LeavingTakesRoom`: whatever the room, the rounds and the shares, `lowLevel` goes below the open
level only past all the levels in between with a fifth to spare. `SlowRunIsToldOnce` is not inductive: a
reported run is in memory, or has ended and is not in the list of the pass (`RunInv`), and the latter
is stable because nothing that has ended is listed again.

Left to TLC: liveness (`EveryRunEnds`, `EveryStreamEnds`, `RevokedStreamEnds`, `SuperfluousGoes`,
`EveryEpisodeIsTold`, `NothingIsMissed`, `EveryRunReturns`, `DeliveryEnds`), since
the prover has no reasoning under fairness or about ENABLED. Every invariant and action property of
the passing runs is proved, under the conditions the table names.

## 5. Plan

Built in this order, each with its run, its hazards, its mutants and its proofs; 3 to 5 are left:

1. `RunQueue` with `TaskSlots`, `Progress`, `Retention`, `TaskAlerts`, `Users`, `SignIn` (done).
2. `StorageAlerts`; `Pipeline` with `Publishing`, `Connector`, `DumpTool` and `ArtifactStore`;
   `Settings` with `Notifications`; `WebPush` (done).
3. `Dispatcher`: clock, activations, `lastTick`, failed inserts, restarts. Property: every activation
   is enqueued, overtaken by an active run, or missed while the daemon was down or the store failed.
   It composes with `TaskSlots`.
4. `Sessions`: the sliding expiry and its cap, lazy cleanup, the limiter's window and sweep.
5. `TaskAlerts` composed with `RunQueue`, so that `alert_state` can be compared with the last run
   (`migrations/0010_alerts.sql:3-4`); the size anomaly.

## 6. Not modelled

The bytes that move, the command lines of dump tools, the formats of codecs and the wire protocols
of the notifiers are input and output around an external program or service; the models see how it
begins, fails and ends. Listings, connection tests and settings of one row have no interaction to
check. Encryption is taken to do what
it says. The web interface is a client of the API. Configuration is read once at start-up. SQLite
is external: its serialised writer, foreign keys, cascades and partial index appear as guards of
the actions that rely on them. A second daemon on the same database file is modelled
in `WebPush` only.
