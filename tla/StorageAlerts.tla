----------------------------- MODULE StorageAlerts -----------------------------
(***************************************************************************)
(* The monitor: what no single run reports.  One goroutine checks, on two  *)
(* tickers, the runs that go on for longer than usual and the storages     *)
(* that enabled tasks write to, each storage in a goroutine of its own for *)
(* the length of the pass.                                                 *)
(*                                                                         *)
(* An episode is a row of alert_state under (kind, storage id), which      *)
(* survives a restart and the storage itself; the misses that lead to one  *)
(* are in memory.  The row is written before the notice is sent.           *)
(*                                                                         *)
(* world and said are not in the code: what the storages are like, and     *)
(* what people were told of them.                                          *)
(***************************************************************************)
EXTENDS Integers, FiniteSets

CONSTANTS
    Storages,       \* storage ids
    Runs,           \* run ids, each used once
    Total,          \* size of every storage
    Frees, Rounds,  \* free room, and size of one more backup of every task
    Usuals,         \* median durations, 0 without enough history
    Margin,         \* slowMargin, in ticks
    MaxAge,         \* bound: ticks a run goes on
    MaxMoves,       \* bound: changes of the world
    MaxFailures,    \* bound: store calls that fail
    MaxRestarts     \* bound: restarts of the daemon

ASSUME StorageAlertsAssumption ==
    /\ Total \in Nat \ {0} /\ Frees \subseteq 0..Total /\ Rounds \subseteq Nat
    /\ Usuals \subseteq Nat
    /\ {Margin, MaxAge, MaxMoves, MaxFailures, MaxRestarts} \subseteq Nat

VARIABLES
    world,      \* world[s]: is storage s used and answering, its free room and round
    alert,      \* alert_state: level by kind and storage id, 0 without a row
    misses,     \* Monitor.misses; the code's count goes on past the second
    check,      \* check[s]: the goroutine of the pass for storage s
    row,        \* row[r]: the run, its age and what is usual for its task
    slow,       \* Monitor.slow
    monitor,    \* the goroutine: "idle", "storages" or "runs"
    listed,     \* CheckRuns: running runs listed and not looked at yet
    live,       \* CheckRuns: running runs listed
    said,       \* said[s]: what was told of storage s
    told,       \* told[r]: how often run r was reported as slow
    budget      \* what is left of the bounds

storageVars == <<world, alert, misses, check, said>>
runVars == <<row, slow, listed, live, told>>
vars == <<storageVars, runVars, monitor, budget>>

Kinds == {"unreachable", "low"}
unreachableAfter == 2
lowWarn == 1
lowCritical == 2

\* One goroutine of CheckStorages: its place, the level it goes to, and whether the
\* storage it was started for has been replaced since.
Idle == [pc |-> "idle", level |-> 0, gone |-> FALSE]

\* What was told of a storage: the outage, the level, the levels told and not left
\* since (those in doubt were left by a check that lacked a size), the failed probes
\* since its last answer, its own and those of the storage that had its id before, and
\* the episodes people may be wrong about.
Quiet == [unreachable |-> 0, low |-> 0, loud |-> {}, doubt |-> {},
          failed |-> 0, inherited |-> 0, excused |-> {}]

\* Type correctness.
TypeOK ==
    /\ world \in [Storages -> [used : BOOLEAN, up : BOOLEAN, free : Frees, round : Rounds]]
    /\ alert \in [Kinds -> [Storages -> 0..lowCritical]]
    /\ misses \in [Storages -> 0..unreachableAfter]
    /\ check \in [Storages -> [pc : {"idle", "probe", "unreachable", "reachable", "measure",
                                     "open", "close", "tell", "recovered", "up"},
                               level : 0..lowCritical, gone : BOOLEAN]]
    /\ row \in [Runs -> [state : {"new", "running", "ended"}, age : 0..MaxAge, usual : Usuals]]
    /\ slow \subseteq Runs /\ listed \subseteq live /\ live \subseteq Runs
    /\ monitor \in {"idle", "storages", "runs"}
    /\ said \in [Storages -> [unreachable : 0..1, low : 0..lowCritical, loud : SUBSET {1, 2},
                              doubt : SUBSET {1, 2}, failed : 0..unreachableAfter,
                              inherited : 0..unreachableAfter, excused : SUBSET Kinds]]
    /\ told \in [Runs -> Nat]
    /\ budget \in [moves : 0..MaxMoves, faults : 0..MaxFailures, restarts : 0..MaxRestarts]

Init ==
    /\ world \in [Storages -> [used : {TRUE}, up : BOOLEAN, free : Frees, round : Rounds]]
    /\ alert = [k \in Kinds |-> [s \in Storages |-> 0]]
    /\ misses = [s \in Storages |-> 0]
    /\ check = [s \in Storages |-> Idle]
    /\ row \in [Runs -> [state : {"new"}, age : {0}, usual : Usuals]]
    /\ slow = {} /\ listed = {} /\ live = {}
    /\ monitor = "idle"
    /\ said = [s \in Storages |-> Quiet]
    /\ told = [r \in Runs |-> 0]
    /\ budget = [moves |-> MaxMoves, faults |-> MaxFailures, restarts |-> MaxRestarts]

Spend(what) == budget[what] > 0 /\ budget' = [budget EXCEPT ![what] = @ - 1]
AtMost(n, m) == IF n < m THEN n ELSE m
Larger(n, m) == IF n > m THEN n ELSE m

--------------------------------------------------------------------------------
(* The world *)

\* A backup lands, files are removed, a host goes or comes back, a task is
\* paused, resumed or points elsewhere.
WorldMoves(s) ==
    /\ Spend("moves")
    /\ \/ world' = [world EXCEPT ![s].used = ~@]
       \/ world' = [world EXCEPT ![s].up = ~@]
       \/ \E free \in Frees \ {world[s].free} : world' = [world EXCEPT ![s].free = free]
       \/ \E round \in Rounds \ {world[s].round} : world' = [world EXCEPT ![s].round = round]
    /\ UNCHANGED <<alert, misses, check, said, runVars, monitor>>

\* A storage no task refers to is deleted and its id given to a new one, which is
\* put to use; the row, the misses and a check under way stay for the newcomer.
ReplaceStorage(s) ==
    /\ ~world[s].used
    /\ \E free \in Frees :
          world' = [world EXCEPT ![s].used = TRUE, ![s].up = TRUE, ![s].free = free]
    /\ check' = [check EXCEPT ![s].gone = TRUE]
    /\ said' = [said EXCEPT ![s] = [Quiet EXCEPT !.inherited = misses[s],
           !.excused = {k \in Kinds : alert[k][s] > 0 \/ check[s].pc # "idle"}]]
    /\ UNCHANGED <<alert, misses, runVars, monitor, budget>>

RunStarts(r) ==
    /\ row[r].state = "new"
    /\ row' = [row EXCEPT ![r].state = "running"]
    /\ UNCHANGED <<storageVars, slow, listed, live, told, monitor, budget>>

RunAges(r) ==
    /\ row[r].state = "running" /\ row[r].age < MaxAge
    /\ row' = [row EXCEPT ![r].age = @ + 1]
    /\ UNCHANGED <<storageVars, slow, listed, live, told, monitor, budget>>

RunEnds(r) ==
    /\ row[r].state = "running"
    /\ row' = [row EXCEPT ![r].state = "ended"]
    /\ UNCHANGED <<storageVars, slow, listed, live, told, monitor, budget>>

--------------------------------------------------------------------------------
(* CheckRuns *)

\* Past three times the usual, and past the usual with the margin.  Without
\* three successful runs nothing is usual.
Late(r) == row[r].usual > 0 /\ row[r].age >= Larger(3 * row[r].usual, row[r].usual + Margin)

ListRunning ==
    /\ monitor = "idle"
    /\ monitor' = "runs"
    /\ live' = {r \in Runs : row[r].state = "running"}
    /\ listed' = live'
    /\ UNCHANGED <<storageVars, row, slow, told, budget>>

\* Mutant of PassRun: a run that is passed over is not noted as running.
PassRunUnseen(r) ==
    /\ monitor = "runs" /\ r \in listed
    /\ r \in slow \/ ~Late(r)
    /\ listed' = listed \ {r} /\ live' = live \ {r}
    /\ UNCHANGED <<storageVars, row, slow, told, monitor, budget>>

\* Already reported, without a history, or not late.
PassRun(r) ==
    /\ monitor = "runs" /\ r \in listed
    /\ r \in slow \/ ~Late(r)
    /\ listed' = listed \ {r}
    /\ UNCHANGED <<storageVars, row, slow, live, told, monitor, budget>>

\* Mutant of ReportRun: the run is marked before its task is loaded.
ReportRunEarly(r) ==
    /\ monitor = "runs" /\ r \in listed
    /\ r \notin slow /\ Late(r)
    /\ slow' = slow \union {r}
    /\ \/ told' = [told EXCEPT ![r] = @ + 1] /\ listed' = listed \ {r}
          /\ UNCHANGED <<monitor, budget>>
       \/ Spend("faults") /\ monitor' = "idle" /\ listed' = {} /\ UNCHANGED told
    /\ UNCHANGED <<storageVars, row, live>>

\* Marked in memory, then told.
ReportRun(r) ==
    /\ monitor = "runs" /\ r \in listed
    /\ r \notin slow /\ Late(r)
    /\ slow' = slow \union {r}
    /\ told' = [told EXCEPT ![r] = @ + 1]
    /\ listed' = listed \ {r}
    /\ UNCHANGED <<storageVars, row, live, monitor, budget>>

\* A store call failed: the rest is left to the next tick, forgetting too.
CheckRunsFails ==
    /\ monitor = "runs" /\ listed \ slow # {} /\ Spend("faults")
    /\ monitor' = "idle"
    /\ listed' = {} /\ live' = {}
    /\ UNCHANGED <<storageVars, row, slow, told>>

ForgetFinished ==
    /\ monitor = "runs" /\ listed = {}
    /\ slow' = slow \intersect live
    /\ monitor' = "idle" /\ live' = {}
    /\ UNCHANGED <<storageVars, row, listed, told, budget>>

CheckRuns ==
    ForgetFinished \/ \E r \in Runs : PassRun(r) \/ ReportRun(r)

--------------------------------------------------------------------------------
(* CheckStorages *)

GoesTo(s, pc, level) == check' = [check EXCEPT ![s].pc = pc, ![s].level = level]
Goes(s, pc) == GoesTo(s, pc, 0)

\* Tasks and storages are listed; a failure leaves it to the next tick.
BeginPass ==
    /\ monitor = "idle"
    /\ monitor' = "storages"
    /\ check' = [s \in Storages |-> IF world[s].used THEN [Idle EXCEPT !.pc = "probe"] ELSE Idle]
    /\ UNCHANGED <<world, alert, misses, said, runVars, budget>>

\* wg.Wait
EndPass ==
    /\ monitor = "storages" /\ \A s \in Storages : check[s].pc = "idle"
    /\ monitor' = "idle"
    /\ UNCHANGED <<storageVars, runVars, budget>>

\* The storage did not answer, or the one that had its id did not, of which nothing
\* is known any more.  One miss is a blip.
Miss(s) ==
    /\ check[s].pc = "probe" /\ (check[s].gone \/ ~world[s].up)
    /\ misses' = [misses EXCEPT ![s] = AtMost(@ + 1, unreachableAfter)]
    /\ Goes(s, IF misses'[s] < unreachableAfter THEN "idle" ELSE "unreachable")
    /\ said' = IF check[s].gone
               THEN [said EXCEPT ![s].inherited = AtMost(@ + 1, unreachableAfter)]
               ELSE [said EXCEPT ![s].failed = AtMost(@ + 1, unreachableAfter)]
    /\ UNCHANGED <<world, alert, runVars, monitor, budget>>

\* Mutant of Answer: the misses stay.
AnswerKeepsMisses(s) ==
    /\ check[s].pc = "probe" /\ (check[s].gone \/ world[s].up)
    /\ Goes(s, "reachable")
    /\ said' = [said EXCEPT ![s].failed = 0, ![s].inherited = 0]
    /\ UNCHANGED <<world, alert, misses, runVars, monitor, budget>>

Answer(s) ==
    /\ check[s].pc = "probe" /\ (check[s].gone \/ world[s].up)
    /\ misses' = [misses EXCEPT ![s] = 0]
    /\ Goes(s, "reachable")
    /\ said' = [said EXCEPT ![s].failed = 0, ![s].inherited = 0]
    /\ UNCHANGED <<world, alert, runVars, monitor, budget>>

\* OpenAlert says whether the episode was open; only its beginning is told.
OpenUnreachable(s) ==
    /\ check[s].pc = "unreachable"
    /\ alert' = [alert EXCEPT !["unreachable"][s] = 1]
    /\ Goes(s, IF alert["unreachable"][s] = 0 THEN "tell" ELSE "idle")
    /\ UNCHANGED <<world, misses, said, runVars, monitor, budget>>

\* Mutant of CloseUnreachable: a recovery is only told while a miss is remembered.
CloseUnreachableMute(s) ==
    /\ check[s].pc = "reachable"
    /\ alert' = [alert EXCEPT !["unreachable"][s] = 0]
    /\ Goes(s, IF alert["unreachable"][s] = 1 /\ misses[s] > 0 THEN "up" ELSE "measure")
    /\ UNCHANGED <<world, misses, said, runVars, monitor, budget>>

\* CloseAlert says whether one was open.
CloseUnreachable(s) ==
    /\ check[s].pc = "reachable"
    /\ alert' = [alert EXCEPT !["unreachable"][s] = 0]
    /\ Goes(s, IF alert["unreachable"][s] = 1 THEN "up" ELSE "measure")
    /\ UNCHANGED <<world, misses, said, runVars, monitor, budget>>

\* free below a share of the volume, or below a number of rounds; a level that is
\* open is only left with a fifth to spare.
Share(level) == IF level = lowCritical THEN 5 ELSE 10
RoundsOf(level) == IF level = lowCritical THEN 1 ELSE 3
Below(level, free, round, slack) ==
    \/ 1000 * free < Total * Share(level) * slack
    \/ round > 0 /\ 10 * free < round * RoundsOf(level) * slack

LowLevel(free, round, prev) ==
    LET Slack(level) == IF prev >= level THEN 12 ELSE 10
    IN IF Below(lowCritical, free, round, Slack(lowCritical)) THEN lowCritical
       ELSE IF Below(lowWarn, free, round, Slack(lowWarn)) THEN lowWarn
       ELSE 0

Comfortable(free, round) ==
    {level \in {lowWarn, lowCritical} : ~Below(level, free, round, 12)}

\* What a check can read of storage s, or of the one that had its id.
FreeSeen(s) == IF check[s].gone THEN Frees ELSE {world[s].free}
RoundSeen(s) == IF check[s].gone THEN Rounds ELSE {world[s].round}

\* The free room and the part of the round that was read are compared with the level
\* that is open.
Compare(s, free, round, part) ==
    /\ check[s].pc = "measure"
    /\ LET prev == alert["low"][s]
           level == LowLevel(free, part, prev)
       IN GoesTo(s, IF level = prev THEN "idle" ELSE IF level = 0 THEN "close" ELSE "open", level)
    /\ said' = [said EXCEPT
           ![s].loud = @ \ Comfortable(free, round),
           ![s].doubt = (@ \union (said[s].loud \intersect Comfortable(free, part)))
                           \ Comfortable(free, round)]
    /\ UNCHANGED <<world, alert, misses, runVars, monitor>>

\* Capacity, the last sizes and the open level are read and compared.
Judge(s) ==
    /\ \E free \in FreeSeen(s), round \in RoundSeen(s) : Compare(s, free, round, round)
    /\ UNCHANGED budget

\* The last size of a task cannot be read: the round is judged without it.
JudgePartial(s) ==
    /\ Spend("faults")
    /\ \E free \in FreeSeen(s), round \in RoundSeen(s) :
          \E part \in {n \in Rounds \union {0} : n <= round} : Compare(s, free, round, part)

\* Not a backend that reports a capacity, or one that cannot be measured.
CannotMeasure(s) ==
    /\ check[s].pc = "measure"
    /\ Goes(s, "idle")
    /\ UNCHANGED <<world, alert, misses, said, runVars, monitor, budget>>

\* Mutant of OpenLow: the notice goes out although the row could not be written.
OpenLowBeforeRow(s) ==
    /\ check[s].pc = "open"
    /\ UNCHANGED alert
    /\ GoesTo(s, IF check[s].level < alert["low"][s] THEN "idle" ELSE "tell", check[s].level)
    /\ UNCHANGED <<world, misses, said, runVars, monitor, budget>>

\* The level was raised, which is told, or went down and is still low.
OpenLow(s) ==
    /\ check[s].pc = "open"
    /\ LET level == check[s].level
       IN /\ alert' = [alert EXCEPT !["low"][s] = level]
          /\ GoesTo(s, IF level < alert["low"][s] THEN "idle" ELSE "tell", level)
    /\ UNCHANGED <<world, misses, said, runVars, monitor, budget>>

CloseLow(s) ==
    /\ check[s].pc = "close"
    /\ alert' = [alert EXCEPT !["low"][s] = 0]
    /\ Goes(s, "recovered")
    /\ UNCHANGED <<world, misses, said, runVars, monitor, budget>>

\* A failed store call ends the check, except that a storage whose recovery
\* could not be recorded is still measured.
StoreFails(s) ==
    /\ check[s].pc \in {"unreachable", "reachable", "measure", "open", "close"}
    /\ Spend("faults")
    /\ Goes(s, IF check[s].pc = "reachable" THEN "measure" ELSE "idle")
    /\ UNCHANGED <<world, alert, misses, said, runVars, monitor>>

\* SendSystem.  A level stands for a storage short of room, none for one that
\* does not answer.
Tell(s) ==
    /\ check[s].pc = "tell"
    /\ Goes(s, "idle")
    /\ LET level == check[s].level
       IN said' = IF level = 0
                  THEN [said EXCEPT ![s].unreachable = 1, ![s].excused = @ \ {"unreachable"}]
                  ELSE [said EXCEPT ![s].low = level, ![s].loud = @ \union {level},
                                    ![s].doubt = @ \ {level}, ![s].excused = @ \ {"low"}]
    /\ UNCHANGED <<world, alert, misses, runVars, monitor, budget>>

TellUp(s) ==
    /\ check[s].pc = "up"
    /\ Goes(s, "measure")
    /\ said' = [said EXCEPT ![s].unreachable = 0, ![s].excused = @ \ {"unreachable"}]
    /\ UNCHANGED <<world, alert, misses, runVars, monitor, budget>>

TellRoom(s) ==
    /\ check[s].pc = "recovered"
    /\ Goes(s, "idle")
    /\ said' = [said EXCEPT ![s].low = 0, ![s].excused = @ \ {"low"}]
    /\ UNCHANGED <<world, alert, misses, runVars, monitor, budget>>

CheckStorage(s) ==
    \/ Miss(s) \/ Answer(s) \/ OpenUnreachable(s) \/ CloseUnreachable(s)
    \/ Judge(s) \/ OpenLow(s) \/ CloseLow(s) \/ Tell(s) \/ TellUp(s) \/ TellRoom(s)

--------------------------------------------------------------------------------
(* The daemon *)

\* Which notice of storage s is written down and not sent yet.
Pending(s) ==
    CASE check[s].pc = "tell" -> IF check[s].level = 0 THEN {"unreachable"} ELSE {"low"}
      [] check[s].pc = "up" -> {"unreachable"}
      [] check[s].pc = "recovered" -> {"low"}
      [] OTHER -> {}

\* A stop or a crash: memory is gone, and with it notices that were due.  The
\* running runs are reaped at the start.
Restart ==
    /\ Spend("restarts")
    /\ monitor' = "idle"
    /\ check' = [s \in Storages |-> Idle]
    /\ misses' = [s \in Storages |-> 0]
    /\ said' = [s \in Storages |->
           [said[s] EXCEPT !.excused = @ \union Pending(s), !.inherited = 0]]
    /\ slow' = {} /\ listed' = {} /\ live' = {}
    /\ row' = [r \in Runs |-> [row[r] EXCEPT !.state = IF @ = "running" THEN "ended" ELSE @]]
    /\ UNCHANGED <<world, alert, told>>

Next ==
    \/ Restart \/ ListRunning \/ CheckRuns \/ CheckRunsFails \/ BeginPass \/ EndPass
    \/ \E r \in Runs : RunStarts(r) \/ RunAges(r) \/ RunEnds(r)
    \/ \E s \in Storages :
          \/ CheckStorage(s) \/ CannotMeasure(s) \/ JudgePartial(s) \/ StoreFails(s)
          \/ WorldMoves(s) \/ ReplaceStorage(s)

\* A tick waits in its channel and select takes ready channels at random, so
\* neither ticker is passed over for ever; a pass that began goes on.
Fairness ==
    /\ SF_vars(ListRunning) /\ SF_vars(BeginPass)
    /\ WF_vars(CheckRuns) /\ WF_vars(EndPass)
    /\ \A s \in Storages : WF_vars(CheckStorage(s))

Spec == Init /\ [][Next]_vars /\ Fairness

--------------------------------------------------------------------------------
(* Properties *)

\* People know of every open episode, at its level or a worse one, and of no
\* other, unless a restart came between the row and the notice or the storage
\* took over the id of a deleted one.
\* (monitor.go:289-298, 304-311, 323-346; migrations/0010_alerts.sql:3-8)
EpisodesAreTold ==
    \A s \in Storages : \A k \in Kinds \ (said[s].excused \union Pending(s)) :
        /\ alert[k][s] <= said[s][k]
        /\ said[s][k] > 0 => alert[k][s] > 0

\* A storage is called unreachable after two failed probes with no answer in
\* between, also across restarts; those of the storage that had its id before count.
\* (monitor.go:57-59, 281-288, 301-303)
AwayWhenTold(s) ==
    said[s].unreachable = 0 /\ said'[s].unreachable = 1
        => said[s].failed + said[s].inherited >= unreachableAfter

\* A level is told again only after a check found a fifth more room than it takes to
\* enter it, or found so because it could not read the last size of a task.
\* (monitor.go:81, 268-276, 350-372)
LeftBeforeToldAgain(s) ==
    \A level \in {lowWarn, lowCritical} :
        Tell(s) /\ check[s].level = level => level \notin said[s].loud \ said[s].doubt

\* Neither a blip nor free room that hovers at a threshold wakes anybody, but for a
\* storage that took over an id and for a round that was read in part
\* (Monitor.unreachable, reachable, lowLevel).
NoFalseAlarm ==
    [][\A s \in Storages : AwayWhenTold(s) /\ LeftBeforeToldAgain(s)]_vars

\* One failed probe of a storage is a blip, the alert waits for the second: as it is
\* said of the misses.  They are kept by id and outlive the storage
\* (monitor.go:57-59, 280-288).
OneMissIsABlip ==
    [][\A s \in Storages :
          said[s].unreachable = 0 /\ said'[s].unreachable = 1
              => said[s].failed >= unreachableAfter]_vars

\* A run is reported as slow once, although the monitor forgets finished runs, a pass
\* may be cut short by a failed call, and a restart empties its memory.
\* (monitor.go:99-100, 142-143, 195-203)
SlowRunIsToldOnce == \A r \in Runs : told[r] <= 1

\* A storage in use that stays away is reported, and one that stays reachable is
\* reported as back.
\* (monitor.go:118-140, 205-236)
OutagesAreTold ==
    \A s \in Storages :
        /\ <>[](world[s].used /\ ~world[s].up)
               => <>[](said[s].unreachable = 1 \/ "unreachable" \in said[s].excused)
        /\ <>[](world[s].used /\ world[s].up)
               => <>[](said[s].unreachable = 0 \/ "unreachable" \in said[s].excused)

\* A run that is late is reported unless it ends.
\* (monitor.go:142-181)
SlowRunIsTold ==
    \A r \in Runs :
        (row[r].state = "running" /\ Late(r)) ~> (row[r].state # "running" \/ told[r] = 1)

\* Each outage, each recovery and each run that is late is reported in the end, whatever
\* one pass could not do (Monitor.Run, its two tickers).
NothingIsMissed == OutagesAreTold /\ SlowRunIsTold

================================================================================
