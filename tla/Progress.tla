------------------------------ MODULE Progress ------------------------------
(***************************************************************************)
(* Live progress of one run id: the in-memory Hub, the executor publishing   *)
(* into it, and the HTTP handlers that stream it to viewers as server-sent   *)
(* events or replay the finished run from its row.                           *)
(*                                                                           *)
(* The hub's methods hold its mutex, so each is one action; the handler's    *)
(* row read, its subscription and its reads of the channel are not one.  A   *)
(* run id may live more than once: rowids of deleted runs are handed out     *)
(* again, while a viewer of the deleted run is still on its way out, and     *)
(* while its executor has recorded the end and not yet announced it.  Every  *)
(* life has its executor; all of them publish under the same id.             *)
(***************************************************************************)
EXTENDS Naturals, Sequences

CONSTANTS
  Viewers,     \* concurrent GET /api/runs/{id}/events requests
  TailMax,     \* length of the snapshot ring
  SubBuf,      \* capacity of a subscriber's channel
  MaxReports,  \* bound: events before the terminal one, per execution
  MaxSubs,     \* bound: subscriptions per execution
  MaxLives     \* bound: how often the run id comes to life

ASSUME SizesAssumption ==
  /\ TailMax \in Nat \ {0}
  /\ SubBuf \in Nat \ {0}
  /\ MaxReports \in Nat \ {0}
  /\ MaxSubs \in Nat
  /\ MaxLives \in Nat

VARIABLES
  row,      \* status of the run row, "none" when there is no such row
  pc,       \* pc[l]: where the executor of the run's life l is
  outcome,  \* outcome[l]: what it will publish as the terminal status
  reports,  \* optional events published so far by the executor of this life
  lives,    \* how often the id came to life
  hub,      \* the hub's entry of the run, NoEntry when there is none
  viewer,   \* the request handlers; got: the last two events the client was sent
  alive     \* the viewers whose session is still good

vars == <<row, pc, outcome, reports, lives, hub, viewer, alive>>

Terminal == {"success", "failed"}
Lives == 1 .. MaxLives

\* entry tells one entry of the id from another, as the address of a liveRun
\* does; by holds the lives whose executors published into it.
NoEntry(n) == [live |-> FALSE, seq |-> 0, tail |-> <<>>, subs |-> {}, nextSub |-> 0,
               entry |-> n, by |-> {}]

\* heard: the lives whose executors published into, or closed, the entry the
\* viewer is subscribed to.
NoViewer == [pc |-> "away", id |-> 0, entry |-> 0, chan |-> <<>>, open |-> FALSE,
             got |-> <<>>, lagged |-> FALSE, left |-> FALSE, heard |-> {}]

\* Of what an event carries, its number and the status it ends the stream with.
Events == [seq : Nat, status : {"none", "queued", "running"} \cup Terminal]

TypeOK ==
  /\ row \in {"none", "queued", "running"} \cup Terminal
  /\ pc \in [Lives -> {"idle", "claimed", "working", "finished", "announced"}]
  /\ outcome \in [Lives -> {"none"} \cup Terminal]
  /\ reports \in 0 .. MaxReports
  /\ lives \in 0 .. MaxLives
  /\ hub.live \in BOOLEAN /\ hub.seq \in Nat /\ hub.nextSub \in Nat
  /\ hub.tail \in Seq(Events) /\ Len(hub.tail) <= TailMax
  /\ hub.subs \subseteq [id : Nat, viewer : Viewers]
  /\ hub.entry \in Nat /\ hub.by \subseteq Lives
  /\ \A v \in Viewers :
       /\ viewer[v].pc \in {"away", "loaded", "reload", "streaming", "leaving", "replayed"}
       /\ viewer[v].chan \in Seq(Events) /\ Len(viewer[v].chan) <= SubBuf
       /\ viewer[v].got \in Seq(Events)
       /\ viewer[v].open \in BOOLEAN
       /\ viewer[v].lagged \in BOOLEAN
       /\ viewer[v].left \in BOOLEAN
       /\ viewer[v].heard \subseteq Lives
  /\ alive \subseteq Viewers

Init ==
  /\ row = "none"
  /\ pc = [l \in Lives |-> "idle"]
  /\ outcome = [l \in Lives |-> "none"]
  /\ reports = 0
  /\ lives = 0
  /\ hub = NoEntry(0)
  /\ viewer = [v \in Viewers |-> NoViewer]
  /\ alive = Viewers

-----------------------------------------------------------------------------
\* The hub.

\* The newest n events.
Newest(n, s) == IF Len(s) > n THEN SubSeq(s, Len(s) - n + 1, Len(s)) ELSE s

\* A non-blocking send: a full channel drops the event.  What a handler that has
\* stopped reading finds in its channel makes no difference.
Offer(v, ev) ==
  IF viewer[v].pc # "streaming" THEN viewer[v]
  ELSE IF Len(viewer[v].chan) < SubBuf
  THEN [viewer[v] EXCEPT !.chan = Append(@, ev)]
  ELSE [viewer[v] EXCEPT !.lagged = TRUE]

\* ensure and publishLocked, by the executor of life l.
Publish(l, status) ==
  LET ev == [seq |-> hub.seq + 1, status |-> status] IN
  /\ hub' = [hub EXCEPT !.live = TRUE, !.seq = @ + 1,
                        !.tail = Newest(TailMax, Append(@, ev)), !.by = @ \cup {l}]
  /\ viewer' = [v \in Viewers |->
                 IF \E s \in hub.subs : s.viewer = v
                 THEN [Offer(v, ev) EXCEPT !.heard = @ \cup {l}] ELSE viewer[v]]

-----------------------------------------------------------------------------
\* The run's row and its executor.

Enqueue ==
  /\ row = "none"
  /\ lives < MaxLives
  /\ row' = "queued"
  /\ lives' = lives + 1
  /\ reports' = 0
  /\ UNCHANGED <<pc, outcome, hub, viewer, alive>>

\* Deleting the task cascades to its runs, and frees the rowid.  Only a queued or
\* running row is refused: the executor may not have announced the end yet.  (A
\* delete that found no active run before this one began is RunQueue's.)
DeleteRow ==
  /\ row \in Terminal
  /\ row' = "none"
  /\ UNCHANGED <<pc, outcome, reports, lives, hub, viewer, alive>>

Claim(l) ==
  /\ l = lives
  /\ row = "queued"
  /\ row' = "running"
  /\ pc' = [pc EXCEPT ![l] = "claimed"]
  /\ UNCHANGED <<outcome, reports, lives, hub, viewer, alive>>

\* The worker fails the run before the executor said anything to the hub; the
\* store may refuse that write, whose error is discarded.
LoadTaskFails(l) ==
  /\ pc[l] = "claimed"
  /\ row' \in {"failed", row}
  /\ pc' = [pc EXCEPT ![l] = "idle"]
  /\ UNCHANGED <<outcome, reports, lives, hub, viewer, alive>>

\* Hub.Phase, Hub.Log, Hub.Total, Hub.Bytes; the first of them, the phase
\* "resolve", makes the run live.
Report(l) ==
  /\ pc[l] \in {"claimed", "working"}
  /\ reports < MaxReports
  /\ reports' = reports + 1
  /\ pc' = [pc EXCEPT ![l] = "working"]
  /\ Publish(l, "none")
  /\ UNCHANGED <<row, outcome, lives, alive>>

\* Store.Finish, before anything terminal is published.
Finish(l, status) ==
  /\ pc[l] = "working"
  /\ pc' = [pc EXCEPT ![l] = "finished"]
  /\ outcome' = [outcome EXCEPT ![l] = status]
  /\ row' = status
  /\ UNCHANGED <<reports, lives, hub, viewer, alive>>

\* Finish(failed) fails itself; the executor goes on as if it had not.
FinishLost(l) ==
  /\ pc[l] = "working"
  /\ pc' = [pc EXCEPT ![l] = "finished"]
  /\ outcome' = [outcome EXCEPT ![l] = "failed"]
  /\ UNCHANGED <<row, reports, lives, hub, viewer, alive>>

\* Mutant of PublishStatus: success is announced before it is recorded.
PublishStatusEarly(l) ==
  /\ pc[l] \in {"working", "finished"}
  /\ pc' = [pc EXCEPT ![l] = IF @ = "working" THEN "working" ELSE "announced"]
  /\ Publish(l, IF pc[l] = "working" THEN "success" ELSE outcome[l])
  /\ UNCHANGED <<row, outcome, reports, lives, alive>>

PublishStatus(l) ==
  /\ pc[l] = "finished"
  /\ pc' = [pc EXCEPT ![l] = "announced"]
  /\ Publish(l, outcome[l])
  /\ UNCHANGED <<row, outcome, reports, lives, alive>>

Closed(l) == [v \in Viewers |->
  IF \E s \in hub.subs : s.viewer = v
  THEN [viewer[v] EXCEPT !.open = FALSE, !.heard = @ \cup {l}] ELSE viewer[v]]

\* Whatever entry the id has now is closed and forgotten; there may be none.
Close(l) ==
  /\ pc[l] = "announced"
  /\ pc' = [pc EXCEPT ![l] = "idle"]
  /\ outcome' = [outcome EXCEPT ![l] = "none"]
  /\ viewer' = Closed(l)
  /\ hub' = IF hub.live THEN NoEntry(hub.entry + 1) ELSE hub
  /\ UNCHANGED <<row, reports, lives, alive>>

-----------------------------------------------------------------------------
\* A viewer's request.

Become(v, changed) == viewer' = [viewer EXCEPT ![v] = changed]

\* replayRun: the persisted log, of which only the closing status is kept here.
Replayed(v, status) ==
  [viewer[v] EXCEPT !.pc = "replayed",
                    !.got = <<[seq |-> 1, status |-> status]>>]

LoadRun(v) ==
  /\ viewer[v].pc = "away"
  /\ v \in alive
  /\ row # "none"
  /\ Become(v, IF row \in Terminal THEN Replayed(v, row)
               ELSE [viewer[v] EXCEPT !.pc = "loaded"])
  /\ UNCHANGED <<row, pc, outcome, reports, lives, hub, alive>>

\* Mutant of Subscribe: the snapshot is not copied under the lock, and misses
\* the event that is being appended.
SubscribeStale(v) ==
  /\ viewer[v].pc = "loaded"
  /\ hub.live
  /\ hub.nextSub < MaxSubs
  /\ hub' = [hub EXCEPT !.subs = @ \cup {[id |-> hub.nextSub, viewer |-> v]},
                        !.nextSub = @ + 1]
  /\ Become(v, [viewer[v] EXCEPT
       !.pc = "streaming", !.id = hub.nextSub, !.entry = hub.entry, !.heard = hub.by,
       !.chan = <<>>, !.open = TRUE,
       !.got = Newest(2, SubSeq(hub.tail, 1, Len(hub.tail) - 1))])
  /\ UNCHANGED <<row, pc, outcome, reports, lives, alive>>

Subscribe(v) ==
  /\ viewer[v].pc = "loaded"
  /\ hub.live
  /\ hub.nextSub < MaxSubs
  /\ hub' = [hub EXCEPT !.subs = @ \cup {[id |-> hub.nextSub, viewer |-> v]},
                        !.nextSub = @ + 1]
  /\ Become(v, [viewer[v] EXCEPT
       !.pc = "streaming", !.id = hub.nextSub, !.entry = hub.entry, !.heard = hub.by,
       !.chan = <<>>, !.open = TRUE, !.got = Newest(2, hub.tail)])
  /\ UNCHANGED <<row, pc, outcome, reports, lives, alive>>

NotLive(v) ==
  /\ viewer[v].pc = "loaded"
  /\ ~hub.live
  /\ Become(v, [viewer[v] EXCEPT !.pc = "reload"])
  /\ UNCHANGED <<row, pc, outcome, reports, lives, hub, alive>>

\* The row is read once more; when it is gone, nothing is sent.
ReplayFresh(v) ==
  /\ viewer[v].pc = "reload"
  /\ Become(v, IF row # "none" THEN Replayed(v, row)
               ELSE NoViewer)
  /\ UNCHANGED <<row, pc, outcome, reports, lives, hub, alive>>

Receive(v) ==
  /\ viewer[v].pc = "streaming"
  /\ viewer[v].chan # <<>>
  /\ Become(v, [viewer[v] EXCEPT !.got = Newest(2, Append(@, Head(viewer[v].chan))),
                                 !.chan = Tail(@)])
  /\ UNCHANGED <<row, pc, outcome, reports, lives, hub, alive>>

StreamEnds(v) ==
  /\ viewer[v].pc = "streaming"
  /\ viewer[v].chan = <<>>
  /\ ~viewer[v].open
  /\ Become(v, [viewer[v] EXCEPT !.pc = "leaving"])
  /\ UNCHANGED <<row, pc, outcome, reports, lives, hub, alive>>

\* The handler returns before the stream ended.
Quit(v) == [viewer[v] EXCEPT !.pc = "leaving", !.left = TRUE, !.chan = <<>>,
                             !.got = <<>>, !.lagged = FALSE]

Disconnect(v) ==
  /\ viewer[v].pc = "streaming"
  /\ Become(v, Quit(v))
  /\ UNCHANGED <<row, pc, outcome, reports, lives, hub, alive>>

\* Mutant of Heartbeat: the session is checked at accept only.
HeartbeatUnchecked(v) == FALSE /\ UNCHANGED vars

\* A heartbeat of a good session changes nothing.
Heartbeat(v) ==
  /\ viewer[v].pc = "streaming"
  /\ v \notin alive
  /\ Become(v, Quit(v))
  /\ UNCHANGED <<row, pc, outcome, reports, lives, hub, alive>>

Without(v) == {s \in hub.subs : s.id # viewer[v].id}

\* Mutant of Cancel: the id is deleted from whatever entry the run has now.
CancelUnguarded(v) ==
  /\ viewer[v].pc = "leaving"
  /\ Become(v, NoViewer)
  /\ hub' = [hub EXCEPT !.subs = Without(v)]
  /\ UNCHANGED <<row, pc, outcome, reports, lives, alive>>

\* The deferred cancel: the entry may be gone, and the id have another one.
Cancel(v) ==
  /\ viewer[v].pc = "leaving"
  /\ Become(v, NoViewer)
  /\ hub' = IF viewer[v].entry = hub.entry THEN [hub EXCEPT !.subs = Without(v)] ELSE hub
  /\ UNCHANGED <<row, pc, outcome, reports, lives, alive>>

\* The response is complete; the client may ask again.
ReplayEnds(v) ==
  /\ viewer[v].pc = "replayed"
  /\ Become(v, NoViewer)
  /\ UNCHANGED <<row, pc, outcome, reports, lives, hub, alive>>

Revoke(v) ==
  /\ v \in alive
  /\ alive' = alive \ {v}
  /\ UNCHANGED <<row, pc, outcome, reports, lives, hub, viewer>>

-----------------------------------------------------------------------------
Executor(l) ==
  \/ Claim(l)
  \/ LoadTaskFails(l)
  \/ Report(l)
  \/ \E status \in Terminal : Finish(l, status)
  \/ FinishLost(l)
  \/ PublishStatus(l)
  \/ Close(l)

Handler(v) ==
  \/ Subscribe(v) \/ NotLive(v) \/ ReplayFresh(v)
  \/ Receive(v) \/ StreamEnds(v) \/ Cancel(v) \/ ReplayEnds(v)

Next ==
  \/ Enqueue
  \/ DeleteRow
  \/ \E l \in Lives : Executor(l)
  \/ \E v \in Viewers :
       LoadRun(v) \/ Handler(v) \/ Heartbeat(v) \/ Disconnect(v) \/ Revoke(v)

\* Handlers are scheduled and their clients read; the ticker fires, and a select
\* with both a tick and events ready takes the tick eventually.  The executor is
\* not promised to move: a dump may take as long as it likes.
Spec == Init /\ [][Next]_vars
          /\ \A v \in Viewers : WF_vars(Handler(v)) /\ WF_vars(Heartbeat(v))

-----------------------------------------------------------------------------
\* Properties.

Streamed(v) == viewer[v].pc \in {"streaming", "leaving"}
Statuses(v) == {i \in 1 .. Len(viewer[v].got) : viewer[v].got[i].status \in Terminal}

\* All a viewer hears comes from one executor: no other run's executor, late under
\* an id that was handed out again, published into its entry or closed it.
OneRun(v) == \E l \in Lives : viewer[v].heard = {l}

\* A viewer sees the events of one hub entry in order and without a gap, the
\* snapshot joining the live events seamlessly, unless its channel was once full;
\* that holds also when a late executor of a deleted run publishes in between.
\* A terminal status is the last thing it sees, if it hears of one run only.
StreamInOrder ==
  \A v \in Viewers : Streamed(v) =>
    LET got == viewer[v].got IN
    /\ \A i \in 1 .. Len(got) - 1 :
         /\ got[i].seq < got[i + 1].seq
         /\ ~viewer[v].lagged => got[i + 1].seq = got[i].seq + 1
    /\ OneRun(v) => \A i \in Statuses(v) : i = Len(got)

\* The stream ended by itself, without loss, and not with a terminal status.
EndsUntold(v) ==
  /\ viewer[v].pc = "leaving"
  /\ ~viewer[v].left
  /\ ~viewer[v].lagged
  /\ Len(viewer[v].got) \notin Statuses(v)

\* "Subsequent events stream until the run reaches a terminal status" and "the Hub
\* closes ch after the terminal status" (handlers_stream.go), of every stream.
\* Not so: the run's row may be deleted, and its id be another run's, between the
\* executor's write of the end and its Hub.Close, which then closes that other run.
EndIsTold == \A v \in Viewers : ~EndsUntold(v)

\* What is told of a run on its stream is in its row, for as long as the id still
\* means that run: the status is published only after the write.
ToldIsRecorded(v) ==
  viewer[v].heard = {lives} =>
    \A i \in Statuses(v) :
      /\ viewer[v].got[i].status = "success" => row \in {"success", "none"}
      /\ viewer[v].got[i].status = "failed" => row # "success"

\* A stream that heard of one run only, and was not cut, ends with how the run
\* ended, as its row has it: neither a silent end nor a status the store never took
\* (publishTerminal, Hub.Close, streamLive).  Excepted, and only then, is a stream
\* that the late executor of a deleted run under the same id reached (EndIsTold).
OutcomeIsTold == \A v \in Viewers : OneRun(v) => ~EndsUntold(v) /\ ToldIsRecorded(v)

\* The hub has an entry only while an executor that published into it is at work:
\* nothing leaks once it ended, though a late executor may remove, or create, an
\* entry of the next run.  It never sends on, or closes again, a closed channel.
HubForgets ==
  /\ hub.live => hub.by # {}
  /\ \A l \in hub.by : pc[l] \notin {"idle", "claimed"}
  /\ \A s \in hub.subs : viewer[s.viewer].open /\ viewer[s.viewer].entry = hub.entry

\* Every stream ends when the executors get on with their work, also for a viewer
\* whose run id was reused, and when others leave late.
EveryStreamEnds ==
  (\A l \in Lives : WF_vars(Executor(l))) =>
    \A v \in Viewers : viewer[v].pc = "streaming" ~> viewer[v].pc = "away"

\* A stream whose session ended stops within a heartbeat, however long the run
\* still takes.
RevokedStreamEnds ==
  \A v \in Viewers :
    (viewer[v].pc = "streaming" /\ v \notin alive) ~> viewer[v].pc = "away"

=============================================================================
