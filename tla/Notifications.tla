----------------------------- MODULE Notifications -----------------------------
(***************************************************************************)
(* Delivery of an event to channels, beside the requests that change them.  *)
(* Whoever sends holds a copy of the task, read long before: a worker when  *)
(* it claimed the run, a sweep or the watchdog when it listed the tasks.    *)
(* Delivery reads the channels once, builds each, calls each, and records   *)
(* every attempt in the delivery log.                                      *)
(*                                                                         *)
(* owed, took and unlogged are not in the code: whom an event is for, what  *)
(* the outside world got, and which records the store refused.              *)
(***************************************************************************)
EXTENDS Settings

CONSTANTS
    Events,     \* events, each sent once
    Loads       \* bound: what may go on at once: the clients that ask for something, the
                \* requests they make, the events that are sent

ASSUME LoadsAssumption ==
    Loads \subseteq [clients : SUBSET Clients, requests : 0..MaxRequests, events : SUBSET Events]

VARIABLES
    event,      \* event[e]: the call of Send, SendSystem or Test for event e
    log,        \* table notification
    owed,       \* owed[e]: the channels that should get e, by the names they have by now
    took,       \* <<event, channel>>: delivered
    unlogged    \* <<event, channel>>: attempts whose insert failed

delivery == <<event, log, owed, took, unlogged>>
vars == <<settings, budget, delivery>>

Entry == [event : Events, channel : Names, status : {"sent", "failed"}]

Kinds == {"task", "system", "test"}

TypeOK ==
    /\ SettingsTypeOK
    /\ \A e \in Events :
         \/ event[e].pc = "none"
         \/ /\ event[e].pc \in {"loaded", "delivering"} /\ event[e].kind \in Kinds
            /\ event[e].fate \in {"well", "unlisted", "late"}
    /\ log \subseteq Entry
    /\ owed \in [Events -> SUBSET Names]
    /\ took \subseteq Events \X Names /\ unlogged \subseteq Events \X Names

Wanting(channels) == {i \in ChannelIds : Has(channels[i]) /\ channels[i].wants}
NamesOf(channels, ids) == {channels[i].name : i \in ids}

Sends(e, x) == event' = [event EXCEPT ![e] = x]

-----------------------------------------------------------------------------
(* Sending *)

\* A call for an event: its kind, the channels it may go to as the sender has their names,
\* what is still to be built and to be delivered; and its fate, should the list of channels
\* not be readable or the time of a test be up.
Call(kind, names) ==
    [pc |-> "loaded", kind |-> kind, names |-> names, todo |-> {}, built |-> {}, fate |-> "well"]
Delivering(call, todo) == [call EXCEPT !.pc = "delivering", !.todo = todo]

\* An event that is over, and went to nobody.
Past == Delivering(Call("system", {}), {})

Init ==
    /\ \E load \in Loads :
         /\ SettingsInit(load.clients, load.requests)
         /\ event = [e \in Events |-> IF e \in load.events THEN [pc |-> "none"] ELSE Past]
    /\ log = {}
    /\ owed = [e \in Events |-> {}]
    /\ took = {} /\ unlogged = {}

\* GetTask in the worker, or the listing of a sweep, a watchdog or the monitor.
LoadTask(e) ==
    /\ event[e].pc = "none"
    /\ \E t \in Tasks :
         /\ Has(task[t])
         /\ Sends(e, Call("task", task[t].names))
         /\ owed' = [owed EXCEPT ![e] = task[t].names \cap NamesOf(channel, Wanting(channel))]
    /\ UNCHANGED <<settings, budget, log, took, unlogged>>

\* SendSystem: an event about a storage or an account.
BeginSystem(e) ==
    /\ event[e].pc = "none"
    /\ Sends(e, Call("system", Names))
    /\ owed' = [owed EXCEPT ![e] = NamesOf(channel, Wanting(channel))]
    /\ UNCHANGED <<settings, budget, log, took, unlogged>>

Forms(ids) == {[name |-> channel[i].name, config |-> channel[i].config] : i \in ids}

\* The one read of the list: the channels that forward the event, of those the task's copy
\* names. A name without a channel only makes a warning.
ListChannels(e) ==
    /\ event[e].pc = "loaded"
    /\ Sends(e, Delivering(event[e],
                  Forms({i \in Wanting(channel) : channel[i].name \in event[e].names})))
    /\ UNCHANGED <<settings, budget, log, owed, took, unlogged>>

\* A list that cannot be read fails the event on every channel the task's copy names; an
\* event without a task is gone.
ListChannelsFails(e) ==
    /\ event[e].pc = "loaded"
    /\ SpendFault
    /\ LET failed == IF event[e].kind = "task" THEN [name : event[e].names, config : {None}] ELSE {}
       IN  Sends(e, [Delivering(event[e], failed) EXCEPT !.fate = "unlisted"])
    /\ UNCHANGED <<settings, log, owed, took, unlogged>>

\* TestTimeout is over: what the test has yet to do is done with a context that is over.
TestTimesOut(e) ==
    /\ event[e].pc = "delivering" /\ event[e].kind = "test" /\ event[e].fate = "well"
    /\ event' = [event EXCEPT ![e].fate = "late"]
    /\ UNCHANGED <<settings, budget, log, owed, took, unlogged>>

Late(e) == event[e].fate = "late"

\* Notifications.record, with the context of the delivery: an insert that fails is only
\* logged elsewhere.
Record(e, n, status) ==
    \/ Late(e) /\ UNCHANGED <<log, budget, unlogged>>
    \/ /\ ~Late(e)
       /\ log' = log \cup {[event |-> e, channel |-> n, status |-> status]}
       /\ UNCHANGED <<budget, unlogged>>
    \/ ~Late(e) /\ SpendFault /\ unlogged' = unlogged \cup {<<e, n>>} /\ UNCHANGED log

\* Mutant of Build: a channel that cannot be built is passed over.
BuildQuietly(e) ==
    /\ event[e].pc = "delivering"
    /\ \E ch \in event[e].todo :
         event' = [event EXCEPT ![e].todo = @ \ {ch},
                                ![e].built = IF ch.config # None /\ Builds(ch.config)
                                             THEN @ \cup {ch.name} ELSE @]
    /\ UNCHANGED <<settings, budget, log, owed, took, unlogged>>

\* Notifications.build for the next channel, with the secrets there are now. Looking one up
\* takes time that is left.
Build(e) ==
    /\ event[e].pc = "delivering"
    /\ \E ch \in event[e].todo :
         IF ch.config # None /\ Builds(ch.config) /\ (Late(e) => ch.config \notin Secrets)
         THEN /\ event' = [event EXCEPT ![e].todo = @ \ {ch}, ![e].built = @ \cup {ch.name}]
              /\ UNCHANGED <<log, budget, unlogged>>
         ELSE /\ event' = [event EXCEPT ![e].todo = @ \ {ch}]
              /\ Record(e, ch.name, "failed")
    /\ UNCHANGED <<settings, owed, took>>

\* Notify of one channel, and the record of it. The channel's server may refuse; and the
\* time of a test may be up when it has accepted.
Deliver(e) ==
    /\ event[e].pc = "delivering" /\ event[e].todo = {}
    /\ \E n \in event[e].built :
         /\ event' = [event EXCEPT ![e].built = @ \ {n}]
         /\ \/ took' = took \cup {<<e, n>>} /\ Record(e, n, "sent")
            \/ UNCHANGED took /\ Record(e, n, "failed")
    /\ UNCHANGED <<settings, owed>>

Over(e) == event[e].pc = "delivering" /\ event[e].todo = {} /\ event[e].built = {}

-----------------------------------------------------------------------------

\* Notifications.Test: one channel, whatever it is subscribed to.
TestChannel(e) ==
    /\ event[e].pc = "none"
    /\ \E i \in Existing :
         /\ Sends(e, Delivering(Call("test", {channel[i].name}), Forms({i})))
         /\ owed' = [owed EXCEPT ![e] = {channel[i].name}]
    /\ UNCHANGED <<settings, budget, log, took, unlogged>>

\* The channels of these names that are still there and still want the event, by the names
\* they have after a change.
StillOwed(names) ==
    NamesOf(channel', {i \in Wanting(channel') : Has(channel[i]) /\ channel[i].name \in names})

\* A channel muted or deleted before the list is read is owed nothing more. One that is
\* renamed is: the copy of the task goes on naming it as it was called.
SettingsChange ==
    /\ Change
    /\ owed' = [e \in Events |-> IF event[e].pc = "loaded" THEN StillOwed(owed[e]) ELSE owed[e]]
    /\ UNCHANGED <<event, log, took, unlogged>>

Next ==
    \/ SettingsChange
    \/ \E e \in Events :
         \/ LoadTask(e) \/ BeginSystem(e) \/ TestChannel(e)
         \/ ListChannels(e) \/ ListChannelsFails(e) \/ TestTimesOut(e)
         \/ Build(e) \/ Deliver(e)

Spec == Init /\ [][Next]_vars

-----------------------------------------------------------------------------

Accounted(e, n) ==
    [event |-> e, channel |-> n, status |-> IF <<e, n>> \in took THEN "sent" ELSE "failed"] \in log

\* Everyone an event is owed to, of these kinds of events, has a true entry in the delivery
\* log by its end, unless the store refused the entry.
EntryForAll(kinds) ==
    \A e \in Events : Over(e) /\ event[e].kind \in kinds =>
        \A n \in owed[e] : Accounted(e, n) \/ <<e, n>> \in unlogged

\* Whatever requests and secrets do meanwhile, an event ends with a true entry in the
\* delivery log for every channel that was to get it when the sender took its copy and
\* until the list was read (Send, SendSystem, Test, record). The exceptions are an entry
\* the store refused; a channel that goes by a name the sender's copy does not have; an
\* event of the instance whose list could not be read; and a test whose time is up.
WantedIsAccounted ==
    \A e \in Events : Over(e) =>
        \A n \in owed[e] :
          \/ Accounted(e, n) \/ <<e, n>> \in unlogged
          \/ n \notin event[e].names
          \/ event[e].kind = "system" /\ event[e].fate = "unlisted"
          \/ Late(e)

-----------------------------------------------------------------------------
(* What the sources say, and the code does not do: the exceptions above *)

\* A rename does not leave a task's notices to nobody, as is said of its cascade. The copy
\* a sender holds is not renamed (store/sqlite/notifier.go:80-82).
RenamedIsTold == EntryForAll({"task"})

\* A read that fails does not make an event disappear, as is said where the channels of a
\* task are read. The event of the instance has no entry then (core/notify.go:200-203).
SystemEventLeavesTrace == EntryForAll({"system"})

\* A test leaves a trace, as is said of it. What ends a test that takes too long ends its
\* record as well (core/notify.go:237-243).
TestLeavesTrace == EntryForAll({"test"})
=============================================================================
