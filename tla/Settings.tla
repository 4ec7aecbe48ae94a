------------------------------- MODULE Settings -------------------------------
(***************************************************************************)
(* What an operator configures: secrets, connections, storages, channels   *)
(* and tasks, and the requests of the HTTP API that change them.  A request *)
(* is a few store calls, and nothing holds what one read until it writes:   *)
(* only the foreign keys, the unique names and the transaction of a rename  *)
(* are the database's.                                                     *)
(*                                                                         *)
(* Rows keep the fields that refer to another row.  strayed and blind are   *)
(* not in the code: they tell how a row came to be what it is.             *)
(***************************************************************************)
EXTENDS Integers, FiniteSets

CONSTANTS
    Secrets,                \* names of secrets
    Connections, Storages,  \* row ids
    Tasks,                  \* row ids
    Names,                  \* names of channels
    MaxChannel,             \* bound: the largest row id of a channel
    Clients,                \* API requests in flight
    None,
    MaxRequests,            \* bound: requests made
    MaxFaults               \* bound: store calls that fail

VARIABLES
    secrets,    \* table secret
    target,     \* tables connection and storage: the config, None without a row
    channel,    \* table notifier, None without a row
    task,       \* table task, None without a row
    request,    \* request[c]: what a request has read and is about to write
    strayed,    \* <<task, name>>: a channel lost to a write that was overtaken
    blind,      \* rows a mask got into with no stored config to restore it from
    budget      \* what is left of the bounds

rows == <<secrets, target, channel, task>>
settings == <<rows, request, strayed, blind>>

Targets == Connections \cup Storages
ChannelIds == 1..MaxChannel

\* A plugin config: nothing secret in it, a credential in plain text, the mask a listing
\* shows for one, or the name of a secret under a <key>_ref.
Configs == {"plain", "inline", "masked"} \cup Secrets

\* wants: enabled, and subscribed to the kind of event the model sends.
Channel == [name : Names, config : Configs, wants : BOOLEAN]
Task == [connection : Connections, storage : Storages, names : SUBSET Names]

\* Rows of two tables are told apart, and so are a reference to a secret and a value; and
\* none is mistaken for the absence of one.
ASSUME SettingsAssumption ==
    /\ Connections \cap Storages = {} /\ Targets \cap ChannelIds = {}
    /\ {"plain", "inline", "masked"} \cap Secrets = {}
    /\ None \notin Configs \cup Channel \cup Task
    /\ {MaxChannel, MaxRequests, MaxFaults} \subseteq Nat

Idle == [pc |-> "idle"]
Away == [pc |-> "away"]    \* a client that asks for nothing

SettingsTypeOK ==
    /\ secrets \subseteq Secrets
    /\ target \in [Targets -> Configs \cup {None}]
    /\ channel \in [ChannelIds -> Channel \cup {None}]
    /\ task \in [Tasks -> Task \cup {None}]
    /\ \A c \in Clients :
         request[c].pc \in {"idle", "away", "secret unused", "target read", "task checked",
                            "task named", "channel read", "channel built",
                            "to delete", "channel unused"}
    /\ strayed \subseteq Tasks \X Names /\ blind \subseteq Targets \cup ChannelIds
    /\ budget \in [requests : 0..MaxRequests, faults : 0..MaxFaults]

Has(x) == x # None
Existing == {i \in ChannelIds : Has(channel[i])}
ChannelNames == {channel[i].name : i \in Existing}

\* NotifierUsers: the tasks whose list contains the name.
Users(n) == {t \in Tasks : Has(task[t]) /\ n \in task[t].names}

\* SecretResolver.Resolve, then the plugin's constructor: a reference must lead to a secret.
Builds(config) == config \in Secrets => config \in secrets

\* Mutant of Unmask: a mask with nothing behind it is kept.
UnmaskKeeps(config, stored) ==
    IF config = "masked" /\ stored = "inline" THEN stored ELSE config

\* unmaskSecrets: a mask is replaced by what was stored in its place, or dropped.
Unmask(config, stored) ==
    IF config # "masked" THEN config
    ELSE IF stored \in Secrets THEN "plain" ELSE stored

Spend == budget.requests > 0 /\ budget' = [budget EXCEPT !.requests = @ - 1]
SpendFault == budget.faults > 0 /\ budget' = [budget EXCEPT !.faults = @ - 1]
Ask(c, r) == Spend /\ request[c] = Idle /\ request' = [request EXCEPT ![c] = r]
Goes(c, r) == request' = [request EXCEPT ![c] = r] /\ UNCHANGED budget
At(c, pc) == request[c].pc = pc

\* The names a task lists and no channel has.
Dangling(tasks, channels) ==
    {p \in Tasks \X Names :
        /\ Has(tasks[p[1]]) /\ p[2] \in tasks[p[1]].names
        /\ \A i \in ChannelIds : Has(channels[i]) => channels[i].name # p[2]}

\* The rows become these, and pairs are those that a check made earlier passed.
Becomes(tasks, channels, pairs) ==
    /\ task' = tasks /\ channel' = channels
    /\ strayed' = (strayed \cup pairs) \cap Dangling(tasks, channels)

-----------------------------------------------------------------------------
(* Secrets *)

\* createSecret seals the value and upserts it by name.
PutSecret ==
    /\ Spend
    /\ \E k \in Secrets \ secrets : secrets' = secrets \cup {k}
    /\ UNCHANGED <<target, channel, task, request, strayed, blind>>

\* SecretRefs, the three listings taken together: the task has no part in it.
SecretRefs(k) ==
    {x \in Targets : target[x] = k} \cup {i \in Existing : channel[i].config = k}

LookForRefs(c) ==
    /\ \E k \in secrets :
         /\ SecretRefs(k) = {}
         /\ Ask(c, [pc |-> "secret unused", id |-> k])
    /\ UNCHANGED <<rows, strayed, blind>>

DeleteSecret(c) ==
    /\ At(c, "secret unused")
    /\ secrets' = secrets \ {request[c].id}
    /\ Goes(c, Idle)
    /\ UNCHANGED <<target, channel, task, strayed, blind>>

-----------------------------------------------------------------------------
(* Connections and storages: two tables under the same rules *)

\* What a write without a stored config to restore from does to the row.
Blinded(id, config) == IF config = "masked" THEN blind \cup {id} ELSE blind

\* createConnection and createStorage: the config as it was sent.
CreateTarget ==
    /\ Spend
    /\ \E x \in Targets, config \in Configs :
         /\ ~Has(target[x])
         /\ target' = [target EXCEPT ![x] = config]
         /\ blind' = Blinded(x, config)
    /\ UNCHANGED <<secrets, channel, task, request, strayed>>

\* updateConnection and updateStorage restore the masked credentials from the row. A
\* read that fails is passed over.
ReadTarget(c) ==
    /\ \E x \in Targets, config \in Configs :
         Ask(c, [pc |-> "target read", id |-> x, read |-> Has(target[x]),
                 next |-> IF Has(target[x]) THEN Unmask(config, target[x]) ELSE config])
    /\ UNCHANGED <<rows, strayed, blind>>

ReadTargetFails(c) ==
    /\ budget.faults > 0 /\ budget.requests > 0 /\ request[c] = Idle
    /\ budget' = [requests |-> budget.requests - 1, faults |-> budget.faults - 1]
    /\ \E x \in Targets, config \in Configs :
         request' = [request EXCEPT ![c] = [pc |-> "target read", id |-> x, read |-> FALSE,
                                            next |-> config]]
    /\ UNCHANGED <<rows, strayed, blind>>

UpdateTarget(c) ==
    /\ At(c, "target read")
    /\ LET x == request[c].id IN
       IF Has(target[x])
       THEN /\ target' = [target EXCEPT ![x] = request[c].next]
            /\ blind' = IF request[c].read THEN blind ELSE Blinded(x, request[c].next)
       ELSE UNCHANGED <<target, blind>>
    /\ Goes(c, Idle)
    /\ UNCHANGED <<secrets, channel, task, strayed>>

Referenced == UNION {{task[t].connection, task[t].storage} : t \in {u \in Tasks : Has(task[u])}}

\* Mutant of DeleteTarget: without the foreign keys' ON DELETE RESTRICT.
DeleteTargetUnguarded ==
    /\ Spend
    /\ \E x \in Targets : Has(target[x]) /\ target' = [target EXCEPT ![x] = None]
    /\ UNCHANGED <<secrets, channel, task, request, strayed, blind>>

\* deleteGuarded: one statement, which the foreign keys refuse while a task needs the row.
DeleteTarget ==
    /\ Spend
    /\ \E x \in Targets \ Referenced :
         /\ Has(target[x])
         /\ target' = [target EXCEPT ![x] = None]
    /\ UNCHANGED <<secrets, channel, task, request, strayed, blind>>

-----------------------------------------------------------------------------
(* Tasks *)

\* taskFromReq up to the plugins: the row to be changed, the connection and the storage
\* exist. Without a row it is createTask.
CheckTask(c) ==
    /\ \E t \in Tasks, next \in Task :
         /\ Has(target[next.connection]) /\ Has(target[next.storage])
         /\ Ask(c, [pc |-> "task checked", id |-> t, next |-> next, new |-> ~Has(task[t])])
    /\ UNCHANGED <<rows, strayed, blind>>

\* The rest of taskFromReq: every channel named is in the list.
CheckNames(c) ==
    /\ At(c, "task checked")
    /\ LET r == request[c] IN
       Goes(c, IF r.next.names \subseteq ChannelNames
               THEN [pc |-> "task named", id |-> r.id, next |-> r.next, new |-> r.new,
                     known |-> ChannelNames]
               ELSE Idle)
    /\ UNCHANGED <<rows, strayed, blind>>

\* CreateTask and UpdateTask: one statement under the foreign keys.
WriteTask(c) ==
    /\ At(c, "task named")
    /\ LET t == request[c].id  next == request[c].next IN
       IF /\ request[c].new # Has(task[t])
          /\ Has(target[next.connection]) /\ Has(target[next.storage])
       THEN Becomes([task EXCEPT ![t] = next], channel, {t} \X request[c].known)
       ELSE UNCHANGED <<task, channel, strayed>>
    /\ Goes(c, Idle)
    /\ UNCHANGED <<secrets, target, blind>>

\* A deletion between the runs of the task; RunQueue has it beside them.
DeleteTask ==
    /\ Spend
    /\ \E t \in Tasks : Has(task[t]) /\ Becomes([task EXCEPT ![t] = None], channel, {})
    /\ UNCHANGED <<secrets, target, request, blind>>

-----------------------------------------------------------------------------
(* Channels *)

\* createNotifier: the config as it was sent; notifierBuilds has built the channel before
\* the row is inserted.
BuildNew(c) ==
    /\ \E next \in Channel :
         Builds(next.config) /\ Ask(c, [pc |-> "channel built", id |-> 0, next |-> next])
    /\ UNCHANGED <<rows, strayed, blind>>

\* updateNotifier reads the row. The body names the channel and may leave out the config
\* and what the channel wants. An operator only changes what it wants.
Patches == [name : Names, config : Configs \cup {"kept"}, wants : {{}, {TRUE}, {FALSE}}]

Merge(patch, current) ==
    [name |-> patch.name,
     config |-> IF patch.config = "kept" THEN current.config
               ELSE Unmask(patch.config, current.config),
     wants |-> IF patch.wants = {} THEN current.wants ELSE TRUE \in patch.wants]

PatchAllowed(next, current, admin) ==
    admin \/ (next.name = current.name /\ next.config = current.config)

ReadChannel(c) ==
    /\ \E i \in Existing, patch \in Patches, admin \in BOOLEAN :
         LET next == Merge(patch, channel[i]) IN
         /\ PatchAllowed(next, channel[i], admin)
         /\ Ask(c, [pc |-> "channel read", id |-> i, next |-> next])
    /\ UNCHANGED <<rows, strayed, blind>>

BuildChanged(c) ==
    /\ At(c, "channel read")
    /\ Goes(c, IF Builds(request[c].next.config)
               THEN [request[c] EXCEPT !.pc = "channel built"] ELSE Idle)
    /\ UNCHANGED <<rows, strayed, blind>>

Taken(n, i) == \E j \in Existing \ {i} : channel[j].name = n

\* The rowid after the largest, within the bound.
NewIds == {i \in ChannelIds : (\A j \in Existing : j < i) /\ (i = 1 \/ i - 1 \in Existing)}

\* CreateNotifier: a new row; UNIQUE refuses a name in use.
InsertChannel(c) ==
    /\ At(c, "channel built") /\ request[c].id = 0
    /\ IF NewIds # {} /\ ~Taken(request[c].next.name, 0)
       THEN \E i \in NewIds :
              /\ Becomes(task, [channel EXCEPT ![i] = request[c].next], {})
              /\ blind' = Blinded(i, request[c].next.config)
       ELSE UNCHANGED <<channel, task, strayed, blind>>
    /\ Goes(c, Idle)
    /\ UNCHANGED <<secrets, target>>

\* The cascade of a rename into the lists of the tasks.
Renamed(old, new) ==
    [t \in Tasks |->
        IF Has(task[t]) /\ old \in task[t].names
        THEN [task[t] EXCEPT !.names = (@ \ {old}) \cup {new}] ELSE task[t]]

\* Mutant of UpdateChannel: the cascade is left out.
UpdateChannelAlone(c) ==
    /\ At(c, "channel built") /\ request[c].id # 0
    /\ LET i == request[c].id  next == request[c].next IN
       IF Has(channel[i]) /\ ~Taken(next.name, i)
       THEN Becomes(task, [channel EXCEPT ![i] = next], {})
       ELSE UNCHANGED <<channel, task, strayed>>
    /\ Goes(c, Idle)
    /\ UNCHANGED <<secrets, target, blind>>

\* UpdateNotifier: the row as it is now, its new fields and the cascade in a transaction.
UpdateChannel(c) ==
    /\ At(c, "channel built") /\ request[c].id # 0
    /\ LET i == request[c].id  next == request[c].next IN
       IF Has(channel[i]) /\ ~Taken(next.name, i)
       THEN Becomes(Renamed(channel[i].name, next.name), [channel EXCEPT ![i] = next], {})
       ELSE UNCHANGED <<channel, task, strayed>>
    /\ Goes(c, Idle)
    /\ UNCHANGED <<secrets, target, blind>>

\* DeleteNotifier: the name of the row, the tasks that list that name, the delete.
ReadToDelete(c) ==
    /\ \E i \in Existing : Ask(c, [pc |-> "to delete", id |-> i, name |-> channel[i].name])
    /\ UNCHANGED <<rows, strayed, blind>>

LookForUsers(c) ==
    /\ At(c, "to delete")
    /\ LET users == Users(request[c].name) IN
       Goes(c, IF users = {} THEN [pc |-> "channel unused", id |-> request[c].id, users |-> users]
               ELSE Idle)
    /\ UNCHANGED <<rows, strayed, blind>>

DeleteChannel(c) ==
    /\ At(c, "channel unused")
    /\ LET i == request[c].id IN
       IF Has(channel[i])
       THEN Becomes(task, [channel EXCEPT ![i] = None],
                    (Tasks \ request[c].users) \X {channel[i].name})
       ELSE UNCHANGED <<channel, task, strayed>>
    /\ Goes(c, Idle)
    /\ UNCHANGED <<secrets, target, blind>>

-----------------------------------------------------------------------------

\* An instance set up: a task, its connection and storage, and the channels it names; and
\* who is to change it, with how many requests.
SettingsInit(clients, requests) ==
    /\ secrets = Secrets
    /\ \E t \in Tasks, x \in Connections, y \in Storages, names \in [1..2 -> Names],
          known \in ChannelIds \cap 1..2 :
         /\ names[1] # names[2]
         /\ target = [z \in Targets |-> IF z \in {x, y} THEN "inline" ELSE None]
         /\ \E config \in {"inline"} \cup Secrets :
              channel = [i \in ChannelIds |->
                 IF i <= known THEN [name |-> names[i], config |-> config, wants |-> TRUE] ELSE None]
         /\ task = [u \in Tasks |->
                IF u = t THEN [connection |-> x, storage |-> y, names |-> {names[i] : i \in 1..known}]
                ELSE None]
    /\ request = [c \in Clients |-> IF c \in clients THEN Idle ELSE Away]
    /\ strayed = {} /\ blind = {}
    /\ budget = [requests |-> requests, faults |-> MaxFaults]

\* One step of a request, or a request of a single statement.
Change ==
    \/ PutSecret \/ CreateTarget \/ DeleteTarget \/ DeleteTask
    \/ \E c \in Clients :
         \/ LookForRefs(c) \/ DeleteSecret(c)
         \/ ReadTarget(c) \/ ReadTargetFails(c) \/ UpdateTarget(c)
         \/ CheckTask(c) \/ CheckNames(c) \/ WriteTask(c)
         \/ BuildNew(c) \/ ReadChannel(c) \/ BuildChanged(c)
         \/ InsertChannel(c) \/ UpdateChannel(c)
         \/ ReadToDelete(c) \/ LookForUsers(c) \/ DeleteChannel(c)

-----------------------------------------------------------------------------

\* A task only ever loses a channel to two requests that overlap: a task edit whose list
\* of channels is no longer true, or a deletion whose look for users is.  A rename takes
\* the tasks with it (UpdateNotifier), whatever the request that renames had read.
NoTaskLeftBehind == Dangling(task, channel) \subseteq strayed

\* A task's connection and storage exist, although taskFromReq has looked long before
\* the row is written. And a mask for a credential gets into a row in two ways only: it
\* was sent when the row was created, or the row it was to be restored from could not be
\* read; edits that overlap each other, and rows deleted and made again under them, do
\* not spread it (unmaskSecrets, notifierFromReq).
RowsAreUsable ==
    /\ \A t \in Tasks : Has(task[t]) => Has(target[task[t].connection]) /\ Has(target[task[t].storage])
    /\ \A x \in Targets : target[x] = "masked" => x \in blind
    /\ \A i \in Existing : channel[i].config = "masked" => i \in blind

-----------------------------------------------------------------------------
(* What the sources say, and the code does not do *)

\* A mask with nothing behind it is dropped rather than kept, as is said of an edit. A
\* row is created with the mask it was sent (config_mask.go:120-123).
NoMaskIsStored ==
    /\ \A x \in Targets : target[x] # "masked"
    /\ \A i \in Existing : channel[i].config # "masked"

\* An edit does not put the mask over a credential, which is what the row is read for. A
\* read that fails is passed over (handlers_write.go:106-110).
CredentialSurvivesEdit ==
    [][\A x \in Targets : target[x] = "inline" => target'[x] # "masked"]_rows

=============================================================================
