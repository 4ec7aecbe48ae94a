-------------------------- MODULE Notifications_proofs --------------------------
(***************************************************************************)
(* What holds of the settings and of the delivery beside them, whatever     *)
(* requests overlap: rows that refer to each other stay usable, a task       *)
(* loses a channel only to two requests that overtake each other, and       *)
(* whoever was to get an event has a true entry in the delivery log.        *)
(***************************************************************************)
EXTENDS Notifications, TLAPS

-----------------------------------------------------------------------------
(* The invariant *)

Requests ==
    {Idle, Away}
    \cup [pc : {"secret unused"}, id : Secrets]
    \cup [pc : {"target read"}, id : Targets, read : BOOLEAN, next : Configs]
    \cup [pc : {"task checked"}, id : Tasks, next : Task, new : BOOLEAN]
    \cup [pc : {"task named"}, id : Tasks, next : Task, new : BOOLEAN, known : SUBSET Names]
    \cup [pc : {"channel read", "channel built"}, id : 0..MaxChannel, next : Channel]
    \cup [pc : {"to delete"}, id : ChannelIds, name : Names]
    \cup [pc : {"channel unused"}, id : ChannelIds, users : SUBSET Tasks]

RowsTyped ==
    /\ secrets \subseteq Secrets
    /\ target \in [Targets -> Configs \cup {None}]
    /\ channel \in [ChannelIds -> Channel \cup {None}]
    /\ task \in [Tasks -> Task \cup {None}]
    /\ strayed \subseteq Tasks \X Names
    /\ blind \subseteq Targets \cup ChannelIds

\* What a request has checked, as it carries it to the write: the channels of a task were
\* all there, nobody used the channel to be deleted; and a mask is about to be written
\* over a row only where the row was not read, or has one.
Checked(r, unread) ==
    /\ r.pc = "task named" => r.next.names \subseteq r.known
    /\ r.pc = "target read" => (r.read /\ r.next = "masked" => r.id \in unread)
    /\ r.pc \in {"channel read", "channel built"} =>
         (r.id # 0 /\ r.next.config = "masked" => r.id \in unread)
    /\ r.pc = "channel unused" => r.users = {}

RequestsTyped ==
    /\ request \in [Clients -> Requests]
    /\ \A c \in Clients : Checked(request[c], blind)

BudgetTyped == budget \in [requests : 0..MaxRequests, faults : 0..MaxFaults]

SettingsInv == RowsTyped /\ RequestsTyped /\ RowsAreUsable /\ NoTaskLeftBehind

\* Channels with a mask for a config are known to have one.
MasksAreKnown(channels, known) ==
    \A i \in ChannelIds : Has(channels[i]) /\ channels[i].config = "masked" => i \in known

Todos == SUBSET [name : Names, config : Configs \cup {None}]

Deliveries ==
    [pc : {"delivering"}, kind : Kinds, names : SUBSET Names, todo : Todos,
     built : SUBSET Names, fate : {"well", "unlisted", "late"}]

Sendings ==
    [pc : {"none"}]
    \cup [pc : {"loaded"}, kind : {"task", "system"}, names : SUBSET Names, todo : {{}},
          built : {{}}, fate : {"well"}]
    \cup Deliveries

DeliveryTyped ==
    /\ event \in [Events -> Sendings]
    /\ log \subseteq Entry
    /\ owed \in [Events -> SUBSET Names]
    /\ took \subseteq Events \X Names /\ unlogged \subseteq Events \X Names

\* A channel the delivery of e still has before it.
Pending(e, n) == (\E ch \in event[e].todo : ch.name = n) \/ n \in event[e].built

\* Who may go without an entry: a channel by a name the sender does not have, one of an
\* event of the instance whose list could not be read, and one of a test that is late.
Excused(e, n) ==
    \/ n \notin event[e].names
    \/ event[e].kind = "system" /\ event[e].fate = "unlisted"
    \/ Late(e)

\* Where an event is on its way to the entries it is to end with: nothing goes out before
\* the list was read, whoever is owed it wants it, and from then on everyone is before the
\* delivery, has been dealt with, and never both, or is excused.
Promise(e) ==
    /\ event[e].pc # "delivering" => \A n \in Names : <<e, n>> \notin took
    /\ event[e].pc = "loaded" =>
         owed[e] \subseteq NamesOf(channel, Wanting(channel))
    /\ event[e].pc = "delivering" =>
         \A n \in Names :
           /\ Pending(e, n) => <<e, n>> \notin took
           /\ n \in owed[e] =>
                Pending(e, n) \/ Accounted(e, n) \/ <<e, n>> \in unlogged \/ Excused(e, n)

Inv ==
    /\ SettingsInv /\ BudgetTyped
    /\ DeliveryTyped /\ \A e \in Events : Promise(e)

-----------------------------------------------------------------------------
(* Lemmas about rows and requests *)

\* A row is told from no row.
LEMMA RowsAreRows ==
    /\ None \notin Configs
    /\ None \notin Channel
    /\ None \notin Task
BY SettingsAssumption

\* A value is told from a reference to a secret.
LEMMA ValuesAreNoSecrets ==
    ASSUME NEW k \in Secrets
    PROVE  k # "plain" /\ k # "inline" /\ k # "masked"
BY SettingsAssumption

\* What usable rows say of the channels.
LEMMA UsableChannels ==
    RowsAreUsable =>
      /\ MasksAreKnown(channel, blind)
      /\ \A x \in Targets : target[x] = "masked" => x \in blind
      /\ \A t \in Tasks : Has(task[t]) =>
            Has(target[task[t].connection]) /\ Has(target[task[t].storage])
BY DEF RowsAreUsable, MasksAreKnown, Existing

\* And how they come to be usable.
LEMMA ChannelsUsable ==
    ASSUME MasksAreKnown(channel, blind),
           \A x \in Targets : target[x] = "masked" => x \in blind,
           \A t \in Tasks : Has(task[t]) =>
              Has(target[task[t].connection]) /\ Has(target[task[t].storage])
    PROVE  RowsAreUsable
BY DEF RowsAreUsable, MasksAreKnown, Existing

\* Rows that had a mask written into them are rows.
LEMMA BlindedRows ==
    ASSUME RowsTyped, NEW id \in Targets \cup ChannelIds, NEW config
    PROVE  /\ blind \subseteq Blinded(id, config)
           /\ Blinded(id, config) \subseteq Targets \cup ChannelIds
           /\ config = "masked" => id \in Blinded(id, config)
BY DEF RowsTyped, Blinded

\* What is dangling, pair by pair.
LEMMA DanglingPairs ==
    ASSUME NEW tasks, NEW channels, NEW t, NEW n
    PROVE  <<t, n>> \in Dangling(tasks, channels) <=>
              /\ t \in Tasks /\ n \in Names
              /\ Has(tasks[t]) /\ n \in tasks[t].names
              /\ \A i \in ChannelIds : Has(channels[i]) => channels[i].name # n
BY DEF Dangling

\* Everything dangling is a pair of a task and a name.
LEMMA DanglingIsPairs ==
    ASSUME NEW tasks, NEW channels
    PROVE  Dangling(tasks, channels) \subseteq Tasks \X Names
BY DEF Dangling

\* Where a request stands tells which of the sets it is from.
LEMMA RequestSets ==
    ASSUME NEW r \in Requests, r.pc = "channel read"
    PROVE  r \in [pc : {"channel read", "channel built"}, id : 0..MaxChannel, next : Channel]
<1>1. r # Idle
    <2>1. Idle.pc = "idle"
        BY DEF Idle
    <2> QED
        BY <2>1
<1>2. r \notin [pc : {"secret unused"}, id : Secrets]
    OBVIOUS
<1>3. r \notin [pc : {"target read"}, id : Targets, read : BOOLEAN, next : Configs]
    OBVIOUS
<1>4. r \notin [pc : {"task checked"}, id : Tasks, next : Task, new : BOOLEAN]
    OBVIOUS
<1>5. r \notin [pc : {"task named"}, id : Tasks, next : Task, new : BOOLEAN,
                known : SUBSET Names]
    OBVIOUS
<1>6. r \notin [pc : {"to delete"}, id : ChannelIds, name : Names]
    OBVIOUS
<1>7. r \notin [pc : {"channel unused"}, id : ChannelIds, users : SUBSET Tasks]
    OBVIOUS
<1>8. r # Away
    <2>1. Away.pc = "away"
        BY DEF Away
    <2> QED
        BY <2>1
<1> QED
    BY <1>1, <1>2, <1>3, <1>4, <1>5, <1>6, <1>7, <1>8 DEF Requests

\* The fields a request has where it stands.
LEMMA RequestFields ==
    ASSUME NEW r \in Requests
    PROVE  /\ r.pc \in {"idle", "away", "secret unused", "target read", "task checked",
                        "task named", "channel read", "channel built",
                        "to delete", "channel unused"}
           /\ r.pc = "secret unused" => r.id \in Secrets
           /\ r.pc = "target read" => r.id \in Targets /\ r.next \in Configs
           /\ r.pc \in {"task checked", "task named"} =>
                r.id \in Tasks /\ r.next \in Task /\ r.new \in BOOLEAN
           /\ r.pc = "task named" => r.known \subseteq Names
           /\ r.pc \in {"channel read", "channel built"} =>
                r.id \in 0..MaxChannel /\ r.next \in Channel
           /\ r.pc = "to delete" => r.id \in ChannelIds /\ r.name \in Names
           /\ r.pc = "channel unused" => r.id \in ChannelIds
<1>1. CASE r = Idle
    BY <1>1 DEF Idle
<1>2. CASE r \in [pc : {"secret unused"}, id : Secrets]
    BY <1>2
<1>3. CASE r \in [pc : {"target read"}, id : Targets, read : BOOLEAN, next : Configs]
    BY <1>3
<1>4. CASE r \in [pc : {"task checked"}, id : Tasks, next : Task, new : BOOLEAN]
    BY <1>4
<1>5. CASE r \in [pc : {"task named"}, id : Tasks, next : Task, new : BOOLEAN,
                  known : SUBSET Names]
    BY <1>5
<1>6. CASE r \in [pc : {"channel read", "channel built"}, id : 0..MaxChannel, next : Channel]
    BY <1>6
<1>7. CASE r \in [pc : {"to delete"}, id : ChannelIds, name : Names]
    BY <1>7
<1>8. CASE r \in [pc : {"channel unused"}, id : ChannelIds, users : SUBSET Tasks]
    BY <1>8
<1>9. CASE r = Away
    BY <1>9 DEF Away
<1> QED
    BY <1>1, <1>2, <1>3, <1>4, <1>5, <1>6, <1>7, <1>8, <1>9 DEF Requests

\* A request goes on: what it carries is what its place says, and was checked.
LEMMA RequestGoes ==
    ASSUME RequestsTyped, NEW c \in Clients, NEW r \in Requests,
           request' = [request EXCEPT ![c] = r], blind \subseteq blind', Checked(r, blind')
    PROVE  RequestsTyped'
<1>1. request' \in [Clients -> Requests]
    BY DEF RequestsTyped
<1>2. ASSUME NEW d \in Clients PROVE Checked(request'[d], blind')
    <2>1. CASE d = c
        BY <2>1 DEF RequestsTyped
    <2>2. CASE d # c
        <3>1. request'[d] = request[d] /\ Checked(request[d], blind)
            BY <2>2 DEF RequestsTyped
        <3> QED
            BY <3>1 DEF Checked
    <2> QED
        BY <2>1, <2>2
<1> QED
    BY <1>1, <1>2 DEF RequestsTyped

\* The requests stay where they are, as more rows are written unread.
LEMMA RequestsStay ==
    ASSUME RequestsTyped, UNCHANGED request, blind \subseteq blind'
    PROVE  RequestsTyped'
BY DEF RequestsTyped, Checked

\* A request that is over carries nothing.
LEMMA IdleIsChecked ==
    ASSUME NEW unread
    PROVE  Idle \in Requests /\ Checked(Idle, unread)
BY DEF Requests, Idle, Checked

\* Nor does a client that asks for nothing.
LEMMA AwayIsChecked ==
    ASSUME NEW unread
    PROVE  Away \in Requests /\ Checked(Away, unread)
BY DEF Requests, Away, Checked

\* A request that ends keeps the requests as they should be.
LEMMA RequestEnds ==
    ASSUME RequestsTyped, NEW c \in Clients, Goes(c, Idle), blind \subseteq blind'
    PROVE  RequestsTyped'
BY RequestGoes, IdleIsChecked DEF Goes

\* Where a request stands and what it carries.
LEMMA RequestAt ==
    ASSUME RequestsTyped, NEW c \in Clients
    PROVE  request[c] \in Requests /\ Checked(request[c], blind)
BY DEF RequestsTyped

\* The rows may become these when everything dangling among them strayed before, or does
\* so under a check that was overtaken.
LEMMA RowsBecome ==
    ASSUME RowsTyped, NEW tasks, NEW channels, NEW pairs, Becomes(tasks, channels, pairs),
           Dangling(tasks, channels) \subseteq strayed \cup pairs
    PROVE  NoTaskLeftBehind' /\ strayed' \subseteq Tasks \X Names
<1>1. Dangling(task', channel') = Dangling(tasks, channels)
    BY DEF Becomes
<1> QED
    BY <1>1, DanglingIsPairs DEF Becomes, NoTaskLeftBehind

\* Rows that stay keep what is said of them.
LEMMA RowsStay ==
    ASSUME RowsTyped, RowsAreUsable, NoTaskLeftBehind, UNCHANGED <<rows, strayed, blind>>
    PROVE  RowsTyped' /\ RowsAreUsable' /\ NoTaskLeftBehind'
<1>1. UNCHANGED <<secrets, target, channel, task>>
    BY DEF rows
<1>2. Dangling(task', channel') = Dangling(task, channel)
    BY <1>1
<1> QED
    BY <1>1, <1>2 DEF RowsTyped, RowsAreUsable, NoTaskLeftBehind, Has, Existing

-----------------------------------------------------------------------------
(* The requests that change the settings, one by one *)

\* A secret stored.
LEMMA PutSecretKeeps ==
    ASSUME SettingsInv, PutSecret
    PROVE  SettingsInv'
<1>1. RequestsTyped'
    BY RequestsStay DEF SettingsInv, PutSecret
<1>2. Dangling(task', channel') = Dangling(task, channel)
    BY DEF PutSecret
<1> QED
    BY <1>1, <1>2 DEF SettingsInv, PutSecret, RowsTyped, RowsAreUsable, NoTaskLeftBehind, Has,
                       Existing

\* The search for the references to a secret.
LEMMA LookForRefsKeeps ==
    ASSUME SettingsInv, NEW c \in Clients, LookForRefs(c)
    PROVE  SettingsInv'
<1>1. PICK k \in secrets : Ask(c, [pc |-> "secret unused", id |-> k])
    BY DEF LookForRefs
<1>2. k \in Secrets
    BY DEF SettingsInv, RowsTyped
<1>3. PICK r : r = [pc |-> "secret unused", id |-> k]
    OBVIOUS
<1>4. r \in Requests /\ Checked(r, blind)
    BY <1>2, <1>3 DEF Requests, Checked
<1>5. RequestsTyped'
    BY <1>1, <1>3, <1>4, RequestGoes DEF Ask, SettingsInv, LookForRefs
<1> QED
    BY <1>5, RowsStay DEF SettingsInv, LookForRefs

\* A secret deleted.
LEMMA DeleteSecretKeeps ==
    ASSUME SettingsInv, NEW c \in Clients, DeleteSecret(c)
    PROVE  SettingsInv'
<1>1. RequestsTyped'
    BY RequestEnds DEF SettingsInv, DeleteSecret
<1>2. Dangling(task', channel') = Dangling(task, channel)
    BY DEF DeleteSecret
<1> QED
    BY <1>1, <1>2 DEF SettingsInv, DeleteSecret, RowsTyped, RowsAreUsable, NoTaskLeftBehind, Has,
                       Existing

\* The table of connections and storages may change when what tasks refer to stays, and
\* a mask is only where no row was read.
LEMMA TargetsChange ==
    ASSUME SettingsInv, NEW next \in [Targets -> Configs \cup {None}], target' = next,
           UNCHANGED <<secrets, channel, task, strayed>>,
           blind \subseteq blind', blind' \subseteq Targets \cup ChannelIds,
           \A x \in Targets : Has(target[x]) /\ x \in Referenced => Has(next[x]),
           \A x \in Targets : next[x] = "masked" => x \in blind'
    PROVE  RowsTyped' /\ RowsAreUsable' /\ NoTaskLeftBehind'
<1>1. Dangling(task', channel') = Dangling(task, channel)
    OBVIOUS
<1>2. RowsTyped'
    BY DEF SettingsInv, RowsTyped
<1>3. ASSUME NEW t \in Tasks, Has(task[t])
      PROVE  Has(target'[task[t].connection]) /\ Has(target'[task[t].storage])
    <2>1. task[t] \in Task
        BY <1>3 DEF SettingsInv, RowsTyped, Has
    <2>2. task[t].connection \in Targets /\ task[t].storage \in Targets
        BY <2>1 DEF Task, Targets
    <2>3. task[t].connection \in Referenced /\ task[t].storage \in Referenced
        BY <1>3 DEF Referenced
    <2>4. Has(target[task[t].connection]) /\ Has(target[task[t].storage])
        BY <1>3 DEF SettingsInv, RowsAreUsable
    <2> QED
        BY <2>2, <2>3, <2>4
<1>4. \A i \in Existing' : channel'[i].config = "masked" => i \in blind'
    BY DEF SettingsInv, RowsAreUsable, Existing
<1>5. RowsAreUsable'
    BY <1>3, <1>4 DEF RowsAreUsable
<1> QED
    BY <1>1, <1>2, <1>5 DEF SettingsInv, NoTaskLeftBehind

\* A connection or storage created.
LEMMA CreateTargetKeeps ==
    ASSUME SettingsInv, CreateTarget
    PROVE  SettingsInv'
<1>1. PICK x \in Targets, config \in Configs :
         /\ ~Has(target[x]) /\ target' = [target EXCEPT ![x] = config]
         /\ blind' = Blinded(x, config)
    BY DEF CreateTarget
<1>2. PICK next : next = [target EXCEPT ![x] = config]
    OBVIOUS
<1>3. next \in [Targets -> Configs \cup {None}]
    BY <1>2 DEF SettingsInv, RowsTyped
<1>4. \A y \in Targets : Has(target[y]) => Has(next[y])
    BY <1>1, <1>2 DEF SettingsInv, RowsTyped
<1>5. /\ blind \subseteq blind' /\ blind' \subseteq Targets \cup ChannelIds
      /\ config = "masked" => x \in blind'
    BY <1>1, BlindedRows DEF SettingsInv
<1>6. \A y \in Targets : next[y] = "masked" => y \in blind'
    BY <1>2, <1>5 DEF SettingsInv, RowsTyped, RowsAreUsable
<1>7. UNCHANGED <<secrets, channel, task, strayed, request>>
    BY DEF CreateTarget
<1>8. RowsTyped' /\ RowsAreUsable' /\ NoTaskLeftBehind'
    BY <1>1, <1>2, <1>3, <1>4, <1>5, <1>6, <1>7, TargetsChange
<1>9. RequestsTyped'
    BY <1>5, <1>7, RequestsStay DEF SettingsInv
<1> QED
    BY <1>8, <1>9 DEF SettingsInv

\* A connection or storage deleted: nothing refers to it.
LEMMA DeleteTargetKeeps ==
    ASSUME SettingsInv, DeleteTarget
    PROVE  SettingsInv'
<1>1. PICK x \in Targets \ Referenced : target' = [target EXCEPT ![x] = None]
    BY DEF DeleteTarget
<1>2. PICK next : next = [target EXCEPT ![x] = None]
    OBVIOUS
<1>3. next \in [Targets -> Configs \cup {None}]
    BY <1>2 DEF SettingsInv, RowsTyped
<1>4. \A y \in Targets : Has(target[y]) /\ y \in Referenced => Has(next[y])
    BY <1>1, <1>2 DEF SettingsInv, RowsTyped
<1>5. \A y \in Targets : next[y] = "masked" => y \in blind
    BY <1>2, RowsAreRows DEF SettingsInv, RowsTyped, RowsAreUsable, Configs
<1>6. /\ UNCHANGED <<secrets, channel, task, strayed, blind, request>>
      /\ blind \subseteq Targets \cup ChannelIds
    BY DEF DeleteTarget, SettingsInv, RowsTyped
<1>7. RowsTyped' /\ RowsAreUsable' /\ NoTaskLeftBehind'
    BY <1>1, <1>2, <1>3, <1>4, <1>5, <1>6, TargetsChange
<1>8. RequestsTyped'
    BY <1>6, RequestsStay DEF SettingsInv
<1> QED
    BY <1>7, <1>8 DEF SettingsInv

\* What replaces a mask is a mask only if that is what was stored.
LEMMA UnmaskGives ==
    ASSUME NEW config \in Configs, NEW stored \in Configs
    PROVE  /\ Unmask(config, stored) \in Configs
           /\ Unmask(config, stored) = "masked" => stored = "masked"
BY DEF Unmask, Configs

\* A row read, and the masks of the body replaced.
LEMMA ReadTargetKeeps ==
    ASSUME SettingsInv, NEW c \in Clients, ReadTarget(c)
    PROVE  SettingsInv'
<1>1. PICK x \in Targets, config \in Configs :
         Ask(c, [pc |-> "target read", id |-> x, read |-> Has(target[x]),
                 next |-> IF Has(target[x]) THEN Unmask(config, target[x]) ELSE config])
    BY DEF ReadTarget
<1>2. PICK read \in BOOLEAN : read = Has(target[x])
    BY DEF Has
<1>3. PICK next : next = IF Has(target[x]) THEN Unmask(config, target[x]) ELSE config
    OBVIOUS
<1>4. next \in Configs /\ (read /\ next = "masked" => x \in blind)
    <2>1. CASE Has(target[x])
        <3>1. target[x] \in Configs
            BY <2>1 DEF SettingsInv, RowsTyped, Has
        <3> QED
            BY <1>3, <2>1, <3>1, UnmaskGives DEF SettingsInv, RowsAreUsable
    <2>2. CASE ~Has(target[x])
        BY <1>2, <1>3, <2>2
    <2> QED
        BY <2>1, <2>2
<1>5. PICK r : r = [pc |-> "target read", id |-> x, read |-> read, next |-> next]
    OBVIOUS
<1>6. r \in Requests /\ Checked(r, blind)
    BY <1>4, <1>5 DEF Requests, Checked
<1>7. request' = [request EXCEPT ![c] = r]
    BY <1>1, <1>2, <1>3, <1>5 DEF Ask
<1>8. RequestsTyped'
    BY <1>6, <1>7, RequestGoes DEF SettingsInv, ReadTarget
<1> QED
    BY <1>8, RowsStay DEF SettingsInv, ReadTarget

\* The read failed, and is passed over.
LEMMA ReadTargetFailsKeeps ==
    ASSUME SettingsInv, NEW c \in Clients, ReadTargetFails(c)
    PROVE  SettingsInv'
<1>1. PICK x \in Targets, config \in Configs :
         request' = [request EXCEPT ![c] = [pc |-> "target read", id |-> x, read |-> FALSE,
                                            next |-> config]]
    BY DEF ReadTargetFails
<1>2. PICK r : r = [pc |-> "target read", id |-> x, read |-> FALSE, next |-> config]
    OBVIOUS
<1>3. r \in Requests /\ Checked(r, blind)
    BY <1>2 DEF Requests, Checked
<1>4. RequestsTyped'
    BY <1>1, <1>2, <1>3, RequestGoes DEF SettingsInv, ReadTargetFails
<1> QED
    BY <1>4, RowsStay DEF SettingsInv, ReadTargetFails

\* The row written back.
LEMMA UpdateTargetKeeps ==
    ASSUME SettingsInv, NEW c \in Clients, UpdateTarget(c)
    PROVE  SettingsInv'
<1>1. PICK r \in Requests : r = request[c] /\ Checked(r, blind)
    BY RequestAt DEF SettingsInv
<1>2. PICK x \in Targets : x = r.id /\ r.next \in Configs /\ r.pc = "target read"
    BY <1>1, RequestFields DEF UpdateTarget, At
<1>3. CASE Has(target[x])
    <2>1. PICK next : next = [target EXCEPT ![x] = r.next]
        OBVIOUS
    <2>2. target' = next /\ blind' = (IF r.read THEN blind ELSE Blinded(x, r.next))
        BY <1>1, <1>2, <1>3, <2>1 DEF UpdateTarget
    <2>3. next \in [Targets -> Configs \cup {None}]
        BY <1>2, <2>1 DEF SettingsInv, RowsTyped
    <2>4. \A y \in Targets : Has(target[y]) => Has(next[y])
        BY <1>2, <2>1, RowsAreRows DEF SettingsInv, RowsTyped, Has
    <2>5. /\ blind \subseteq blind' /\ blind' \subseteq Targets \cup ChannelIds
          /\ ~r.read /\ r.next = "masked" => x \in blind'
        BY <2>2, BlindedRows DEF SettingsInv, RowsTyped
    <2>6. ASSUME NEW y \in Targets, next[y] = "masked" PROVE y \in blind'
        <3>1. CASE y = x
            <4>1. r.next = "masked"
                BY <2>1, <2>6, <3>1 DEF SettingsInv, RowsTyped
            <4> QED
                BY <1>1, <1>2, <2>5, <3>1, <4>1 DEF Checked
        <3>2. CASE y # x
            <4>1. target[y] = "masked"
                BY <2>1, <2>6, <3>2 DEF SettingsInv, RowsTyped
            <4> QED
                BY <2>5, <4>1 DEF SettingsInv, RowsAreUsable
        <3> QED
            BY <3>1, <3>2
    <2>7. UNCHANGED <<secrets, channel, task, strayed>> /\ Goes(c, Idle)
        BY DEF UpdateTarget
    <2>8. RowsTyped' /\ RowsAreUsable' /\ NoTaskLeftBehind'
        BY <2>2, <2>3, <2>4, <2>5, <2>6, <2>7, TargetsChange
    <2>9. RequestsTyped'
        BY <2>5, <2>7, RequestEnds DEF SettingsInv
    <2> QED
        BY <2>8, <2>9 DEF SettingsInv
<1>4. CASE ~Has(target[x])
    <2>1. UNCHANGED <<rows, strayed, blind>> /\ Goes(c, Idle)
        BY <1>1, <1>2, <1>4 DEF UpdateTarget, rows
    <2>2. RequestsTyped'
        BY <2>1, RequestEnds DEF SettingsInv
    <2> QED
        BY <2>1, <2>2, RowsStay DEF SettingsInv
<1> QED
    BY <1>3, <1>4

\* The body of a task checked against connections and storages.
LEMMA CheckTaskKeeps ==
    ASSUME SettingsInv, NEW c \in Clients, CheckTask(c)
    PROVE  SettingsInv'
<1>1. PICK t \in Tasks, next \in Task :
         Ask(c, [pc |-> "task checked", id |-> t, next |-> next, new |-> ~Has(task[t])])
    BY DEF CheckTask
<1>2. PICK new \in BOOLEAN : new = ~Has(task[t])
    BY DEF Has
<1>3. PICK r : r = [pc |-> "task checked", id |-> t, next |-> next, new |-> new]
    OBVIOUS
<1>4. r \in Requests /\ Checked(r, blind)
    BY <1>3 DEF Requests, Checked
<1>5. RequestsTyped'
    BY <1>1, <1>2, <1>3, <1>4, RequestGoes DEF Ask, SettingsInv, CheckTask
<1> QED
    BY <1>5, RowsStay DEF SettingsInv, CheckTask

\* The names there are are names.
LEMMA ChannelNamesAreNames ==
    ASSUME RowsTyped
    PROVE  ChannelNames \subseteq Names
BY DEF RowsTyped, ChannelNames, Existing, Has, Channel

\* Its channels checked against the list.
LEMMA CheckNamesKeeps ==
    ASSUME SettingsInv, NEW c \in Clients, CheckNames(c)
    PROVE  SettingsInv'
<1>1. PICK r \in Requests : r = request[c] /\ Checked(r, blind)
    BY RequestAt DEF SettingsInv
<1>2. r.pc = "task checked" /\ r.id \in Tasks /\ r.next \in Task /\ r.new \in BOOLEAN
    BY <1>1, RequestFields DEF CheckNames, At
<1>3. PICK known \in SUBSET Names : known = ChannelNames
    BY ChannelNamesAreNames DEF SettingsInv
<1>4. PICK s : s = [pc |-> "task named", id |-> r.id, next |-> r.next, new |-> r.new,
                    known |-> known]
    OBVIOUS
<1>5. CASE r.next.names \subseteq known
    <2>1. s \in Requests
        BY <1>2, <1>4 DEF Requests
    <2>2. Checked(s, blind)
        BY <1>4, <1>5 DEF Checked
    <2>3. request' = [request EXCEPT ![c] = s]
        BY <1>1, <1>3, <1>4, <1>5 DEF CheckNames, Goes
    <2>4. RequestsTyped'
        BY <2>1, <2>2, <2>3, RequestGoes DEF SettingsInv, CheckNames
    <2> QED
        BY <2>4, RowsStay DEF SettingsInv, CheckNames
<1>6. CASE ~(r.next.names \subseteq known)
    <2>1. Goes(c, Idle)
        BY <1>1, <1>3, <1>6 DEF CheckNames, Goes
    <2>2. RequestsTyped'
        BY <2>1, RequestEnds DEF SettingsInv, CheckNames
    <2> QED
        BY <2>2, RowsStay DEF SettingsInv, CheckNames
<1> QED
    BY <1>5, <1>6

\* Tasks and channels may become these when the tasks refer to connections and storages
\* there are, and what dangles strayed.
LEMMA TasksChange ==
    ASSUME SettingsInv, NEW tasks \in [Tasks -> Task \cup {None}],
           NEW channels \in [ChannelIds -> Channel \cup {None}],
           NEW pairs, Becomes(tasks, channels, pairs), UNCHANGED <<secrets, target>>,
           blind \subseteq blind', blind' \subseteq Targets \cup ChannelIds,
           MasksAreKnown(channels, blind'),
           Dangling(tasks, channels) \subseteq strayed \cup pairs,
           \A t \in Tasks : Has(tasks[t]) =>
              Has(target[tasks[t].connection]) /\ Has(target[tasks[t].storage])
    PROVE  RowsTyped' /\ RowsAreUsable' /\ NoTaskLeftBehind'
<1>1. task' = tasks /\ channel' = channels
    BY DEF Becomes
<1>2. NoTaskLeftBehind' /\ strayed' \subseteq Tasks \X Names
    BY RowsBecome DEF SettingsInv
<1>3. RowsTyped'
    BY <1>1, <1>2 DEF SettingsInv, RowsTyped
<1>4. \A t \in Tasks : Has(task'[t]) =>
         Has(target'[task'[t].connection]) /\ Has(target'[task'[t].storage])
    BY <1>1
<1>5. \A x \in Targets : target'[x] = "masked" => x \in blind'
    BY DEF SettingsInv, RowsAreUsable
<1>6. \A i \in Existing' : channel'[i].config = "masked" => i \in blind'
    BY <1>1 DEF MasksAreKnown, Existing
<1>7. RowsAreUsable'
    BY <1>4, <1>5, <1>6 DEF RowsAreUsable, Has
<1> QED
    BY <1>2, <1>3, <1>7

\* Masks stay known when the channels do.
LEMMA MasksStay ==
    ASSUME SettingsInv, UNCHANGED blind
    PROVE  /\ MasksAreKnown(channel, blind')
           /\ blind \subseteq blind' /\ blind' \subseteq Targets \cup ChannelIds
BY UsableChannels DEF SettingsInv, RowsTyped

\* A task written: under the foreign keys, with channels that were there when looked for.
LEMMA WriteTaskKeeps ==
    ASSUME SettingsInv, NEW c \in Clients, WriteTask(c)
    PROVE  SettingsInv'
<1>1. PICK r \in Requests : r = request[c] /\ Checked(r, blind)
    BY RequestAt DEF SettingsInv
<1>2. PICK t \in Tasks, next \in Task : t = r.id /\ next = r.next /\ r.pc = "task named"
    BY <1>1, RequestFields DEF WriteTask, At
<1>3. next.names \subseteq r.known
    BY <1>1, <1>2 DEF Checked
<1>4. UNCHANGED <<secrets, target, blind>> /\ Goes(c, Idle)
    BY DEF WriteTask
<1>5. RequestsTyped'
    BY <1>4, RequestEnds DEF SettingsInv
<1>6. CASE /\ r.new # Has(task[t])
           /\ Has(target[next.connection]) /\ Has(target[next.storage])
    <2>1. PICK tasks : tasks = [task EXCEPT ![t] = next]
        OBVIOUS
    <2>2. tasks \in [Tasks -> Task \cup {None}] /\ channel \in [ChannelIds -> Channel \cup {None}]
        BY <2>1 DEF SettingsInv, RowsTyped
    <2>3. Becomes(tasks, channel, {t} \X r.known)
        BY <1>1, <1>2, <1>6, <2>1 DEF WriteTask
    <2>4. ASSUME NEW u \in Tasks, NEW n \in Names, <<u, n>> \in Dangling(tasks, channel)
          PROVE  <<u, n>> \in strayed \cup ({t} \X r.known)
        <3>1. Has(tasks[u]) /\ n \in tasks[u].names /\
              \A i \in ChannelIds : Has(channel[i]) => channel[i].name # n
            BY <2>4, DanglingPairs
        <3>2. CASE u = t
            BY <1>3, <2>1, <3>1, <3>2 DEF SettingsInv, RowsTyped
        <3>3. CASE u # t
            <4>1. tasks[u] = task[u]
                BY <2>1, <3>3 DEF SettingsInv, RowsTyped
            <4>2. <<u, n>> \in Dangling(task, channel)
                BY <3>1, <4>1, DanglingPairs
            <4> QED
                BY <4>2 DEF SettingsInv, NoTaskLeftBehind
        <3> QED
            BY <3>2, <3>3
    <2>5. Dangling(tasks, channel) \subseteq strayed \cup ({t} \X r.known)
        BY <2>4, DanglingIsPairs
    <2>6. \A u \in Tasks : Has(tasks[u]) =>
             Has(target[tasks[u].connection]) /\ Has(target[tasks[u].storage])
        BY <1>6, <2>1 DEF SettingsInv, RowsTyped, RowsAreUsable
    <2>7. RowsTyped' /\ RowsAreUsable' /\ NoTaskLeftBehind'
        BY <1>4, <2>2, <2>3, <2>5, <2>6, MasksStay, TasksChange
    <2> QED
        BY <1>5, <2>7 DEF SettingsInv
<1>7. CASE ~(/\ r.new # Has(task[t])
             /\ Has(target[next.connection]) /\ Has(target[next.storage]))
    <2>1. UNCHANGED <<rows, strayed, blind>>
        BY <1>1, <1>2, <1>7 DEF WriteTask, rows
    <2> QED
        BY <1>5, <2>1, RowsStay DEF SettingsInv
<1> QED
    BY <1>6, <1>7

\* A task deleted.
LEMMA DeleteTaskKeeps ==
    ASSUME SettingsInv, DeleteTask
    PROVE  SettingsInv'
<1>1. PICK t \in Tasks : Becomes([task EXCEPT ![t] = None], channel, {})
    BY DEF DeleteTask
<1>2. PICK tasks : tasks = [task EXCEPT ![t] = None]
    OBVIOUS
<1>3. tasks \in [Tasks -> Task \cup {None}] /\ channel \in [ChannelIds -> Channel \cup {None}]
    BY <1>2 DEF SettingsInv, RowsTyped
<1>4. \A u \in Tasks : Has(tasks[u]) => tasks[u] = task[u] /\ Has(task[u])
    BY <1>2 DEF SettingsInv, RowsTyped, Has
<1>5. ASSUME NEW u \in Tasks, NEW n \in Names, <<u, n>> \in Dangling(tasks, channel)
      PROVE  <<u, n>> \in strayed
    <2>1. <<u, n>> \in Dangling(task, channel)
        BY <1>4, <1>5, DanglingPairs
    <2> QED
        BY <2>1 DEF SettingsInv, NoTaskLeftBehind
<1>6. Dangling(tasks, channel) \subseteq strayed \cup {}
    BY <1>5, DanglingIsPairs
<1>7. \A u \in Tasks : Has(tasks[u]) =>
         Has(target[tasks[u].connection]) /\ Has(target[tasks[u].storage])
    BY <1>4 DEF SettingsInv, RowsAreUsable
<1>8. UNCHANGED <<secrets, target, blind, request>>
    BY DEF DeleteTask
<1>9. RowsTyped' /\ RowsAreUsable' /\ NoTaskLeftBehind'
    BY <1>1, <1>2, <1>3, <1>6, <1>7, <1>8, MasksStay, TasksChange
<1>10. RequestsTyped'
    BY <1>8, RequestsStay DEF SettingsInv
<1> QED
    BY <1>9, <1>10 DEF SettingsInv

\* A request that only looked leaves the rows, and goes on with what it carries.
LEMMA OnlyLooked ==
    ASSUME SettingsInv, NEW c \in Clients, NEW r \in Requests, Checked(r, blind),
           request' = [request EXCEPT ![c] = r], UNCHANGED <<rows, strayed, blind>>
    PROVE  SettingsInv'
<1>1. RequestsTyped'
    BY RequestGoes DEF SettingsInv
<1> QED
    BY <1>1, RowsStay DEF SettingsInv

\* A new channel built.
LEMMA BuildNewKeeps ==
    ASSUME SettingsInv, NEW c \in Clients, BuildNew(c)
    PROVE  SettingsInv'
<1>1. PICK next \in Channel : Ask(c, [pc |-> "channel built", id |-> 0, next |-> next])
    BY DEF BuildNew
<1>2. PICK r : r = [pc |-> "channel built", id |-> 0, next |-> next]
    OBVIOUS
<1>3. 0 \in 0..MaxChannel
    BY SettingsAssumption
<1>4. r \in Requests /\ Checked(r, blind)
    BY <1>2, <1>3 DEF Requests, Checked
<1> QED
    BY <1>1, <1>2, <1>4, OnlyLooked DEF Ask, BuildNew

\* What a body makes of a channel is one, with a mask only if there was one.
LEMMA MergeGives ==
    ASSUME NEW patch \in Patches, NEW current \in Channel
    PROVE  /\ Merge(patch, current) \in Channel
           /\ Merge(patch, current).config = "masked" => current.config = "masked"
<1>1. patch.name \in Names /\ (patch.config = "kept" \/ patch.config \in Configs)
    BY DEF Patches
<1>2. current.config \in Configs /\ current.wants \in BOOLEAN
    BY DEF Channel
<1>3. PICK config : config = IF patch.config = "kept" THEN current.config
                             ELSE Unmask(patch.config, current.config)
    OBVIOUS
<1>4. config \in Configs /\ (config = "masked" => current.config = "masked")
    BY <1>1, <1>2, <1>3, UnmaskGives
<1>5. (IF patch.wants = {} THEN current.wants ELSE TRUE \in patch.wants) \in BOOLEAN
    <2>1. CASE patch.wants = {}
        BY <1>2, <2>1
    <2>2. CASE patch.wants # {}
        <3>1. (TRUE \in patch.wants) \in BOOLEAN
            BY SMT
        <3> QED
            BY <2>2, <3>1, Zenon
    <2> QED
        BY <2>1, <2>2
<1>6. PICK wants \in BOOLEAN :
         wants = IF patch.wants = {} THEN current.wants ELSE TRUE \in patch.wants
    BY <1>5
<1>7. Merge(patch, current) = [name |-> patch.name, config |-> config, wants |-> wants]
    BY <1>3, <1>6 DEF Merge
<1> QED
    BY <1>1, <1>4, <1>7 DEF Channel

\* A channel that exists is a row under one of the ids.
LEMMA ExistingIsRow ==
    ASSUME RowsTyped, NEW i
    PROVE  i \in Existing <=> i \in ChannelIds /\ Has(channel[i]) /\ channel[i] \in Channel
BY RowsAreRows DEF RowsTyped, Existing, Has

\* A channel read, and the body applied to it.
LEMMA ReadChannelKeeps ==
    ASSUME SettingsInv, NEW c \in Clients, ReadChannel(c)
    PROVE  SettingsInv'
<1>1. PICK i \in Existing, patch \in Patches :
         Ask(c, [pc |-> "channel read", id |-> i, next |-> Merge(patch, channel[i])])
    BY DEF ReadChannel
<1>2. /\ i \in 0..MaxChannel /\ Merge(patch, channel[i]) \in Channel
      /\ Merge(patch, channel[i]).config = "masked" => i \in blind
    <2>1. i \in ChannelIds /\ channel[i] \in Channel
        BY ExistingIsRow DEF SettingsInv
    <2>2. i \in 0..MaxChannel
        BY <2>1, SettingsAssumption DEF ChannelIds
    <2>3. channel[i].config = "masked" => i \in blind
        BY DEF SettingsInv, RowsAreUsable
    <2> QED
        BY <2>1, <2>2, <2>3, MergeGives
<1>3. PICK r : r = [pc |-> "channel read", id |-> i, next |-> Merge(patch, channel[i])]
    OBVIOUS
<1>4. r \in Requests /\ Checked(r, blind)
    BY <1>2, <1>3 DEF Requests, Checked
<1> QED
    BY <1>1, <1>3, <1>4, OnlyLooked DEF Ask, ReadChannel

\* The changed channel built.
LEMMA BuildChangedKeeps ==
    ASSUME SettingsInv, NEW c \in Clients, BuildChanged(c)
    PROVE  SettingsInv'
<1>1. PICK r \in Requests : r = request[c] /\ Checked(r, blind)
    BY RequestAt DEF SettingsInv
<1>2. r \in [pc : {"channel read", "channel built"}, id : 0..MaxChannel, next : Channel]
    <2>1. r.pc = "channel read"
        BY <1>1 DEF BuildChanged, At
    <2> QED
        BY <2>1, RequestSets
<1>3. PICK s : s = [r EXCEPT !.pc = "channel built"]
    OBVIOUS
<1>4. s \in Requests /\ Checked(s, blind)
    <2>1. /\ s \in [pc : {"channel read", "channel built"}, id : 0..MaxChannel, next : Channel]
          /\ s.pc = "channel built" /\ s.id = r.id /\ s.next = r.next
        BY <1>2, <1>3
    <2>2. r.id # 0 /\ r.next.config = "masked" => r.id \in blind
        BY <1>1, <1>2 DEF Checked
    <2>3. s \in Requests
        BY <2>1 DEF Requests
    <2> QED
        BY <2>1, <2>2, <2>3 DEF Checked
<1>5. \/ request' = [request EXCEPT ![c] = s]
      \/ request' = [request EXCEPT ![c] = Idle]
    BY <1>1, <1>3 DEF BuildChanged, Goes
<1> QED
    BY <1>4, <1>5, OnlyLooked, IdleIsChecked DEF BuildChanged

\* A channel inserted: a name more, and nothing dangles that did not.
LEMMA InsertChannelKeeps ==
    ASSUME SettingsInv, NEW c \in Clients, InsertChannel(c)
    PROVE  SettingsInv'
<1>1. PICK r \in Requests : r = request[c] /\ Checked(r, blind)
    BY RequestAt DEF SettingsInv
<1>2. r.next \in Channel
    BY <1>1, RequestFields DEF InsertChannel, At
<1>3. UNCHANGED <<secrets, target>> /\ Goes(c, Idle)
    BY DEF InsertChannel
<1>4. CASE NewIds # {} /\ ~Taken(r.next.name, 0)
    <2>1. PICK i \in NewIds : /\ Becomes(task, [channel EXCEPT ![i] = r.next], {})
                              /\ blind' = Blinded(i, r.next.config)
        BY <1>1, <1>4 DEF InsertChannel
    <2>2. PICK channels : channels = [channel EXCEPT ![i] = r.next]
        OBVIOUS
    <2>3. channels \in [ChannelIds -> Channel \cup {None}] /\ task \in [Tasks -> Task \cup {None}]
        BY <1>2, <2>2 DEF SettingsInv, RowsTyped
    <2>4. \A j \in ChannelIds : Has(channel[j]) => channels[j] = channel[j]
        <3>1. i \in ChannelIds /\ \A j \in ChannelIds : Has(channel[j]) => j < i
            BY <2>1 DEF NewIds, Existing
        <3>2. \A j \in ChannelIds : Has(channel[j]) => j # i
            BY <3>1, SettingsAssumption DEF ChannelIds
        <3> QED
            BY <2>2, <3>2 DEF SettingsInv, RowsTyped
    <2>5. Dangling(task, channels) \subseteq Dangling(task, channel)
        <3>1. ASSUME NEW t \in Tasks, NEW n \in Names, <<t, n>> \in Dangling(task, channels)
              PROVE  <<t, n>> \in Dangling(task, channel)
            BY <2>4, <3>1, DanglingPairs
        <3> QED
            BY <3>1, DanglingIsPairs
    <2>6. Dangling(task, channels) \subseteq strayed \cup {}
        BY <2>5 DEF SettingsInv, NoTaskLeftBehind
    <2>7. \A t \in Tasks : Has(task[t]) =>
             Has(target[task[t].connection]) /\ Has(target[task[t].storage])
        BY DEF SettingsInv, RowsAreUsable
    <2>8. /\ blind \subseteq blind' /\ blind' \subseteq Targets \cup ChannelIds
          /\ r.next.config = "masked" => i \in blind'
        BY <2>1, BlindedRows DEF SettingsInv, NewIds
    <2>9. MasksAreKnown(channels, blind')
        <3>1. MasksAreKnown(channel, blind)
            BY UsableChannels DEF SettingsInv
        <3> QED
            BY <2>2, <2>8, <3>1 DEF MasksAreKnown, SettingsInv, RowsTyped
    <2>10. RowsTyped' /\ RowsAreUsable' /\ NoTaskLeftBehind'
        BY <1>3, <2>1, <2>2, <2>3, <2>6, <2>7, <2>8, <2>9, TasksChange
    <2>11. RequestsTyped'
        BY <1>3, <2>8, RequestEnds DEF SettingsInv
    <2> QED
        BY <2>10, <2>11 DEF SettingsInv
<1>5. CASE ~(NewIds # {} /\ ~Taken(r.next.name, 0))
    <2>1. UNCHANGED <<rows, strayed, blind>>
        BY <1>1, <1>3, <1>5 DEF InsertChannel, rows
    <2>2. RequestsTyped'
        BY <1>3, <2>1, RequestEnds DEF SettingsInv
    <2> QED
        BY <2>1, <2>2, RowsStay DEF SettingsInv
<1> QED
    BY <1>4, <1>5

\* A channel changed: the cascade takes every task along that lists the old name.
LEMMA UpdateChannelKeeps ==
    ASSUME SettingsInv, NEW c \in Clients, UpdateChannel(c)
    PROVE  SettingsInv'
<1>1. PICK r \in Requests : r = request[c] /\ Checked(r, blind)
    BY RequestAt DEF SettingsInv
<1>2. PICK i \in ChannelIds : i = r.id /\ r.next \in Channel
    <2>1. r.id \in 0..MaxChannel /\ r.id # 0 /\ r.next \in Channel
        BY <1>1, RequestFields DEF UpdateChannel, At
    <2> QED
        BY <2>1, SettingsAssumption DEF ChannelIds
<1>3. UNCHANGED <<secrets, target, blind>> /\ Goes(c, Idle)
    BY DEF UpdateChannel
<1>4. RequestsTyped'
    BY <1>3, RequestEnds DEF SettingsInv
<1>5. CASE Has(channel[i]) /\ ~Taken(r.next.name, i)
    <2>1. PICK old \in Names : old = channel[i].name
        BY <1>5 DEF SettingsInv, RowsTyped, Has, Channel
    <2>2. PICK new \in Names : new = r.next.name
        BY <1>2 DEF Channel
    <2>3. PICK tasks : tasks = Renamed(old, new)
        OBVIOUS
    <2>4. PICK channels : channels = [channel EXCEPT ![i] = r.next]
        OBVIOUS
    <2>5. Becomes(tasks, channels, {})
        BY <1>1, <1>2, <1>5, <2>1, <2>2, <2>3, <2>4 DEF UpdateChannel
    <2>6. channels \in [ChannelIds -> Channel \cup {None}]
        BY <1>2, <2>4 DEF SettingsInv, RowsTyped
    <2>7. ASSUME NEW t \in Tasks
          PROVE  /\ tasks[t] \in Task \cup {None}
                 /\ Has(tasks[t]) => /\ Has(task[t])
                                     /\ tasks[t].connection = task[t].connection
                                     /\ tasks[t].storage = task[t].storage
                                     /\ \A n \in tasks[t].names :
                                          n # new => n \in task[t].names /\ n # old
                                     /\ old \notin task[t].names => tasks[t].names = task[t].names
        <3>1. CASE Has(task[t]) /\ old \in task[t].names
            <4>1. task[t] \in Task
                BY <3>1 DEF SettingsInv, RowsTyped, Has
            <4>2. tasks[t] = [task[t] EXCEPT !.names = (@ \ {old}) \cup {new}]
                BY <2>3, <3>1 DEF Renamed
            <4>3. /\ tasks[t].connection = task[t].connection
                  /\ tasks[t].storage = task[t].storage
                  /\ tasks[t].names = (task[t].names \ {old}) \cup {new}
                BY <4>1, <4>2 DEF Task
            <4>4. tasks[t] \in Task
                BY <4>1, <4>2, <2>1, <2>2 DEF Task
            <4> QED
                BY <3>1, <4>3, <4>4
        <3>2. CASE ~(Has(task[t]) /\ old \in task[t].names)
            <4>1. tasks[t] = task[t]
                BY <2>3, <3>2 DEF Renamed
            <4>2. tasks[t] \in Task \cup {None}
                BY <4>1 DEF SettingsInv, RowsTyped
            <4> QED
                BY <3>2, <4>1, <4>2
        <3> QED
            BY <3>1, <3>2
    <2>8. tasks \in [Tasks -> Task \cup {None}]
        BY <2>3, <2>7 DEF Renamed
    <2>9. ASSUME NEW t \in Tasks, NEW n \in Names, <<t, n>> \in Dangling(tasks, channels)
          PROVE  <<t, n>> \in Dangling(task, channel)
        <3>1. /\ Has(tasks[t]) /\ n \in tasks[t].names
              /\ \A j \in ChannelIds : Has(channels[j]) => channels[j].name # n
            BY <2>9, DanglingPairs
        <3>2. channels[i] = r.next /\ Has(channels[i])
            BY <1>2, <2>4, RowsAreRows DEF SettingsInv, RowsTyped, Has
        <3>3. n # new
            BY <2>2, <3>1, <3>2
        <3>4. Has(task[t]) /\ n \in task[t].names /\ n # old
            BY <2>7, <3>1, <3>3
        <3>5. \A j \in ChannelIds : j # i => channels[j] = channel[j]
            BY <2>4 DEF SettingsInv, RowsTyped
        <3>6. \A j \in ChannelIds : Has(channel[j]) => channel[j].name # n
            BY <2>1, <3>1, <3>4, <3>5
        <3> QED
            BY <3>4, <3>6, DanglingPairs
    <2>10. Dangling(tasks, channels) \subseteq strayed \cup {}
        BY <2>9, DanglingIsPairs DEF SettingsInv, NoTaskLeftBehind
    <2>11. \A t \in Tasks : Has(tasks[t]) =>
              Has(target[tasks[t].connection]) /\ Has(target[tasks[t].storage])
        BY <2>7 DEF SettingsInv, RowsAreUsable
    <2>12. MasksAreKnown(channels, blind')
        <3>1. MasksAreKnown(channel, blind)
            BY UsableChannels DEF SettingsInv
        <3>2. r.next.config = "masked" => i \in blind
            BY <1>1, <1>2, SettingsAssumption DEF Checked, UpdateChannel, At, ChannelIds
        <3> QED
            BY <1>3, <2>4, <3>1, <3>2 DEF MasksAreKnown, SettingsInv, RowsTyped
    <2>13. RowsTyped' /\ RowsAreUsable' /\ NoTaskLeftBehind'
        BY <1>3, <2>5, <2>6, <2>8, <2>10, <2>11, <2>12, MasksStay, TasksChange
    <2> QED
        BY <1>4, <2>13 DEF SettingsInv
<1>6. CASE ~(Has(channel[i]) /\ ~Taken(r.next.name, i))
    <2>1. UNCHANGED <<rows, strayed, blind>>
        BY <1>1, <1>2, <1>3, <1>6 DEF UpdateChannel, rows
    <2> QED
        BY <1>4, <2>1, RowsStay DEF SettingsInv
<1> QED
    BY <1>5, <1>6

\* The name of the channel to be deleted.
LEMMA ReadToDeleteKeeps ==
    ASSUME SettingsInv, NEW c \in Clients, ReadToDelete(c)
    PROVE  SettingsInv'
<1>1. PICK i \in Existing : Ask(c, [pc |-> "to delete", id |-> i, name |-> channel[i].name])
    BY DEF ReadToDelete
<1>2. i \in ChannelIds /\ channel[i].name \in Names
    BY ExistingIsRow DEF SettingsInv, Channel
<1>3. PICK r : r = [pc |-> "to delete", id |-> i, name |-> channel[i].name]
    OBVIOUS
<1>4. r \in Requests /\ Checked(r, blind)
    BY <1>2, <1>3 DEF Requests, Checked
<1> QED
    BY <1>1, <1>3, <1>4, OnlyLooked DEF Ask, ReadToDelete

\* The search for the tasks that list it.
LEMMA LookForUsersKeeps ==
    ASSUME SettingsInv, NEW c \in Clients, LookForUsers(c)
    PROVE  SettingsInv'
<1>1. PICK r \in Requests : r = request[c] /\ Checked(r, blind)
    BY RequestAt DEF SettingsInv
<1>2. r.id \in ChannelIds
    BY <1>1, RequestFields DEF LookForUsers, At
<1>3. PICK s : s = [pc |-> "channel unused", id |-> r.id, users |-> {}]
    OBVIOUS
<1>4. s \in Requests /\ Checked(s, blind)
    BY <1>2, <1>3 DEF Requests, Checked
<1>5. \/ request' = [request EXCEPT ![c] = s]
      \/ request' = [request EXCEPT ![c] = Idle]
    <2>1. CASE Users(r.name) = {}
        BY <1>1, <1>3, <2>1 DEF LookForUsers, Goes
    <2>2. CASE Users(r.name) # {}
        BY <1>1, <2>2 DEF LookForUsers, Goes
    <2> QED
        BY <2>1, <2>2
<1> QED
    BY <1>4, <1>5, OnlyLooked, IdleIsChecked DEF LookForUsers

\* A channel deleted: a task that lists it has overtaken the look for users.
LEMMA DeleteChannelKeeps ==
    ASSUME SettingsInv, NEW c \in Clients, DeleteChannel(c)
    PROVE  SettingsInv'
<1>1. PICK r \in Requests : r = request[c] /\ Checked(r, blind)
    BY RequestAt DEF SettingsInv
<1>2. PICK i \in ChannelIds : i = r.id /\ r.users = {}
    BY <1>1, RequestFields DEF DeleteChannel, At, Checked
<1>3. UNCHANGED <<secrets, target, blind>> /\ Goes(c, Idle)
    BY DEF DeleteChannel
<1>4. RequestsTyped'
    BY <1>3, RequestEnds DEF SettingsInv
<1>5. CASE Has(channel[i])
    <2>1. PICK channels : channels = [channel EXCEPT ![i] = None]
        OBVIOUS
    <2>2. PICK pairs : pairs = Tasks \X {channel[i].name}
        OBVIOUS
    <2>3. Becomes(task, channels, pairs)
        <3>1. Tasks \ r.users = Tasks
            BY <1>2
        <3> QED
            BY <1>1, <1>2, <1>5, <2>1, <2>2, <3>1 DEF DeleteChannel
    <2>4. channels \in [ChannelIds -> Channel \cup {None}] /\ task \in [Tasks -> Task \cup {None}]
        BY <2>1 DEF SettingsInv, RowsTyped
    <2>5. ASSUME NEW t \in Tasks, NEW n \in Names, <<t, n>> \in Dangling(task, channels)
          PROVE  <<t, n>> \in strayed \cup pairs
        <3>1. /\ Has(task[t]) /\ n \in task[t].names
              /\ \A j \in ChannelIds : Has(channels[j]) => channels[j].name # n
            BY <2>5, DanglingPairs
        <3>2. CASE n = channel[i].name
            BY <2>2, <3>2
        <3>3. CASE n # channel[i].name
            <4>1. \A j \in ChannelIds : j # i => channels[j] = channel[j]
                BY <2>1 DEF SettingsInv, RowsTyped
            <4>2. <<t, n>> \in Dangling(task, channel)
                BY <3>1, <3>3, <4>1, DanglingPairs
            <4> QED
                BY <4>2 DEF SettingsInv, NoTaskLeftBehind
        <3> QED
            BY <3>2, <3>3
    <2>6. Dangling(task, channels) \subseteq strayed \cup pairs
        BY <2>5, DanglingIsPairs
    <2>7. \A t \in Tasks : Has(task[t]) =>
             Has(target[task[t].connection]) /\ Has(target[task[t].storage])
        BY DEF SettingsInv, RowsAreUsable
    <2>8. MasksAreKnown(channels, blind')
        <3>1. MasksAreKnown(channel, blind)
            BY UsableChannels DEF SettingsInv
        <3> QED
            BY <1>3, <2>1, <3>1 DEF MasksAreKnown, SettingsInv, RowsTyped, Has
    <2>9. RowsTyped' /\ RowsAreUsable' /\ NoTaskLeftBehind'
        BY <1>3, <2>3, <2>4, <2>6, <2>7, <2>8, MasksStay, TasksChange
    <2> QED
        BY <1>4, <2>9 DEF SettingsInv
<1>6. CASE ~Has(channel[i])
    <2>1. UNCHANGED <<rows, strayed, blind>>
        BY <1>1, <1>2, <1>3, <1>6 DEF DeleteChannel, rows
    <2> QED
        BY <1>4, <2>1, RowsStay DEF SettingsInv
<1> QED
    BY <1>5, <1>6

\* Whatever request takes a step, the settings stay as they should be.
LEMMA ChangeKeeps ==
    ASSUME SettingsInv, Change
    PROVE  SettingsInv'
<1>1. CASE PutSecret \/ CreateTarget \/ DeleteTarget \/ DeleteTask
    BY <1>1, PutSecretKeeps, CreateTargetKeeps, DeleteTargetKeeps, DeleteTaskKeeps
<1>2. ASSUME NEW c \in Clients,
             \/ LookForRefs(c) \/ DeleteSecret(c)
             \/ ReadTarget(c) \/ ReadTargetFails(c) \/ UpdateTarget(c)
             \/ CheckTask(c) \/ CheckNames(c) \/ WriteTask(c)
             \/ BuildNew(c) \/ ReadChannel(c) \/ BuildChanged(c)
             \/ InsertChannel(c) \/ UpdateChannel(c)
             \/ ReadToDelete(c) \/ LookForUsers(c) \/ DeleteChannel(c)
      PROVE  SettingsInv'
    BY <1>2, LookForRefsKeeps, DeleteSecretKeeps, ReadTargetKeeps, ReadTargetFailsKeeps,
       UpdateTargetKeeps, CheckTaskKeeps, CheckNamesKeeps, WriteTaskKeeps, BuildNewKeeps,
       ReadChannelKeeps, BuildChangedKeeps, InsertChannelKeeps, UpdateChannelKeeps,
       ReadToDeleteKeeps, LookForUsersKeeps, DeleteChannelKeeps
<1> QED
    BY <1>1, <1>2 DEF Change

\* An instance just set up.
LEMMA SettingsInitKeeps ==
    ASSUME NEW clients, NEW requests, SettingsInit(clients, requests)
    PROVE  SettingsInv
<1>1. /\ secrets = Secrets /\ strayed = {} /\ blind = {}
      /\ request = [c \in Clients |-> IF c \in clients THEN Idle ELSE Away]
    BY DEF SettingsInit
<1>2. RequestsTyped
    BY <1>1, IdleIsChecked, AwayIsChecked DEF RequestsTyped
<1>3. PICK t \in Tasks, x \in Connections, y \in Storages, names \in [1..2 -> Names],
           known \in ChannelIds \cap 1..2 :
         /\ names[1] # names[2]
         /\ target = [z \in Targets |-> IF z \in {x, y} THEN "inline" ELSE None]
         /\ \E config \in {"inline"} \cup Secrets :
              channel = [i \in ChannelIds |->
                 IF i <= known THEN [name |-> names[i], config |-> config, wants |-> TRUE] ELSE None]
         /\ task = [u \in Tasks |->
                IF u = t THEN [connection |-> x, storage |-> y, names |-> {names[i] : i \in 1..known}]
                ELSE None]
    BY DEF SettingsInit
<1>4. PICK config \in {"inline"} \cup Secrets :
         channel = [i \in ChannelIds |->
            IF i <= known THEN [name |-> names[i], config |-> config, wants |-> TRUE] ELSE None]
    BY <1>3
<1>5. PICK row \in Task : row = [connection |-> x, storage |-> y, names |-> {names[i] : i \in 1..known}]
    <2>1. {names[i] : i \in 1..known} \subseteq Names
        OBVIOUS
    <2>2. PICK list \in SUBSET Names : list = {names[i] : i \in 1..known}
        BY <2>1
    <2>3. [connection |-> x, storage |-> y, names |-> list] \in Task
        BY DEF Task
    <2> QED
        BY <2>2, <2>3
<1>6. row.connection = x /\ row.storage = y /\ row.names = {names[i] : i \in 1..known}
    BY <1>5
<1>7. task = [u \in Tasks |-> IF u = t THEN row ELSE None]
    BY <1>3, <1>5
<1>8. \A i \in ChannelIds : i <= known =>
         channel[i] \in Channel /\ channel[i].name = names[i]
    <2> SUFFICES ASSUME NEW i \in ChannelIds, i <= known
                 PROVE  channel[i] \in Channel /\ channel[i].name = names[i]
        OBVIOUS
    <2>1. i \in 1..2
        BY SettingsAssumption DEF ChannelIds
    <2>2. names[i] \in Names
        BY <2>1
    <2>3. [name |-> names[i], config |-> config, wants |-> TRUE] \in Channel
        BY <2>2 DEF Channel, Configs
    <2> QED
        BY <1>4, <2>3
<1>9. "inline" \in Configs /\ "inline" # None /\ {x, y} \subseteq Targets
    BY RowsAreRows DEF Configs, Targets
<1>10. RowsTyped
    <2>1. target \in [Targets -> Configs \cup {None}]
        BY <1>3, <1>9
    <2>2. channel \in [ChannelIds -> Channel \cup {None}]
        BY <1>4, <1>8
    <2>3. task \in [Tasks -> Task \cup {None}]
        BY <1>7
    <2> QED
        BY <1>1, <2>1, <2>2, <2>3 DEF RowsTyped
<1>11. RowsAreUsable
    <2>1. \A u \in Tasks : Has(task[u]) => task[u] = row
        BY <1>7 DEF Has
    <2>2. Has(target[x]) /\ Has(target[y])
        BY <1>3, <1>9 DEF Has
    <2>3. \A z \in Targets : target[z] # "masked"
        BY <1>3, RowsAreRows DEF Configs
    <2>4. \A i \in Existing : channel[i].config # "masked"
        <3>1. config # "masked"
            BY ValuesAreNoSecrets
        <3> QED
            BY <1>4, <3>1 DEF Existing, Has
    <2> QED
        BY <1>6, <2>1, <2>2, <2>3, <2>4 DEF RowsAreUsable
<1>12. NoTaskLeftBehind
    <2>1. ASSUME NEW u \in Tasks, NEW n \in Names, <<u, n>> \in Dangling(task, channel)
          PROVE  FALSE
        <3>1. /\ Has(task[u]) /\ n \in task[u].names
              /\ \A i \in ChannelIds : Has(channel[i]) => channel[i].name # n
            BY <2>1, DanglingPairs
        <3>2. task[u] = row
            BY <1>7, <3>1 DEF Has
        <3>3. PICK i \in 1..known : n = names[i]
            BY <1>6, <3>1, <3>2
        <3>4. i \in ChannelIds /\ i <= known
            BY SettingsAssumption DEF ChannelIds
        <3> QED
            BY <1>8, <3>1, <3>3, <3>4, RowsAreRows DEF Has
    <2> QED
        BY <2>1, DanglingIsPairs DEF NoTaskLeftBehind
<1> QED
    BY <1>2, <1>10, <1>11, <1>12 DEF SettingsInv

-----------------------------------------------------------------------------
(* What is left of the bounds *)

\* A bound that is spent is still one.
LEMMA SpendKeeps ==
    ASSUME BudgetTyped, Spend
    PROVE  BudgetTyped'
<1>1. PICK k \in 0..MaxRequests : k = budget.requests /\ k > 0
    BY DEF BudgetTyped, Spend
<1>2. k - 1 \in 0..MaxRequests
    BY <1>1, SettingsAssumption
<1>3. budget' = [budget EXCEPT !.requests = k - 1]
    BY <1>1 DEF Spend
<1> QED
    BY <1>2, <1>3 DEF BudgetTyped

\* So is the bound on failures.
LEMMA SpendFaultKeeps ==
    ASSUME BudgetTyped, SpendFault
    PROVE  BudgetTyped'
<1>1. PICK k \in 0..MaxFaults : k = budget.faults /\ k > 0
    BY DEF BudgetTyped, SpendFault
<1>2. k - 1 \in 0..MaxFaults
    BY <1>1, SettingsAssumption
<1>3. budget' = [budget EXCEPT !.faults = k - 1]
    BY <1>1 DEF SpendFault
<1> QED
    BY <1>2, <1>3 DEF BudgetTyped

\* And both, by a request whose read fails.
LEMMA ReadTargetFailsSpends ==
    ASSUME BudgetTyped, NEW c \in Clients, ReadTargetFails(c)
    PROVE  BudgetTyped'
<1>1. PICK k \in 0..MaxRequests : k = budget.requests /\ k > 0
    BY DEF BudgetTyped, ReadTargetFails
<1>2. PICK f \in 0..MaxFaults : f = budget.faults /\ f > 0
    BY DEF BudgetTyped, ReadTargetFails
<1>3. k - 1 \in 0..MaxRequests /\ f - 1 \in 0..MaxFaults
    BY <1>1, <1>2, SettingsAssumption
<1>4. budget' = [requests |-> k - 1, faults |-> f - 1]
    BY <1>1, <1>2 DEF ReadTargetFails
<1> QED
    BY <1>3, <1>4 DEF BudgetTyped

\* Every request spends what it may.
LEMMA ChangeSpends ==
    ASSUME BudgetTyped, Change
    PROVE  BudgetTyped'
<1>1. CASE PutSecret \/ CreateTarget \/ DeleteTarget \/ DeleteTask
    BY <1>1, SpendKeeps DEF PutSecret, CreateTarget, DeleteTarget, DeleteTask
<1>2. ASSUME NEW c \in Clients,
             \/ LookForRefs(c) \/ ReadTarget(c) \/ CheckTask(c) \/ BuildNew(c)
             \/ ReadChannel(c) \/ ReadToDelete(c)
      PROVE  BudgetTyped'
    BY <1>2, SpendKeeps DEF LookForRefs, ReadTarget, CheckTask, BuildNew, ReadChannel,
                            ReadToDelete, Ask
<1>3. ASSUME NEW c \in Clients,
             \/ DeleteSecret(c) \/ UpdateTarget(c) \/ CheckNames(c) \/ WriteTask(c)
             \/ BuildChanged(c) \/ InsertChannel(c) \/ UpdateChannel(c)
             \/ LookForUsers(c) \/ DeleteChannel(c)
      PROVE  BudgetTyped'
    <2>1. UNCHANGED budget
        BY <1>3 DEF DeleteSecret, UpdateTarget, CheckNames, WriteTask, BuildChanged,
                    InsertChannel, UpdateChannel, LookForUsers, DeleteChannel, Goes
    <2> QED
        BY <2>1 DEF BudgetTyped
<1> QED
    BY <1>1, <1>2, <1>3, ReadTargetFailsSpends DEF Change

-----------------------------------------------------------------------------
(* The delivery *)

\* The fields an event has where it stands.
LEMMA SendingFields ==
    ASSUME NEW s \in Sendings
    PROVE  /\ s.pc \in {"none", "loaded", "delivering"}
           /\ s.pc = "loaded" =>
                /\ s.kind \in {"task", "system"} /\ s.names \subseteq Names
                /\ s.todo = {} /\ s.built = {} /\ s.fate = "well"
           /\ s.pc = "delivering" => s \in Deliveries
<1>1. CASE s \in [pc : {"none"}]
    BY <1>1
<1>2. CASE s \in [pc : {"loaded"}, kind : {"task", "system"}, names : SUBSET Names, todo : {{}},
                  built : {{}}, fate : {"well"}]
    BY <1>2
<1>3. CASE s \in Deliveries
    BY <1>3 DEF Deliveries
<1> QED
    BY <1>1, <1>2, <1>3 DEF Sendings

\* The fields of a delivery.
LEMMA DeliveryFields ==
    ASSUME NEW s \in Deliveries
    PROVE  /\ s.pc = "delivering" /\ s.kind \in Kinds /\ s.names \subseteq Names
           /\ s.todo \in Todos /\ s.built \subseteq Names
           /\ s.fate \in {"well", "unlisted", "late"}
BY DEF Deliveries

\* A delivery that is s but for the channels before it.
GoesOnFrom(x, s, todo, built) ==
    /\ x \in Deliveries /\ x.pc = "delivering" /\ x.todo = todo /\ x.built = built
    /\ x.names = s.names /\ x.kind = s.kind /\ x.fate = s.fate

\* A delivery that has fewer channels before it, or others, is one.
LEMMA DeliveryWith ==
    ASSUME NEW s \in Deliveries, NEW todo \in Todos, NEW built \in SUBSET Names
    PROVE  /\ GoesOnFrom([s EXCEPT !.todo = todo, !.built = built], s, todo, built)
           /\ GoesOnFrom([s EXCEPT !.todo = todo], s, todo, s.built)
           /\ GoesOnFrom([s EXCEPT !.built = built], s, s.todo, built)
BY DEF Deliveries, GoesOnFrom

\* A call for an event.
LEMMA CallGives ==
    ASSUME NEW kind \in Kinds, NEW names \in SUBSET Names
    PROVE  /\ Call(kind, names).pc = "loaded"
           /\ Call(kind, names).kind = kind /\ Call(kind, names).names = names
           /\ kind # "test" => Call(kind, names) \in Sendings
BY DEF Call, Sendings, Kinds

\* A call with what it is to deliver.
LEMMA DeliveringGives ==
    ASSUME NEW call, NEW todo \in Todos,
           \/ call \in Sendings /\ call.pc = "loaded"
           \/ \E kind \in Kinds, names \in SUBSET Names : call = Call(kind, names)
    PROVE  /\ Delivering(call, todo) \in Deliveries
           /\ Delivering(call, todo).todo = todo /\ Delivering(call, todo).built = {}
           /\ Delivering(call, todo).names = call.names
           /\ Delivering(call, todo).kind = call.kind
           /\ Delivering(call, todo).fate = "well"
<1>1. call \in [pc : {"loaded"}, kind : Kinds, names : SUBSET Names, todo : {{}}, built : {{}},
               fate : {"well"}]
    <2>1. CASE call \in Sendings /\ call.pc = "loaded"
        <3>1. call \notin [pc : {"none"}] /\ call \notin Deliveries
            BY <2>1 DEF Deliveries
        <3>2. call \in [pc : {"loaded"}, kind : {"task", "system"}, names : SUBSET Names,
                        todo : {{}}, built : {{}}, fate : {"well"}]
            BY <2>1, <3>1 DEF Sendings
        <3> QED
            BY <3>2 DEF Kinds
    <2>2. CASE \E kind \in Kinds, names \in SUBSET Names : call = Call(kind, names)
        BY <2>2 DEF Call
    <2> QED
        BY <2>1, <2>2
<1>2. PICK x : x = [call EXCEPT !.pc = "delivering", !.todo = todo]
    OBVIOUS
<1>3. /\ x \in Deliveries /\ x.todo = todo /\ x.built = {} /\ x.names = call.names
      /\ x.kind = call.kind /\ x.fate = "well"
    BY <1>1, <1>2 DEF Deliveries
<1> QED
    BY <1>2, <1>3 DEF Delivering

\* What was promised of one event stays true when another is sent.
LEMMA OthersKeep ==
    ASSUME NEW d \in Events, Promise(d), event'[d] = event[d], owed'[d] = owed[d],
           UNCHANGED channel, log \subseteq log', unlogged \subseteq unlogged',
           \A n \in Names : <<d, n>> \in took' <=> <<d, n>> \in took
    PROVE  Promise(d)'
<1>1. CASE event[d].pc # "delivering"
    BY <1>1 DEF Promise, NamesOf, Wanting, Has
<1>2. CASE event[d].pc = "delivering"
    <2>1. \A n \in Names : (Pending(d, n))' <=> Pending(d, n)
        BY DEF Pending
    <2>2. \A n \in Names : Accounted(d, n) => Accounted(d, n)'
        BY DEF Accounted
    <2>3. \A n \in Names : Excused(d, n) => Excused(d, n)'
        BY DEF Excused, Late
    <2> QED
        BY <1>2, <2>1, <2>2, <2>3 DEF Promise
<1> QED
    BY <1>1, <1>2

\* An event that begins to be sent, or whose channels were listed, before anything goes out.
LEMMA SentOn ==
    ASSUME DeliveryTyped, \A d \in Events : Promise(d),
           NEW e \in Events, NEW x \in Sendings, Sends(e, x),
           NEW to \in SUBSET Names, owed' = [owed EXCEPT ![e] = to],
           UNCHANGED <<channel, log, took, unlogged>>, Promise(e)'
    PROVE  DeliveryTyped' /\ \A d \in Events : Promise(d)'
<1>1. DeliveryTyped'
    BY DEF DeliveryTyped, Sends
<1>2. ASSUME NEW d \in Events, d # e PROVE Promise(d)'
    <2>1. event'[d] = event[d] /\ owed'[d] = owed[d]
        BY <1>2 DEF DeliveryTyped, Sends
    <2> QED
        BY <2>1, OthersKeep
<1> QED
    BY <1>1, <1>2

\* Settings nobody touches.
LEMMA SettingsStay ==
    ASSUME SettingsInv, UNCHANGED settings
    PROVE  SettingsInv'
<1>1. UNCHANGED <<rows, strayed, blind>> /\ UNCHANGED request
    BY DEF settings
<1> QED
    BY <1>1, RequestsStay, RowsStay DEF SettingsInv

\* Whom the channels there are would tell are names.
LEMMA WantingNames ==
    ASSUME RowsTyped
    PROVE  NamesOf(channel, Wanting(channel)) \subseteq Names
BY DEF RowsTyped, NamesOf, Wanting, Has, Channel

\* A copy of a task taken.
LEMMA LoadTaskKeeps ==
    ASSUME Inv, NEW e \in Events, LoadTask(e)
    PROVE  Inv'
<1>1. PICK t \in Tasks :
         /\ Has(task[t])
         /\ Sends(e, Call("task", task[t].names))
         /\ owed' = [owed EXCEPT ![e] = task[t].names \cap NamesOf(channel, Wanting(channel))]
    BY DEF LoadTask
<1>2. PICK names \in SUBSET Names : names = task[t].names
    BY <1>1 DEF Inv, SettingsInv, RowsTyped, Has, Task
<1>3. PICK x : x = Call("task", names)
    OBVIOUS
<1>4. PICK to : to = names \cap NamesOf(channel, Wanting(channel))
    OBVIOUS
<1>5. x \in Sendings /\ x.pc = "loaded" /\ to \in SUBSET Names
    BY <1>3, <1>4, CallGives DEF Kinds
<1>6. Sends(e, x) /\ owed' = [owed EXCEPT ![e] = to]
    BY <1>1, <1>2, <1>3, <1>4
<1>7. UNCHANGED settings /\ UNCHANGED budget /\ UNCHANGED <<channel, log, took, unlogged>>
    BY DEF LoadTask, settings, rows
<1>8. event'[e] = x /\ owed'[e] = to
    BY <1>6 DEF Sends, Inv, DeliveryTyped
<1>9. Promise(e)'
    <2>1. \A n \in Names : <<e, n>> \notin took'
        BY <1>7 DEF Inv, Promise, LoadTask
    <2>2. to \subseteq NamesOf(channel', Wanting(channel'))
        BY <1>4, <1>7
    <2> QED
        BY <1>5, <1>8, <2>1, <2>2 DEF Promise
<1> QED
    BY <1>5, <1>6, <1>7, <1>9, SentOn, SettingsStay DEF Inv, BudgetTyped

\* An event without a task begun.
LEMMA BeginSystemKeeps ==
    ASSUME Inv, NEW e \in Events, BeginSystem(e)
    PROVE  Inv'
<1>1. PICK x : x = Call("system", Names)
    OBVIOUS
<1>2. PICK to \in SUBSET Names : to = NamesOf(channel, Wanting(channel))
    BY WantingNames DEF Inv, SettingsInv
<1>3. x \in Sendings /\ x.pc = "loaded"
    <2>1. Names \in SUBSET Names
        OBVIOUS
    <2> QED
        BY <1>1, <2>1, CallGives DEF Kinds
<1>4. Sends(e, x) /\ owed' = [owed EXCEPT ![e] = to]
    BY <1>1, <1>2 DEF BeginSystem
<1>5. UNCHANGED settings /\ UNCHANGED budget /\ UNCHANGED <<channel, log, took, unlogged>>
    BY DEF BeginSystem, settings, rows
<1>6. event'[e] = x /\ owed'[e] = to
    BY <1>4 DEF Sends, Inv, DeliveryTyped
<1>7. Promise(e)'
    <2>1. \A n \in Names : <<e, n>> \notin took'
        BY <1>5 DEF Inv, Promise, BeginSystem
    <2>2. to \subseteq NamesOf(channel', Wanting(channel'))
        BY <1>2, <1>5
    <2> QED
        BY <1>3, <1>6, <2>1, <2>2 DEF Promise
<1> QED
    BY <1>3, <1>4, <1>5, <1>7, SentOn, SettingsStay DEF Inv, BudgetTyped

\* What the delivery of channels that exist has before it: their names, and no others.
LEMMA FormsOf ==
    ASSUME RowsTyped, NEW ids \in SUBSET Existing
    PROVE  /\ Forms(ids) \in Todos
           /\ \A i \in ids : \E ch \in Forms(ids) : ch.name = channel[i].name
<1>1. \A i \in ids : channel[i].name \in Names /\ channel[i].config \in Configs
    BY ExistingIsRow DEF Channel
<1>2. Forms(ids) \in Todos
    BY <1>1 DEF Forms, Todos
<1>3. ASSUME NEW i \in ids PROVE \E ch \in Forms(ids) : ch.name = channel[i].name
    <2>1. PICK ch : ch = [name |-> channel[i].name, config |-> channel[i].config]
        OBVIOUS
    <2>2. ch \in Forms(ids) /\ ch.name = channel[i].name
        BY <2>1 DEF Forms
    <2> QED
        BY <2>2
<1> QED
    BY <1>2, <1>3

\* The channels listed: everyone owed the event is among them, or goes by another name.
LEMMA ListChannelsKeeps ==
    ASSUME Inv, NEW e \in Events, ListChannels(e)
    PROVE  Inv'
<1>1. PICK ids : ids = {i \in Wanting(channel) : channel[i].name \in event[e].names}
    OBVIOUS
<1>2. ids \in SUBSET Existing
    BY <1>1 DEF Wanting, Existing
<1>3. PICK todo \in Todos : /\ todo = Forms(ids)
                           /\ \A i \in ids : \E ch \in todo : ch.name = channel[i].name
    BY <1>2, FormsOf DEF Inv, SettingsInv
<1>4. PICK x : x = Delivering(event[e], todo)
    OBVIOUS
<1>5. /\ x \in Sendings /\ x.pc = "delivering" /\ x.built = {} /\ x.todo = todo
      /\ x.names = event[e].names
    <2>1. event[e] \in Sendings /\ event[e].pc = "loaded"
        BY DEF Inv, DeliveryTyped, ListChannels
    <2>2. /\ x \in Deliveries /\ x.built = {} /\ x.todo = todo
          /\ x.names = event[e].names
        BY <1>4, <2>1, DeliveringGives
    <2> QED
        BY <2>2, DeliveryFields DEF Sendings
<1>6. PICK to \in SUBSET Names : to = owed[e]
    BY DEF Inv, DeliveryTyped
<1>7. Sends(e, x) /\ owed' = [owed EXCEPT ![e] = to]
    BY <1>1, <1>3, <1>4, <1>6 DEF ListChannels, Inv, DeliveryTyped
<1>8. UNCHANGED settings /\ UNCHANGED budget /\ UNCHANGED <<channel, log, took, unlogged>>
    BY DEF ListChannels, settings, rows
<1>9. event'[e] = x /\ owed'[e] = to
    BY <1>7 DEF Sends, Inv, DeliveryTyped
<1>10. Promise(e)'
    <2>1. \A n \in Names : <<e, n>> \notin took'
        BY <1>8 DEF Inv, Promise, ListChannels
    <2>2. to \subseteq NamesOf(channel, Wanting(channel))
        BY <1>6 DEF Inv, Promise, ListChannels
    <2>3. ASSUME NEW n \in to PROVE Pending(e, n)' \/ Excused(e, n)'
        <3>1. PICK i \in Wanting(channel) : n = channel[i].name
            BY <2>2, <2>3 DEF NamesOf
        <3>2. CASE n \in event[e].names
            <4>1. i \in ids
                BY <1>1, <3>1, <3>2
            <4> QED
                BY <1>3, <1>5, <1>9, <3>1, <4>1 DEF Pending
        <3>3. CASE n \notin event[e].names
            BY <1>5, <1>9, <3>3 DEF Excused
        <3> QED
            BY <3>2, <3>3
    <2> QED
        BY <1>5, <1>9, <2>1, <2>3 DEF Promise
<1> QED
    BY <1>5, <1>7, <1>8, <1>10, SentOn, SettingsStay DEF Inv, BudgetTyped

\* One channel, whatever it wants.
LEMMA TestChannelKeeps ==
    ASSUME Inv, NEW e \in Events, TestChannel(e)
    PROVE  Inv'
<1>1. PICK i \in Existing :
         /\ Sends(e, Delivering(Call("test", {channel[i].name}), Forms({i})))
         /\ owed' = [owed EXCEPT ![e] = {channel[i].name}]
    BY DEF TestChannel
<1>2. PICK ids \in SUBSET Existing : ids = {i}
    OBVIOUS
<1>3. PICK todo \in Todos : todo = Forms(ids) /\ \E ch \in todo : ch.name = channel[i].name
    BY <1>2, FormsOf DEF Inv, SettingsInv
<1>4. PICK to \in SUBSET Names : to = {channel[i].name}
    BY ExistingIsRow DEF Channel, Inv, SettingsInv
<1>5. PICK x : x = Delivering(Call("test", to), todo)
    OBVIOUS
<1>6. x \in Sendings /\ x.pc = "delivering" /\ x.built = {} /\ x.todo = todo
    <2>1. \E kind \in Kinds, names \in SUBSET Names : Call("test", to) = Call(kind, names)
        BY DEF Kinds
    <2>2. x \in Deliveries /\ x.built = {} /\ x.todo = todo
        BY <1>5, <2>1, DeliveringGives
    <2> QED
        BY <2>2, DeliveryFields DEF Sendings
<1>7. Sends(e, x) /\ owed' = [owed EXCEPT ![e] = to]
    BY <1>1, <1>2, <1>3, <1>4, <1>5
<1>8. UNCHANGED settings /\ UNCHANGED budget /\ UNCHANGED <<channel, log, took, unlogged>>
    BY DEF TestChannel, settings, rows
<1>9. event'[e] = x /\ owed'[e] = to
    BY <1>7 DEF Sends, Inv, DeliveryTyped
<1>10. Promise(e)'
    <2>1. \A n \in Names : <<e, n>> \notin took'
        BY <1>8 DEF Inv, Promise, TestChannel
    <2>2. \A n \in to : Pending(e, n)'
        BY <1>3, <1>4, <1>6, <1>9 DEF Pending
    <2> QED
        BY <1>6, <1>9, <2>1, <2>2 DEF Promise
<1> QED
    BY <1>6, <1>7, <1>8, <1>10, SentOn, SettingsStay DEF Inv, BudgetTyped

\* The list could not be read: the event fails on every channel the task's copy names, or
\* is an event of the instance and excused.
LEMMA ListChannelsFailsKeeps ==
    ASSUME Inv, NEW e \in Events, ListChannelsFails(e)
    PROVE  Inv'
<1>1. PICK s \in Sendings : /\ s = event[e] /\ s.pc = "loaded" /\ s.names \subseteq Names
                           /\ s.kind \in {"task", "system"}
    BY SendingFields DEF Inv, DeliveryTyped, ListChannelsFails
<1>2. UNCHANGED settings /\ UNCHANGED <<channel, log, took, unlogged>> /\ SpendFault
    BY DEF ListChannelsFails, settings, rows
<1>3. \A n \in Names : <<e, n>> \notin took'
    BY <1>1, <1>2 DEF Inv, Promise
<1>4. PICK todo : todo = IF s.kind = "task" THEN [name : s.names, config : {None}] ELSE {}
    OBVIOUS
<1>5. todo \in Todos
    BY <1>1, <1>4 DEF Todos
<1>6. PICK y : y = Delivering(s, todo)
    OBVIOUS
<1>7. y \in Deliveries /\ y.todo = todo /\ y.names = s.names /\ y.kind = s.kind
    BY <1>1, <1>5, <1>6, DeliveringGives
<1>8. PICK x : x = [y EXCEPT !.fate = "unlisted"]
    OBVIOUS
<1>9. /\ x \in Deliveries /\ x.pc = "delivering" /\ x.todo = todo /\ x.names = s.names
      /\ x.kind = s.kind /\ x.fate = "unlisted"
    BY <1>7, <1>8 DEF Deliveries
<1>10. PICK to \in SUBSET Names : to = owed[e]
    BY DEF Inv, DeliveryTyped
<1>11. Sends(e, x) /\ owed' = [owed EXCEPT ![e] = to]
    BY <1>1, <1>4, <1>6, <1>8, <1>10 DEF ListChannelsFails, Inv, DeliveryTyped
<1>12. event'[e] = x /\ owed'[e] = to
    BY <1>11 DEF Sends, Inv, DeliveryTyped
<1>13. \A n \in Names : Pending(e, n)' => <<e, n>> \notin took'
    BY <1>3
<1>14. ASSUME NEW n \in to PROVE Pending(e, n)' \/ Excused(e, n)'
    <2>1. CASE s.kind = "system" \/ n \notin s.names
        BY <1>9, <1>12, <2>1 DEF Excused
    <2>2. CASE s.kind = "task" /\ n \in s.names
        <3>1. PICK ch : ch = [name |-> n, config |-> None]
            OBVIOUS
        <3>2. ch \in todo /\ ch.name = n
            BY <1>4, <2>2, <3>1
        <3> QED
            BY <1>9, <1>12, <3>2 DEF Pending
    <2> QED
        BY <1>1, <2>1, <2>2
<1>15. Promise(e)'
    BY <1>3, <1>9, <1>12, <1>14 DEF Promise
<1>16. x \in Sendings
    BY <1>9 DEF Sendings
<1> QED
    BY <1>2, <1>11, <1>15, <1>16, SentOn, SettingsStay, SpendFaultKeeps DEF Inv

\* The time of a test is over: it is excused from then on.
LEMMA TestTimesOutKeeps ==
    ASSUME Inv, NEW e \in Events, TestTimesOut(e)
    PROVE  Inv'
<1>1. PICK s \in Deliveries : s = event[e]
    BY SendingFields DEF Inv, DeliveryTyped, TestTimesOut
<1>2. PICK x : x = [s EXCEPT !.fate = "late"]
    OBVIOUS
<1>3. /\ x \in Deliveries /\ x.pc = "delivering" /\ x.todo = s.todo /\ x.built = s.built
      /\ x.fate = "late"
    BY <1>1, <1>2 DEF Deliveries
<1>4. PICK to \in SUBSET Names : to = owed[e]
    BY DEF Inv, DeliveryTyped
<1>5. Sends(e, x) /\ owed' = [owed EXCEPT ![e] = to]
    BY <1>1, <1>2, <1>4 DEF TestTimesOut, Sends, Inv, DeliveryTyped
<1>6. UNCHANGED settings /\ UNCHANGED budget /\ UNCHANGED <<channel, log, took, unlogged>>
    BY DEF TestTimesOut, settings, rows
<1>7. event'[e] = x
    BY <1>5 DEF Sends, Inv, DeliveryTyped
<1>8. Promise(e)'
    <2>1. \A n \in Names : Excused(e, n)'
        BY <1>3, <1>7 DEF Excused, Late
    <2>2. \A n \in Names : Pending(e, n)' => Pending(e, n)
        BY <1>1, <1>3, <1>7 DEF Pending
    <2>3. \A n \in Names : Pending(e, n) => <<e, n>> \notin took
        BY DEF Inv, Promise, TestTimesOut
    <2> QED
        BY <1>3, <1>6, <1>7, <2>1, <2>2, <2>3 DEF Promise
<1>9. x \in Sendings
    BY <1>3 DEF Sendings
<1> QED
    BY <1>5, <1>6, <1>8, <1>9, SentOn, SettingsStay DEF Inv, BudgetTyped

\* The delivery deals with one channel, n: it keeps it before it or has it recorded, and
\* what is outstanding of the others stays so.
LEMMA DeliveryGoesOn ==
    ASSUME DeliveryTyped, \A d \in Events : Promise(d),
           NEW e \in Events, event[e].pc = "delivering",
           NEW x \in Sendings, x.pc = "delivering", event' = [event EXCEPT ![e] = x],
           x.names = event[e].names, x.kind = event[e].kind, x.fate = event[e].fate,
           UNCHANGED <<channel, owed>>,
           log \subseteq log', log' \subseteq Entry,
           unlogged \subseteq unlogged', unlogged' \subseteq Events \X Names,
           NEW n \in Names,
           took' = took \/ took' = took \cup {<<e, n>>},
           \A m \in Names : (\E ch \in x.todo : ch.name = m) \/ m \in x.built =>
              <<e, m>> \notin took',
           \A m \in Names : Pending(e, m) /\ m # n =>
              (\E ch \in x.todo : ch.name = m) \/ m \in x.built,
           n \in x.built \/ Accounted(e, n)' \/ <<e, n>> \in unlogged' \/ Late(e)
    PROVE  DeliveryTyped' /\ \A d \in Events : Promise(d)'
<1>1. event'[e] = x
    BY DEF DeliveryTyped
<1>2. took \subseteq took' /\ took' \subseteq Events \X Names /\
      \A d \in Events, m \in Names : (d # e \/ m # n) => (<<d, m>> \in took' <=> <<d, m>> \in took)
    BY DEF DeliveryTyped
<1>3. DeliveryTyped'
    <2>1. event' \in [Events -> Sendings]
        BY DEF DeliveryTyped
    <2> QED
        BY <1>2, <2>1 DEF DeliveryTyped
<1>4. ASSUME NEW d \in Events, d # e PROVE Promise(d)'
    <2>1. event'[d] = event[d] /\ owed'[d] = owed[d]
        BY <1>4 DEF DeliveryTyped
    <2> QED
        BY <1>2, <1>4, <2>1, OthersKeep
<1>5. \A m \in Names : Pending(e, m)' <=> (\E ch \in x.todo : ch.name = m) \/ m \in x.built
    BY <1>1 DEF Pending
<1>6. ASSUME NEW m \in Names, m \in owed[e]
      PROVE  Pending(e, m)' \/ Accounted(e, m)' \/ <<e, m>> \in unlogged' \/ Excused(e, m)'
    <2>0. Excused(e, m) => Excused(e, m)'
        BY <1>1 DEF Excused, Late
    <2>1. CASE m = n
        BY <1>5, <2>0, <2>1 DEF Excused
    <2>2. CASE m # n
        <3>1. Pending(e, m) \/ Accounted(e, m) \/ <<e, m>> \in unlogged \/ Excused(e, m)
            BY <1>6 DEF Promise
        <3>2. Accounted(e, m) => Accounted(e, m)'
            BY <1>2, <2>2 DEF Accounted
        <3> QED
            BY <1>5, <2>0, <2>2, <3>1, <3>2
    <2> QED
        BY <2>1, <2>2
<1>7. Promise(e)'
    BY <1>1, <1>5, <1>6 DEF Promise
<1> QED
    BY <1>3, <1>4, <1>7

\* An attempt recorded, or the record refused.
LEMMA RecordGives ==
    ASSUME DeliveryTyped, BudgetTyped, NEW e \in Events, NEW n \in Names,
           NEW status \in {"sent", "failed"}, Record(e, n, status)
    PROVE  /\ BudgetTyped'
           /\ log \subseteq log' /\ log' \subseteq Entry
           /\ unlogged \subseteq unlogged' /\ unlogged' \subseteq Events \X Names
           /\ \/ [event |-> e, channel |-> n, status |-> status] \in log'
              \/ <<e, n>> \in unlogged' \/ Late(e)
<1>1. [event |-> e, channel |-> n, status |-> status] \in Entry
    BY DEF Entry
<1>2. CASE log' = log \cup {[event |-> e, channel |-> n, status |-> status]}
           /\ UNCHANGED <<budget, unlogged>>
    BY <1>1, <1>2 DEF DeliveryTyped, BudgetTyped
<1>3. CASE SpendFault /\ unlogged' = unlogged \cup {<<e, n>>} /\ UNCHANGED log
    BY <1>3, SpendFaultKeeps DEF DeliveryTyped
<1>4. CASE Late(e) /\ UNCHANGED <<log, budget, unlogged>>
    BY <1>4 DEF DeliveryTyped, BudgetTyped
<1> QED
    BY <1>2, <1>3, <1>4 DEF Record

\* A channel built, or failed and recorded.
LEMMA BuildKeeps ==
    ASSUME Inv, NEW e \in Events, Build(e)
    PROVE  Inv'
<1>1. PICK s \in Deliveries :
         /\ s = event[e] /\ s.pc = "delivering"
         /\ s.todo \in Todos /\ s.built \subseteq Names
    BY SendingFields, DeliveryFields DEF Inv, DeliveryTyped, Build
<1>2. PICK ch \in s.todo :
         IF ch.config # None /\ Builds(ch.config) /\ (Late(e) => ch.config \notin Secrets)
         THEN /\ event' = [event EXCEPT ![e].todo = @ \ {ch}, ![e].built = @ \cup {ch.name}]
              /\ UNCHANGED <<log, budget, unlogged>>
         ELSE /\ event' = [event EXCEPT ![e].todo = @ \ {ch}]
              /\ Record(e, ch.name, "failed")
    BY <1>1 DEF Build
<1>3. PICK n \in Names : n = ch.name
    BY <1>1 DEF Todos
<1>4. UNCHANGED settings /\ UNCHANGED <<channel, owed, took>>
    BY DEF Build, settings, rows
<1>5. \A m \in Names : Pending(e, m) => <<e, m>> \notin took
    BY <1>1 DEF Inv, Promise
<1>6. <<e, n>> \notin took
    BY <1>1, <1>3, <1>5 DEF Pending
<1>7. CASE ch.config # None /\ Builds(ch.config) /\ (Late(e) => ch.config \notin Secrets)
    <2>1. PICK x : x = [s EXCEPT !.todo = @ \ {ch}, !.built = @ \cup {n}]
        OBVIOUS
    <2>2. /\ x.pc = "delivering" /\ x.todo = s.todo \ {ch} /\ x.built = s.built \cup {n}
          /\ x \in Sendings /\ x.names = s.names /\ x.kind = s.kind /\ x.fate = s.fate
        <3>1. PICK todo \in Todos : todo = s.todo \ {ch}
            BY <1>1 DEF Todos
        <3>2. PICK built \in SUBSET Names : built = s.built \cup {n}
            BY <1>1
        <3>3. x = [s EXCEPT !.todo = todo, !.built = built]
            BY <2>1, <3>1, <3>2
        <3>4. GoesOnFrom(x, s, todo, built)
            BY <3>3, DeliveryWith
        <3> QED
            BY <3>1, <3>2, <3>4 DEF Sendings, GoesOnFrom
    <2>3. event' = [event EXCEPT ![e] = x]
        BY <1>1, <1>2, <1>3, <1>7, <2>1
    <2>4. UNCHANGED <<log, budget, unlogged>>
        BY <1>2, <1>7
    <2>5. \A m \in Names : (\E k \in x.todo : k.name = m) \/ m \in x.built => <<e, m>> \notin took'
        BY <1>1, <1>3, <1>4, <1>5, <1>6, <2>2 DEF Pending
    <2>6. \A m \in Names : Pending(e, m) /\ m # n => (\E k \in x.todo : k.name = m) \/ m \in x.built
        BY <1>1, <1>3, <2>2 DEF Pending
    <2>7. /\ log \subseteq log' /\ log' \subseteq Entry
          /\ unlogged \subseteq unlogged' /\ unlogged' \subseteq Events \X Names
          /\ event[e].pc = "delivering" /\ took' = took /\ n \in x.built
          /\ x.names = event[e].names /\ x.kind = event[e].kind /\ x.fate = event[e].fate
        BY <1>1, <1>4, <2>2, <2>4 DEF Inv, DeliveryTyped
    <2>8. DeliveryTyped' /\ \A d \in Events : Promise(d)'
        BY <1>4, <2>2, <2>3, <2>5, <2>6, <2>7, DeliveryGoesOn DEF Inv
    <2> QED
        BY <1>4, <2>4, <2>8, SettingsStay DEF Inv, BudgetTyped
<1>8. CASE ~(ch.config # None /\ Builds(ch.config) /\ (Late(e) => ch.config \notin Secrets))
    <2>1. PICK x : x = [s EXCEPT !.todo = @ \ {ch}]
        OBVIOUS
    <2>2. /\ x.pc = "delivering" /\ x.todo = s.todo \ {ch} /\ x.built = s.built
          /\ x \in Sendings /\ x.names = s.names /\ x.kind = s.kind /\ x.fate = s.fate
        <3>1. PICK todo \in Todos : todo = s.todo \ {ch}
            BY <1>1 DEF Todos
        <3>2. x = [s EXCEPT !.todo = todo]
            BY <2>1, <3>1
        <3>3. GoesOnFrom(x, s, todo, s.built)
            <4>1. {} \in SUBSET Names
                OBVIOUS
            <4> QED
                BY <3>2, <4>1, DeliveryWith
        <3> QED
            BY <3>1, <3>3 DEF Sendings, GoesOnFrom
    <2>3. event' = [event EXCEPT ![e] = x]
        BY <1>1, <1>2, <1>8, <2>1
    <2>4. Record(e, n, "failed")
        BY <1>2, <1>3, <1>8
    <2>5. /\ BudgetTyped'
          /\ log \subseteq log' /\ log' \subseteq Entry
          /\ unlogged \subseteq unlogged' /\ unlogged' \subseteq Events \X Names
          /\ \/ [event |-> e, channel |-> n, status |-> "failed"] \in log'
             \/ <<e, n>> \in unlogged' \/ Late(e)
        BY <2>4, RecordGives DEF Inv
    <2>6. Accounted(e, n)' \/ <<e, n>> \in unlogged' \/ Late(e)
        BY <1>4, <1>6, <2>5 DEF Accounted
    <2>7. \A m \in Names : (\E k \in x.todo : k.name = m) \/ m \in x.built => <<e, m>> \notin took'
        BY <1>1, <1>4, <1>5, <2>2 DEF Pending
    <2>8. \A m \in Names : Pending(e, m) /\ m # n => (\E k \in x.todo : k.name = m) \/ m \in x.built
        BY <1>1, <1>3, <2>2 DEF Pending
    <2>9. /\ event[e].pc = "delivering" /\ took' = took
          /\ x.names = event[e].names /\ x.kind = event[e].kind /\ x.fate = event[e].fate
        BY <1>1, <1>4, <2>2
    <2>10. DeliveryTyped' /\ \A d \in Events : Promise(d)'
        BY <1>4, <2>2, <2>3, <2>5, <2>6, <2>7, <2>8, <2>9, DeliveryGoesOn DEF Inv
    <2> QED
        BY <1>4, <2>5, <2>10, SettingsStay DEF Inv
<1> QED
    BY <1>7, <1>8

\* A channel called, and the outcome recorded.
LEMMA DeliverKeeps ==
    ASSUME Inv, NEW e \in Events, Deliver(e)
    PROVE  Inv'
<1>1. PICK s \in Deliveries :
         s = event[e] /\ s.pc = "delivering" /\ s.todo = {} /\ s.built \subseteq Names
    BY SendingFields, DeliveryFields DEF Inv, DeliveryTyped, Deliver
<1>2. PICK n \in s.built :
         /\ event' = [event EXCEPT ![e].built = @ \ {n}]
         /\ \/ took' = took \cup {<<e, n>>} /\ Record(e, n, "sent")
            \/ UNCHANGED took /\ Record(e, n, "failed")
    BY <1>1 DEF Deliver
<1>3. n \in Names
    BY <1>1
<1>4. UNCHANGED settings /\ UNCHANGED <<channel, owed>>
    BY DEF Deliver, settings, rows
<1>5. PICK x : x = [s EXCEPT !.built = @ \ {n}]
    OBVIOUS
<1>6. /\ x.pc = "delivering" /\ x.todo = {} /\ x.built = s.built \ {n} /\ x \in Sendings
      /\ x.names = event[e].names /\ x.kind = event[e].kind /\ x.fate = event[e].fate
    <2>1. PICK built \in SUBSET Names : built = s.built \ {n}
        BY <1>1
    <2>2. s.todo \in Todos /\ x = [s EXCEPT !.built = built]
        BY <1>5, <2>1, DeliveryFields
    <2>3. GoesOnFrom(x, s, s.todo, built)
        BY <2>2, DeliveryWith
    <2> QED
        BY <1>1, <2>1, <2>3 DEF Sendings, GoesOnFrom
<1>7. event' = [event EXCEPT ![e] = x]
    BY <1>1, <1>2, <1>5
<1>8. \A m \in Names : Pending(e, m) => <<e, m>> \notin took
    BY <1>1 DEF Inv, Promise
<1>9. PICK status \in {"sent", "failed"} :
         /\ Record(e, n, status)
         /\ status = "sent" => took' = took \cup {<<e, n>>}
         /\ status = "failed" => took' = took
    BY <1>2
<1>10. /\ BudgetTyped'
       /\ log \subseteq log' /\ log' \subseteq Entry
       /\ unlogged \subseteq unlogged' /\ unlogged' \subseteq Events \X Names
       /\ \/ [event |-> e, channel |-> n, status |-> status] \in log'
          \/ <<e, n>> \in unlogged' \/ Late(e)
    BY <1>3, <1>9, RecordGives DEF Inv
<1>11. took' = took \/ took' = took \cup {<<e, n>>}
    BY <1>9
<1>12. Accounted(e, n)' \/ <<e, n>> \in unlogged' \/ Late(e)
    <2>1. CASE status = "sent"
        BY <1>9, <1>10, <2>1 DEF Accounted
    <2>2. CASE status = "failed"
        <3>1. <<e, n>> \notin took'
            BY <1>1, <1>3, <1>8, <1>9, <2>2 DEF Pending
        <3> QED
            BY <1>10, <2>2, <3>1 DEF Accounted
    <2> QED
        BY <2>1, <2>2
<1>13. \A m \in Names : (\E k \in x.todo : k.name = m) \/ m \in x.built => <<e, m>> \notin took'
    BY <1>1, <1>6, <1>8, <1>11 DEF Pending
<1>14. \A m \in Names : Pending(e, m) /\ m # n => (\E k \in x.todo : k.name = m) \/ m \in x.built
    BY <1>1, <1>6 DEF Pending
<1>15. event[e].pc = "delivering"
    BY <1>1
<1>16. DeliveryTyped' /\ \A d \in Events : Promise(d)'
    BY <1>3, <1>4, <1>6, <1>7, <1>10, <1>11, <1>12, <1>13, <1>14, <1>15, DeliveryGoesOn DEF Inv
<1> QED
    BY <1>4, <1>10, <1>16, SettingsStay DEF Inv

\* A request beside the delivery: whoever still wants the event is owed it under the name
\* the channel has then.
LEMMA SettingsChangeKeeps ==
    ASSUME Inv, SettingsChange
    PROVE  Inv'
<1>1. SettingsInv' /\ BudgetTyped'
    BY ChangeKeeps, ChangeSpends DEF Inv, SettingsChange
<1>2. UNCHANGED <<event, log, took, unlogged>>
    BY DEF SettingsChange
<1>3. \A e \in Events : owed'[e] = IF event[e].pc = "loaded"
                                   THEN StillOwed(owed[e]) ELSE owed[e]
    BY DEF SettingsChange
<1>4. DeliveryTyped'
    <2>0. RowsTyped'
        BY <1>1 DEF SettingsInv
    <2>1. \A e \in Events : owed'[e] \in SUBSET Names
        <3>1. NamesOf(channel', Wanting(channel')) \subseteq Names
            BY <2>0 DEF RowsTyped, NamesOf, Wanting, Has, Channel
        <3>2. \A names : StillOwed(names) \subseteq NamesOf(channel', Wanting(channel'))
            BY DEF StillOwed, NamesOf
        <3> QED
            BY <1>3, <3>1, <3>2 DEF Inv, DeliveryTyped
    <2>2. owed' \in [Events -> SUBSET Names]
        BY <2>1 DEF SettingsChange
    <2> QED
        BY <1>2, <2>2 DEF Inv, DeliveryTyped
<1>5. ASSUME NEW e \in Events PROVE Promise(e)'
    <2>1. Promise(e)
        BY DEF Inv
    <2>2. CASE event[e].pc = "loaded"
        <3>1. owed'[e] \subseteq NamesOf(channel', Wanting(channel'))
            <4>1. owed'[e] = StillOwed(owed[e])
                BY <1>3, <2>2
            <4>2. StillOwed(owed[e]) \subseteq NamesOf(channel', Wanting(channel'))
                BY DEF StillOwed, NamesOf
            <4> QED
                BY <4>1, <4>2
        <3>2. NamesOf(channel', Wanting(channel')) = NamesOf(channel, Wanting(channel))'
            OBVIOUS
        <3> QED
            BY <1>2, <2>1, <2>2, <3>1, <3>2 DEF Promise
    <2>3. CASE event[e].pc # "loaded"
        <3>1. owed'[e] = owed[e]
            BY <1>3, <2>3
        <3>2. \A n \in Names : Pending(e, n)' <=> Pending(e, n)
            BY <1>2 DEF Pending
        <3>3. \A n \in Names : Accounted(e, n)' <=> Accounted(e, n)
            BY <1>2 DEF Accounted
        <3>4. \A n \in Names : Excused(e, n)' <=> Excused(e, n)
            BY <1>2 DEF Excused, Late
        <3> QED
            BY <1>2, <2>1, <2>3, <3>1, <3>2, <3>3, <3>4 DEF Promise
    <2> QED
        BY <2>2, <2>3
<1> QED
    BY <1>1, <1>4, <1>5 DEF Inv

\* An event that is over is one in delivery.
LEMMA PastIsOver == Past \in Sendings /\ Past.pc = "delivering"
<1>1. Past = [pc |-> "delivering", kind |-> "system", names |-> {}, todo |-> {},
              built |-> {}, fate |-> "well"]
    <2>1. PICK call : call = [pc |-> "loaded", kind |-> "system", names |-> {}, todo |-> {},
                              built |-> {}, fate |-> "well"]
        OBVIOUS
    <2>2. Past = [[call EXCEPT !.pc = "delivering"] EXCEPT !.todo = {}]
        BY <2>1 DEF Past, Delivering, Call
    <2>3. [call EXCEPT !.pc = "delivering"]
            = [pc |-> "delivering", kind |-> "system", names |-> {}, todo |-> {},
               built |-> {}, fate |-> "well"]
        BY <2>1
    <2> QED
        BY <2>2, <2>3
<1>2. {} \in Todos /\ {} \in SUBSET Names
    BY DEF Todos
<1>3. Past \in Deliveries
    BY <1>1, <1>2 DEF Deliveries, Kinds
<1> QED
    BY <1>1, <1>3 DEF Sendings

\* Before any request and any event.
LEMMA InitKeeps ==
    ASSUME Init
    PROVE  Inv
<1>0. PICK load \in Loads :
         /\ SettingsInit(load.clients, load.requests)
         /\ event = [e \in Events |-> IF e \in load.events THEN [pc |-> "none"] ELSE Past]
    BY DEF Init
<1>1. SettingsInv
    BY <1>0, SettingsInitKeeps
<1>2. BudgetTyped
    <2>1. load.requests \in 0..MaxRequests
        BY LoadsAssumption
    <2>2. PICK requests \in 0..MaxRequests : requests = load.requests
        BY <2>1
    <2>3. budget = [requests |-> requests, faults |-> MaxFaults]
        BY <1>0, <2>2 DEF SettingsInit
    <2> QED
        BY <2>3, SettingsAssumption DEF BudgetTyped
<1>3. DeliveryTyped
    <2>1. PICK x : x = [pc |-> "none"]
        OBVIOUS
    <2>2. x \in Sendings
        BY <2>1 DEF Sendings
    <2>3. {} \in SUBSET Names
        OBVIOUS
    <2>4. event \in [Events -> Sendings]
        BY <1>0, <2>1, <2>2, PastIsOver
    <2> QED
        BY <2>3, <2>4 DEF Init, DeliveryTyped
<1>4. \A e \in Events : Promise(e)
    <2> SUFFICES ASSUME NEW e \in Events
                 PROVE  Promise(e)
        OBVIOUS
    <2>1. owed[e] = {} /\ took = {}
        BY DEF Init
    <2>2. event[e].pc # "loaded"
        BY <1>0, PastIsOver
    <2> QED
        BY <2>1, <2>2 DEF Promise
<1> QED
    BY <1>1, <1>2, <1>3, <1>4 DEF Inv

\* The invariant holds of every behaviour.
LEMMA Invariance == Spec => []Inv
<1>1. Init => Inv
    BY InitKeeps
<1>2. Inv /\ [Next]_vars => Inv'
    <2> SUFFICES ASSUME Inv, [Next]_vars PROVE Inv'
        OBVIOUS
    <2>1. CASE SettingsChange
        BY <2>1, SettingsChangeKeeps
    <2>2. ASSUME NEW e \in Events,
                 \/ LoadTask(e) \/ BeginSystem(e) \/ TestChannel(e)
                 \/ ListChannels(e) \/ ListChannelsFails(e) \/ TestTimesOut(e)
                 \/ Build(e) \/ Deliver(e)
          PROVE  Inv'
        BY <2>2, LoadTaskKeeps, BeginSystemKeeps, TestChannelKeeps, ListChannelsKeeps,
           ListChannelsFailsKeeps, TestTimesOutKeeps, BuildKeeps, DeliverKeeps
    <2>3. CASE UNCHANGED vars
        <3>1. UNCHANGED settings /\ UNCHANGED budget /\ UNCHANGED <<event, log, owed, took, unlogged>>
            BY <2>3 DEF vars, delivery
        <3>2. UNCHANGED channel
            BY <3>1 DEF settings, rows
        <3>3. DeliveryTyped' /\ BudgetTyped'
            BY <3>1 DEF Inv, DeliveryTyped, BudgetTyped
        <3>4. \A e \in Events : Promise(e)'
            BY <3>1, <3>2, OthersKeep DEF Inv
        <3> QED
            BY <3>1, <3>3, <3>4, SettingsStay DEF Inv
    <2> QED
        BY <2>1, <2>2, <2>3 DEF Next
<1> QED
    BY <1>1, <1>2, PTL DEF Spec

-----------------------------------------------------------------------------
(* The theorems *)

\* The tables, the requests and the delivery keep their types (TypeOK).
THEOREM NotificationsTypes == Spec => []TypeOK
<1>1. Inv => TypeOK
    <2> SUFFICES ASSUME Inv PROVE TypeOK
        OBVIOUS
    <2>1. SettingsTypeOK
        <3>1. \A c \in Clients :
                request[c].pc \in {"idle", "away", "secret unused", "target read", "task checked",
                                   "task named", "channel read", "channel built",
                                   "to delete", "channel unused"}
            BY RequestAt, RequestFields DEF Inv, SettingsInv
        <3> QED
            BY <3>1 DEF Inv, SettingsInv, RowsTyped, BudgetTyped, SettingsTypeOK
    <2>2. ASSUME NEW e \in Events
          PROVE  \/ event[e].pc = "none"
                 \/ /\ event[e].pc \in {"loaded", "delivering"} /\ event[e].kind \in Kinds
                    /\ event[e].fate \in {"well", "unlisted", "late"}
        <3>1. event[e] \in Sendings
            BY DEF Inv, DeliveryTyped
        <3> QED
            BY <3>1, SendingFields, DeliveryFields DEF Kinds
    <2> QED
        BY <2>1, <2>2 DEF Inv, DeliveryTyped, TypeOK
<1> QED
    BY <1>1, Invariance, PTL

\* A task loses a channel only to two requests that overtake each other: the cascade of a
\* rename (UpdateNotifier) leaves no task behind, whatever the request had read.
THEOREM RenamesTakeTasksAlong == Spec => []NoTaskLeftBehind
<1>1. Inv => NoTaskLeftBehind
    BY DEF Inv, SettingsInv
<1> QED
    BY <1>1, Invariance, PTL

\* A task's connection and storage exist, and a mask for a credential is only in rows that
\* were created with one or could not be read when they were edited (taskFromReq,
\* unmaskSecrets, notifierFromReq).
THEOREM RowsStayUsable == Spec => []RowsAreUsable
<1>1. Inv => RowsAreUsable
    BY DEF Inv, SettingsInv
<1> QED
    BY <1>1, Invariance, PTL

\* An event that is over has a true entry in the delivery log for every channel that was
\* to get it, with the exceptions the property names (Send, SendSystem, Test, record).
THEOREM EveryoneIsAccounted == Spec => []WantedIsAccounted
<1>1. Inv => WantedIsAccounted
    <2> SUFFICES ASSUME Inv, NEW e \in Events, Over(e), NEW n \in owed[e]
                 PROVE  Accounted(e, n) \/ <<e, n>> \in unlogged \/ Excused(e, n)
        BY DEF WantedIsAccounted, Excused
    <2>1. n \in Names
        BY DEF Inv, DeliveryTyped
    <2>2. ~Pending(e, n)
        BY DEF Over, Pending
    <2> QED
        BY <2>1, <2>2 DEF Inv, Promise, Over
<1> QED
    BY <1>1, Invariance, PTL

================================================================================
