----------------------------- MODULE WebPush_proofs -----------------------------
(***************************************************************************)
(* One pair of keys signs for every browser, whatever daemons start at      *)
(* once, and a live browser loses its subscription to its owner only.       *)
(***************************************************************************)
EXTENDS WebPush, TLAPS

-----------------------------------------------------------------------------
(* The invariant *)

Pairs == [key : Keys, master : Masters]
Requests == [row : Row, answer : {"none", "ok", "gone", "error"}]
Browsers == [state : {"new", "alive", "gone"}, key : Keys \cup {0}]

DaemonStates ==
    {Down} \cup [pc : {"offered"}, master : Masters] \cup [pc : {"up"}, key : Keys \cup {0}]

Deliveries ==
    {Quiet} \cup [pc : {"sent", "failed"}]
    \cup [pc : {"busy"}, by : Daemons, todo : SUBSET Row, flight : SUBSET Requests,
          delivered : BOOLEAN]

Typed ==
    /\ user \in [Users -> {"enabled", "disabled", "none"}]
    /\ sub \in [Endpoints -> Users \cup {None}]
    /\ browser \in [Endpoints -> Browsers]
    /\ vapid \in Pairs \cup {None}
    /\ daemon \in [Daemons -> DaemonStates]
    /\ send \in [Sends -> Deliveries]
    /\ mine \in [Endpoints -> Users \cup {None}]
    /\ begun \in [starts : 0..MaxStarts, sends : 0..MaxSends]

\* The stored pair is there before a daemon may sign, a daemon that signs has opened it,
\* and a live browser was given it.
Signed ==
    /\ \A d \in Daemons : daemon[d].pc # "down" => vapid \in Pairs
    /\ \A d \in Daemons : Offers(d) => daemon[d].key = vapid.key
    /\ \A p \in Endpoints :
         browser[p].state = "alive" => vapid \in Pairs /\ browser[p].key = vapid.key

\* Whose a browser is has the row, as long as the browser lives; and an answer that it is
\* gone is true for good.
Owned ==
    /\ \A p \in Endpoints : mine[p] # None => sub[p] = mine[p] /\ browser[p].state = "alive"
    /\ \A b \in Sends : Busy(b) =>
         \A f \in send[b].flight : f.answer = "gone" => browser[f.row.endpoint].state = "gone"

Inv == Typed /\ Signed /\ Owned

-----------------------------------------------------------------------------
(* Lemmas about daemons, browsers and deliveries *)

\* A stored pair is told from no pair.
LEMMA PairsAreThere == None \notin Pairs
<1>1. Keys \subseteq Nat
    BY WebPushAssumption DEF Keys
<1>2. Pairs \subseteq [key : Nat, master : Masters]
    BY <1>1 DEF Pairs
<1> QED
    BY <1>2, WebPushAssumption

\* Where a daemon stands, and what it has there.
LEMMA DaemonFields ==
    ASSUME NEW s \in DaemonStates
    PROVE  /\ s.pc \in {"down", "offered", "up"}
           /\ s.pc = "offered" => s.master \in Masters
           /\ s.pc = "up" => s.key \in Keys \cup {0}
           /\ s = Down => s.pc = "down"
<1>1. CASE s = Down
    BY <1>1 DEF Down
<1>2. CASE s \in [pc : {"offered"}, master : Masters]
    <2>1. s.pc = "offered" /\ s.master \in Masters
        BY <1>2
    <2> QED
        BY <2>1 DEF Down
<1>3. CASE s \in [pc : {"up"}, key : Keys \cup {0}]
    <2>1. s.pc = "up" /\ s.key \in Keys \cup {0}
        BY <1>3
    <2> QED
        BY <2>1 DEF Down
<1> QED
    BY <1>1, <1>2, <1>3 DEF DaemonStates

\* What a delivery under way consists of.
LEMMA BusyFields ==
    ASSUME NEW s \in Deliveries, s.pc = "busy"
    PROVE  /\ s \in [pc : {"busy"}, by : Daemons, todo : SUBSET Row, flight : SUBSET Requests,
                     delivered : BOOLEAN]
           /\ s.by \in Daemons /\ s.todo \subseteq Row /\ s.flight \subseteq Requests
           /\ s.delivered \in BOOLEAN
<1>1. s \notin [pc : {"sent", "failed"}]
    OBVIOUS
<1>2. s # Quiet
    <2>1. Quiet.pc = "idle"
        BY DEF Quiet
    <2> QED
        BY <2>1
<1>3. s \in [pc : {"busy"}, by : Daemons, todo : SUBSET Row, flight : SUBSET Requests,
             delivered : BOOLEAN]
    BY <1>1, <1>2 DEF Deliveries
<1> QED
    BY <1>3

\* Daemons and browsers nobody touches sign with the pair there is.
LEMMA SignedStays ==
    ASSUME Signed, UNCHANGED <<vapid, daemon, browser>>
    PROVE  Signed'
BY DEF Signed, Offers, Up

\* Deliveries that go on under true answers stay right when the rows and browsers stay.
LEMMA OwnedStays ==
    ASSUME Owned, UNCHANGED <<sub, browser, mine>>,
           \A b \in Sends : Busy(b)' =>
              \A f \in send'[b].flight : f.answer = "gone" => browser[f.row.endpoint].state = "gone"
    PROVE  Owned'
BY DEF Owned

\* Answers given stay true as long as no browser that is gone comes back.
LEMMA AnswersStay ==
    ASSUME Typed, Owned, UNCHANGED send,
           \A p \in Endpoints : browser[p].state = "gone" => browser'[p].state = "gone",
           \A p \in Endpoints : mine'[p] # None => sub'[p] = mine'[p] /\ browser'[p].state = "alive"
    PROVE  Owned'
<1>1. ASSUME NEW b \in Sends, Busy(b)', NEW f \in send'[b].flight, f.answer = "gone"
      PROVE  browser'[f.row.endpoint].state = "gone"
    <2>1. Busy(b) /\ f \in send[b].flight
        BY <1>1 DEF Busy
    <2>2. f \in Requests
        BY <2>1, BusyFields DEF Typed, Busy
    <2>3. f.row.endpoint \in Endpoints
        BY <2>2 DEF Requests, Row
    <2> QED
        BY <1>1, <2>1, <2>3 DEF Owned
<1> QED
    BY <1>1 DEF Owned

-----------------------------------------------------------------------------
(* Daemons *)

\* A fresh pair is stored if there is none.
LEMMA OfferKeysKeeps ==
    ASSUME Inv, NEW d \in Daemons, OfferKeys(d)
    PROVE  Inv'
<1>1. PICK m \in Masters :
         /\ daemon' = [daemon EXCEPT ![d] = [pc |-> "offered", master |-> m]]
         /\ vapid' = IF vapid = None THEN [key |-> begun.starts + 1, master |-> m] ELSE vapid
    BY DEF OfferKeys
<1>2. PICK k \in 0..MaxStarts : k = begun.starts /\ k < MaxStarts
    BY DEF Inv, Typed, OfferKeys
<1>3. k + 1 \in 0..MaxStarts /\ k + 1 \in Keys
    BY <1>2, WebPushAssumption DEF Keys
<1>4. begun' \in [starts : 0..MaxStarts, sends : 0..MaxSends]
    <2>1. begun' = [begun EXCEPT !.starts = k + 1]
        BY <1>2 DEF OfferKeys
    <2> QED
        BY <1>3, <2>1 DEF Inv, Typed
<1>5. vapid' \in Pairs /\ (vapid \in Pairs => vapid' = vapid)
    <2>1. CASE vapid = None
        BY <1>1, <1>2, <1>3, <2>1, PairsAreThere DEF Pairs
    <2>2. CASE vapid # None
        BY <1>1, <2>2 DEF Inv, Typed
    <2> QED
        BY <2>1, <2>2
<1>6. PICK s : s = [pc |-> "offered", master |-> m]
    OBVIOUS
<1>7. s \in DaemonStates /\ s.pc = "offered"
    BY <1>6 DEF DaemonStates
<1>8. UNCHANGED <<user, sub, browser, send, mine>>
    BY DEF OfferKeys
<1>9. Typed'
    BY <1>1, <1>4, <1>5, <1>6, <1>7, <1>8 DEF Inv, Typed
<1>10. Owned'
    BY <1>8, AnswersStay DEF Inv, Owned
<1>11. Signed'
    <2>1. \A e \in Daemons : e # d => daemon'[e] = daemon[e]
        BY <1>1 DEF Inv, Typed
    <2>2. daemon'[d].pc = "offered"
        BY <1>1, <1>6, <1>7 DEF Inv, Typed
    <2>3. \A e \in Daemons : Offers(e)' => Offers(e) /\ daemon'[e] = daemon[e]
        BY <2>1, <2>2 DEF Offers, Up
    <2>4. \A e \in Daemons : Offers(e) => vapid \in Pairs
        BY DEF Inv, Signed, Offers, Up
    <2> QED
        BY <1>5, <1>8, <2>3, <2>4 DEF Inv, Signed
<1> QED
    BY <1>9, <1>10, <1>11 DEF Inv

\* The stored pair is opened, or push stays off.
LEMMA OpenKeysKeeps ==
    ASSUME Inv, NEW d \in Daemons, OpenKeys(d)
    PROVE  Inv'
<1>1. vapid \in Pairs
    BY DEF Inv, Signed, OpenKeys
<1>2. PICK k \in Keys \cup {0} : k = IF vapid.master = daemon[d].master THEN vapid.key ELSE 0
    BY <1>1 DEF Pairs
<1>3. PICK s : s = [pc |-> "up", key |-> k]
    OBVIOUS
<1>4. s \in DaemonStates /\ s.pc = "up" /\ s.key = k
    BY <1>3 DEF DaemonStates
<1>5. daemon' = [daemon EXCEPT ![d] = s]
    BY <1>2, <1>3 DEF OpenKeys
<1>6. UNCHANGED <<user, sub, browser, vapid, send, mine, begun>>
    BY DEF OpenKeys
<1>7. Typed'
    BY <1>4, <1>5, <1>6 DEF Inv, Typed
<1>8. Owned'
    BY <1>6, AnswersStay DEF Inv, Owned
<1>9. Signed'
    <2>1. \A e \in Daemons : e # d => daemon'[e] = daemon[e]
        BY <1>5 DEF Inv, Typed
    <2>2. daemon'[d] = s
        BY <1>5 DEF Inv, Typed
    <2>3. Offers(d)' => s.key = vapid.key
        BY <1>2, <1>4, <2>2 DEF Offers
    <2>4. \A e \in Daemons : e # d => (Offers(e)' <=> Offers(e))
        BY <2>1 DEF Offers, Up
    <2> QED
        BY <1>1, <1>6, <2>1, <2>2, <2>3, <2>4 DEF Inv, Signed
<1> QED
    BY <1>7, <1>8, <1>9 DEF Inv

\* A process ends, and its deliveries with it.
LEMMA StopKeeps ==
    ASSUME Inv, NEW d \in Daemons, Stop(d)
    PROVE  Inv'
<1>1. UNCHANGED <<user, sub, browser, vapid, mine, begun>>
    BY DEF Stop
<1>2. Down \in DaemonStates /\ Down.pc = "down"
    BY DEF DaemonStates, Down
<1>3. daemon' \in [Daemons -> DaemonStates] /\ daemon' = [daemon EXCEPT ![d] = Down]
    BY <1>2 DEF Inv, Typed, Stop
<1>4. \A b \in Sends : send'[b] = Quiet \/ send'[b] = send[b]
    BY DEF Stop
<1>5. Quiet \in Deliveries /\ Quiet.pc = "idle"
    BY DEF Deliveries, Quiet
<1>6. send' \in [Sends -> Deliveries]
    <2>1. \A b \in Sends : send'[b] \in Deliveries
        BY <1>4, <1>5 DEF Inv, Typed
    <2> QED
        BY <2>1 DEF Stop
<1>7. Typed'
    BY <1>1, <1>3, <1>6 DEF Inv, Typed
<1>8. Signed'
    <2>1. \A e \in Daemons : daemon'[e] = Down \/ daemon'[e] = daemon[e]
        BY <1>3 DEF Inv, Typed
    <2>2. \A e \in Daemons : Offers(e)' => Offers(e) /\ daemon'[e] = daemon[e]
        BY <1>2, <2>1 DEF Offers, Up
    <2> QED
        BY <1>1, <1>2, <2>1, <2>2 DEF Inv, Signed
<1>9. Owned'
    <2>1. \A b \in Sends : Busy(b)' => Busy(b) /\ send'[b] = send[b]
        BY <1>4, <1>5 DEF Busy
    <2> QED
        BY <1>1, <2>1, OwnedStays DEF Inv, Owned
<1> QED
    BY <1>7, <1>8, <1>9 DEF Inv

-----------------------------------------------------------------------------
(* Accounts and browsers *)

\* An account is disabled or enabled.
LEMMA SetDisabledKeeps ==
    ASSUME Inv, NEW u \in Users, SetDisabled(u)
    PROVE  Inv'
<1>1. UNCHANGED <<sub, browser, vapid, daemon, send, mine, begun>>
    BY DEF SetDisabled
<1>2. user' \in [Users -> {"enabled", "disabled", "none"}]
    BY DEF Inv, Typed, SetDisabled
<1>3. Typed' /\ Signed'
    BY <1>1, <1>2, SignedStays DEF Inv, Typed
<1>4. Owned'
    BY <1>1, AnswersStay DEF Inv, Owned
<1> QED
    BY <1>3, <1>4 DEF Inv

\* An account is deleted, and its rows with it.
LEMMA DeleteUserKeeps ==
    ASSUME Inv, NEW u \in Users, DeleteUser(u)
    PROVE  Inv'
<1>1. UNCHANGED <<browser, vapid, daemon, send, begun>>
    BY DEF DeleteUser
<1>2. user' \in [Users -> {"enabled", "disabled", "none"}]
    BY DEF Inv, Typed, DeleteUser
<1>3. \A p \in Endpoints : sub'[p] = (IF sub[p] = u THEN None ELSE sub[p])
                        /\ mine'[p] = (IF mine[p] = u THEN None ELSE mine[p])
    BY DEF DeleteUser, Without
<1>4. sub' \in [Endpoints -> Users \cup {None}] /\ mine' \in [Endpoints -> Users \cup {None}]
    BY DEF Inv, Typed, DeleteUser, Without
<1>5. Typed' /\ Signed'
    BY <1>1, <1>2, <1>4, SignedStays DEF Inv, Typed
<1>6. Owned'
    BY <1>1, <1>3, AnswersStay DEF Inv, Owned
<1> QED
    BY <1>5, <1>6 DEF Inv

\* A browser subscribes with the key a daemon offers.
LEMMA BrowserSubscribesKeeps ==
    ASSUME Inv, NEW p \in Endpoints, BrowserSubscribes(p)
    PROVE  Inv'
<1>1. PICK d \in Daemons :
         Offers(d) /\ browser' = [browser EXCEPT ![p] = [state |-> "alive", key |-> daemon[d].key]]
    BY DEF BrowserSubscribes
<1>2. PICK k \in Keys \cup {0} : k = daemon[d].key
    BY <1>1, DaemonFields DEF Inv, Typed, Offers, Up
<1>3. vapid \in Pairs /\ k = vapid.key
    BY <1>1, <1>2 DEF Inv, Signed, Offers, Up
<1>4. UNCHANGED <<user, sub, vapid, daemon, send, mine, begun>>
    BY DEF BrowserSubscribes
<1>5. PICK x : x = [state |-> "alive", key |-> k]
    OBVIOUS
<1>6. x \in Browsers /\ x.state = "alive" /\ x.key = k
    BY <1>5 DEF Browsers
<1>7. browser' = [browser EXCEPT ![p] = x]
    BY <1>1, <1>2, <1>5
<1>8. Typed'
    BY <1>4, <1>6, <1>7 DEF Inv, Typed
<1>9. browser'[p] = x /\ \A q \in Endpoints : q # p => browser'[q] = browser[q]
    BY <1>7 DEF Inv, Typed
<1>10. Signed'
    BY <1>3, <1>4, <1>6, <1>9 DEF Inv, Signed, Offers, Up
<1>11. Owned'
    <2>1. \A q \in Endpoints : browser[q].state = "gone" => browser'[q].state = "gone"
        BY <1>9 DEF BrowserSubscribes
    <2>2. \A q \in Endpoints : mine'[q] # None => sub'[q] = mine'[q] /\ browser'[q].state = "alive"
        BY <1>4, <1>6, <1>9 DEF Inv, Owned
    <2> QED
        BY <1>4, <2>1, <2>2, AnswersStay DEF Inv
<1> QED
    BY <1>8, <1>10, <1>11 DEF Inv

\* A browser is gone at its push service.
LEMMA BrowserRevokesKeeps ==
    ASSUME Inv, NEW p \in Endpoints, BrowserRevokes(p)
    PROVE  Inv'
<1>1. UNCHANGED <<user, sub, vapid, daemon, send, begun>>
    BY DEF BrowserRevokes
<1>2. PICK x : x = [browser[p] EXCEPT !.state = "gone"]
    OBVIOUS
<1>3. browser[p] \in Browsers
    BY DEF Inv, Typed
<1>4. x \in Browsers /\ x.state = "gone"
    BY <1>2, <1>3 DEF Browsers
<1>5. browser' = [browser EXCEPT ![p] = x] /\ mine' = [mine EXCEPT ![p] = None]
    BY <1>2 DEF BrowserRevokes
<1>6. Typed'
    BY <1>1, <1>4, <1>5 DEF Inv, Typed
<1>7. /\ browser'[p] = x /\ mine'[p] = None
      /\ \A q \in Endpoints : q # p => browser'[q] = browser[q] /\ mine'[q] = mine[q]
    BY <1>5 DEF Inv, Typed
<1>8. Signed'
    BY <1>1, <1>4, <1>7 DEF Inv, Signed, Offers, Up
<1>9. Owned'
    <2>1. \A q \in Endpoints : browser[q].state = "gone" => browser'[q].state = "gone"
        BY <1>4, <1>7
    <2>2. \A q \in Endpoints : mine'[q] # None => sub'[q] = mine'[q] /\ browser'[q].state = "alive"
        BY <1>1, <1>7 DEF Inv, Owned
    <2> QED
        BY <1>1, <2>1, <2>2, AnswersStay DEF Inv
<1> QED
    BY <1>6, <1>8, <1>9 DEF Inv

\* A row is saved or handed over: the browser is the caller's from now on, if it lives.
LEMMA SavePushSubscriptionKeeps ==
    ASSUME Inv, NEW u \in Users, NEW p \in Endpoints, SavePushSubscription(u, p)
    PROVE  Inv'
<1>1. UNCHANGED <<user, browser, vapid, daemon, send, begun>>
    BY DEF SavePushSubscription
<1>2. PICK o \in Users \cup {None} : o = IF browser[p].state = "alive" THEN u ELSE None
    OBVIOUS
<1>3. sub' = [sub EXCEPT ![p] = u] /\ mine' = [mine EXCEPT ![p] = o]
    BY <1>2 DEF SavePushSubscription
<1>4. Typed' /\ Signed'
    BY <1>1, <1>3, SignedStays DEF Inv, Typed
<1>5. \A q \in Endpoints : mine'[q] # None => sub'[q] = mine'[q] /\ browser'[q].state = "alive"
    BY <1>1, <1>2, <1>3 DEF Inv, Typed, Owned
<1>6. Owned'
    BY <1>1, <1>5, AnswersStay DEF Inv
<1> QED
    BY <1>4, <1>6 DEF Inv

\* A user gives up a browser: only a row of the own goes.
LEMMA UnsubscribeKeeps ==
    ASSUME Inv, NEW u \in Users, NEW p \in Endpoints, Unsubscribe(u, p)
    PROVE  Inv'
<1>1. UNCHANGED <<user, browser, vapid, daemon, send, begun>>
    BY DEF Unsubscribe
<1>2. /\ sub' = [sub EXCEPT ![p] = IF sub[p] = u THEN None ELSE sub[p]]
      /\ mine' = [mine EXCEPT ![p] = IF mine[p] = u THEN None ELSE mine[p]]
    BY DEF Unsubscribe
<1>3. Typed' /\ Signed'
    BY <1>1, <1>2, SignedStays DEF Inv, Typed
<1>4. \A q \in Endpoints : mine'[q] # None => sub'[q] = mine'[q] /\ browser'[q].state = "alive"
    BY <1>1, <1>2 DEF Inv, Typed, Owned
<1>5. Owned'
    BY <1>1, <1>4, AnswersStay DEF Inv
<1> QED
    BY <1>3, <1>5 DEF Inv

-----------------------------------------------------------------------------
(* Deliveries *)

\* One delivery goes on: what else there is stays, and the browsers it calls gone are.
LEMMA DeliveryGoes ==
    ASSUME Inv, NEW b \in Sends, NEW s \in Deliveries, send' = [send EXCEPT ![b] = s],
           UNCHANGED <<user, sub, browser, vapid, daemon, mine>>,
           begun' \in [starts : 0..MaxStarts, sends : 0..MaxSends],
           s.pc = "busy" =>
              \A f \in s.flight : f.answer = "gone" => browser[f.row.endpoint].state = "gone"
    PROVE  Inv'
<1>1. Typed'
    BY DEF Inv, Typed
<1>2. Signed'
    BY SignedStays DEF Inv
<1>3. send'[b] = s /\ \A c \in Sends : c # b => send'[c] = send[c]
    BY DEF Inv, Typed
<1>4. Owned'
    <2>1. ASSUME NEW c \in Sends, Busy(c)'
          PROVE  \A f \in send'[c].flight : f.answer = "gone" => browser[f.row.endpoint].state = "gone"
        <3>1. CASE c = b
            BY <1>3, <2>1, <3>1 DEF Busy
        <3>2. CASE c # b
            BY <1>3, <2>1, <3>2 DEF Busy, Inv, Owned
        <3> QED
            BY <3>1, <3>2
    <2> QED
        BY <2>1, OwnedStays DEF Inv
<1> QED
    BY <1>1, <1>2, <1>4 DEF Inv

\* A delivery begins with rows there are.
LEMMA BeginKeeps ==
    ASSUME Inv, NEW b \in Sends, NEW d \in Daemons, NEW rows \in SUBSET Row, Begin(b, d, rows)
    PROVE  Inv'
<1>1. begun' \in [starts : 0..MaxStarts, sends : 0..MaxSends]
    <2>1. PICK k \in 0..MaxSends : k = begun.sends /\ k < MaxSends
        BY DEF Inv, Typed, Begin
    <2>2. k + 1 \in 0..MaxSends
        BY <2>1, WebPushAssumption
    <2>3. begun' = [begun EXCEPT !.sends = k + 1]
        BY <2>1 DEF Begin
    <2> QED
        BY <2>2, <2>3 DEF Inv, Typed
<1>2. UNCHANGED <<user, sub, browser, vapid, daemon, mine>>
    BY DEF Begin
<1>3. CASE rows = {}
    <2>1. PICK s : s = [pc |-> "failed"]
        OBVIOUS
    <2>2. s \in Deliveries /\ s.pc # "busy"
        BY <2>1 DEF Deliveries
    <2>3. send' = [send EXCEPT ![b] = s]
        BY <1>3, <2>1 DEF Begin
    <2> QED
        BY <1>1, <1>2, <2>2, <2>3, DeliveryGoes
<1>4. CASE rows # {}
    <2>1. PICK s : s = [pc |-> "busy", by |-> d, todo |-> rows, flight |-> {}, delivered |-> FALSE]
        OBVIOUS
    <2>2. s \in Deliveries /\ s.flight = {}
        BY <2>1 DEF Deliveries
    <2>3. send' = [send EXCEPT ![b] = s]
        BY <1>4, <2>1 DEF Begin
    <2> QED
        BY <1>1, <1>2, <2>2, <2>3, DeliveryGoes
<1> QED
    BY <1>3, <1>4

\* A broadcast begins with the rows of enabled accounts.
LEMMA BroadcastKeeps ==
    ASSUME Inv, NEW b \in Sends, NEW d \in Daemons, Broadcast(b, d)
    PROVE  Inv'
<1>1. PICK audience \in {Users, Admins} :
        Begin(b, d, {[endpoint |-> p, user |-> sub[p]] :
                     p \in {q \in Endpoints : sub[q] \in audience /\ user[sub[q]] = "enabled"}})
    BY DEF Broadcast
<1>2. PICK from : from = {q \in Endpoints : sub[q] \in audience /\ user[sub[q]] = "enabled"}
    OBVIOUS
<1>3. \A p \in from : p \in Endpoints /\ sub[p] \in Users
    BY <1>2, WebPushAssumption
<1>4. PICK rows : rows = {[endpoint |-> p, user |-> sub[p]] : p \in from}
    OBVIOUS
<1>5. rows \in SUBSET Row
    <2>1. \A p \in from : [endpoint |-> p, user |-> sub[p]] \in Row
        BY <1>3 DEF Row
    <2> QED
        BY <1>4, <2>1
<1>6. Begin(b, d, rows)
    BY <1>1, <1>2, <1>4
<1> QED
    BY <1>5, <1>6, BeginKeeps

\* A test goes to one of the caller's rows.
LEMMA TestSubscriptionKeeps ==
    ASSUME Inv, NEW b \in Sends, NEW d \in Daemons, TestSubscription(b, d)
    PROVE  Inv'
<1>1. PICK p \in Endpoints : sub[p] # None /\ Begin(b, d, {[endpoint |-> p, user |-> sub[p]]})
    BY DEF TestSubscription
<1>2. [endpoint |-> p, user |-> sub[p]] \in Row
    BY <1>1 DEF Inv, Typed, Row
<1> QED
    BY <1>1, <1>2, BeginKeeps

\* A slot taken.
LEMMA SpawnKeeps ==
    ASSUME Inv, NEW b \in Sends, Spawn(b)
    PROVE  Inv'
<1>1. PICK row \in send[b].todo :
         send' = [send EXCEPT ![b].todo = @ \ {row},
                              ![b].flight = @ \cup {[row |-> row, answer |-> "none"]}]
    BY DEF Spawn
<1>2. PICK s \in Deliveries :
         /\ s = send[b] /\ s.pc = "busy"
         /\ s \in [pc : {"busy"}, by : Daemons, todo : SUBSET Row, flight : SUBSET Requests,
                   delivered : BOOLEAN]
    BY BusyFields DEF Inv, Typed, Spawn, Busy
<1>3. row \in Row
    BY <1>1, <1>2
<1>4. PICK r : r = [row |-> row, answer |-> "none"]
    OBVIOUS
<1>5. r \in Requests /\ r.answer = "none"
    BY <1>3, <1>4 DEF Requests
<1>6. PICK t : t = [s EXCEPT !.todo = @ \ {row}, !.flight = @ \cup {r}]
    OBVIOUS
<1>7. t \in Deliveries /\ t.flight = s.flight \cup {r}
    <2>1. t \in [pc : {"busy"}, by : Daemons, todo : SUBSET Row, flight : SUBSET Requests,
                 delivered : BOOLEAN]
        BY <1>2, <1>5, <1>6
    <2>2. t.flight = s.flight \cup {r}
        BY <1>2, <1>6
    <2> QED
        BY <2>1, <2>2 DEF Deliveries
<1>8. send' = [send EXCEPT ![b] = t]
    BY <1>1, <1>2, <1>4, <1>6
<1>9. \A f \in t.flight : f.answer = "gone" => browser[f.row.endpoint].state = "gone"
    BY <1>2, <1>5, <1>7 DEF Inv, Owned, Busy
<1>10. /\ UNCHANGED <<user, sub, browser, vapid, daemon, mine>>
       /\ begun' \in [starts : 0..MaxStarts, sends : 0..MaxSends]
    BY DEF Spawn, Inv, Typed
<1> QED
    BY <1>7, <1>8, <1>9, <1>10, DeliveryGoes

\* The push service answers: that a browser is gone, only if it is.
LEMMA AnswerKeeps ==
    ASSUME Inv, NEW b \in Sends, Answer(b)
    PROVE  Inv'
<1>1. PICK f \in send[b].flight : \E a \in Answers(b, f.row) :
         send' = [send EXCEPT ![b].flight = (@ \ {f}) \cup {[f EXCEPT !.answer = a]}]
    BY DEF Answer
<1>2. PICK a \in Answers(b, f.row) :
         send' = [send EXCEPT ![b].flight = (@ \ {f}) \cup {[f EXCEPT !.answer = a]}]
    BY <1>1
<1>3. PICK s \in Deliveries :
         /\ s = send[b] /\ s.pc = "busy"
         /\ s \in [pc : {"busy"}, by : Daemons, todo : SUBSET Row, flight : SUBSET Requests,
                   delivered : BOOLEAN]
    BY BusyFields DEF Inv, Typed, Answer, Busy
<1>4. f \in Requests
    BY <1>1, <1>3
<1>5. a \in {"error", "gone", "ok"} /\ (a = "gone" => browser[f.row.endpoint].state = "gone")
    BY <1>2 DEF Answers
<1>6. PICK r : r = [f EXCEPT !.answer = a]
    OBVIOUS
<1>7. r \in Requests /\ r.answer = a /\ r.row = f.row
    BY <1>4, <1>5, <1>6 DEF Requests
<1>8. PICK t : t = [s EXCEPT !.flight = (@ \ {f}) \cup {r}]
    OBVIOUS
<1>9. t \in Deliveries /\ t.flight = (s.flight \ {f}) \cup {r}
    <2>1. t \in [pc : {"busy"}, by : Daemons, todo : SUBSET Row, flight : SUBSET Requests,
                 delivered : BOOLEAN]
        BY <1>3, <1>7, <1>8
    <2>2. t.flight = (s.flight \ {f}) \cup {r}
        BY <1>3, <1>8
    <2> QED
        BY <2>1, <2>2 DEF Deliveries
<1>10. send' = [send EXCEPT ![b] = t]
    BY <1>2, <1>3, <1>6, <1>8
<1>11. \A g \in t.flight : g.answer = "gone" => browser[g.row.endpoint].state = "gone"
    BY <1>3, <1>5, <1>7, <1>9 DEF Inv, Owned, Busy
<1>12. /\ UNCHANGED <<user, sub, browser, vapid, daemon, mine>>
       /\ begun' \in [starts : 0..MaxStarts, sends : 0..MaxSends]
    BY DEF Answer, Inv, Typed
<1> QED
    BY <1>9, <1>10, <1>11, <1>12, DeliveryGoes

\* A slot given back, and the row of a browser that is gone deleted whoever has it by now.
LEMMA SettleKeeps ==
    ASSUME Inv, NEW b \in Sends, Settle(b)
    PROVE  Inv'
<1>1. PICK f \in send[b].flight :
         /\ send' = [send EXCEPT ![b].flight = @ \ {f}, ![b].delivered = @ \/ f.answer = "ok"]
         /\ sub' = IF f.answer = "gone" THEN [sub EXCEPT ![f.row.endpoint] = None] ELSE sub
    BY DEF Settle
<1>2. PICK s \in Deliveries :
         /\ s = send[b] /\ s.pc = "busy"
         /\ s \in [pc : {"busy"}, by : Daemons, todo : SUBSET Row, flight : SUBSET Requests,
                   delivered : BOOLEAN]
    BY BusyFields DEF Inv, Typed, Settle, Busy
<1>3. PICK p \in Endpoints : p = f.row.endpoint
    BY <1>1, <1>2 DEF Requests, Row
<1>4. PICK some \in BOOLEAN : some = (s.delivered \/ f.answer = "ok")
    OBVIOUS
<1>5. PICK t : t = [s EXCEPT !.flight = @ \ {f}, !.delivered = some]
    OBVIOUS
<1>6. t \in Deliveries /\ t.flight = s.flight \ {f}
    <2>1. t \in [pc : {"busy"}, by : Daemons, todo : SUBSET Row, flight : SUBSET Requests,
                 delivered : BOOLEAN]
        BY <1>2, <1>4, <1>5
    <2>2. t.flight = s.flight \ {f}
        BY <1>2, <1>5
    <2> QED
        BY <2>1, <2>2 DEF Deliveries
<1>7. send' = [send EXCEPT ![b] = t]
    BY <1>1, <1>2, <1>4, <1>5
<1>8. UNCHANGED <<user, browser, vapid, daemon, mine, begun>>
    BY DEF Settle
<1>9. sub' \in [Endpoints -> Users \cup {None}]
    BY <1>1, <1>3 DEF Inv, Typed
<1>10. Typed' /\ Signed'
    BY <1>6, <1>7, <1>8, <1>9, SignedStays DEF Inv, Typed
<1>11. \A q \in Endpoints : mine[q] # None => sub'[q] = sub[q]
    <2>1. CASE f.answer = "gone"
        <3>1. browser[p].state = "gone"
            BY <1>1, <1>2, <1>3, <2>1 DEF Inv, Owned, Busy
        <3>2. mine[p] = None
            BY <3>1 DEF Inv, Owned
        <3> QED
            BY <1>1, <1>3, <2>1, <3>2 DEF Inv, Typed
    <2>2. CASE f.answer # "gone"
        BY <1>1, <2>2
    <2> QED
        BY <2>1, <2>2
<1>12. Owned'
    <2>1. send'[b] = t /\ \A c \in Sends : c # b => send'[c] = send[c]
        BY <1>7 DEF Inv, Typed
    <2>2. ASSUME NEW c \in Sends, Busy(c)'
          PROVE  Busy(c) /\ send'[c].flight \subseteq send[c].flight
        BY <1>2, <1>6, <2>1, <2>2 DEF Busy
    <2> QED
        BY <1>8, <1>11, <2>2 DEF Inv, Owned
<1> QED
    BY <1>10, <1>12 DEF Inv

\* A delivery ends.
LEMMA FinishKeeps ==
    ASSUME Inv, NEW b \in Sends, Finish(b)
    PROVE  Inv'
<1>1. PICK s : s = [pc |-> IF send[b].delivered THEN "sent" ELSE "failed"]
    OBVIOUS
<1>2. s \in Deliveries /\ s.pc # "busy"
    BY <1>1 DEF Deliveries
<1>3. send' = [send EXCEPT ![b] = s]
    BY <1>1 DEF Finish
<1>4. /\ UNCHANGED <<user, sub, browser, vapid, daemon, mine>>
      /\ begun' \in [starts : 0..MaxStarts, sends : 0..MaxSends]
    BY DEF Finish, Inv, Typed
<1> QED
    BY <1>2, <1>3, <1>4, DeliveryGoes

-----------------------------------------------------------------------------
(* The theorems *)

\* Before the first start.
LEMMA InitKeeps ==
    ASSUME Init
    PROVE  Inv
<1>1. Down \in DaemonStates /\ Down.pc = "down"
    BY DEF DaemonStates, Down
<1>2. Quiet \in Deliveries /\ Quiet.pc = "idle"
    BY DEF Deliveries, Quiet
<1>3. [state |-> "new", key |-> 0] \in Browsers
    BY DEF Browsers
<1>4. [starts |-> 0, sends |-> 0] \in [starts : 0..MaxStarts, sends : 0..MaxSends]
    BY WebPushAssumption
<1>5. Typed
    BY <1>1, <1>2, <1>3, <1>4 DEF Init, Typed
<1>6. Signed
    BY <1>1 DEF Init, Signed, Offers, Up
<1>7. Owned
    BY <1>2 DEF Init, Owned, Busy
<1> QED
    BY <1>5, <1>6, <1>7 DEF Inv

\* The invariant holds of every behaviour.
LEMMA Invariance == Spec => []Inv
<1>1. Init => Inv
    BY InitKeeps
<1>2. Inv /\ [Next]_vars => Inv'
    <2> SUFFICES ASSUME Inv, [Next]_vars PROVE Inv'
        OBVIOUS
    <2>1. ASSUME NEW d \in Daemons, OfferKeys(d) \/ OpenKeys(d) \/ Stop(d)
          PROVE  Inv'
        BY <2>1, OfferKeysKeeps, OpenKeysKeeps, StopKeeps
    <2>2. ASSUME NEW u \in Users, SetDisabled(u) \/ DeleteUser(u)
          PROVE  Inv'
        BY <2>2, SetDisabledKeeps, DeleteUserKeeps
    <2>3. ASSUME NEW p \in Endpoints, BrowserSubscribes(p) \/ BrowserRevokes(p)
          PROVE  Inv'
        BY <2>3, BrowserSubscribesKeeps, BrowserRevokesKeeps
    <2>4. ASSUME NEW u \in Users, NEW p \in Endpoints,
                 SavePushSubscription(u, p) \/ Unsubscribe(u, p)
          PROVE  Inv'
        BY <2>4, SavePushSubscriptionKeeps, UnsubscribeKeeps
    <2>5. ASSUME NEW b \in Sends, NEW d \in Daemons, Broadcast(b, d) \/ TestSubscription(b, d)
          PROVE  Inv'
        BY <2>5, BroadcastKeeps, TestSubscriptionKeeps
    <2>6. ASSUME NEW b \in Sends, Sending(b)
          PROVE  Inv'
        BY <2>6, SpawnKeeps, AnswerKeeps, SettleKeeps, FinishKeeps DEF Sending
    <2>7. CASE UNCHANGED vars
        <3>1. UNCHANGED <<user, sub, browser, vapid, daemon, send, mine, begun>>
            BY <2>7 DEF vars
        <3>2. Typed' /\ Signed'
            BY <3>1, SignedStays DEF Inv, Typed
        <3>3. Owned'
            BY <3>1, AnswersStay DEF Inv, Owned
        <3> QED
            BY <3>2, <3>3 DEF Inv
    <2> QED
        BY <2>1, <2>2, <2>3, <2>4, <2>5, <2>6, <2>7 DEF Next
<1> QED
    BY <1>1, <1>2, PTL DEF Spec

\* Accounts, rows, browsers, daemons and deliveries keep their types (TypeOK).
THEOREM WebPushTypes == Spec => []TypeOK
<1>1. Inv => TypeOK
    <2> SUFFICES ASSUME Inv PROVE TypeOK
        OBVIOUS
    <2>1. ASSUME NEW d \in Daemons
          PROVE  \/ daemon[d] = Down
                 \/ daemon[d] \in [pc : {"offered"}, master : Masters]
                 \/ daemon[d] \in [pc : {"up"}, key : Keys \cup {0}]
        BY DEF Inv, Typed, DaemonStates
    <2>2. ASSUME NEW b \in Sends
          PROVE  \/ send[b] \in {Quiet, [pc |-> "sent"], [pc |-> "failed"]}
                 \/ /\ send[b].pc = "busy" /\ send[b].by \in Daemons /\ send[b].todo \subseteq Row
                    /\ send[b].flight \subseteq [row : Row, answer : {"none", "ok", "gone", "error"}]
                    /\ send[b].delivered \in BOOLEAN
        <3>1. send[b] \in Deliveries
            BY DEF Inv, Typed
        <3>2. CASE send[b].pc = "busy"
            BY <3>1, <3>2, BusyFields DEF Requests
        <3>3. CASE send[b].pc # "busy"
            <4>1. send[b] = Quiet \/ send[b] \in [pc : {"sent", "failed"}]
                BY <3>1, <3>3 DEF Deliveries
            <4>2. \A x \in [pc : {"sent", "failed"}] : x \in {[pc |-> "sent"], [pc |-> "failed"]}
                OBVIOUS
            <4> QED
                BY <4>1, <4>2
        <3> QED
            BY <3>2, <3>3
    <2> QED
        BY <2>1, <2>2 DEF Inv, Typed, TypeOK, Browsers, Pairs
<1> QED
    BY <1>1, Invariance, PTL DEF Spec

\* Every daemon that can sign signs with the pair a live browser was given, whatever
\* daemons start on one database at once or under another master key (InitVAPIDKeys,
\* loadKeys).
THEOREM OnePairSigns == Spec => []EveryDaemonSigns
<1>1. Inv => EveryDaemonSigns
    BY DEF Inv, Signed, EveryDaemonSigns
<1> QED
    BY <1>1, Invariance, PTL DEF Spec

\* A live browser loses its row only to the user whose it is, whatever deliveries are under
\* way while it changes hands (SendTo, DeletePushSubscriptionByEndpoint).
THEOREM OwnersKeepBrowsers == Spec => []LiveBrowserKept
<1>1. Inv => LiveBrowserKept
    BY DEF Inv, Owned, LiveBrowserKept
<1> QED
    BY <1>1, Invariance, PTL DEF Spec

================================================================================
