-------------------------------- MODULE WebPush --------------------------------
(***************************************************************************)
(* Browsers that get notifications: the instance's one pair of signing keys, *)
(* the subscriptions of its users, and broadcasts to them.                  *)
(*                                                                         *)
(* A browser subscribes at its own push service with the public key a daemon *)
(* gave it, and that service takes messages signed with that pair only.  A   *)
(* subscription ends there for good (404 and 410 mean that and nothing else). *)
(* A user signs out of a browser and another signs in: the endpoint stays.   *)
(*                                                                         *)
(* mine is not in the code: whose subscription each browser has to be.       *)
(***************************************************************************)
EXTENDS Integers, FiniteSets

CONSTANTS
    Users, Admins,      \* accounts, and those that hold the role admin
    Endpoints,          \* a browser's subscription at its push service
    Daemons,            \* processes that serve, perhaps at once for a while
    Masters,            \* master keys they may be started with
    Sends,              \* deliveries in progress
    None,
    concurrency,        \* requests of one broadcast at a time
    MaxStarts,          \* bound: starts of a daemon
    MaxSends            \* bound: deliveries begun

ASSUME WebPushAssumption ==
    /\ Admins \subseteq Users
    /\ None \notin Users /\ None \notin [key : Nat, master : Masters]
    /\ concurrency \in Nat \ {0} /\ {MaxStarts, MaxSends} \subseteq Nat

VARIABLES
    user,       \* app_user: "enabled", "disabled" or "none"
    sub,        \* push_subscription: the owner of the row for an endpoint, or None
    browser,    \* the subscription at the push service, and the key it is bound to
    vapid,      \* push_vapid, None before the first start
    daemon,     \* Service: key 0 when push is off
    send,       \* SendTo and Broadcast
    mine,       \* mine[p]: whose browser it is, None once given up or gone
    begun       \* starts and deliveries so far

vars == <<user, sub, browser, vapid, daemon, send, mine, begun>>

Keys == 1..MaxStarts
Row == [endpoint : Endpoints, user : Users]
Quiet == [pc |-> "idle"]
Down == [pc |-> "down"]

TypeOK ==
    /\ user \in [Users -> {"enabled", "disabled", "none"}]
    /\ sub \in [Endpoints -> Users \cup {None}]
    /\ browser \in [Endpoints -> [state : {"new", "alive", "gone"}, key : Keys \cup {0}]]
    /\ vapid \in [key : Keys, master : Masters] \cup {None}
    /\ \A d \in Daemons :
         \/ daemon[d] = Down
         \/ daemon[d] \in [pc : {"offered"}, master : Masters]
         \/ daemon[d] \in [pc : {"up"}, key : Keys \cup {0}]
    /\ \A b \in Sends :
         \/ send[b] \in {Quiet, [pc |-> "sent"], [pc |-> "failed"]}
         \/ /\ send[b].pc = "busy" /\ send[b].by \in Daemons /\ send[b].todo \subseteq Row
            /\ send[b].flight \subseteq [row : Row, answer : {"none", "ok", "gone", "error"}]
            /\ send[b].delivered \in BOOLEAN
    /\ mine \in [Endpoints -> Users \cup {None}]
    /\ begun \in [starts : 0..MaxStarts, sends : 0..MaxSends]

Init ==
    /\ user = [u \in Users |-> "enabled"]
    /\ sub = [p \in Endpoints |-> None]
    /\ browser = [p \in Endpoints |-> [state |-> "new", key |-> 0]]
    /\ vapid = None
    /\ daemon = [d \in Daemons |-> Down]
    /\ send = [b \in Sends |-> Quiet]
    /\ mine = [p \in Endpoints |-> None]
    /\ begun = [starts |-> 0, sends |-> 0]

Up(d) == daemon[d].pc = "up"
Offers(d) == Up(d) /\ daemon[d].key # 0

-----------------------------------------------------------------------------
(* The key pair *)

\* Mutant of OfferKeys: an upsert, as for the other tables.
OfferKeysOver(d) ==
    /\ daemon[d] = Down /\ begun.starts < MaxStarts
    /\ begun' = [begun EXCEPT !.starts = @ + 1]
    /\ \E m \in Masters :
         /\ daemon' = [daemon EXCEPT ![d] = [pc |-> "offered", master |-> m]]
         /\ vapid' = [key |-> begun.starts + 1, master |-> m]
    /\ UNCHANGED <<user, sub, browser, send, mine>>

\* loadKeys of a process that starts: a fresh pair, sealed under the master key, which
\* InitVAPIDKeys stores if there is none.
OfferKeys(d) ==
    /\ daemon[d] = Down /\ begun.starts < MaxStarts
    /\ begun' = [begun EXCEPT !.starts = @ + 1]
    /\ \E m \in Masters :
         /\ daemon' = [daemon EXCEPT ![d] = [pc |-> "offered", master |-> m]]
         /\ vapid' = IF vapid = None THEN [key |-> begun.starts + 1, master |-> m] ELSE vapid
    /\ UNCHANGED <<user, sub, browser, send, mine>>

\* The stored pair is read back and opened; a changed master key leaves push off.
OpenKeys(d) ==
    /\ daemon[d].pc = "offered"
    /\ daemon' = [daemon EXCEPT ![d] =
         [pc |-> "up", key |-> IF vapid.master = daemon[d].master THEN vapid.key ELSE 0]]
    /\ UNCHANGED <<user, sub, browser, vapid, send, mine, begun>>

\* The process ends, and its deliveries with it.
Stop(d) ==
    /\ Up(d)
    /\ daemon' = [daemon EXCEPT ![d] = Down]
    /\ send' = [b \in Sends |-> IF send[b].pc = "busy" /\ send[b].by = d THEN Quiet ELSE send[b]]
    /\ UNCHANGED <<user, sub, browser, vapid, mine, begun>>

-----------------------------------------------------------------------------
(* Accounts and browsers *)

SetDisabled(u) ==
    /\ user[u] # "none"
    /\ user' = [user EXCEPT ![u] = IF @ = "enabled" THEN "disabled" ELSE "enabled"]
    /\ UNCHANGED <<sub, browser, vapid, daemon, send, mine, begun>>

Without(f, u) == [p \in Endpoints |-> IF f[p] = u THEN None ELSE f[p]]

\* The rows of a deleted account go with it.
DeleteUser(u) ==
    /\ user[u] # "none"
    /\ user' = [user EXCEPT ![u] = "none"]
    /\ sub' = Without(sub, u) /\ mine' = Without(mine, u)
    /\ UNCHANGED <<browser, vapid, daemon, send, begun>>

\* The page asks a daemon for the key and the push service for a subscription.
BrowserSubscribes(p) ==
    /\ browser[p].state = "new"
    /\ \E d \in Daemons :
         /\ Offers(d)
         /\ browser' = [browser EXCEPT ![p] = [state |-> "alive", key |-> daemon[d].key]]
    /\ UNCHANGED <<user, sub, vapid, daemon, send, mine, begun>>

\* The user withdraws the permission, or the browser's profile goes.
BrowserRevokes(p) ==
    /\ browser[p].state = "alive"
    /\ browser' = [browser EXCEPT ![p].state = "gone"]
    /\ mine' = [mine EXCEPT ![p] = None]
    /\ UNCHANGED <<user, sub, vapid, daemon, send, begun>>

\* subscribePush; UpsertPushSubscription hands the row of an endpoint over.
SavePushSubscription(u, p) ==
    /\ user[u] = "enabled" /\ browser[p].state # "new"
    /\ \E d \in Daemons : Offers(d)
    /\ sub' = [sub EXCEPT ![p] = u]
    /\ mine' = [mine EXCEPT ![p] = IF browser[p].state = "alive" THEN u ELSE None]
    /\ UNCHANGED <<user, browser, vapid, daemon, send, begun>>

\* unsubscribePush names the endpoint and deletePushSubscription a row: of the caller both.
Unsubscribe(u, p) ==
    /\ user[u] = "enabled" /\ browser[p].state # "new"
    /\ sub' = [sub EXCEPT ![p] = IF @ = u THEN None ELSE @]
    /\ mine' = [mine EXCEPT ![p] = IF @ = u THEN None ELSE @]
    /\ UNCHANGED <<user, browser, vapid, daemon, send, begun>>

-----------------------------------------------------------------------------
(* Delivery *)

Begin(b, d, rows) ==
    /\ Offers(d) /\ send[b].pc # "busy"
    /\ begun.sends < MaxSends /\ begun' = [begun EXCEPT !.sends = @ + 1]
    /\ send' = [send EXCEPT ![b] =
         IF rows = {} THEN [pc |-> "failed"]
         ELSE [pc |-> "busy", by |-> d, todo |-> rows, flight |-> {}, delivered |-> FALSE]]
    /\ UNCHANGED <<user, sub, browser, vapid, daemon, mine>>

\* PushTargets: the rows of enabled accounts, of which Broadcast keeps those of the role.
Broadcast(b, d) ==
    \E audience \in {Users, Admins} :
        Begin(b, d, {[endpoint |-> p, user |-> sub[p]] :
                     p \in {q \in Endpoints : sub[q] \in audience /\ user[sub[q]] = "enabled"}})

\* testPushSubscription: one of the caller's own rows.
TestSubscription(b, d) ==
    \E p \in Endpoints :
        /\ sub[p] # None /\ user[sub[p]] = "enabled"
        /\ Begin(b, d, {[endpoint |-> p, user |-> sub[p]]})

Busy(b) == send[b].pc = "busy"

\* The loop of Broadcast takes a slot before it starts the goroutine.
Spawn(b) ==
    /\ Busy(b) /\ Cardinality(send[b].flight) < concurrency
    /\ \E row \in send[b].todo :
         send' = [send EXCEPT ![b].todo = @ \ {row},
                              ![b].flight = @ \cup {[row |-> row, answer |-> "none"]}]
    /\ UNCHANGED <<user, sub, browser, vapid, daemon, mine, begun>>

\* The push service answers, or sendTimeout passes; an endpoint that is no longer allowed
\* gets no request.
Answers(b, row) ==
    LET x == browser[row.endpoint] IN
    {"error"} \cup (IF x.state = "gone" THEN {"gone"} ELSE {})
              \cup (IF x.state = "alive" /\ x.key = daemon[send[b].by].key THEN {"ok"} ELSE {})

Answer(b) ==
    /\ Busy(b)
    /\ \E f \in send[b].flight :
         /\ f.answer = "none"
         /\ \E a \in Answers(b, f.row) :
              send' = [send EXCEPT ![b].flight = (@ \ {f}) \cup {[f EXCEPT !.answer = a]}]
    /\ UNCHANGED <<user, sub, browser, vapid, daemon, mine, begun>>

\* Mutant of Settle: a browser that could not be reached is dropped too.
SettleDrops(b) ==
    /\ Busy(b)
    /\ \E f \in send[b].flight :
         /\ f.answer # "none"
         /\ send' = [send EXCEPT ![b].flight = @ \ {f}, ![b].delivered = @ \/ f.answer = "ok"]
         /\ sub' = IF f.answer # "ok" THEN [sub EXCEPT ![f.row.endpoint] = None] ELSE sub
    /\ UNCHANGED <<user, browser, vapid, daemon, mine, begun>>

\* Mutant of Settle: the slot of a browser that is gone is not given back.
SettleKeepsSlot(b) ==
    /\ Busy(b)
    /\ \E f \in send[b].flight :
         /\ f.answer \in {"ok", "error"}
         /\ send' = [send EXCEPT ![b].flight = @ \ {f}, ![b].delivered = @ \/ f.answer = "ok"]
    /\ UNCHANGED <<user, sub, browser, vapid, daemon, mine, begun>>

\* The rest of SendTo: a subscription that is gone is deleted whoever owns it, and the
\* slot is given back. The delivery record on the row is left out.
Settle(b) ==
    /\ Busy(b)
    /\ \E f \in send[b].flight :
         /\ f.answer # "none"
         /\ send' = [send EXCEPT ![b].flight = @ \ {f}, ![b].delivered = @ \/ f.answer = "ok"]
         /\ sub' = IF f.answer = "gone" THEN [sub EXCEPT ![f.row.endpoint] = None] ELSE sub
    /\ UNCHANGED <<user, browser, vapid, daemon, mine, begun>>

\* wg.Wait returns: the delivery has reached somebody, or it has failed.
Finish(b) ==
    /\ Busy(b) /\ send[b].todo = {} /\ send[b].flight = {}
    /\ send' = [send EXCEPT ![b] = [pc |-> IF send[b].delivered THEN "sent" ELSE "failed"]]
    /\ UNCHANGED <<user, sub, browser, vapid, daemon, mine, begun>>

Sending(b) == Spawn(b) \/ Answer(b) \/ Settle(b) \/ Finish(b)

Next ==
    \/ \E d \in Daemons : OfferKeys(d) \/ OpenKeys(d) \/ Stop(d)
    \/ \E u \in Users : SetDisabled(u) \/ DeleteUser(u)
    \/ \E p \in Endpoints : BrowserSubscribes(p) \/ BrowserRevokes(p)
    \/ \E u \in Users, p \in Endpoints : SavePushSubscription(u, p) \/ Unsubscribe(u, p)
    \/ \E b \in Sends, d \in Daemons : Broadcast(b, d) \/ TestSubscription(b, d)
    \/ \E b \in Sends : Sending(b)

\* Goroutines of the program run, and the client's timeout bounds every request.
Spec == Init /\ [][Next]_vars /\ \A b \in Sends : WF_vars(Sending(b))

-----------------------------------------------------------------------------

\* Whichever daemon gave a browser its key, every daemon that can sign signs with the pair
\* that key belongs to: two that start on one database at once, one that starts under
\* another master key (InitVAPIDKeys, loadKeys).
EveryDaemonSigns ==
    \A p \in Endpoints, d \in Daemons :
        browser[p].state = "alive" /\ Offers(d) => browser[p].key = daemon[d].key

\* A live browser loses its subscription only to the user whose it is: not to a delivery
\* that failed, to one that was under way when the browser changed hands, nor to the user
\* who had it before (SendTo, DeletePushSubscriptionByEndpoint).
LiveBrowserKept == \A p \in Endpoints : mine[p] # None => sub[p] = mine[p]

\* A delivery ends whatever the browsers answer: the slots of Broadcast come back.
DeliveryEnds == \A b \in Sends : Busy(b) ~> ~Busy(b)
=============================================================================
