------------------------------- MODULE Publishing -------------------------------
(***************************************************************************)
(* What a backup run promises, whatever connector, codecs and storage it   *)
(* has: the object under its key is replaced in one step by the run's      *)
(* whole artifact, or not at all.  A run may fail after it has published,  *)
(* when the storage's answer was lost.  A loss of power may take back the  *)
(* last replacements of a key, as long as they have not settled.           *)
(***************************************************************************)
CONSTANTS Runs, Keys, None

VARIABLES
    key,         \* key[r]: the key of run r
    shown,       \* shown[k]: the run whose whole artifact is under k, or None
    published,   \* the runs that replaced the object under their key
    result,      \* result[r]: "none", "ok" or "error"
    unsettled    \* unsettled[k]: what a power loss may bring back under k

vars == <<key, shown, published, result, unsettled>>

Init ==
    /\ key \in [Runs -> Keys]
    /\ shown = [k \in Keys |-> None]
    /\ published = {}
    /\ result = [r \in Runs |-> "none"]
    /\ unsettled = [k \in Keys |-> {}]

Publish(r) ==
    /\ result[r] = "none" /\ r \notin published
    /\ shown' = [shown EXCEPT ![key[r]] = r]
    /\ published' = published \union {r}
    /\ \/ unsettled' = [unsettled EXCEPT ![key[r]] = @ \union {shown[key[r]]}]
       \/ UNCHANGED unsettled
    /\ UNCHANGED <<key, result>>

Succeed(r) ==
    /\ result[r] = "none" /\ r \in published
    /\ result' = [result EXCEPT ![r] = "ok"]
    /\ UNCHANGED <<key, shown, published, unsettled>>

Fails(failed) ==
    /\ failed \subseteq {r \in Runs : result[r] = "none"}
    /\ result' = [r \in Runs |-> IF r \in failed THEN "error" ELSE result[r]]

Fail(r) ==
    /\ Fails({r})
    /\ UNCHANGED <<key, shown, published, unsettled>>

Settle(k) ==
    /\ unsettled' = [unsettled EXCEPT ![k] = {}]
    /\ UNCHANGED <<key, shown, published, result>>

\* Runs fail together when the daemon's host goes down.
PowerLoss ==
    /\ \E failed \in SUBSET Runs : Fails(failed)
    /\ \A k \in Keys : shown'[k] \in {shown[k]} \union unsettled[k]
    /\ shown' = [k \in Keys |-> shown'[k]]
    /\ unsettled' = [k \in Keys |-> {}]
    /\ UNCHANGED <<key, published>>

Next ==
    \/ PowerLoss
    \/ \E k \in Keys : Settle(k)
    \/ \E r \in Runs : Publish(r) \/ Succeed(r) \/ Fail(r)

Spec == Init /\ [][Next]_vars

================================================================================
