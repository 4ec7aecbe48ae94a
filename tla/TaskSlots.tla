------------------------------ MODULE TaskSlots ------------------------------
(***************************************************************************)
(* What the run queue promises, without rows, ids, attempts or the store:   *)
(* every task has one slot.  A slot is filled by a request, taken by one    *)
(* executor, and given back by that executor.  An executor may die, which   *)
(* leaves the slot taken by nobody; such slots are swept up only when no    *)
(* executor is alive at all.  RunQueue implements this specification.       *)
(***************************************************************************)

CONSTANTS
  Tasks,      \* the tasks that have a slot
  Executors   \* the processes that may take a slot

VARIABLES
  slot,       \* slot[t]: "free", "queued" or "running"
  holder      \* holder[t]: the executors working on t's slot

vars == <<slot, holder>>

TypeOK ==
  /\ slot \in [Tasks -> {"free", "queued", "running"}]
  /\ holder \in [Tasks -> SUBSET Executors]

Init ==
  /\ slot = [t \in Tasks |-> "free"]
  /\ holder = [t \in Tasks |-> {}]

Request(t) ==
  /\ slot[t] = "free"
  /\ slot' = [slot EXCEPT ![t] = "queued"]
  /\ UNCHANGED holder

Take(t, e) ==
  /\ slot[t] = "queued"
  /\ \A u \in Tasks : e \notin holder[u]
  /\ slot' = [slot EXCEPT ![t] = "running"]
  /\ holder' = [holder EXCEPT ![t] = {e}]

GiveBack(t, e) ==
  /\ holder[t] = {e}
  /\ slot[t] = "running"
  /\ slot' = [slot EXCEPT ![t] = "free"]
  /\ holder' = [holder EXCEPT ![t] = {}]

\* The executor stops but its last write is lost: the slot stays taken.
Abandon(t, e) ==
  /\ holder[t] = {e}
  /\ holder' = [holder EXCEPT ![t] = {}]
  /\ UNCHANGED slot

\* Every executor dies at once.
Die ==
  /\ holder' = [t \in Tasks |-> {}]
  /\ UNCHANGED slot

\* Nobody is alive: every taken slot is freed.
Reap ==
  /\ \A t \in Tasks : holder[t] = {}
  /\ slot' = [t \in Tasks |-> IF slot[t] = "running" THEN "free" ELSE slot[t]]
  /\ UNCHANGED holder

Next ==
  \/ \E t \in Tasks : Request(t)
  \/ \E t \in Tasks, e \in Executors : Take(t, e) \/ GiveBack(t, e) \/ Abandon(t, e)
  \/ Die
  \/ Reap

Spec == Init /\ [][Next]_vars
=============================================================================
