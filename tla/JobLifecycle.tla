---------------------------- MODULE JobLifecycle ----------------------------
(***************************************************************************)
(* What the durable job table promises to the code that enqueues work,     *)
(* without workers, leases or clocks: a job is queued at most once per key *)
(* at a time, its failed attempts are counted one by one, and an outcome   *)
(* is final until retention removes the row.                               *)
(***************************************************************************)
EXTENDS Naturals

CONSTANTS Jobs, Duplicate(_, _)

VARIABLES state, tries

vars == <<state, tries>>

Init == /\ state = [j \in Jobs |-> "unborn"]
        /\ tries = [j \in Jobs |-> 0]

Enqueue(j) ==
    /\ state[j] = "unborn"
    /\ \A i \in Jobs : Duplicate(i, j) => state[i] # "active"
    /\ state' = [state EXCEPT ![j] = "active"]
    /\ UNCHANGED tries

\* A failed attempt that will be retried; a cancelled job counts none.
CountFailure(j) ==
    /\ state[j] = "active"
    /\ tries' = [tries EXCEPT ![j] = @ + 1]
    /\ UNCHANGED state

Settle(j, outcome) ==
    /\ state[j] = "active"
    /\ state' = [state EXCEPT ![j] = outcome]
    /\ UNCHANGED tries

\* Retention removes settled jobs in batches.
Forget(batch) ==
    /\ \A j \in batch : state[j] \in {"done", "failed"}
    /\ state' = [j \in Jobs |-> IF j \in batch THEN "deleted" ELSE state[j]]
    /\ tries' = [j \in Jobs |-> IF j \in batch THEN 0 ELSE tries[j]]

Next ==
    \/ \E j \in Jobs : Enqueue(j) \/ CountFailure(j)
    \/ \E j \in Jobs, outcome \in {"done", "failed"} : Settle(j, outcome)
    \/ \E batch \in SUBSET Jobs : Forget(batch)

Spec == Init /\ [][Next]_vars
=============================================================================
