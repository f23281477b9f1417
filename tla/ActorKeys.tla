----------------------------- MODULE ActorKeys ------------------------------
(***************************************************************************)
(* The keys of local accounts: created when first needed, rotated by an     *)
(* hourly job with an overlap in which old keys are still published, and    *)
(* used to prove activities that may arrive late.  Time is counted in hours *)
(* of the maintenance schedule.                                             *)
(***************************************************************************)
EXTENDS Naturals, FiniteSets

CONSTANTS
    Owners,     \* local accounts, ordered as the database orders their ids
    Batch,      \* accounts that one run of the job looks at, 50 in the code
    Interval,   \* federation_key_rotation_interval
    Overlap,    \* federation_key_overlap
    Makers,     \* requests that find no key
    LastHour    \* bound on the time

ASSUME ActorKeysAssumption ==
    /\ Owners \subseteq Nat /\ Batch \in Nat \ {0} /\ Interval \in Nat \ {0} /\ Overlap \in Nat \ {0}
    /\ LastHour \in Nat

Algorithms == {"rsa", "ed25519"}

VARIABLES
    hour,
    ring,       \* local_actor_key: [owner, alg, since, expires], expires = 0 while active
    away,       \* suspended accounts
    maker,      \* [owner, alg] a request is generating a key for
    proofs,     \* activities that are on their way: [owner, since, at]
    upkeep,     \* the job: "none", "queued"
    nextRun,    \* actor_key_maintenance_schedule.next_run_at
    announced   \* actor Updates that are queued: [owner, since]

key_vars == <<hour, ring, away, maker, proofs, upkeep, nextRun, announced>>

NoMake == [owner |-> 0, alg |-> "none"]

ActorKeysInit ==
    /\ hour = 0 /\ ring = {} /\ away = {} /\ maker = [m \in Makers |-> NoMake] /\ proofs = {}
    /\ upkeep = "none" /\ nextRun = 0 /\ announced = {}

\* Every value is of its type; an account has one active key per algorithm, as
\* the index says.
ActorKeysTypeOK ==
    /\ hour \in 0..LastHour /\ upkeep \in {"none", "queued"} /\ away \subseteq Owners
    /\ \A k \in ring : k.owner \in Owners /\ k.alg \in Algorithms
    /\ \A k, l \in ring : k.owner = l.owner /\ k.alg = l.alg /\ k.expires = 0 /\ l.expires = 0 => k = l
-----------------------------------------------------------------------------
\* find_local_actor_key, find_active_local_actor_key
ActiveKey(a, alg) == {k \in ring : k.owner = a /\ k.alg = alg /\ k.expires = 0}

\* publishable_local_actor_keys
Publishable(a) == {k \in ring : k.owner = a /\ (k.expires = 0 \/ k.expires > hour)}

\* generate_rsa_actor_key, generate_ed25519_actor_key
GeneratedKey(a, alg) == [owner |-> a, alg |-> alg, since |-> hour, expires |-> 0]

\* ensure_actor_key and ensure_ed25519_actor_key up to the insert
BeginMake(m, a, alg) ==
    /\ maker[m] = NoMake /\ ActiveKey(a, alg) = {}
    /\ maker' = [maker EXCEPT ![m] = [owner |-> a, alg |-> alg]]
    /\ UNCHANGED <<hour, ring, away, proofs, upkeep, nextRun, announced>>

\* create_local_actor_key: the index refuses a second one, and the key that is
\* there is used.
EnsureKey(m) ==
    LET a == maker[m].owner
        alg == maker[m].alg
        stored == IF ActiveKey(a, alg) = {} THEN {GeneratedKey(a, alg)} ELSE ActiveKey(a, alg) IN
    /\ maker[m] # NoMake /\ ring' = ring \cup stored
    /\ maker' = [maker EXCEPT ![m] = NoMake]
    /\ UNCHANGED <<hour, away, proofs, upkeep, nextRun, announced>>

\* prove_local_activity: the proof is made once, before the delivery is queued.
ProveActivity(a) ==
    /\ a \notin away /\ ActiveKey(a, "ed25519") # {}
    /\ proofs' = proofs \cup {[owner |-> k.owner, since |-> k.since, at |-> hour] : k \in ActiveKey(a, "ed25519")}
    /\ UNCHANGED <<hour, ring, away, maker, upkeep, nextRun, announced>>

Suspension(a) ==
    /\ away' = IF a \in away THEN away \ {a} ELSE away \cup {a}
    /\ UNCHANGED <<hour, ring, maker, proofs, upkeep, nextRun, announced>>
-----------------------------------------------------------------------------
(* Maintenance *)

\* enqueue_due_actor_key_maintenance, from actor_key_scheduler_loop
ScheduleUpkeep ==
    /\ nextRun <= hour /\ upkeep = "none" /\ upkeep' = "queued" /\ nextRun' = hour + 1
    /\ UNCHANGED <<hour, ring, away, maker, proofs, announced>>

Unexpired == {k \in ring : k.expires = 0 \/ k.expires > hour}

\* The first accounts in the order of their ids that have a key
Selected ==
    LET holders == {a \in Owners \ away : \E k \in Unexpired : k.owner = a} IN
    {a \in holders : Cardinality({b \in holders : b < a}) < Batch}

Seeded(a) == IF ActiveKey(a, "ed25519") = {} THEN {GeneratedKey(a, "ed25519")} ELSE {}

\* Both keys are old enough.
DueForRotation(a) ==
    \A alg \in Algorithms : ActiveKey(a, alg) # {} /\ \A k \in ActiveKey(a, alg) : k.since + Interval <= hour

\* Mutant: a retiring key is gone with the next maintenance.
Retired_AtOnce(k) == [k EXCEPT !.expires = hour + 1]

Retired(k) == [k EXCEPT !.expires = hour + Overlap]

Due == {a \in Selected : DueForRotation(a)}

Outgoing == {k \in Unexpired : k.owner \in Due /\ k.expires = 0}

\* maintain_actor_keys; enqueue_actor_update_in_transaction
MaintainKeys ==
    /\ upkeep = "queued" /\ upkeep' = "none"
    /\ ring' = (Unexpired \ Outgoing) \cup {Retired(k) : k \in Outgoing} \cup (UNION {Seeded(a) : a \in Selected})
               \cup {GeneratedKey(a, alg) : a \in Due, alg \in Algorithms}
    /\ announced' = announced \cup {[owner |-> a, since |-> hour] : a \in Due}
    /\ UNCHANGED <<hour, away, maker, proofs, nextRun>>

\* An hour does not pass before its maintenance has run.
HourPasses ==
    /\ hour < LastHour /\ upkeep = "none" /\ nextRun > hour /\ hour' = hour + 1
    /\ UNCHANGED <<ring, away, maker, proofs, upkeep, nextRun, announced>>

ActorKeysNext ==
    \/ ScheduleUpkeep \/ MaintainKeys \/ HourPasses
    \/ \E m \in Makers : EnsureKey(m) \/ \E a \in Owners, alg \in Algorithms : BeginMake(m, a, alg)
    \/ \E a \in Owners : ProveActivity(a) \/ Suspension(a)

ActorKeysSpec == ActorKeysInit /\ [][ActorKeysNext]_key_vars
-----------------------------------------------------------------------------
\* A proof that arrives within the overlap finds its key published, whatever
\* rotations and requests ran since; and the key that a rotation brought has
\* been announced.
ProofsFindTheirKey ==
    /\ \A p \in proofs : hour < p.at + Overlap =>
           \E k \in Publishable(p.owner) : k.alg = "ed25519" /\ k.since = p.since
    /\ \A k, l \in ring : k.owner = l.owner /\ k.alg = l.alg /\ l.expires # 0 /\ k.expires = 0 =>
           [owner |-> k.owner, since |-> k.since] \in announced

\* Rotation leaves no proof behind.
ActorKeysSafe == ActorKeysTypeOK /\ ProofsFindTheirKey
=============================================================================
