------------------------- MODULE AuthenticationProofs -------------------------
(***************************************************************************)
(* Proofs about the authentication of deliveries, for any remote actors,    *)
(* keys, names, lookups and deliveries and any clock skew, and about the    *)
(* rotation of the keys of local accounts, for any intervals.               *)
(***************************************************************************)
EXTENDS Authentication, ActorKeys, TLAPS

(* The cache of remote actors *)

Stages == {"idle", "sender", "signer", "fetched", "checked", "rekeyed", "verify", "proved", "done"}
Returns == {"done", "sender", "rekeyed", "proved"}

TaskRecord == [stage : Stages, then : Returns, actor : Actors \cup {Absent}, name : Names \cup {Absent}, keys : SUBSET KeyIds,
               valid : BOOLEAN, conflict : BOOLEAN, lock : Names \cup {Absent}]
DeliveryRecord == [actor : Actors \cup {Absent}, key : KeyIds \cup {Absent}, proof : KeyIds \cup {Absent},
                   signer : Actors \cup {Absent}, banned : BOOLEAN, outcome : {"none", "accepted", "refused"}]

Lists == SUBSET (KeyIds \X (Actors \cup {Absent}))

\* The full types
ActorsTyped ==
    /\ document \in [Actors -> [name : Names, keys : Lists]] /\ finger \in [Names -> Actors]
    /\ cached \in [Actors -> [row : BOOLEAN, name : Names \cup {Absent}, invalid : BOOLEAN, fresh : BOOLEAN]]
    /\ vouched \in [Actors -> SUBSET KeyIds]
    /\ keyOwner \in [KeyIds -> Actors \cup {Absent}] /\ banned \in BOOLEAN
    /\ task \in [Tasks -> TaskRecord] /\ delivery \in [Deliveries -> DeliveryRecord]

\* What an actor's document gives as the actor's own is on record.
DocumentIsVouched ==
    \A a \in Actors : \A l \in document[a].keys : GivesAsOwn(a, l) => l[1] \in vouched[a]

\* The table of keys names nobody who has not given the key as their own.
OwnerHasVouched == \A k \in KeyIds : keyOwner[k] # Absent => k \in vouched[keyOwner[k]]

\* A document on its way to the table was checked: all its keys are the actor's.
FetchedIsVouched ==
    \A p \in Tasks : task[p].stage \in {"fetched", "checked"} =>
        task[p].actor \in Actors /\ task[p].keys \subseteq vouched[task[p].actor]

\* A delivery under way names an actor and a key, and the signer that was found
\* has given the key as their own.
SignerHasVouched ==
    \A q \in Deliveries :
        /\ task[q].stage # "idle" => delivery[q].actor \in Actors /\ delivery[q].key \in KeyIds
        /\ task[q].stage = "verify" => delivery[q].signer \in Actors /\ delivery[q].key \in vouched[delivery[q].signer]

\* So does one that was accepted.
AcceptedHasActor == \A q \in Deliveries : delivery[q].outcome = "accepted" => delivery[q].actor \in Actors

\* The inductive invariant behind RemoteActorsSafe
ActorsInv ==
    /\ ActorsTyped /\ DocumentIsVouched /\ OwnerHasVouched /\ FetchedIsVouched /\ SignerHasVouched
    /\ AcceptedHasActor /\ SenderIsProved

\* The end of a task, or of a part of it that goes on at another stage
LEMMA FinishIsTyped ==
    ASSUME ActorsInv, NEW p \in Tasks, NEW stage \in Stages \ {"fetched", "checked"}, Finish(p, stage), vouched' = vouched
    PROVE  /\ task' \in [Tasks -> TaskRecord] /\ FetchedIsVouched'
           /\ task'[p].stage = stage /\ \A q \in Tasks \ {p} : task'[q] = task[q]
<1>1. [IdleTask EXCEPT !.stage = stage] \in TaskRecord /\ [IdleTask EXCEPT !.stage = stage].stage = stage
  BY DEF IdleTask, TaskRecord, Stages, Returns
<1>2. /\ task' \in [Tasks -> TaskRecord] /\ task'[p].stage = stage
      /\ \A q \in Tasks \ {p} : task'[q] = task[q]
  BY <1>1 DEF Finish, ActorsInv, ActorsTyped
<1>3. FetchedIsVouched'
  BY <1>2 DEF FetchedIsVouched, ActorsInv
<1> QED BY <1>2, <1>3

\* A document is fetched for the store only with keys that are the actor's.
LEMMA FetchedIsTyped ==
    ASSUME ActorsInv, NEW p \in Tasks, NEW a \in Actors, NEW valid \in BOOLEAN, NEW then \in Returns,
           NEW lock \in Names \cup {Absent}, UsableKeys(a), Fetched(p, a, valid, then, lock),
           vouched' = vouched
    PROVE  /\ task' \in [Tasks -> TaskRecord] /\ FetchedIsVouched'
           /\ task'[p].stage = "fetched" /\ \A q \in Tasks \ {p} : task'[q] = task[q]
<1> DEFINE new == [IdleTask EXCEPT !.stage = "fetched", !.then = then, !.actor = a, !.name = document[a].name,
                                   !.keys = {l[1] : l \in document[a].keys}, !.valid = valid, !.lock = lock]
<1>5. {l[1] : l \in document[a].keys} \in SUBSET KeyIds
  <2>1. document[a].keys \in SUBSET (KeyIds \X (Actors \cup {Absent}))
    BY DEF ActorsInv, ActorsTyped, Lists
  <2> QED BY <2>1
<1>1. /\ new \in TaskRecord /\ new.stage = "fetched" /\ new.actor = a /\ new.keys = {l[1] : l \in document[a].keys}
  <2>1. document[a].name \in Names
    BY DEF ActorsInv, ActorsTyped
  <2>2. ASSUME NEW ks \in SUBSET KeyIds
        PROVE  LET made == [IdleTask EXCEPT !.stage = "fetched", !.then = then, !.actor = a, !.name = document[a].name,
                                            !.keys = ks, !.valid = valid, !.lock = lock]
               IN  made \in TaskRecord /\ made.stage = "fetched" /\ made.actor = a /\ made.keys = ks
    BY <2>1, <2>2 DEF IdleTask, TaskRecord, Stages, Returns
  <2> QED BY <1>5, <2>2
<1>2. task' = [task EXCEPT ![p] = new]
  BY DEF Fetched
<1> HIDE DEF new
<1>3. /\ task' \in [Tasks -> TaskRecord] /\ task'[p] = new
      /\ \A q \in Tasks \ {p} : task'[q] = task[q]
  BY <1>1, <1>2 DEF ActorsInv, ActorsTyped
<1>4. FetchedIsVouched'
  <2>1. \A l \in document[a].keys : l[1] \in vouched[a]
    BY DEF ActorsInv, DocumentIsVouched, UsableKeys, OwnerWritten, GivesAsOwn
  <2> QED BY <1>1, <1>3, <2>1 DEF FetchedIsVouched, ActorsInv
<1> QED BY <1>1, <1>3, <1>4

\* A fetch by id ends in a checked document or goes on without one.
LEMMA FetchByIdIsTyped ==
    ASSUME ActorsInv, NEW p \in Tasks, NEW a \in Actors, NEW then \in Returns, FetchById(p, a, then), vouched' = vouched
    PROVE  /\ task' \in [Tasks -> TaskRecord] /\ FetchedIsVouched'
           /\ task'[p].stage \in {"fetched", then} /\ \A q \in Tasks \ {p} : task'[q] = task[q]
<1> DEFINE valid == (cached[a].row /\ ~ cached[a].invalid /\ cached[a].name = document[a].name) \/ Confirms(document[a].name, a)
<1>1. valid \in BOOLEAN
  OBVIOUS
<1>2. CASE Reachable /\ UsableKeys(a)
  <2>1. Fetched(p, a, valid, then, Absent)
    BY <1>2 DEF FetchById
  <2> HIDE DEF valid
  <2> QED BY <1>1, <1>2, <2>1, FetchedIsTyped
<1>3. CASE ~ (Reachable /\ UsableKeys(a))
  BY <1>3, FinishIsTyped DEF FetchById, Stages, Returns
<1> QED BY <1>2, <1>3

\* Documents, handles and the age of a row are the world's; a suspension and an
\* expiry touch no key.
LEMMA WorldPreserves ==
    ASSUME ActorsInv,
           \/ SuspendDomain
           \/ \E a \in Actors : ActorExpires(a) \/ (\E ks \in KeyLists : ChangeDocument(a, ks)) \/ \E n \in Names : Reassign(n, a)
    PROVE  ActorsInv'
<1>1. keyOwner' = keyOwner /\ task' = task /\ delivery' = delivery
  BY DEF SuspendDomain, ActorExpires, ChangeDocument, Reassign
<1>2. ActorsTyped'
  <2> USE <1>1 DEF ActorsInv, ActorsTyped
  <2>1. CASE SuspendDomain
    BY <2>1 DEF SuspendDomain
  <2>2. CASE \E a \in Actors : ActorExpires(a)
    <3>1. PICK a \in Actors : /\ cached' = [cached EXCEPT ![a] = [cached[a] EXCEPT !.fresh = FALSE]]
                              /\ UNCHANGED <<document, finger, banned, vouched>>
      BY <2>2 DEF ActorExpires
    <3>2. [cached[a] EXCEPT !.fresh = FALSE] \in [row : BOOLEAN, name : Names \cup {Absent}, invalid : BOOLEAN, fresh : BOOLEAN]
      OBVIOUS
    <3> QED BY <3>1, <3>2
  <2>3. CASE \E a \in Actors : \E ks \in KeyLists : ChangeDocument(a, ks)
    <3>1. PICK a \in Actors, ks \in KeyLists : /\ document' = [document EXCEPT ![a] = [document[a] EXCEPT !.keys = ks]]
                                              /\ vouched' = [vouched EXCEPT ![a] = @ \cup {l[1] : l \in {l \in ks : GivesAsOwn(a, l)}}]
                                              /\ UNCHANGED <<finger, cached, banned>>
      BY <2>3 DEF ChangeDocument
    <3>2. ks \in Lists
      BY RemoteActorsAssumption DEF Lists
    <3>3. [document[a] EXCEPT !.keys = ks] \in [name : Names, keys : Lists]
      BY <3>2
    <3>4. {l[1] : l \in {l \in ks : GivesAsOwn(a, l)}} \subseteq KeyIds
      BY <3>2 DEF Lists
    <3> QED BY <3>1, <3>3, <3>4
  <2>4. CASE \E a \in Actors : \E n \in Names : Reassign(n, a)
    BY <2>4 DEF Reassign
  <2> QED BY <2>1, <2>2, <2>3, <2>4
<1>3. /\ \A a \in Actors : vouched[a] \subseteq vouched'[a]
      /\ DocumentIsVouched'
  <2>1. CASE UNCHANGED <<document, vouched>>
    BY <2>1 DEF ActorsInv, DocumentIsVouched
  <2>2. CASE \E a \in Actors : \E ks \in KeyLists : ChangeDocument(a, ks)
    <3>1. PICK a \in Actors, ks \in KeyLists : ChangeDocument(a, ks)
      BY <2>2
    <3>2. /\ document'[a].keys = ks /\ vouched'[a] = vouched[a] \cup {l[1] : l \in {l \in ks : GivesAsOwn(a, l)}}
          /\ \A b \in Actors \ {a} : document'[b] = document[b] /\ vouched'[b] = vouched[b]
      BY <3>1 DEF ChangeDocument, ActorsInv, ActorsTyped
    <3>3. \A l \in ks : GivesAsOwn(a, l) => l[1] \in vouched'[a]
      BY <3>2
    <3> QED BY <3>2, <3>3 DEF ActorsInv, DocumentIsVouched, GivesAsOwn
  <2> QED BY <2>1, <2>2 DEF SuspendDomain, ActorExpires, Reassign
<1>4. OwnerHasVouched' /\ FetchedIsVouched' /\ SignerHasVouched'
  BY <1>1, <1>3 DEF ActorsInv, ActorsTyped, OwnerHasVouched, FetchedIsVouched, SignerHasVouched
<1>5. SenderIsProved' /\ AcceptedHasActor'
  <2>1. \A q \in Deliveries : delivery[q].outcome = "accepted" => delivery[q].actor \in Actors
    BY DEF ActorsInv, AcceptedHasActor
  <2> QED BY <1>1, <1>3, <2>1 DEF ActorsInv, SenderIsProved, AcceptedHasActor
<1> QED
  BY <1>2, <1>3, <1>4, <1>5 DEF ActorsInv

\* What a task of a lookup, or a delivery before its signer is known, keeps: the
\* tables stand still and its own record is typed.
LEMMA TaskPreserves ==
    ASSUME ActorsInv, NEW p \in Tasks, UNCHANGED <<document, finger, cached, keyOwner, vouched, banned, delivery>>,
           task' \in [Tasks -> TaskRecord], FetchedIsVouched',
           p \in Deliveries => task[p].stage # "idle" /\ task'[p].stage # "verify",
           \A q \in Tasks \ {p} : task'[q] = task[q]
    PROVE  ActorsInv'
<1>1. ActorsTyped'
  BY DEF ActorsInv, ActorsTyped
<1>2. SignerHasVouched'
  BY DEF ActorsInv, SignerHasVouched, Tasks
<1> QED
  BY <1>1, <1>2 DEF ActorsInv, OwnerHasVouched, DocumentIsVouched, SenderIsProved, AcceptedHasActor

\* A lookup by handle ends, or holds the lock of the handle with a document.
LEMMA LookUpIsTyped ==
    ASSUME ActorsInv, NEW p \in Tasks, NEW n \in Names, LookUpHandle(p, n), vouched' = vouched
    PROVE  /\ task' \in [Tasks -> TaskRecord] /\ FetchedIsVouched'
           /\ \A q \in Tasks \ {p} : task'[q] = task[q]
<1>1. finger[n] \in Actors
  BY DEF ActorsInv, ActorsTyped
<1>2. CASE UsableKeys(finger[n]) /\ Fetched(p, finger[n], TRUE, "done", n)
  BY <1>1, <1>2, FetchedIsTyped DEF Returns
<1>3. CASE Finish(p, "done")
  BY <1>3, FinishIsTyped DEF Stages
<1> QED BY <1>2, <1>3 DEF LookUpHandle

\* Lookups, refreshes and moves
LEMMA LookupPreserves ==
    ASSUME ActorsInv, NEW p \in Lookups,
           \/ \E n \in Names : ResolveHandle(p, n)
           \/ \E a \in Actors : ResolveUrl(p, a) \/ RefreshActor(p, a) \/ ResolveMoveTarget(p, a)
    PROVE  ActorsInv'
<1>1. p \in Tasks /\ p \notin Deliveries
  BY RemoteActorsAssumption DEF Tasks
<1>2. UNCHANGED <<document, finger, cached, keyOwner, vouched, banned, delivery>>
  BY DEF ResolveHandle, ResolveUrl, RefreshActor, ResolveMoveTarget
<1>3. /\ task' \in [Tasks -> TaskRecord] /\ FetchedIsVouched'
      /\ \A q \in Tasks \ {p} : task'[q] = task[q]
  <2>1. CASE \E n \in Names : LookUpHandle(p, n)
    BY <1>1, <1>2, <2>1, LookUpIsTyped
  <2>2. CASE \E a \in Actors : FetchById(p, a, "done")
    BY <1>1, <1>2, <2>2, FetchByIdIsTyped DEF Returns
  <2>3. CASE Finish(p, "done")
    BY <1>1, <1>2, <2>3, FinishIsTyped DEF Stages
  <2>4. CASE \E a \in Actors : UsableKeys(a) /\ Fetched(p, a, TRUE, "done", Absent)
    BY <1>1, <1>2, <2>4, FetchedIsTyped DEF Returns
  <2>5. \A a \in Actors : document[a].name \in Names
    BY DEF ActorsInv, ActorsTyped
  <2> QED
    BY <2>1, <2>2, <2>3, <2>4, <2>5 DEF ResolveHandle, ResolveUrl, RefreshActor, ResolveMoveTarget
<1> QED BY <1>1, <1>2, <1>3, TaskPreserves

\* The look for a conflict changes the stage and nothing that was fetched.
LEMMA CheckPreserves ==
    ASSUME ActorsInv, NEW p \in Tasks, CheckHandle(p)
    PROVE  ActorsInv'
<1> DEFINE c == RowOf(task[p].name) \ {task[p].actor} # {}
<1>1. task' = [task EXCEPT ![p].stage = "checked", ![p].conflict = c] /\ c \in BOOLEAN /\ task[p].stage = "fetched"
  BY DEF CheckHandle
<1> HIDE DEF c
<1>2. /\ task' \in [Tasks -> TaskRecord] /\ task'[p].stage = "checked"
      /\ task'[p].actor = task[p].actor /\ task'[p].keys = task[p].keys
      /\ \A q \in Tasks \ {p} : task'[q] = task[q]
  <2> DEFINE new == [task[p] EXCEPT !.stage = "checked", !.conflict = c]
  <2>1. task[p] \in TaskRecord /\ task \in [Tasks -> TaskRecord]
    BY DEF ActorsInv, ActorsTyped
  <2>2. new \in TaskRecord /\ new.stage = "checked" /\ new.actor = task[p].actor /\ new.keys = task[p].keys
    BY <1>1, <2>1 DEF TaskRecord, Stages
  <2>3. task' = [task EXCEPT ![p] = new]
    BY <1>1, <2>1 DEF TaskRecord
  <2> HIDE DEF new
  <2> QED BY <2>1, <2>2, <2>3
<1>4. UNCHANGED <<document, finger, cached, keyOwner, vouched, banned, delivery>>
  BY DEF CheckHandle
<1>3. FetchedIsVouched'
  BY <1>1, <1>2, <1>4 DEF ActorsInv, FetchedIsVouched
<1> QED BY <1>1, <1>2, <1>3, <1>4, TaskPreserves

\* The store gives an actor the keys of its document and takes the others away.
LEMMA StorePreserves ==
    ASSUME ActorsInv, NEW p \in Tasks, StoreActor(p)
    PROVE  ActorsInv'
<1> DEFINE t == task[p]
<1>1. /\ t.stage = "checked" /\ t.actor \in Actors /\ t.keys \in SUBSET KeyIds /\ t.then \in Returns /\ t.name \in Names \cup {Absent}
      /\ t.keys \subseteq vouched[t.actor]
  BY DEF StoreActor, ActorsInv, ActorsTyped, FetchedIsVouched, TaskRecord
<1>2. Finish(p, t.then) /\ UNCHANGED <<document, finger, vouched, banned, delivery>>
  BY DEF StoreActor, Finish
<1>3. /\ task' \in [Tasks -> TaskRecord] /\ FetchedIsVouched'
      /\ task'[p].stage = t.then /\ \A q \in Tasks \ {p} : task'[q] = task[q]
  BY <1>1, <1>2, FinishIsTyped DEF Stages, Returns
<1>4. keyOwner' \in [KeyIds -> Actors \cup {Absent}] /\ OwnerHasVouched'
  <2>1. keyOwner' = keyOwner \/ keyOwner' = ReplaceKeys(t.actor, t.keys)
    BY DEF StoreActor
  <2>2. ReplaceKeys(t.actor, t.keys) \in [KeyIds -> Actors \cup {Absent}]
    BY <1>1 DEF ReplaceKeys, ActorsInv, ActorsTyped
  <2>3. \A k \in KeyIds : LET o == ReplaceKeys(t.actor, t.keys)[k] IN o # Absent => k \in vouched[o]
    BY <1>1 DEF ReplaceKeys, ActorsInv, OwnerHasVouched
  <2> QED
    BY <1>2, <2>1, <2>2, <2>3 DEF ActorsInv, ActorsTyped, OwnerHasVouched
<1>5. WithIdentity(cached[t.actor], t) \in [row : BOOLEAN, name : Names \cup {Absent}, invalid : BOOLEAN, fresh : BOOLEAN]
  BY <1>1 DEF WithIdentity, ActorsInv, ActorsTyped
<1>6. cached' \in [Actors -> [row : BOOLEAN, name : Names \cup {Absent}, invalid : BOOLEAN, fresh : BOOLEAN]]
  BY <1>1, <1>5 DEF StoreActor, ActorsInv, ActorsTyped
<1>7. ActorsTyped'
  BY <1>2, <1>3, <1>4, <1>6 DEF ActorsInv, ActorsTyped
<1>8. SignerHasVouched'
  BY <1>1, <1>2, <1>3 DEF ActorsInv, SignerHasVouched, Tasks, Returns
<1> QED
  BY <1>2, <1>3, <1>4, <1>7, <1>8 DEF ActorsInv, SenderIsProved, AcceptedHasActor, DocumentIsVouched

\* A delivery arrives: its sender is cached, or its document is fetched.
LEMMA ReceivePreserves ==
    ASSUME ActorsInv, NEW q \in Deliveries, NEW a \in Actors, NEW k \in KeyIds, NEW proof \in KeyIds \cup {Absent},
           Receive(q, a, k, proof)
    PROVE  ActorsInv'
<1> DEFINE d == [NoDelivery EXCEPT !.actor = a, !.key = k, !.proof = proof, !.banned = banned]
<1>1. d \in DeliveryRecord /\ d.actor = a /\ d.key = k /\ d.outcome = "none"
  BY DEF NoDelivery, DeliveryRecord, ActorsInv, ActorsTyped
<1>2. delivery' = [delivery EXCEPT ![q] = d] /\ UNCHANGED <<document, finger, cached, keyOwner, vouched, banned>> /\ q \in Tasks
  BY DEF Receive, Tasks
<1> HIDE DEF d
<1>3. /\ task' \in [Tasks -> TaskRecord] /\ FetchedIsVouched'
      /\ task'[q].stage \in {"fetched", "sender"} /\ \A r \in Tasks \ {q} : task'[r] = task[r]
  <2>1. CASE Finish(q, "sender")
    BY <1>2, <2>1, FinishIsTyped DEF Stages
  <2>2. CASE FetchById(q, a, "sender")
    BY <1>2, <2>2, FetchByIdIsTyped DEF Returns
  <2> QED BY <2>1, <2>2 DEF Receive
<1>4. ActorsTyped'
  BY <1>1, <1>2, <1>3 DEF ActorsInv, ActorsTyped
<1>5. SignerHasVouched'
  BY <1>1, <1>2, <1>3 DEF ActorsInv, ActorsTyped, SignerHasVouched, Tasks
<1>6. (SenderIsProved /\ AcceptedHasActor)'
  BY <1>1, <1>2 DEF ActorsInv, ActorsTyped, SenderIsProved, AcceptedHasActor
<1> QED
  BY <1>2, <1>3, <1>4, <1>5, <1>6 DEF ActorsInv, OwnerHasVouched, DocumentIsVouched

\* A verdict is final for its delivery; it is acceptance only with a key or a
\* proof of the actor.
LEMMA SettlePreserves ==
    ASSUME ActorsInv, NEW q \in Deliveries, NEW outcome \in {"accepted", "refused"}, Settle(q, outcome),
           UNCHANGED <<document, finger, cached, keyOwner, vouched, banned>>, task[q].stage # "idle",
           outcome = "accepted" => {delivery[q].key, delivery[q].proof} \cap vouched[delivery[q].actor] # {}
    PROVE  ActorsInv'
<1>1. q \in Tasks /\ delivery[q] \in DeliveryRecord /\ delivery \in [Deliveries -> DeliveryRecord]
  BY DEF Tasks, ActorsInv, ActorsTyped
<1>2. /\ task' \in [Tasks -> TaskRecord] /\ FetchedIsVouched'
      /\ task'[q].stage = "done" /\ \A r \in Tasks \ {q} : task'[r] = task[r]
  BY <1>1, FinishIsTyped DEF Settle, Stages
<1> DEFINE d == [delivery[q] EXCEPT !.outcome = outcome]
<1>3. /\ d \in DeliveryRecord /\ d.actor = delivery[q].actor /\ d.key = delivery[q].key /\ d.proof = delivery[q].proof
      /\ d.outcome = outcome
  BY <1>1 DEF DeliveryRecord
<1>4. delivery' = [delivery EXCEPT ![q] = d]
  BY DEF Settle
<1> HIDE DEF d
<1>5. ActorsTyped'
  BY <1>1, <1>2, <1>3, <1>4 DEF ActorsInv, ActorsTyped
<1>6. SignerHasVouched'
  BY <1>1, <1>2, <1>3, <1>4 DEF ActorsInv, SignerHasVouched, Tasks
<1>7. (SenderIsProved /\ AcceptedHasActor)'
  <2>1. delivery[q].actor \in Actors
    BY DEF ActorsInv, SignerHasVouched
  <2> QED BY <1>1, <1>3, <1>4, <2>1 DEF ActorsInv, SenderIsProved, AcceptedHasActor
<1> QED
  BY <1>2, <1>5, <1>6, <1>7 DEF ActorsInv, OwnerHasVouched, DocumentIsVouched

\* The signer that is found has given the key as their own.
LEMMA SignerFound ==
    ASSUME ActorsInv, NEW q \in Deliveries, task[q].stage # "idle", NEW signer \in Actors,
           delivery[q].key \in vouched[signer], UNCHANGED <<document, finger, cached, keyOwner, vouched, banned>>,
           delivery' = [delivery EXCEPT ![q].signer = signer], Finish(q, "verify")
    PROVE  ActorsInv'
<1>1. q \in Tasks /\ delivery[q] \in DeliveryRecord /\ delivery \in [Deliveries -> DeliveryRecord]
  BY DEF Tasks, ActorsInv, ActorsTyped
<1>2. /\ task' \in [Tasks -> TaskRecord] /\ FetchedIsVouched'
      /\ task'[q].stage = "verify" /\ \A r \in Tasks \ {q} : task'[r] = task[r]
  BY <1>1, FinishIsTyped DEF Stages
<1> DEFINE d == [delivery[q] EXCEPT !.signer = signer]
<1>3. /\ d \in DeliveryRecord /\ d.actor = delivery[q].actor /\ d.key = delivery[q].key /\ d.proof = delivery[q].proof
      /\ d.outcome = delivery[q].outcome /\ d.signer = signer
  BY <1>1 DEF DeliveryRecord
<1>4. delivery' = [delivery EXCEPT ![q] = d]
  OBVIOUS
<1> HIDE DEF d
<1>5. ActorsTyped'
  BY <1>1, <1>2, <1>3, <1>4 DEF ActorsInv, ActorsTyped
<1>6. SignerHasVouched'
  BY <1>1, <1>2, <1>3, <1>4 DEF ActorsInv, SignerHasVouched, Tasks
<1>7. (SenderIsProved /\ AcceptedHasActor)'
  BY <1>1, <1>3, <1>4 DEF ActorsInv, SenderIsProved, AcceptedHasActor
<1> QED
  BY <1>2, <1>5, <1>6, <1>7 DEF ActorsInv, OwnerHasVouched, DocumentIsVouched

\* A delivery that has to fetch a document goes on with what is stored.
LEMMA RefetchPreserves ==
    ASSUME ActorsInv, NEW q \in Deliveries, task[q].stage # "idle", NEW a \in Actors, NEW then \in {"rekeyed", "proved"},
           FetchById(q, a, then), UNCHANGED <<document, finger, cached, keyOwner, vouched, banned, delivery>>
    PROVE  ActorsInv'
<1>1. q \in Tasks
  BY DEF Tasks
<1>2. /\ task' \in [Tasks -> TaskRecord] /\ FetchedIsVouched'
      /\ task'[q].stage \in {"fetched", then} /\ \A r \in Tasks \ {q} : task'[r] = task[r]
  BY <1>1, FetchByIdIsTyped DEF Returns
<1> QED BY <1>1, <1>2, TaskPreserves

\* FindSigner, Rekeyed, Authenticate and AuthenticateForwarded
LEMMA AuthenticationPreserves ==
    ASSUME ActorsInv, NEW q \in Deliveries,
           FindSigner(q) \/ Rekeyed(q) \/ Authenticate(q) \/ AuthenticateForwarded(q)
    PROVE  ActorsInv'
<1>1. task[q].stage # "idle" /\ UNCHANGED <<document, finger, cached, keyOwner, vouched, banned>>
  BY DEF FindSigner, Rekeyed, Authenticate, AuthenticateForwarded
<1>2. /\ delivery[q].actor \in Actors /\ delivery[q].key \in KeyIds /\ delivery[q].proof \in KeyIds \cup {Absent}
      /\ KeyController[delivery[q].key] \in Actors /\ Absent \notin Actors
  BY <1>1, RemoteActorsAssumption DEF ActorsInv, SignerHasVouched, ActorsTyped, DeliveryRecord
<1>3. CASE Settle(q, "refused")
  BY <1>1, <1>3, SettlePreserves
<1>4. CASE FindSigner(q) /\ ~ Settle(q, "refused")
  <2>1. CASE keyOwner[delivery[q].key] # Absent
    <3>1. keyOwner[delivery[q].key] \in Actors /\ delivery[q].key \in vouched[keyOwner[delivery[q].key]]
      BY <1>2, <2>1 DEF ActorsInv, ActorsTyped, OwnerHasVouched
    <3> QED BY <1>1, <1>2, <1>4, <2>1, <3>1, SignerFound DEF FindSigner
  <2>2. CASE keyOwner[delivery[q].key] = Absent
    BY <1>1, <1>2, <1>4, <2>2, RefetchPreserves DEF FindSigner
  <2> QED BY <2>1, <2>2
<1>5. CASE Rekeyed(q) /\ ~ Settle(q, "refused")
  <2>1. /\ keyOwner[delivery[q].key] \in Actors /\ delivery[q].key \in vouched[keyOwner[delivery[q].key]]
        /\ delivery' = [delivery EXCEPT ![q].signer = keyOwner[delivery[q].key]] /\ Finish(q, "verify")
    BY <1>2, <1>5 DEF Rekeyed, ActorsInv, OwnerHasVouched
  <2> QED BY <1>1, <2>1, SignerFound
<1>6. Proves(delivery[q].proof, delivery[q].actor) => delivery[q].proof \in vouched[delivery[q].actor]
  BY <1>2 DEF Proves, ActorsInv, OwnerHasVouched
<1>7. CASE Authenticate(q) /\ ~ Settle(q, "refused")
  <2>1. task[q].stage = "verify" => delivery[q].key \in vouched[delivery[q].signer]
    BY DEF ActorsInv, SignerHasVouched
  <2>2. CASE delivery[q].signer = delivery[q].actor \/ Proves(delivery[q].proof, delivery[q].actor)
    <3>1. {delivery[q].key, delivery[q].proof} \cap vouched[delivery[q].actor] # {}
      BY <1>2, <1>6, <1>7, <2>1, <2>2 DEF Authenticate
    <3>2. Settle(q, "accepted")
      BY <1>7, <2>2 DEF Authenticate
    <3> QED BY <1>1, <3>1, <3>2, SettlePreserves
  <2>3. CASE ~ (delivery[q].signer = delivery[q].actor \/ Proves(delivery[q].proof, delivery[q].actor))
    <3>1. FetchById(q, delivery[q].actor, "proved") /\ UNCHANGED delivery
      BY <1>7, <2>3 DEF Authenticate
    <3> QED BY <1>1, <1>2, <3>1, RefetchPreserves
  <2> QED BY <2>2, <2>3
<1>8. CASE AuthenticateForwarded(q) /\ ~ Settle(q, "refused")
  <2>1. Proves(delivery[q].proof, delivery[q].actor) /\ Settle(q, "accepted")
    BY <1>8 DEF AuthenticateForwarded
  <2>2. {delivery[q].key, delivery[q].proof} \cap vouched[delivery[q].actor] # {}
    BY <1>6, <2>1
  <2> QED BY <1>1, <2>1, <2>2, SettlePreserves
<1> QED BY <1>3, <1>4, <1>5, <1>7, <1>8

\* In whatever order documents change, are fetched and stored while deliveries
\* are authenticated, no delivery is accepted for an actor unless a key signed it
\* that the actor's own server gave as the actor's: process_inbox and the cache
\* behind it.
THEOREM SendersAreProved == RemoteActorsSpec => []RemoteActorsSafe
<1>1. RemoteActorsInit => ActorsInv
  <2>1. IdleTask \in TaskRecord /\ NoDelivery \in DeliveryRecord
    BY DEF IdleTask, NoDelivery, TaskRecord, DeliveryRecord, Stages, Returns
  <2>2. IdleTask.stage = "idle" /\ NoDelivery.outcome = "none"
    BY DEF IdleTask, NoDelivery
  <2>3. RemoteActorsInit => ActorsTyped
    <3> SUFFICES ASSUME RemoteActorsInit PROVE ActorsTyped
      OBVIOUS
    <3>1. document \in [Actors -> [name : Names, keys : Lists]]
      BY DEF RemoteActorsInit, Lists
    <3>2. cached \in [Actors -> [row : BOOLEAN, name : Names \cup {Absent}, invalid : BOOLEAN, fresh : BOOLEAN]]
      BY DEF RemoteActorsInit, NoRow
    <3> QED BY <2>1, <3>1, <3>2 DEF RemoteActorsInit, ActorsTyped
  <2> QED
    BY <2>2, <2>3 DEF RemoteActorsInit, ActorsInv, OwnerHasVouched, FetchedIsVouched, SignerHasVouched, SenderIsProved, AcceptedHasActor, Tasks,
       DocumentIsVouched
<1>2. ASSUME ActorsInv, [RemoteActorsNext]_actor_vars
      PROVE  ActorsInv'
  <2>1. CASE UNCHANGED actor_vars
    BY <1>2, <2>1 DEF actor_vars, ActorsInv, ActorsTyped, OwnerHasVouched, FetchedIsVouched, SignerHasVouched,
       SenderIsProved, AcceptedHasActor, DocumentIsVouched
  <2>2. CASE RemoteActorsNext
    BY <1>2, <2>2, WorldPreserves, LookupPreserves, CheckPreserves, StorePreserves, ReceivePreserves,
       AuthenticationPreserves DEF RemoteActorsNext
  <2> QED BY <1>2, <2>1, <2>2
<1>3. ActorsInv => RemoteActorsSafe
  BY DEF Lists, ActorsInv, ActorsTyped, RemoteActorsSafe, RemoteActorsTypeOK, TaskRecord, Stages, DeliveryRecord
<1>4. ActorsInv /\ [RemoteActorsNext]_actor_vars => ActorsInv'
  BY <1>2
<1> QED
  BY <1>1, <1>3, <1>4, PTL DEF RemoteActorsSpec
-----------------------------------------------------------------------------
(* Signatures *)

\* What this server has signed is one of its three formats, and nothing happens
\* to a message before it is signed or after the verdict.
SignaturesInv ==
    /\ SignaturesTypeOK /\ AcceptedIsAsSigned
    /\ mail.own => mail \in {SignLegacyPost, SignRfc9421Post, SignProof}
    /\ mail.format = "proof" => altered \subseteq ActivityParts
    /\ mail = NoMail => altered = {} /\ age = 0 /\ verdict = "none"

\* The base of each format protects the body and the address, and a request also
\* the time.
LEMMA VerifiedIsAsSigned ==
    ASSUME SignaturesInv, IF mail.format = "proof" THEN VerifyProof ELSE VerifyActorKey
    PROVE  /\ mail.holder /\ "body" \notin altered /\ "target" \notin altered
           /\ mail.format = "proof" \/ age <= Skew
<1>1. CASE mail.format = "proof"
  BY <1>1 DEF VerifyProof, HashedParts, SignaturesInv, ActivityParts
<1>2. CASE mail.format = "rfc9421"
  BY <1>2 DEF VerifyActorKey, VerifyRfc9421, InTime, DigestMatches, BaseParts
<1>3. CASE mail.format \notin {"proof", "rfc9421"}
  BY <1>3 DEF VerifyActorKey, VerifyLegacy, LegacyRequired, InTime, DigestMatches
<1> QED BY <1>1, <1>2, <1>3

\* What this server signs is verified when it arrives unchanged and in time.
LEMMA OursIsVerified ==
    ASSUME SignaturesInv, mail.own, altered = {}, age <= Skew
    PROVE  IF mail.format = "proof" THEN VerifyProof ELSE VerifyActorKey
<1>1. CASE mail = SignLegacyPost
  <2>1. /\ mail.format = "legacy" /\ mail.keyAlg = "rsa" /\ mail.holder
        /\ mail.covers = {"target", "host", "date", "digest"}
    BY <1>1 DEF SignLegacyPost, NoMail
  <2> QED BY <2>1 DEF VerifyActorKey, VerifyLegacy, LegacyRequired, InTime, DigestMatches
<1>2. CASE mail = SignRfc9421Post
  <2>1. /\ mail.format = "rfc9421" /\ mail.keyAlg = "rsa" /\ mail.alg = "rsa" /\ mail.holder
        /\ mail.covers = {"target", "digest"}
    BY <1>2 DEF SignRfc9421Post, NoMail
  <2> QED BY <2>1 DEF VerifyActorKey, VerifyRfc9421, AlgorithmAgrees, InTime, DigestMatches, BaseParts
<1>3. CASE mail = SignProof
  <2>1. mail.format = "proof" /\ mail.keyAlg = "ed25519" /\ mail.holder
    BY <1>3 DEF SignProof, NoMail
  <2> QED BY <2>1 DEF VerifyProof, NotExpired, ContextsAgree, HashedParts
<1> QED BY <1>1, <1>2, <1>3 DEF SignaturesInv

\* A message is signed once.
LEMMA SigningPreserves ==
    ASSUME SignaturesInv, SignOurs \/ SignTheirs
    PROVE  SignaturesInv'
<1>1. mail = NoMail /\ altered = {} /\ altered' = {} /\ age = 0 /\ age' = 0 /\ verdict' = "none" /\ age \in 0..MaxAge
  BY DEF SignOurs, SignTheirs, SignaturesInv, SignaturesTypeOK
<1>2. mail'.format \in {"legacy", "rfc9421", "proof"} /\ (mail'.own => mail' \in {SignLegacyPost, SignRfc9421Post, SignProof})
  <2>1. CASE SignOurs
    BY <2>1 DEF SignOurs, SignLegacyPost, SignRfc9421Post, SignProof, NoMail
  <2>2. CASE SignTheirs
    BY <2>2 DEF SignTheirs, TheirMails
  <2> QED BY <2>1, <2>2
<1>3. mail' # NoMail
  BY <1>2 DEF NoMail
<1> QED
  BY <1>1, <1>2, <1>3 DEF SignaturesInv, SignaturesTypeOK, AcceptedIsAsSigned

\* All three formats protect what they are meant to, and formats are not
\* confused: VerifyActorKey and VerifyProof against every alteration and delay.
THEOREM SignaturesProtect == SignaturesSpec => []SignaturesSafe
<1>1. SignaturesInit => SignaturesInv
  BY SignaturesAssumption DEF SignaturesInit, SignaturesInv, SignaturesTypeOK, AcceptedIsAsSigned, NoMail
<1>2. ASSUME SignaturesInv, [SignaturesNext]_signature_vars
      PROVE  SignaturesInv'
  <2>1. CASE SignOurs \/ SignTheirs
    BY <1>2, <2>1, SigningPreserves
  <2>2. CASE Delay
    BY <1>2, <2>2, SignaturesAssumption DEF Delay, SignaturesInv, SignaturesTypeOK, AcceptedIsAsSigned
  <2>3. CASE \E p \in RequestParts \cup ActivityParts : Alter(p)
    <3>1. PICK p \in RequestParts \cup ActivityParts : Alter(p)
      BY <2>3
    <3>2. altered' = altered \cup {p} /\ verdict = "none" /\ mail # NoMail /\ UNCHANGED <<mail, age, verdict>>
      BY <3>1 DEF Alter
    <3>3. mail.format = "proof" => p \in ActivityParts
      BY <3>1 DEF Alter
    <3> QED BY <1>2, <3>2, <3>3 DEF SignaturesInv, SignaturesTypeOK, AcceptedIsAsSigned
  <2>4. CASE Verify
    <3>1. verdict' \in {"accepted", "refused"} /\ UNCHANGED <<mail, altered, age>> /\ mail # NoMail
      BY <2>4 DEF Verify
    <3>2. verdict' = "accepted" <=> IF mail.format = "proof" THEN VerifyProof ELSE VerifyActorKey
      BY <2>4 DEF Verify
    <3>3. AcceptedIsAsSigned'
      BY <1>2, <3>1, <3>2, VerifiedIsAsSigned, OursIsVerified DEF AcceptedIsAsSigned
    <3> QED BY <1>2, <3>1, <3>3 DEF SignaturesInv, SignaturesTypeOK
  <2>5. CASE UNCHANGED signature_vars
    BY <1>2, <2>5 DEF signature_vars, SignaturesInv, SignaturesTypeOK, AcceptedIsAsSigned
  <2> QED BY <1>2, <2>1, <2>2, <2>3, <2>4, <2>5 DEF SignaturesNext
<1>3. SignaturesInv => SignaturesSafe
  BY DEF SignaturesInv, SignaturesSafe
<1>4. SignaturesInv /\ [SignaturesNext]_signature_vars => SignaturesInv'
  BY <1>2
<1> QED
  BY <1>1, <1>3, <1>4, PTL DEF SignaturesSpec

\* The inbox takes in the name of an actor only what a key of this actor signed,
\* as it was signed, for this address and in time.
THEOREM AcceptedIsProved == AuthenticationSpec => []OnlyProvedIsAccepted
<1>1. RemoteActorsSafe /\ SignaturesSafe => OnlyProvedIsAccepted
  BY DEF OnlyProvedIsAccepted
<1> QED
  BY <1>1, SendersAreProved, SignaturesProtect, PTL DEF AuthenticationSpec
-----------------------------------------------------------------------------
(* The keys of local accounts *)

KeyRecord == [owner : Owners, alg : Algorithms, since : Nat, expires : Nat]

\* The full types
KeysTyped ==
    /\ hour \in 0..LastHour /\ upkeep \in {"none", "queued"} /\ away \subseteq Owners /\ ring \subseteq KeyRecord
    /\ maker \in [Makers -> [owner : Owners, alg : Algorithms] \cup {NoMake}]
    /\ proofs \subseteq [owner : Owners, since : Nat, at : Nat]

\* The unique index on active keys
OneActiveKey ==
    \A k, l \in ring : k.owner = l.owner /\ k.alg = l.alg /\ k.expires = 0 /\ l.expires = 0 => k = l

\* A key is retired only for another.
RetiredHasSuccessor ==
    \A l \in ring : l.expires # 0 => \E k \in ring : k.owner = l.owner /\ k.alg = l.alg /\ k.expires = 0

\* An active key that has replaced another was announced.
SuccessorAnnounced ==
    \A k, l \in ring : k.owner = l.owner /\ k.alg = l.alg /\ l.expires # 0 /\ k.expires = 0 =>
        [owner |-> k.owner, since |-> k.since] \in announced

\* The key of a proof outlives the overlap of the proof.
Outlives(k, p) ==
    /\ k.owner = p.owner /\ k.alg = "ed25519" /\ k.since = p.since
    /\ k.expires = 0 \/ k.expires >= p.at + Overlap
ProofsOutlived ==
    \A p \in proofs : p.at <= hour /\ (hour < p.at + Overlap => \E k \in ring : Outlives(k, p))

ActorKeysInv == KeysTyped /\ OneActiveKey /\ RetiredHasSuccessor /\ SuccessorAnnounced /\ ProofsOutlived

\* create_local_actor_key adds a first key or none.
LEMMA EnsurePreserves ==
    ASSUME ActorKeysInv, NEW m \in Makers, EnsureKey(m)
    PROVE  ActorKeysInv'
<1> DEFINE a == maker[m].owner
           alg == maker[m].alg
           g == GeneratedKey(a, alg)
<1>1. a \in Owners /\ alg \in Algorithms
  BY DEF EnsureKey, ActorKeysInv, KeysTyped, NoMake
<1>2. UNCHANGED <<hour, away, proofs, upkeep, announced>> /\ maker' = [maker EXCEPT ![m] = NoMake]
  BY DEF EnsureKey
<1>3. CASE ActiveKey(a, alg) # {}
  <2>1. ring' = ring
    BY <1>3 DEF EnsureKey, ActiveKey
  <2> QED
    BY <1>2, <2>1 DEF ActorKeysInv, KeysTyped, OneActiveKey, RetiredHasSuccessor, SuccessorAnnounced, ProofsOutlived, Outlives
<1>4. CASE ActiveKey(a, alg) = {}
  <2>1. ring' = ring \cup {g}
    BY <1>4 DEF EnsureKey
  <2>2. g \in KeyRecord /\ g.owner = a /\ g.alg = alg /\ g.expires = 0
    BY <1>1, ActorKeysAssumption DEF GeneratedKey, KeyRecord, ActorKeysInv, KeysTyped
  <2>3. \A k \in ring : ~ (k.owner = a /\ k.alg = alg)
    BY <1>4 DEF ActiveKey, ActorKeysInv, RetiredHasSuccessor
  <2> HIDE DEF g, a, alg
  <2>4. KeysTyped'
    BY <1>2, <2>1, <2>2 DEF ActorKeysInv, KeysTyped
  <2>5. OneActiveKey' /\ RetiredHasSuccessor' /\ SuccessorAnnounced'
    BY <1>2, <2>1, <2>2, <2>3 DEF ActorKeysInv, OneActiveKey, RetiredHasSuccessor, SuccessorAnnounced
  <2>6. ProofsOutlived'
    BY <1>2, <2>1 DEF ActorKeysInv, ProofsOutlived, Outlives
  <2> QED BY <2>4, <2>5, <2>6 DEF ActorKeysInv
<1> QED BY <1>3, <1>4

\* maintain_actor_keys retires both keys of an account for two new ones, or none.
LEMMA MaintenancePreserves ==
    ASSUME ActorKeysInv, MaintainKeys
    PROVE  ActorKeysInv'
<1> DEFINE kept == Unexpired \ Outgoing
           retired == {Retired(k) : k \in Outgoing}
           seeded == UNION {Seeded(a) : a \in Selected}
           fresh == {GeneratedKey(a, alg) : a \in Due, alg \in Algorithms}
<1>1. /\ ring' = kept \cup retired \cup seeded \cup fresh
      /\ upkeep' = "none" /\ announced' = announced \cup {[owner |-> a, since |-> hour] : a \in Due}
      /\ UNCHANGED <<hour, away, maker, proofs>>
  <2>1. ring' = kept \cup retired \cup seeded \cup fresh
    BY DEF MaintainKeys
  <2>2. announced' = announced \cup {[owner |-> a, since |-> hour] : a \in Due}
    BY DEF MaintainKeys
  <2>3. upkeep' = "none" /\ UNCHANGED <<hour, away, maker, proofs>>
    BY DEF MaintainKeys
  <2> QED BY <2>1, <2>2, <2>3
<1>2. Due \subseteq Selected /\ Selected \subseteq Owners /\ hour \in Nat /\ ring \subseteq KeyRecord
  BY ActorKeysAssumption DEF Selected, Due, ActorKeysInv, KeysTyped
<1>3. /\ kept \subseteq ring
      /\ \A k \in ring : k.expires = 0 /\ k.owner \notin Due => k \in kept
      /\ \A k \in ring : k.expires > hour => k \in kept
      /\ \A k \in kept : k.expires = 0 => k.owner \notin Due
      /\ \A k \in ring : k.expires = 0 /\ k.owner \in Due => k \in Outgoing
  BY <1>2 DEF Unexpired, Outgoing, KeyRecord
<1>4. \A k \in Outgoing : /\ Retired(k) \in KeyRecord /\ Retired(k).owner = k.owner /\ Retired(k).alg = k.alg
                          /\ Retired(k).since = k.since /\ Retired(k).expires = hour + Overlap
                     /\ k.owner \in Due /\ k \in ring
  BY <1>2, ActorKeysAssumption DEF Unexpired, Outgoing, Retired, KeyRecord
<1>5. \A k \in retired : k \in KeyRecord /\ k.owner \in Due /\ k.expires # 0
  BY <1>2, <1>4, ActorKeysAssumption
<1>6. \A k \in seeded : /\ k \in KeyRecord /\ k.alg = "ed25519" /\ k.expires = 0 /\ k.since = hour /\ k.owner \notin Due
                        /\ ~ \E l \in ring : l.owner = k.owner /\ l.alg = "ed25519"
  <2> SUFFICES ASSUME NEW a \in Selected, NEW k \in Seeded(a)
               PROVE  /\ k \in KeyRecord /\ k.alg = "ed25519" /\ k.expires = 0 /\ k.since = hour /\ k.owner \notin Due
                      /\ ~ \E l \in ring : l.owner = k.owner /\ l.alg = "ed25519"
    OBVIOUS
  <2>1. ActiveKey(a, "ed25519") = {} /\ k = GeneratedKey(a, "ed25519")
    BY DEF Seeded
  <2>2. k \in KeyRecord /\ k.alg = "ed25519" /\ k.expires = 0 /\ k.since = hour /\ k.owner = a
    BY <1>2, <2>1 DEF GeneratedKey, KeyRecord, Algorithms
  <2>3. a \notin Due
    BY <2>1 DEF Due, DueForRotation, Algorithms
  <2>4. ~ \E l \in ring : l.owner = a /\ l.alg = "ed25519"
    BY <2>1 DEF ActiveKey, ActorKeysInv, RetiredHasSuccessor
  <2> QED BY <2>2, <2>3, <2>4
<1>7. \A k \in seeded, l \in seeded : k.owner = l.owner => k = l
  <2> SUFFICES ASSUME NEW a \in Selected, NEW b \in Selected, NEW k \in Seeded(a), NEW l \in Seeded(b), k.owner = l.owner
               PROVE  k = l
    OBVIOUS
  <2>1. k = GeneratedKey(a, "ed25519") /\ l = GeneratedKey(b, "ed25519")
    BY DEF Seeded
  <2> QED BY <2>1 DEF GeneratedKey
<1>8. \A k \in fresh : k \in KeyRecord /\ k.owner \in Due /\ k.expires = 0 /\ k = GeneratedKey(k.owner, k.alg) /\ k.since = hour
  BY <1>2 DEF GeneratedKey, KeyRecord
<1>9. \A a \in Due, alg \in Algorithms : \E k \in fresh : k.owner = a /\ k.alg = alg /\ k.expires = 0
  <2>1. ASSUME NEW a \in Due, NEW alg \in Algorithms
        PROVE  \E k \in fresh : k.owner = a /\ k.alg = alg /\ k.expires = 0
    <3>1. GeneratedKey(a, alg) \in fresh
      OBVIOUS
    <3> QED BY <3>1 DEF GeneratedKey
  <2> HIDE DEF fresh
  <2> QED BY <2>1
<1> HIDE DEF kept, retired, seeded, fresh
<1>10. KeysTyped'
  BY <1>1, <1>2, <1>3, <1>5, <1>6, <1>8 DEF ActorKeysInv, KeysTyped
<1>11. OneActiveKey'
  <2> SUFFICES ASSUME NEW k \in ring', NEW l \in ring', k.owner = l.owner, k.alg = l.alg, k.expires = 0, l.expires = 0
               PROVE  k = l
    BY DEF OneActiveKey
  <2>1. k \notin retired /\ l \notin retired
    BY <1>5
  <2>2. CASE k \in fresh \/ l \in fresh
    BY <1>1, <1>3, <1>6, <1>8, <2>1, <2>2
  <2>3. CASE k \in kept \cup seeded /\ l \in kept \cup seeded
    BY <1>3, <1>6, <1>7, <2>3 DEF ActorKeysInv, OneActiveKey
  <2> QED BY <1>1, <2>1, <2>2, <2>3
<1>12. RetiredHasSuccessor'
  <2> SUFFICES ASSUME NEW l \in ring', l.expires # 0
               PROVE  \E k \in ring' : k.owner = l.owner /\ k.alg = l.alg /\ k.expires = 0
    BY DEF RetiredHasSuccessor
  <2>1. l \in KeyRecord /\ l.alg \in Algorithms
    BY <1>10 DEF KeysTyped, KeyRecord
  <2>2. CASE l.owner \in Due
    BY <1>1, <1>9, <2>1, <2>2
  <2>3. CASE l.owner \notin Due
    <3>1. l \in kept
      BY <1>1, <1>5, <1>6, <1>8, <2>3
    <3>2. PICK k \in ring : k.owner = l.owner /\ k.alg = l.alg /\ k.expires = 0
      BY <1>3, <3>1 DEF ActorKeysInv, RetiredHasSuccessor
    <3> QED BY <1>1, <1>3, <2>3, <3>2
  <2> QED BY <2>2, <2>3
<1>13. SuccessorAnnounced'
  <2> SUFFICES ASSUME NEW k \in ring', NEW l \in ring', k.owner = l.owner, k.alg = l.alg, l.expires # 0, k.expires = 0
               PROVE  [owner |-> k.owner, since |-> k.since] \in announced'
    BY DEF SuccessorAnnounced
  <2>1. CASE k \in fresh
    BY <1>1, <1>8, <2>1
  <2>2. CASE k \in kept
    <3>1. l \in kept
      BY <1>1, <1>3, <1>5, <1>6, <1>8, <2>2
    <3> QED BY <1>1, <1>3, <2>2, <3>1 DEF ActorKeysInv, SuccessorAnnounced
  <2>3. CASE k \in seeded
    BY <1>1, <1>3, <1>5, <1>6, <1>8, <2>3
  <2> QED BY <1>1, <1>5, <2>1, <2>2, <2>3
<1>14. ProofsOutlived'
  <2> SUFFICES ASSUME NEW p \in proofs, hour < p.at + Overlap
               PROVE  \E k \in ring' : Outlives(k, p)
    BY <1>1 DEF ActorKeysInv, ProofsOutlived, Outlives
  <2>1. PICK k \in ring : Outlives(k, p)
    BY DEF ActorKeysInv, ProofsOutlived
  <2>2. p.at \in Nat /\ p.at <= hour /\ k.expires \in Nat
    BY <1>2 DEF ActorKeysInv, KeysTyped, ProofsOutlived, KeyRecord
  <2>3. CASE k \in kept
    BY <1>1, <2>1, <2>3
  <2>4. CASE k \notin kept
    <3>1. k \in Outgoing
      BY <1>2, <1>3, <2>1, <2>2, <2>4, ActorKeysAssumption DEF Outlives
    <3>2. Retired(k) \in ring'
      BY <1>1, <3>1 DEF retired
    <3>3. Outlives(Retired(k), p)
      BY <1>2, <1>4, <2>1, <2>2, <3>1, ActorKeysAssumption DEF Outlives
    <3> QED BY <3>2, <3>3
  <2> QED BY <2>3, <2>4
<1> QED BY <1>10, <1>11, <1>12, <1>13, <1>14 DEF ActorKeysInv

\* Rotation by the hourly job, whatever requests create keys beside it, leaves no
\* proof without its published key before the overlap has passed.
THEOREM RotationIsSafe == ActorKeysSpec => []ActorKeysSafe
<1>1. ActorKeysInit => ActorKeysInv
  BY ActorKeysAssumption
     DEF ActorKeysInit, ActorKeysInv, KeysTyped, OneActiveKey, RetiredHasSuccessor, SuccessorAnnounced, ProofsOutlived
<1>2. ASSUME ActorKeysInv, [ActorKeysNext]_key_vars
      PROVE  ActorKeysInv'
  <2> USE <1>2 DEF ActorKeysInv
  <2>1. CASE ScheduleUpkeep
    BY <2>1 DEF ScheduleUpkeep, KeysTyped, OneActiveKey, RetiredHasSuccessor, SuccessorAnnounced, ProofsOutlived, Outlives
  <2>2. CASE MaintainKeys
    BY <2>2, MaintenancePreserves
  <2>3. CASE HourPasses
    <3>1. hour \in Nat /\ hour' = hour + 1 /\ hour' \in 0..LastHour /\ UNCHANGED <<ring, away, maker, proofs, upkeep, announced>>
      BY <2>3, ActorKeysAssumption DEF HourPasses, KeysTyped
    <3>2. KeysTyped'
      BY <3>1 DEF KeysTyped
    <3>3. ProofsOutlived'
      BY <3>1, ActorKeysAssumption DEF KeysTyped, ProofsOutlived, Outlives
    <3> QED BY <3>1, <3>2, <3>3 DEF OneActiveKey, RetiredHasSuccessor, SuccessorAnnounced
  <2>4. CASE \E m \in Makers : EnsureKey(m)
    BY <2>4, EnsurePreserves
  <2>5. ASSUME NEW m \in Makers, NEW a \in Owners, NEW alg \in Algorithms, BeginMake(m, a, alg)
        PROVE  ActorKeysInv'
    <3>1. KeysTyped'
      BY <2>5 DEF BeginMake, KeysTyped
    <3> QED
      BY <2>5, <3>1 DEF BeginMake, OneActiveKey, RetiredHasSuccessor, SuccessorAnnounced, ProofsOutlived, Outlives
  <2>6. ASSUME NEW a \in Owners, ProveActivity(a)
        PROVE  ActorKeysInv'
    <3>1. /\ proofs' = proofs \cup {[owner |-> k.owner, since |-> k.since, at |-> hour] : k \in ActiveKey(a, "ed25519")}
          /\ UNCHANGED <<hour, ring, away, maker, upkeep, announced>> /\ hour \in Nat
      BY <2>6, ActorKeysAssumption DEF ProveActivity, KeysTyped
    <3>2. ActiveKey(a, "ed25519") \subseteq ring /\ \A k \in ActiveKey(a, "ed25519") : k \in KeyRecord /\ k.expires = 0 /\ k.alg = "ed25519"
      BY DEF ActiveKey, KeysTyped
    <3>3. KeysTyped'
      BY <3>1, <3>2 DEF KeysTyped, KeyRecord
    <3>4. ProofsOutlived'
      BY <3>1, <3>2, ActorKeysAssumption DEF ProofsOutlived, Outlives
    <3> QED BY <3>1, <3>3, <3>4 DEF OneActiveKey, RetiredHasSuccessor, SuccessorAnnounced
  <2>7. ASSUME NEW a \in Owners, Suspension(a)
        PROVE  ActorKeysInv'
    BY <2>7 DEF Suspension, KeysTyped, OneActiveKey, RetiredHasSuccessor, SuccessorAnnounced, ProofsOutlived, Outlives
  <2>8. CASE UNCHANGED key_vars
    BY <2>8 DEF key_vars, KeysTyped, OneActiveKey, RetiredHasSuccessor, SuccessorAnnounced, ProofsOutlived, Outlives
  <2> QED BY <2>1, <2>2, <2>3, <2>4, <2>5, <2>6, <2>7, <2>8 DEF ActorKeysNext
<1>3. ActorKeysInv => ActorKeysSafe
  <2> SUFFICES ASSUME ActorKeysInv PROVE ActorKeysSafe
    OBVIOUS
  <2>1. ActorKeysTypeOK
    BY DEF ActorKeysInv, ActorKeysTypeOK, KeysTyped, KeyRecord, OneActiveKey
  <2>2. ASSUME NEW p \in proofs, hour < p.at + Overlap
        PROVE  \E k \in Publishable(p.owner) : k.alg = "ed25519" /\ k.since = p.since
    <3>1. PICK k \in ring : Outlives(k, p)
      BY <2>2 DEF ActorKeysInv, ProofsOutlived
    <3>2. k.expires \in Nat /\ p.at \in Nat /\ hour \in Nat
      BY ActorKeysAssumption DEF ActorKeysInv, KeysTyped, KeyRecord
    <3>3. k \in Publishable(p.owner)
      BY <2>2, <3>1, <3>2, ActorKeysAssumption DEF Publishable, Outlives
    <3> QED BY <3>1, <3>3 DEF Outlives
  <2> QED BY <2>1, <2>2 DEF ActorKeysInv, SuccessorAnnounced, ProofsFindTheirKey, ActorKeysSafe
<1>4. ActorKeysInv /\ [ActorKeysNext]_key_vars => ActorKeysInv'
  BY <1>2
<1> QED
  BY <1>1, <1>3, <1>4, PTL DEF ActorKeysSpec
=============================================================================
