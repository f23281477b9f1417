---------------------------- MODULE RemoteActors ----------------------------
(***************************************************************************)
(* The cache of remote actors: lookups by handle, refreshes of a document,  *)
(* the keys an actor controls, and how a delivery to the inbox is           *)
(* authenticated with them.  A document is fetched in one transaction and   *)
(* stored in another; profile images are in MediaCache.tla, featured        *)
(* collections in Tags.tla.                                                 *)
(***************************************************************************)
EXTENDS Naturals, FiniteSets

CONSTANTS
    Actors,         \* remote actors, all of one domain
    Names,          \* usernames
    KeyIds,         \* ids of keys
    KeyController,  \* [KeyIds -> Actors], what the document of a key says
    KeyLists,       \* the lists of keys that an actor document may have: pairs of
                    \* an id and the owner written beside an embedded key, or
                    \* Absent for a reference
    Lookups,        \* searches, refreshes and moves
    Deliveries,     \* requests to the inbox
    Absent

ASSUME RemoteActorsAssumption ==
    /\ KeyController \in [KeyIds -> Actors] /\ Lookups \cap Deliveries = {}
    /\ KeyLists \subseteq SUBSET (KeyIds \X (Actors \cup {Absent}))
    /\ Absent \notin Actors \cup Names \cup KeyIds

Tasks == Lookups \cup Deliveries

VARIABLES
    document,   \* [name, keys] that the server of an actor answers with
    finger,     \* [Names -> actor], WebFinger
    cached,     \* remote_actor: [row, name, invalid, fresh]
    keyOwner,   \* remote_actor_key: its actor or Absent
    vouched,    \* history: the keys that a document of an actor gave as its own
    banned,     \* the domain is suspended
    task,       \* [stage, then, actor, name, keys, valid, conflict, lock]
    delivery    \* [actor, key, proof, signer, banned, outcome] of a request

actor_vars == <<document, finger, cached, keyOwner, vouched, banned, task, delivery>>

IdleTask == [stage |-> "idle", then |-> "done", actor |-> Absent, name |-> Absent, keys |-> {},
             valid |-> FALSE, conflict |-> FALSE, lock |-> Absent]
NoDelivery == [actor |-> Absent, key |-> Absent, proof |-> Absent, signer |-> Absent, banned |-> FALSE, outcome |-> "none"]

\* remote_actor_from_model
NoRow == [row |-> FALSE, name |-> Absent, invalid |-> FALSE, fresh |-> FALSE]

RemoteActorsInit ==
    /\ document \in [Actors -> [name : Names, keys : {{}}]] /\ finger \in [Names -> Actors]
    /\ cached = [a \in Actors |-> NoRow] /\ keyOwner = [k \in KeyIds |-> Absent] /\ vouched = [a \in Actors |-> {}] /\ banned = FALSE
    /\ task = [p \in Tasks |-> IdleTask] /\ delivery = [q \in Deliveries |-> NoDelivery]

\* Every value is of its type.
RemoteActorsTypeOK ==
    /\ \A a \in Actors : /\ cached[a].name \in Names \cup {Absent}
                        /\ document[a].keys \subseteq KeyIds \X (Actors \cup {Absent})
                        /\ vouched[a] \subseteq KeyIds
    /\ keyOwner \in [KeyIds -> Actors \cup {Absent}]
    /\ \A p \in Tasks : task[p].stage \in {"idle", "sender", "signer", "fetched", "checked", "rekeyed", "verify", "proved", "done"}
    /\ \A q \in Deliveries : delivery[q].outcome \in {"none", "accepted", "refused"}
-----------------------------------------------------------------------------
(* The rest of the world *)

\* An embedded key is the actor's if the document says so, a reference if the
\* document of the key does.
GivesAsOwn(a, listed) == listed[2] = a \/ (listed[2] = Absent /\ KeyController[listed[1]] = a)

\* The server of an actor serves another document, with keys of anybody.
ChangeDocument(a, ks) ==
    /\ document[a].keys # ks /\ document' = [document EXCEPT ![a].keys = ks]
    /\ vouched' = [vouched EXCEPT ![a] = @ \cup {l[1] : l \in {l \in ks : GivesAsOwn(a, l)}}]
    /\ UNCHANGED <<finger, cached, keyOwner, banned, task, delivery>>

Reassign(n, a) ==
    /\ finger[n] # a /\ finger' = [finger EXCEPT ![n] = a]
    /\ UNCHANGED <<document, cached, keyOwner, banned, task, delivery, vouched>>

SuspendDomain ==
    /\ ~ banned /\ banned' = TRUE
    /\ UNCHANGED <<document, finger, cached, keyOwner, task, delivery, vouched>>

\* The day an actor is cached for is over.
ActorExpires(a) ==
    /\ cached[a].fresh /\ cached' = [cached EXCEPT ![a].fresh = FALSE]
    /\ UNCHANGED <<document, finger, keyOwner, banned, task, delivery, vouched>>
-----------------------------------------------------------------------------
(* Documents and keys *)

\* parse_key_reference: whose key it is.  The owner that stands beside an embedded
\* key is compared with the actor, and so is the one that the document of a
\* referenced key names.
\* Mutant: the owner is not compared.
OwnerWritten_Any(a, listed) == TRUE

\* parse_legacy_key, parse_multikey
OwnerWritten(a, listed) == a = IF listed[2] = Absent THEN KeyController[listed[1]] ELSE listed[2]

\* actor_keys: a key that is not the actor's, or an id listed twice, spoils the
\* document.
UsableKeys(a) ==
    LET ks == document[a].keys IN
    /\ ks # {} /\ \A l \in ks : OwnerWritten(a, l)
    /\ \A l, m \in ks : l[1] = m[1] => l = m

\* fetch_json, validate_remote_url: nothing is fetched from a suspended domain.
Reachable == ~ banned

\* validate_actor_document
DocumentIsFor(a, n) == document[a].name = n

\* verify_remote_handle
Confirms(n, a) == Reachable /\ finger[n] = a

\* find_remote_actor_by_handle: a row that lost its handle keeps the name.
RowOf(n) == {a \in Actors : cached[a].row /\ cached[a].name = n}

Finish(p, stage) == task' = [task EXCEPT ![p] = [IdleTask EXCEPT !.stage = stage]]

Fetched(p, a, valid, then, lock) ==
    task' = [task EXCEPT ![p] = [IdleTask EXCEPT !.stage = "fetched", !.then = then, !.actor = a, !.name = document[a].name,
                                 !.keys = {l[1] : l \in document[a].keys}, !.valid = valid, !.lock = lock]]

\* resolve_remote_actor: the advisory lock of the handle is held to the end of
\* the store.
LookUpHandle(p, n) ==
    LET a == finger[n] IN
    /\ \A r \in Tasks : task[r].lock # n
    /\ IF Reachable /\ (\A b \in RowOf(n) : ~ cached[b].fresh) /\ DocumentIsFor(a, n) /\ UsableKeys(a)
         THEN Fetched(p, a, TRUE, "done", n) ELSE Finish(p, "done")

\* resolve_remote_actor_for_search
ResolveHandle(p, n) ==
    /\ task[p].stage = "idle" /\ LookUpHandle(p, n)
    /\ UNCHANGED <<document, finger, cached, keyOwner, banned, delivery, vouched>>

\* resolve_remote_actor_url_for_search: the document only names the handle.
ResolveUrl(p, a) ==
    /\ task[p].stage = "idle"
    /\ IF ~ Reachable \/ cached[a].fresh THEN Finish(p, "done") ELSE LookUpHandle(p, document[a].name)
    /\ UNCHANGED <<document, finger, cached, keyOwner, banned, delivery, vouched>>

\* fetch_remote_actor_by_id: a handle that is cached and the same is not asked for again.
FetchById(p, a, then) ==
    LET n == document[a].name
        unchanged == cached[a].row /\ ~ cached[a].invalid /\ cached[a].name = n IN
    IF Reachable /\ UsableKeys(a) THEN Fetched(p, a, unchanged \/ Confirms(n, a), then, Absent) ELSE Finish(p, then)

\* refresh_remote_actor_by_id
RefreshActor(p, a) ==
    /\ task[p].stage = "idle" /\ FetchById(p, a, "done")
    /\ UNCHANGED <<document, finger, cached, keyOwner, banned, delivery, vouched>>

\* resolve_remote_move_target: the handle is taken from the document.
ResolveMoveTarget(p, a) ==
    /\ task[p].stage = "idle"
    /\ IF Reachable /\ UsableKeys(a) THEN Fetched(p, a, TRUE, "done", Absent) ELSE Finish(p, "done")
    /\ UNCHANGED <<document, finger, cached, keyOwner, banned, delivery, vouched>>

\* upsert_remote_actor_with_identity up to its write: the handle is looked for
\* among the other actors.
CheckHandle(p) ==
    /\ task[p].stage = "fetched"
    /\ task' = [task EXCEPT ![p].stage = "checked", ![p].conflict = RowOf(task[p].name) \ {task[p].actor} # {}]
    /\ UNCHANGED <<document, finger, cached, keyOwner, banned, delivery, vouched>>

\* The write: a new row without a handle of its own gets a placeholder.
WithIdentity(row, t) ==
    IF t.valid /\ ~ t.conflict THEN [row |-> TRUE, name |-> t.name, invalid |-> FALSE, fresh |-> TRUE]
    ELSE [row |-> TRUE, name |-> row.name, invalid |-> TRUE, fresh |-> TRUE]

\* replace_remote_actor_keys: the id of a key is unique over all actors.
KeysAreFree(a, ks) == \A k \in ks : keyOwner[k] \in {Absent, a}
ReplaceKeys(a, ks) == [k \in KeyIds |-> IF k \in ks THEN a ELSE IF keyOwner[k] = a THEN Absent ELSE keyOwner[k]]

\* store_remote_actor, store_remote_actor_on
StoreActor(p) ==
    LET t == task[p] IN
    /\ t.stage = "checked"
    /\ IF KeysAreFree(t.actor, t.keys)
         THEN /\ cached' = [cached EXCEPT ![t.actor] = WithIdentity(@, t)]
              /\ keyOwner' = ReplaceKeys(t.actor, t.keys)
         ELSE UNCHANGED <<cached, keyOwner>>
    /\ task' = [task EXCEPT ![p] = [IdleTask EXCEPT !.stage = t.then]]
    /\ UNCHANGED <<document, finger, banned, delivery, vouched>>
-----------------------------------------------------------------------------
(* Deliveries to the inbox *)

Settle(q, outcome) == delivery' = [delivery EXCEPT ![q].outcome = outcome] /\ Finish(q, "done")

\* process_inbox: resolve_remote_actor_by_id takes a fresh row as it is.
Receive(q, a, k, proof) ==
    /\ task[q].stage = "idle"
    /\ delivery' = [delivery EXCEPT ![q] = [NoDelivery EXCEPT !.actor = a, !.key = k, !.proof = proof, !.banned = banned]]
    /\ IF cached[a].fresh THEN Finish(q, "sender") ELSE FetchById(q, a, "sender")
    /\ UNCHANGED <<document, finger, cached, keyOwner, banned, vouched>>

\* authenticate_inbox_http_signer: the owner of the key that is cached
FindSigner(q) ==
    LET d == delivery[q] IN
    /\ task[q].stage = "sender"
    /\ IF ~ cached[d.actor].row THEN Settle(q, "refused")
       ELSE IF keyOwner[d.key] # Absent THEN delivery' = [delivery EXCEPT ![q].signer = keyOwner[d.key]] /\ Finish(q, "verify")
       ELSE FetchById(q, KeyController[d.key], "rekeyed") /\ UNCHANGED delivery
    /\ UNCHANGED <<document, finger, cached, keyOwner, banned, vouched>>

\* resolve_remote_actor_by_key_id: the controller must assert the key.
Rekeyed(q) ==
    LET d == delivery[q] IN
    /\ task[q].stage = "rekeyed"
    /\ IF keyOwner[d.key] = KeyController[d.key]
         THEN delivery' = [delivery EXCEPT ![q].signer = keyOwner[d.key]] /\ Finish(q, "verify") ELSE Settle(q, "refused")
    /\ UNCHANGED <<document, finger, cached, keyOwner, banned, vouched>>

\* Whose key may stand for the activity
Proves(key, a) == key # Absent /\ keyOwner[key] = a

\* A delivery by another server needs a proof of the actor:
\* authenticate_forwarded_activity.
Authenticate(q) ==
    LET d == delivery[q] IN
    /\ task[q].stage = "verify"
    /\ IF d.signer = d.actor \/ Proves(d.proof, d.actor) THEN Settle(q, "accepted")
       ELSE IF d.proof = Absent THEN Settle(q, "refused") ELSE FetchById(q, d.actor, "proved") /\ UNCHANGED delivery
    /\ UNCHANGED <<document, finger, cached, keyOwner, banned, vouched>>

AuthenticateForwarded(q) ==
    /\ task[q].stage = "proved" /\ Settle(q, IF Proves(delivery[q].proof, delivery[q].actor) THEN "accepted" ELSE "refused")
    /\ UNCHANGED <<document, finger, cached, keyOwner, banned, vouched>>

RemoteActorsNext ==
    \/ SuspendDomain
    \/ \E a \in Actors : ActorExpires(a) \/ (\E ks \in KeyLists : ChangeDocument(a, ks)) \/ \E n \in Names : Reassign(n, a)
    \/ \E p \in Lookups : (\E n \in Names : ResolveHandle(p, n)) \/ \E a \in Actors : ResolveUrl(p, a) \/ RefreshActor(p, a) \/ ResolveMoveTarget(p, a)
    \/ \E p \in Tasks : CheckHandle(p) \/ StoreActor(p)
    \/ \E q \in Deliveries : \/ FindSigner(q) \/ Rekeyed(q) \/ Authenticate(q) \/ AuthenticateForwarded(q)
                             \/ \E a \in Actors, k \in KeyIds, proof \in KeyIds \cup {Absent} : Receive(q, a, k, proof)

RemoteActorsSpec == RemoteActorsInit /\ [][RemoteActorsNext]_actor_vars
-----------------------------------------------------------------------------
\* What is accepted in the name of an actor was signed with a key, or carries a
\* proof by one, that the server of this actor has given as the actor's own: in
\* the actor document or in the document of a key it refers to.  Other actors may
\* list the same key, and documents and rows change between the checks.
SenderIsProved ==
    \A q \in Deliveries : LET d == delivery[q] IN
        d.outcome = "accepted" => {d.key, d.proof} \cap vouched[d.actor] # {}

\* No delivery is taken for somebody else's while actors, documents and keys change.
RemoteActorsSafe == RemoteActorsTypeOK /\ SenderIsProved
=============================================================================
