---------------------------- MODULE Relationships ----------------------------
(***************************************************************************)
(* Follows, follow requests, blocks and account moves between one local    *)
(* account and remote actors: the four relation tables, the inbox handlers *)
(* and the requests that change them, and the deliveries they queue.       *)
(*                                                                         *)
(* What peers send arrives late, in any order and any number of times. A   *)
(* transaction that takes the pair's advisory lock before it reads is one  *)
(* step; one that decides on a row it read without the lock is two, and    *)
(* `open` holds what it read. Transactions are READ COMMITTED.             *)
(***************************************************************************)
EXTENDS Naturals, FiniteSets

CONSTANTS
    Actor,
    PeerFollow, PeerBlock,  \* ids of the Follow and Block activities of each actor
    Moves,                  \* <<source, target>> pairs with reciprocal aliases
    MaxActivity,            \* bound: activities requests create
    MaxOpen                 \* bound: unlocked transactions at a time

ASSUME RelationshipsAssumption ==
    /\ {MaxActivity, MaxOpen} \subseteq Nat
    /\ Moves \subseteq {m \in Actor \X Actor : m[1] # m[2]} /\ IsFiniteSet(Moves)

VARIABLES
    following,          \* remote_following: the local account follows an actor
    follower,           \* remote_follow: an actor follows the local account
    blocking,           \* local_remote_account_block: id of the Block, or 0
    blockedBy,          \* remote_local_account_block: id of the Block, or 0
    outbox,             \* deliveries queued so far
    processed,          \* inbox replay markers
    moved,              \* moved_to_remote_actor_id of moved actors
    migrations,         \* unfinished remote_actor_migration jobs
    open,               \* what unfinished transactions have read
    activities,         \* ids handed out by this server
    stale,              \* rows changed by a transaction that had read another value
    undone              \* Follows taken back by an Undo that came after them

relationship_vars == <<following, follower, blocking, blockedBy, outbox, processed, moved,
          migrations, open, activities, stale, undone>>

NoFollow == [state |-> "none"]
Activity(t, r, a) == [type |-> t, actor |-> r, object |-> a]
Types == {"Follow", "Undo", "Accept", "Reject", "Block", "UndoBlock", "Move"}

RelationshipsTypeOK ==
    /\ \A r \in Actor :
        /\ following[r] \in {NoFollow} \cup [activity : 1..activities, active : BOOLEAN,
                                         state : {"pending", "accepted"}]
        /\ follower[r] \in {NoFollow} \cup [activity : PeerFollow[r], row : PeerFollow[r],
                                        state : {"pending", "accepted"}]
        /\ blocking[r] \in 0..activities
        /\ blockedBy[r] \in {0} \cup PeerBlock[r]
    /\ \A m \in outbox \cup processed : m.type \in Types /\ m.actor \in Actor
    /\ moved \subseteq Moves /\ migrations \subseteq Moves
    /\ Cardinality(open) <= MaxOpen
    /\ activities \in 0..MaxActivity + Cardinality(Moves)

RelationshipsInit ==
    /\ following = [r \in Actor |-> NoFollow]
    /\ follower = [r \in Actor |-> NoFollow]
    /\ blocking = [r \in Actor |-> 0]
    /\ blockedBy = [r \in Actor |-> 0]
    /\ outbox = {} /\ processed = {} /\ moved = {} /\ migrations = {} /\ open = {}
    /\ activities = 0
    /\ stale = {} /\ undone = {}
-----------------------------------------------------------------------------
Blocked(r) == blocking[r] # 0 \/ blockedBy[r] # 0
Active(r) == following[r] # NoFollow /\ following[r].active
Send(t, r, a) == outbox' = outbox \cup {Activity(t, r, a)}

NewActivity == activities < MaxActivity /\ activities' = activities + 1

\* Severs both directions of the pair.
Sever(r) ==
    /\ following' = [following EXCEPT ![r] = NoFollow]
    /\ follower' = [follower EXCEPT ![r] = NoFollow]

Begin(t) ==
    /\ Cardinality(open) < MaxOpen
    /\ open' = open \cup {t}
    /\ UNCHANGED <<following, follower, blocking, blockedBy, outbox, processed, moved,
                   migrations, activities, stale, undone>>

\* The row a transaction changes is no longer the one it read.
Changed(t, activity) ==
    stale' = IF activity = t.object THEN stale ELSE stale \cup {<<t.actor, activity>>}
-----------------------------------------------------------------------------
\* An active follow only has its options changed.
Follow(r) ==
    /\ ~Blocked(r) /\ ~Active(r) /\ NewActivity
    /\ following' = [following EXCEPT
            ![r] = [activity |-> activities', state |-> "pending", active |-> TRUE]]
    /\ Send("Follow", r, activities')
    /\ UNCHANGED <<follower, blocking, blockedBy, processed, moved, migrations, open,
                   stale, undone>>

\* The Undo is prepared for the follow read here.
BeginUnfollow(r) ==
    /\ Active(r)
    /\ Begin([handler |-> "unfollow", actor |-> r, object |-> following[r].activity])

\* It is sent for whatever row is read again, and also when that row is gone by
\* the time of the DELETE, which names its key.
Unfollow(t) ==
    /\ t.handler = "unfollow"
    /\ open' = open \ {t}
    /\ \/ /\ following[t.actor] # NoFollow
          /\ Changed(t, following[t.actor].activity)
          /\ following' = [following EXCEPT ![t.actor] = NoFollow]
          /\ Send("Undo", t.actor, t.object)
       \/ /\ following[t.actor] # NoFollow => following[t.actor].activity # t.object
          /\ Send("Undo", t.actor, t.object)
          /\ UNCHANGED <<following, stale>>
       \/ following[t.actor] = NoFollow /\ UNCHANGED <<following, outbox, stale>>
    /\ UNCHANGED <<follower, blocking, blockedBy, processed, moved, migrations, activities,
                   undone>>

\* Repeated blocks share one activity. What the block does to the notifications of
\* the actor is DismissSender of NotificationRequests.
Block(r) ==
    /\ IF blocking[r] # 0 THEN UNCHANGED <<blocking, outbox, activities>>
       ELSE /\ NewActivity
            /\ blocking' = [blocking EXCEPT ![r] = activities']
            /\ Send("Block", r, activities')
    /\ Sever(r)
    /\ UNCHANGED <<blockedBy, processed, moved, migrations, open, stale, undone>>

BeginUnblock(r) ==
    /\ blocking[r] # 0
    /\ Begin([handler |-> "unblock", actor |-> r, object |-> blocking[r]])

Unblock(t) ==
    /\ t.handler = "unblock"
    /\ open' = open \ {t}
    /\ IF blocking[t.actor] = 0 THEN UNCHANGED <<blocking, outbox, stale>>
       ELSE /\ Changed(t, blocking[t.actor])
            /\ blocking' = [blocking EXCEPT ![t.actor] = 0]
            /\ Send("UndoBlock", t.actor, t.object)
    /\ UNCHANGED <<following, follower, blockedBy, processed, moved, migrations, activities,
                   undone>>

BeginAnswer(r, handler) ==
    /\ follower[r].state = "pending"
    /\ Begin([handler |-> handler, actor |-> r, object |-> follower[r].activity,
              row |-> follower[r].row])

RowRemains(t) == follower[t.actor] # NoFollow /\ follower[t.actor].row = t.row

\* The UPDATE names the row; without it the transaction fails.
AcceptRequest(t) ==
    /\ t.handler = "accept"
    /\ open' = open \ {t}
    /\ IF ~RowRemains(t) THEN UNCHANGED <<follower, outbox, stale>>
       ELSE /\ Changed(t, follower[t.actor].activity)
            /\ follower' = [follower EXCEPT ![t.actor].state = "accepted"]
            /\ Send("Accept", t.actor, t.object)
    /\ UNCHANGED <<following, blocking, blockedBy, processed, moved, migrations, activities,
                   undone>>

\* The DELETE names the row; without it the Reject is sent all the same.
RejectRequest(t) ==
    /\ t.handler = "reject"
    /\ open' = open \ {t}
    /\ Send("Reject", t.actor, t.object)
    /\ IF ~RowRemains(t) THEN UNCHANGED <<follower, stale>>
       ELSE /\ Changed(t, follower[t.actor].activity)
            /\ follower' = [follower EXCEPT ![t.actor] = NoFollow]
    /\ UNCHANGED <<following, blocking, blockedBy, processed, moved, migrations, activities,
                   undone>>
-----------------------------------------------------------------------------
IsNew(m) == m \notin processed

\* mutant: a block is not looked up
FollowReceived_Unchecked(r, x) == \E state \in {"pending", "accepted"} :
    /\ follower' = [follower EXCEPT ![r] =
            [activity |-> x, row |-> IF @ = NoFollow THEN x ELSE @.row, state |-> state]]
    /\ IF state = "accepted" THEN Send("Accept", r, x) ELSE UNCHANGED outbox

\* Whether the account is locked decides; the row keeps its key when it exists.
FollowReceived(r, x) ==
    IF Blocked(r) THEN UNCHANGED <<follower, outbox>>
    ELSE \E state \in {"pending", "accepted"} :
        /\ follower' = [follower EXCEPT ![r] =
                [activity |-> x, row |-> IF @ = NoFollow THEN x ELSE @.row, state |-> state]]
        /\ IF state = "accepted" THEN Send("Accept", r, x) ELSE UNCHANGED outbox

UndoFollowReceived(r, x) ==
    /\ follower' = [follower EXCEPT ![r] = IF @ # NoFollow /\ @.activity = x THEN NoFollow ELSE @]
    /\ undone' = IF Activity("Follow", r, x) \in processed THEN undone \cup {<<r, x>>} ELSE undone

AcceptReceived(r, a) ==
    following' = [following EXCEPT ![r] =
        IF @ # NoFollow /\ @.activity = a THEN [@ EXCEPT !.state = "accepted"] ELSE @]

RejectReceived(r, a) ==
    following' = [following EXCEPT ![r] = IF @ # NoFollow /\ @.activity = a THEN NoFollow ELSE @]

BlockReceived(r, b) ==
    /\ blockedBy' = [blockedBy EXCEPT ![r] = IF @ = 0 THEN b ELSE @]
    /\ Sever(r)

\* The actor's move is recorded and a job is queued unless one is unfinished.
MoveReceived(r, t) ==
    /\ moved' = {m \in moved : m[1] # r} \cup {<<r, t>>}
    /\ migrations' = migrations \cup {<<r, t>>}

\* A peer answers only what was queued for it.
Answerable(r, a) == Activity("Follow", r, a) \in outbox

Receive(m) ==
    /\ IsNew(m)
    /\ processed' = processed \cup {m}
    /\ UNCHANGED <<blocking, open, activities, stale>>

ReceiveFollow(r) == \E x \in PeerFollow[r] :
    /\ Receive(Activity("Follow", r, x)) /\ FollowReceived(r, x)
    /\ UNCHANGED <<following, blockedBy, moved, migrations, undone>>

ReceiveUndoFollow(r) == \E x \in PeerFollow[r] :
    /\ Receive(Activity("Undo", r, x)) /\ UndoFollowReceived(r, x)
    /\ UNCHANGED <<following, blockedBy, outbox, moved, migrations>>

ReceiveAnswer(r) == \E a \in 1..activities :
    /\ Answerable(r, a)
    /\ \/ Receive(Activity("Accept", r, a)) /\ AcceptReceived(r, a)
       \/ Receive(Activity("Reject", r, a)) /\ RejectReceived(r, a)
    /\ UNCHANGED <<follower, blockedBy, outbox, moved, migrations, undone>>

ReceiveBlock(r) == \E b \in PeerBlock[r] :
    /\ Receive(Activity("Block", r, b)) /\ BlockReceived(r, b)
    /\ UNCHANGED <<outbox, moved, migrations, undone>>

\* An Undo whose Block is not the stored one is refused and leaves no marker.
ReceiveUndoBlock(r) == \E b \in PeerBlock[r] :
    /\ blockedBy[r] = b
    /\ Receive(Activity("UndoBlock", r, b))
    /\ blockedBy' = [blockedBy EXCEPT ![r] = 0]
    /\ UNCHANGED <<following, follower, outbox, moved, migrations, undone>>

ReceiveMove(r) == \E t \in {m[2] : m \in {n \in Moves : n[1] = r}} :
    /\ Receive(Activity("Move", r, t)) /\ MoveReceived(r, t)
    /\ UNCHANGED <<following, follower, blockedBy, outbox, undone>>
-----------------------------------------------------------------------------
MigrationApplies(j) ==
    j \in moved /\ Active(j[1]) /\ following[j[1]].state = "accepted"

Running(j) == \E t \in open : t.handler = "migrate" /\ t.job = j

\* The block check and the choice to prepare a Follow come before the locks.
BeginMigration(j) ==
    /\ MigrationApplies(j) /\ ~Running(j)
    /\ Begin([handler |-> "migrate", job |-> j, actor |-> j[2],
              object |-> following[j[1]].activity, allowed |-> ~Blocked(j[2]),
              prepared |-> ~Blocked(j[2]) /\ ~Active(j[2])])

\* Nothing is left to transfer.
MigrationDone(j) ==
    /\ ~MigrationApplies(j) /\ ~Running(j)
    /\ migrations' = migrations \ {j}
    /\ UNCHANGED <<following, follower, blocking, blockedBy, outbox, processed, moved, open,
                   activities, stale, undone>>

\* Checked again under the locks: the follow read before is still there to move.
StillApplies(t) == MigrationApplies(t.job) /\ following[t.job[1]].activity = t.object

\* A follow of the target is due, and none was prepared or a row is in its place:
\* UNIQUE (local_account_id, remote_actor_id) covers deactivated rows too.
Obstructed(t) ==
    /\ t.allowed /\ ~Active(t.actor)
    /\ ~t.prepared \/ following[t.actor] # NoFollow

\* The target follow takes the place of the source follow.
Transfer(t) ==
    /\ t.allowed /\ ~Active(t.actor) /\ ~Obstructed(t)
    /\ activities' = activities + 1
    /\ following' = [following EXCEPT
            ![t.job[1]].active = FALSE,
            ![t.actor] = [activity |-> activities', state |-> "pending", active |-> TRUE]]
    /\ outbox' = outbox \cup {Activity("Follow", t.actor, activities'),
                              Activity("Undo", t.job[1], t.object)}
    /\ stale' = IF Blocked(t.actor) THEN stale \cup {<<t.actor, activities'>>} ELSE stale

\* The target is followed already, or must not be.
Drop(t) ==
    /\ t.allowed => Active(t.actor)
    /\ following' = [following EXCEPT ![t.job[1]].active = FALSE]
    /\ Send("Undo", t.job[1], t.object)
    /\ UNCHANGED <<activities, stale>>

\* One transaction per follow.
Migrate(t) ==
    /\ t.handler = "migrate"
    /\ open' = open \ {t}
    /\ migrations' = migrations \ {t.job}
    /\ IF StillApplies(t) THEN Transfer(t) \/ Drop(t)
       ELSE UNCHANGED <<following, outbox, activities, stale>>
    /\ UNCHANGED <<follower, blocking, blockedBy, processed, moved, undone>>

\* mutant: a failed migration is not tried again
MigrationFails_GivesUp(t) ==
    /\ t.handler = "migrate" /\ StillApplies(t) /\ Obstructed(t)
    /\ open' = open \ {t}
    /\ migrations' = migrations \ {t.job}
    /\ UNCHANGED <<following, follower, blocking, blockedBy, outbox, processed, moved,
                   activities, stale, undone>>

\* The transaction is rolled back and the job waits for its next attempt.
MigrationFails(t) ==
    /\ t.handler = "migrate" /\ StillApplies(t) /\ Obstructed(t)
    /\ open' = open \ {t}
    /\ UNCHANGED <<following, follower, blocking, blockedBy, outbox, processed, moved,
                   migrations, activities, stale, undone>>
-----------------------------------------------------------------------------
Finish(t) == Unfollow(t) \/ Unblock(t) \/ AcceptRequest(t) \/ RejectRequest(t)
             \/ Migrate(t) \/ MigrationFails(t)

RelationshipsNext ==
    \/ \E r \in Actor :
        \/ Follow(r) \/ BeginUnfollow(r) \/ Block(r) \/ BeginUnblock(r)
        \/ BeginAnswer(r, "accept") \/ BeginAnswer(r, "reject")
        \/ ReceiveFollow(r) \/ ReceiveUndoFollow(r) \/ ReceiveAnswer(r)
        \/ ReceiveBlock(r) \/ ReceiveUndoBlock(r) \/ ReceiveMove(r)
    \/ \E t \in open : Finish(t)
    \/ \E j \in migrations : BeginMigration(j) \/ MigrationDone(j)

RelationshipsSpec == RelationshipsInit /\ [][RelationshipsNext]_relationship_vars

\* A transaction that has begun ends, and the job queue runs its jobs.
Fairness ==
    /\ \A h \in {"unfollow", "unblock", "accept", "reject", "migrate"} :
        WF_relationship_vars(\E t \in open : t.handler = h /\ Finish(t))
    /\ \A j \in Moves : WF_relationship_vars(j \in migrations /\ (BeginMigration(j) \/ MigrationDone(j)))
-----------------------------------------------------------------------------
\* "sever all relationships for its pair" (db/src/lib.rs:9399): while either side
\* blocks the other neither follows the other, whatever order the block, the follow,
\* its answers and their redeliveries are processed in. The one exception is a
\* follow of a migration that looked for blocks before it took the lock.
BlockSevers == \A r \in Actor : Blocked(r) =>
    /\ follower[r] = NoFollow
    /\ following[r] = NoFollow \/ <<r, following[r].activity>> \in stale

\* An accepted follow was accepted by the peer under its present activity: a late
\* answer to a follow that was undone and renewed does not count.
AcceptedByPeer == \A r \in Actor :
    following[r].state = "accepted" => Activity("Accept", r, following[r].activity) \in processed

\* A follower the account accepted was sent an Accept of its Follow and no Reject,
\* and a request that waits was answered neither way. The exception is a row that was
\* renewed between the read and the write of the handler that answered it.
AnswersAgree == \A r \in Actor : follower[r] # NoFollow =>
    LET sent(t) == Activity(t, r, follower[r].activity) \in outbox
    IN \/ <<r, follower[r].activity>> \in stale
       \/ ~sent("Reject") /\ (sent("Accept") <=> follower[r].state = "accepted")

\* A Follow that its sender took back stays taken back, however often it is
\* delivered again.
UndoneStaysUndone == \A r \in Actor :
    follower[r] # NoFollow => <<r, follower[r].activity>> \notin undone

\* No peer is left with a follow this server has forgotten: each Follow sent is the
\* present one, was undone or rejected, or ended with a block that was sent or received.
NoFollowLeftBehind == \A m \in outbox : m.type = "Follow" =>
    \/ following[m.actor] # NoFollow /\ following[m.actor].activity = m.object
    \/ Activity("Undo", m.actor, m.object) \in outbox
    \/ Activity("Reject", m.actor, m.object) \in processed
    \/ \E b \in outbox : b.type = "Block" /\ b.actor = m.actor /\ b.object > m.object
    \/ \E b \in PeerBlock[m.actor] : Activity("Block", m.actor, b) \in processed
    \/ <<m.actor, m.object>> \in stale

\* "concurrent repeated block requests share one stable activity": each Block sent is
\* the present one or was undone.
NoBlockLeftBehind == \A m \in outbox : m.type = "Block" =>
    \/ blocking[m.actor] = m.object
    \/ Activity("UndoBlock", m.actor, m.object) \in outbox
    \/ <<m.actor, m.object>> \in stale

\* The job has not read its followers yet, or has read this follow.
Owed(j, a) ==
    /\ j \in migrations /\ MigrationApplies(j) /\ following[j[1]].activity = a
    /\ \A t \in open : t.handler = "migrate" /\ t.job = j => t.object = a
Gone(j, a) == ~(Active(j[1]) /\ following[j[1]].activity = a)
Returning(j) == following[j[2]] # NoFollow /\ ~following[j[2]].active

\* "Reciprocal-alias-verified account moves transfer accepted local followers"
\* (compatibility.adoc:114): a follow that is accepted when the job reads its
\* batch leaves the old actor.
MigrationCompletes == \A j \in Moves : \A a \in 1..MaxActivity + Cardinality(Moves) :
    Owed(j, a) ~> Gone(j, a)

\* The same, unless the account moves to one whose follow was deactivated before.
FirstMigrationCompletes == \A j \in Moves : \A a \in 1..MaxActivity + Cardinality(Moves) :
    Owed(j, a) ~> Gone(j, a) \/ Returning(j)

\* Both sides of a relationship agree about it, up to the transactions that read
\* before they take the lock.
RelationshipsSafe ==
    /\ RelationshipsTypeOK
    /\ BlockSevers /\ AcceptedByPeer /\ AnswersAgree /\ UndoneStaysUndone
    /\ NoFollowLeftBehind /\ NoBlockLeftBehind
=============================================================================
