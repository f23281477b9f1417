---------------------------- MODULE Interactions ----------------------------
(***************************************************************************)
(* Favourites and boosts, the counters that trends are ranked by, and the   *)
(* maintenance job that recounts them.                                      *)
(*                                                                          *)
(* A client reads its mark, changes it, adjusts the counter of the status   *)
(* and marks the status dirty, all in one transaction; a maintenance job    *)
(* claims dirty statuses with SKIP LOCKED, counts the rows, overwrites the  *)
(* counters and removes the marks.  Locks and unique keys are guards; any   *)
(* transaction may be aborted, by an error or as the victim of a deadlock.  *)
(***************************************************************************)
EXTENDS Integers, FiniteSets

CONSTANTS
    LocalActors, RemoteActors,
    OurStatuses, TheirStatuses,  \* statuses written here, cached Notes
    Clients,                    \* transactions that run at a time
    BatchSize,                   \* 100 in the code
    TrendsAt,                    \* interactions that give a score of at least one
    MaxActivities                \* bound: activities that are ever issued

ASSUME InteractionsAssumption ==
    /\ {BatchSize, TrendsAt, MaxActivities} \subseteq Nat \ {0}
    /\ LocalActors \cap RemoteActors = {} /\ OurStatuses \cap TheirStatuses = {}

Verbs == {"like", "boost", "bookmark"}
Counts == {"like", "boost"}  \* status_trend_metric has a column for each
Statuses == OurStatuses \cup TheirStatuses

\* Who may have a mark about which status: a remote Like of a cached Note is
\* not stored, and bookmarks are of local statuses.
Interacting == {k \in [by : LocalActors \cup RemoteActors, on : Statuses, verb : Verbs] :
                  /\ k.verb = "like" => k.by \in LocalActors \/ k.on \in OurStatuses
                  /\ k.verb = "bookmark" => k.by \in LocalActors /\ k.on \in OurStatuses}

ASSUME InteractingIsFinite == IsFiniteSet(Interacting)

VARIABLES
    mark,      \* the activity stored for each pair, 0 for none
    counter,  \* status_trend_metric
    dirty,    \* trend_dirty
    client,   \* [pc, undo, key, id, adds, drops]
    maintain, \* the maintenance transaction: [open, marks, claimed, found, stored]
    refresh,  \* the TrendMaintenance job: "none", "queued" or "running"
    outbox,   \* deliveries enqueued: [what, key, id]
    crossed,  \* history: delivered pairs two requests were about at once
    issued    \* activities so far

interaction_vars == <<mark, counter, dirty, client, maintain, refresh, outbox, crossed, issued>>

Quiet == [pc |-> "idle"]
NoBatch == [open |-> FALSE, marks |-> {}, claimed |-> {}, found |-> {}, stored |-> {}]

InteractionsInit ==
    /\ mark = [k \in Interacting |-> 0]
    /\ counter = [s \in Statuses |-> [v \in Counts |-> 0]]
    /\ dirty = {}
    /\ client = [r \in Clients |-> Quiet]
    /\ maintain = NoBatch /\ refresh = "none"
    /\ outbox = {} /\ crossed = {} /\ issued = 0

InteractionsTypeOK ==
    /\ mark \in [Interacting -> 0..MaxActivities]
    /\ counter \in [Statuses -> [Counts -> Nat]]
    /\ dirty \subseteq Statuses
    /\ \A r \in Clients : client[r].pc \in {"idle", "read", "written", "marked", "done"}
    /\ maintain.stored \subseteq maintain.claimed /\ maintain.claimed \subseteq Statuses
    /\ refresh \in {"none", "queued", "running"}
    /\ \A k \in {d.key : d \in outbox} \cup crossed : k.by \in LocalActors /\ k.on \in TheirStatuses
-----------------------------------------------------------------------------
\* The row of a client that has written and not committed is locked, and so
\* are the counters of its status.
Holding(r) == client[r].pc \in {"written", "marked"}
Wrote(q) == q.pc \in {"written", "marked", "done"} /\ (q.adds \/ q.undo)
KeyLocked(r, k) == \E q \in Clients \ {r} : Wrote(client[q]) /\ client[q].key = k
CounterLocked(r, s) == \/ \E q \in Clients \ {r} : Holding(q) /\ client[q].key.on = s
                       \/ s \in maintain.stored

\* The maintenance holds the marks it has made and the ones it has claimed.
ClaimedMark(s) == s \in maintain.claimed \cup maintain.marks

Delivered(k) == k.by \in LocalActors /\ k.on \in TheirStatuses
Inbound(k) == k.by \in RemoteActors
Busy(q, k) == q.pc # "idle" /\ q.key = k

\* A client that has looked at its mark, and the activity it sends or received.
Began(r, k, undo, id) ==
    /\ client[r].pc = "idle"
    /\ client' = [client EXCEPT ![r] =
                     [pc |-> "read", undo |-> undo, key |-> k, id |-> id, adds |-> FALSE, drops |-> FALSE]]
    /\ crossed' = IF Delivered(k) /\ \E q \in Clients : Busy(client[q], k) THEN crossed \cup {k} ELSE crossed
    /\ UNCHANGED <<mark, counter, dirty, maintain, refresh, outbox>>

Add(r, k) ==
    /\ issued < MaxActivities /\ issued' = issued + 1
    /\ Began(r, k, FALSE, issued + 1)

RemoveRow(r, k) == mark[k] # 0 /\ Began(r, k, TRUE, mark[k]) /\ UNCHANGED issued

\* An account that already has the mark gets an answer and changes nothing.
Favourite(r, k) == k.verb = "like" /\ ~ Inbound(k) /\ ~ Delivered(k) /\ mark[k] = 0 /\ Add(r, k)
FavouriteRemote(r, k) == k.verb = "like" /\ Delivered(k) /\ mark[k] = 0 /\ Add(r, k)
Reblog(r, k) == k.verb = "boost" /\ ~ Inbound(k) /\ ~ Delivered(k) /\ mark[k] = 0 /\ Add(r, k)
ReblogRemote(r, k) == k.verb = "boost" /\ Delivered(k) /\ mark[k] = 0 /\ Add(r, k)
Bookmark(r, k) == k.verb = "bookmark" /\ mark[k] = 0 /\ Add(r, k)

Unfavourite(r, k) == k.verb = "like" /\ ~ Inbound(k) /\ ~ Delivered(k) /\ RemoveRow(r, k)
UnfavouriteRemote(r, k) == k.verb = "like" /\ Delivered(k) /\ RemoveRow(r, k)
Unreblog(r, k) == k.verb = "boost" /\ ~ Inbound(k) /\ ~ Delivered(k) /\ RemoveRow(r, k)
UnreblogRemote(r, k) == k.verb = "boost" /\ Delivered(k) /\ RemoveRow(r, k)
Unbookmark(r, k) == k.verb = "bookmark" /\ RemoveRow(r, k)

\* The inbox stores a Like without a look at the mark, an Announce after one.
\* An Undo finds the mark by the activity it names, or nothing.
ReceiveLike(r, k) == k.verb = "like" /\ Inbound(k) /\ Add(r, k)
ReceiveAnnounce(r, k) == k.verb = "boost" /\ Inbound(k) /\ mark[k] = 0 /\ Add(r, k)
ReceiveUndoLike(r, k) == k.verb = "like" /\ Inbound(k) /\ RemoveRow(r, k)
ReceiveUndoAnnounce(r, k) == k.verb = "boost" /\ Inbound(k) /\ RemoveRow(r, k)

\* Whether an undo deletes the mark it finds now.  A pair is the key of a local
\* mark, an inbound Undo names an activity.  An undo that is delivered looks the
\* pair up once more and deletes that row, another one than the handler read if
\* the pair was unmarked and marked again; a row that went after this look is
\* not deleted a second time.
Drops(q) == IF ~ q.undo \/ mark[q.key] = 0 THEN {FALSE}
            ELSE IF Inbound(q.key) THEN {mark[q.key] = q.id}
            ELSE IF Delivered(q.key) /\ mark[q.key] # q.id THEN BOOLEAN ELSE {TRUE}

\* The counters change with the mark; a delete that finds no mark any more
\* still counts down.
WriteRow(r) ==
    LET q == client[r] IN
    /\ q.pc = "read" /\ ~ KeyLocked(r, q.key) /\ (q.undo \/ mark[q.key] = 0)
    /\ q.key.verb \in Counts => ~ CounterLocked(r, q.key.on)
    /\ \E drops \in Drops(q) :
         client' = [client EXCEPT ![r] = [q EXCEPT !.adds = ~ q.undo, !.drops = drops,
                                                   !.pc = IF q.key.verb \in Counts THEN "written" ELSE "done"]]
    /\ UNCHANGED <<mark, counter, dirty, maintain, refresh, outbox, crossed, issued>>

\* A Like is inserted with ON CONFLICT DO NOTHING when it is delivered or comes
\* from outside; a boost that is delivered looks for a row first.  Such a client
\* goes on beside the mark of another, and delivers its own activity as well.
Ignored(k) == IF k.verb = "like" THEN Delivered(k) \/ Inbound(k) ELSE k.verb = "boost" /\ Delivered(k)

\* Every other insert fails on the unique key, and so does that of a boost
\* whose look came before the mark.
Collides(k) == k.verb = "like" => ~ Ignored(k)

\* The mark has come meanwhile.
MeetRow(r) ==
    LET q == client[r] IN
    /\ q.pc = "read" /\ ~ KeyLocked(r, q.key) /\ ~ q.undo /\ mark[q.key] # 0
    /\ \/ Ignored(q.key) /\ client' = [client EXCEPT ![r] = [q EXCEPT !.pc = "done"]]
       \/ Collides(q.key) /\ client' = [client EXCEPT ![r] = Quiet]
    /\ UNCHANGED <<mark, counter, dirty, maintain, refresh, outbox, crossed, issued>>

\* mark_trend_dirty waits while the maintenance has claimed the mark.
MarkDirty(r) ==
    /\ client[r].pc = "written" /\ ~ ClaimedMark(client[r].key.on)
    /\ client' = [client EXCEPT ![r].pc = "marked"]
    /\ UNCHANGED <<mark, counter, dirty, maintain, refresh, outbox, crossed, issued>>

AtLeastZero(n) == IF n < 0 THEN 0 ELSE n

RowAfter(q) == IF q.adds THEN q.id ELSE IF q.drops THEN 0 ELSE mark[q.key]

\* The activity and its job, keyed by the identifier of the activity.
Like(q) == [what |-> "Like", key |-> q.key, id |-> q.id]
UndoLike(q) == [what |-> "UndoLike", key |-> q.key, id |-> q.id]
AnnounceBoost(q) == [what |-> "Announce", key |-> q.key, id |-> q.id]
UndoAnnounce(q) == [what |-> "UndoAnnounce", key |-> q.key, id |-> q.id]
Delivery(q) == IF q.key.verb = "like" THEN IF q.undo THEN UndoLike(q) ELSE Like(q)
               ELSE IF q.undo THEN UndoAnnounce(q) ELSE AnnounceBoost(q)

CommitRequest(r) ==
    LET q == client[r] IN
    /\ q.pc \in {"marked", "done"}
    /\ mark' = [mark EXCEPT ![q.key] = RowAfter(q)]
    /\ counter' = IF q.key.verb \in Counts /\ (q.adds \/ q.undo)
                  THEN [counter EXCEPT ![q.key.on][q.key.verb] = AtLeastZero(@ + (IF q.adds THEN 1 ELSE -1))]
                  ELSE counter
    /\ dirty' = IF q.pc = "marked" THEN dirty \cup {q.key.on} ELSE dirty
    /\ outbox' = IF Delivered(q.key) THEN outbox \cup {Delivery(q)} ELSE outbox
    /\ client' = [client EXCEPT ![r] = Quiet]
    /\ UNCHANGED <<maintain, refresh, crossed, issued>>

AbortRequest(r) ==
    /\ client[r].pc # "idle"
    /\ client' = [client EXCEPT ![r] = Quiet]
    /\ UNCHANGED <<mark, counter, dirty, maintain, refresh, outbox, crossed, issued>>

\* process_remote_actor_delete marks what the actor has interacted with and
\* drops the rows; the counters are left to the maintenance.
InteractedWith(m) == {s \in Statuses : \E k \in Interacting : k.by = m /\ k.on = s /\ mark[k] # 0}

ForgetActor(m) ==
    /\ \A s \in InteractedWith(m) : ~ ClaimedMark(s)
    /\ \A r \in Clients : Holding(r) => client[r].key.by # m /\ client[r].key.on \notin InteractedWith(m)
    /\ dirty' = dirty \cup InteractedWith(m)
    /\ mark' = [k \in Interacting |-> IF k.by = m THEN 0 ELSE mark[k]]
    /\ UNCHANGED <<counter, client, maintain, refresh, outbox, crossed, issued>>
-----------------------------------------------------------------------------
Counted(s) == [v \in Counts |-> Cardinality({k \in Interacting : k.on = s /\ k.verb = v /\ mark[k] # 0})]

\* status_trend_score: the score is one or more; its decay with age is left out.
Trends(s) == counter[s]["like"] + counter[s]["boost"] >= TrendsAt
Trending == {s \in Statuses : Trends(s)}

\* enqueue_due_trend_refresh: one process finds the schedule due and unlocked,
\* and no maintenance job that is not complete.
ScheduleRefresh ==
    /\ refresh = "none"
    /\ refresh' = "queued"
    /\ UNCHANGED <<mark, counter, dirty, client, maintain, outbox, crossed, issued>>

MarkLocked(s) == \E r \in Clients : client[r].pc = "marked" /\ client[r].key.on = s

\* maintain_trends claims marks that nobody has locked.
\* Mutant: it claims them whether they are locked or not.
Claimable_Locked == dirty \cup Trending

Claimable == {s \in dirty \cup Trending : ~ MarkLocked(s)}

SmallerOf(a, b) == IF a < b THEN a ELSE b

\* It marks the statuses that are trending anew, which waits for a mark that
\* another transaction is inserting, and takes the oldest marks first.
ClaimBatch ==
    /\ refresh = "queued" /\ ~ maintain.open
    /\ \A s \in Trending \ dirty : ~ MarkLocked(s)
    /\ \E batch \in SUBSET Claimable :
         /\ Cardinality(batch) = SmallerOf(BatchSize, Cardinality(Claimable))
         /\ (dirty \cap Claimable) \ batch # {} => batch \subseteq dirty
         /\ maintain' = [NoBatch EXCEPT !.open = TRUE, !.marks = Trending \ dirty, !.claimed = batch]
    /\ refresh' = "running"
    /\ UNCHANGED <<mark, counter, dirty, client, outbox, crossed, issued>>

Recounted == {f.status : f \in maintain.found}

\* refresh_status_trend counts the rows it can see ...
Recount(s) ==
    /\ Recounted = maintain.stored /\ s \in maintain.claimed \ Recounted
    /\ maintain' = [maintain EXCEPT !.found = @ \cup {[status |-> s, counts |-> Counted(s)]}]
    /\ UNCHANGED <<mark, counter, dirty, client, refresh, outbox, crossed, issued>>

\* ... and overwrites the counters, when no client has them.
StoreCount(s) ==
    /\ s \in Recounted \ maintain.stored
    /\ \A r \in Clients : ~ (Holding(r) /\ client[r].key.on = s)
    /\ maintain' = [maintain EXCEPT !.stored = @ \cup {s}]
    /\ UNCHANGED <<mark, counter, dirty, client, refresh, outbox, crossed, issued>>

\* The marks go; the worker enqueues a continuation if any are left.
FinishBatch ==
    /\ maintain.open /\ maintain.stored = maintain.claimed
    /\ counter' = [s \in Statuses |->
                     IF s \in maintain.stored
                     THEN (CHOOSE f \in maintain.found : f.status = s).counts ELSE counter[s]]
    /\ dirty' = (dirty \cup maintain.marks) \ maintain.claimed
    /\ refresh' = IF dirty' # {} THEN "queued" ELSE "none"
    /\ maintain' = NoBatch
    /\ UNCHANGED <<mark, client, outbox, crossed, issued>>

\* The transaction is rolled back and the job retried.
AbortBatch ==
    /\ maintain.open
    /\ maintain' = NoBatch /\ refresh' = "queued"
    /\ UNCHANGED <<mark, counter, dirty, client, outbox, crossed, issued>>

InteractionsNext ==
    \/ \E r \in Clients :
         \/ \E k \in Interacting :
              \/ Favourite(r, k) \/ FavouriteRemote(r, k) \/ Reblog(r, k) \/ ReblogRemote(r, k)
              \/ Unfavourite(r, k) \/ UnfavouriteRemote(r, k) \/ Unreblog(r, k) \/ UnreblogRemote(r, k)
              \/ Bookmark(r, k) \/ Unbookmark(r, k) \/ ReceiveLike(r, k) \/ ReceiveAnnounce(r, k)
              \/ ReceiveUndoLike(r, k) \/ ReceiveUndoAnnounce(r, k)
         \/ WriteRow(r) \/ MeetRow(r) \/ MarkDirty(r) \/ CommitRequest(r) \/ AbortRequest(r)
    \/ \E m \in RemoteActors : ForgetActor(m)
    \/ ScheduleRefresh \/ ClaimBatch \/ FinishBatch \/ AbortBatch
    \/ \E s \in Statuses : Recount(s) \/ StoreCount(s)

InteractionsSpec == InteractionsInit /\ [][InteractionsNext]_interaction_vars
-----------------------------------------------------------------------------
Undos == {"UndoLike", "UndoAnnounce"}
WasSent(k, id, undo) == Delivery([key |-> k, id |-> id, undo |-> undo]) \in outbox

\* The counters differ from the rows only while the status is marked dirty:
\* whatever two requests, the deletion of an actor and a maintenance batch do
\* to each other (a mark deleted once and counted down twice, rows dropped
\* without counting), a recount is still owed to the status.
DriftIsMarked == \A s \in Statuses : counter[s] # Counted(s) => s \in dirty

\* A mark that is stored has been told to the other server, an Undo names an
\* activity that was sent, and unless two requests of the account about one
\* status met, every Like and Announce that was sent is stored or undone: other
\* servers keep none that the account cannot take back any more.
SentActivityIsKnown ==
    /\ \A k \in Interacting : Delivered(k) /\ mark[k] # 0 => WasSent(k, mark[k], FALSE)
    /\ \A d \in outbox : d.what \in Undos => WasSent(d.key, d.id, FALSE)
    /\ \A d \in outbox : d.what \notin Undos =>
         mark[d.key] = d.id \/ WasSent(d.key, d.id, TRUE) \/ d.key \in crossed

\* Counters and activities stay true to the rows they come from, whichever
\* requests, deletions and batches run at once.
InteractionsSafe == InteractionsTypeOK /\ DriftIsMarked /\ SentActivityIsKnown
=============================================================================
