-------------------------------- MODULE Tags --------------------------------
(***************************************************************************)
(* Hashtags and pins.  Writers of public statuses keep the daily usage of a *)
(* tag in step with the statuses, and the trend refresher reads it; each    *)
(* statement of theirs may wait for a row another transaction has locked,   *)
(* and PostgreSQL ends a cycle of waits by a rollback.  An account features *)
(* tags and pins statuses up to a limit, and tells its followers; of remote *)
(* actors the same collections are cached.                                  *)
(***************************************************************************)
EXTENDS Integers, FiniteSets, Sequences, SequencesExt

CONSTANTS
    TagIds,         \* the tags, numbers in the order of their identities
    Works,          \* statuses, all published on day 1
    Authors,        \* of statuses, local or remote
    TrendAt,        \* accounts a tag needs to trend: 5 in the code
    PeakDays,       \* days that a peak is kept
    LastDay,        \* bound on time
    Pinners,        \* requests in flight of one account
    Pinnable,       \* its statuses, and tags it may feature
    PinLimit,       \* pins and featured tags that an account may have
    Unlocked,       \* no transaction
    MaxTold         \* bound on activities

ASSUME TagsAssumption ==
    /\ TagIds \subseteq Nat /\ IsFiniteSet(TagIds) /\ IsFiniteSet(Works) /\ IsFiniteSet(Authors)
    /\ "scoring" \notin Works \cup {Unlocked} /\ Unlocked \notin Works \cup Pinners
    /\ IsFiniteSet(Pinnable) /\ PinLimit \in Nat \ {0} /\ TrendAt \in Nat \ {0}

VARIABLES
    author,     \* [Works -> Authors]
    tagged,     \* [Works -> SUBSET TagIds], the tags of a status; none once it is deleted
    actorUses,  \* [TagIds -> [Authors -> Nat]], tag_daily_actor_usage
    usage,      \* [TagIds -> [uses, accounts]], tag_daily_usage; zero: no row
    usageLock,  \* [TagIds -> who has locked the row of usage]
    marked,     \* tags in trend_dirty
    writing,    \* [Works -> the transaction that edits the status]
    scoring,    \* the transaction of refresh_trends
    tagTrend,   \* [TagIds -> [peak, at]], tag_trend; peak 0: no row
    today

usage_vars == <<author, tagged, actorUses, usage, usageLock, marked, writing, scoring, tagTrend, today>>

VARIABLES
    pinned,     \* [kind -> set], local_status_pin and local_featured_tag
    pinLock,    \* [kind -> holder of the advisory lock of the account]
    workLock,   \* [Pinnable -> holder of the lock of the row]
    alive,      \* statuses that are not deleted
    pinner,     \* [Pinners -> [phase, kind, item, room]]
    toldPins,       \* Add and Remove in the order they were enqueued
    theirPins,  \* the featured collection of a remote actor
    pinCache,   \* what is cached of it, newest first
    pinMail,    \* Add and Remove on their way
    pinFetch    \* the refresh: [kind, busy, items], of one of the two collections

pin_vars == <<pinned, pinLock, workLock, alive, pinner, toldPins, theirPins, pinCache, pinMail, pinFetch>>

NoUsage == [uses |-> 0, accounts |-> 0]
Kinds == {"pin", "tag"}
NotWriting == [phase |-> "none", plan |-> <<>>, net |-> [t \in TagIds |-> 0], stored |-> [t \in TagIds |-> NoUsage], to |-> {}, flags |-> {}]
NotScoring == [phase |-> "none", claimed |-> {}, left |-> <<>>, stored |-> [t \in TagIds |-> NoUsage]]
NoPinner == [phase |-> "none", kind |-> "pin", item |-> Unlocked, room |-> FALSE]

TagsInit ==
    /\ author \in [Works -> Authors] /\ tagged = [w \in Works |-> {}]
    /\ actorUses = [t \in TagIds |-> [a \in Authors |-> 0]] /\ usage = [t \in TagIds |-> NoUsage]
    /\ usageLock = [t \in TagIds |-> Unlocked] /\ marked = {} /\ writing = [w \in Works |-> NotWriting]
    /\ scoring = NotScoring /\ tagTrend = [t \in TagIds |-> [peak |-> 0, at |-> 1]] /\ today = 1
    /\ pinned = [k \in Kinds |-> {}] /\ pinLock = [k \in Kinds |-> Unlocked]
    /\ workLock = [i \in Pinnable |-> Unlocked] /\ alive = Pinnable /\ pinner = [r \in Pinners |-> NoPinner]
    /\ toldPins = <<>> /\ theirPins = {} /\ pinCache = <<>> /\ pinMail = {} /\ \E k \in Kinds : pinFetch = [kind |-> k, busy |-> FALSE, items |-> {}]

\* Every value is of its type, and locks are held by transactions at work.
TagsTypeOK ==
    /\ \A w \in Works : tagged[w] \subseteq TagIds
    /\ \A t \in TagIds : /\ usageLock[t] \in Works => writing[usageLock[t]].phase # "none"
                         /\ usageLock[t] = "scoring" => scoring.phase # "none"
    /\ marked \subseteq TagIds /\ \A k \in Kinds : pinned[k] \subseteq Pinnable
    /\ \A k \in Kinds : pinLock[k] # Unlocked => pinner[pinLock[k]].phase # "none"
-----------------------------------------------------------------------------
(* The usage of a tag *)

\* The tags of a set in their order: the i-th is not above just i of them.
Ordered(s) == [i \in 1..Cardinality(s) |-> CHOOSE t \in s : Cardinality({u \in s : u <= t}) = i]

\* The plan of a transaction: adjust_tag_usage with -1 for the old tags, then
\* with +1 for the new ones, each in the order of the tags.
Adjustments(old, new) ==
    [i \in 1..Cardinality(old) |-> <<Ordered(old)[i], -1>>] \o [i \in 1..Cardinality(new) |-> <<Ordered(new)[i], 1>>]

StartWriting(w, new) ==
    /\ writing[w].phase = "none" /\ tagged[w] # new
    /\ writing' = [writing EXCEPT ![w] = [NotWriting EXCEPT !.phase = "lock", !.plan = Adjustments(tagged[w], new), !.to = new]]
    /\ UNCHANGED <<author, tagged, actorUses, usage, usageLock, marked, scoring, tagTrend, today, pin_vars>>

\* create_local_status, upsert_remote_status
TagNewStatus(w, new) == tagged[w] = {} /\ new # {} /\ StartWriting(w, new)
\* update_owned_local_status, upsert_remote_status, replace_local_status_tags
RetagStatus(w, new) == tagged[w] # {} /\ new # {} /\ StartWriting(w, new)
\* delete_owned_local_status, delete_remote_status
UntagDeleted(w) == tagged[w] # {} /\ StartWriting(w, {})

Step(w) == Head(writing[w].plan)
MayLock(t, who) == usageLock[t] \in {Unlocked, who}

\* The statement that locks the row of the aggregate.
\* Mutant: it locks nothing, and the sum is made before the row is locked.
LockUsage_None(w) ==
    /\ writing[w].phase = "lock" /\ writing[w].plan # <<>>
    /\ writing' = [writing EXCEPT ![w].phase = "sum"]
    /\ UNCHANGED <<author, tagged, actorUses, usage, usageLock, marked, scoring, tagTrend, today, pin_vars>>

LockUsage(w) ==
    /\ writing[w].phase = "lock" /\ writing[w].plan # <<>> /\ MayLock(Step(w)[1], w)
    /\ usageLock' = [usageLock EXCEPT ![Step(w)[1]] = w]
    /\ writing' = [writing EXCEPT ![w].phase = "sum"]
    /\ UNCHANGED <<author, tagged, actorUses, usage, marked, scoring, tagTrend, today, pin_vars>>

\* The rows of a tag as a transaction of author a sees them, and their sum: the
\* uses one by one, and the accounts that have any.
Adjusted(t, a, net) == [actorUses[t] EXCEPT ![a] = IF @ + net < 0 THEN 0 ELSE @ + net]
SumOf(rows) ==
    [uses |-> Cardinality(UNION {{a} \X (1..rows[a]) : a \in Authors}), accounts |-> Cardinality({a \in Authors : rows[a] > 0})]

\* The rows of the actor, then the sum over all of them in the snapshot of that
\* statement, then the row of the aggregate: locked already, or waited for.
SumUsage(w) ==
    LET t == Step(w)[1]  net == writing[w].net[t] + Step(w)[2] IN
    /\ writing[w].phase = "sum"
    /\ writing' = [writing EXCEPT ![w].phase = "store", ![w].net[t] = net,
                                  ![w].stored[t] = SumOf(Adjusted(t, author[w], net))]
    /\ UNCHANGED <<author, tagged, actorUses, usage, usageLock, marked, scoring, tagTrend, today, pin_vars>>

StoreUsage(w) ==
    /\ writing[w].phase = "store" /\ MayLock(Step(w)[1], w)
    /\ usageLock' = [usageLock EXCEPT ![Step(w)[1]] = w] /\ writing' = [writing EXCEPT ![w].phase = "mark"]
    /\ UNCHANGED <<author, tagged, actorUses, usage, marked, scoring, tagTrend, today, pin_vars>>

\* mark_trend_dirty: waits for a refresh that has claimed the row
MarkTag(w) ==
    /\ writing[w].phase = "mark" /\ Step(w)[1] \notin scoring.claimed
    /\ writing' = [writing EXCEPT ![w].phase = "lock", ![w].plan = Tail(@), ![w].flags = @ \cup {Step(w)[1]}]
    /\ UNCHANGED <<author, tagged, actorUses, usage, usageLock, marked, scoring, tagTrend, today, pin_vars>>

Released(who) == [t \in TagIds |-> IF usageLock[t] = who THEN Unlocked ELSE usageLock[t]]

CommitWriting(w) ==
    /\ writing[w].phase = "lock" /\ writing[w].plan = <<>>
    /\ tagged' = [tagged EXCEPT ![w] = writing[w].to]
    /\ actorUses' = [t \in TagIds |-> Adjusted(t, author[w], writing[w].net[t])]
    /\ usage' = [t \in TagIds |-> IF t \in writing[w].flags THEN writing[w].stored[t] ELSE usage[t]]
    /\ marked' = marked \cup writing[w].flags
    /\ usageLock' = Released(w) /\ writing' = [writing EXCEPT ![w] = NotWriting]
    /\ UNCHANGED <<author, scoring, tagTrend, today, pin_vars>>
-----------------------------------------------------------------------------
(* The refresh of trends *)

\* refresh_trends marks what trends, and claims marked tags (for update skip
\* locked): a row that a writer has marked and not committed is skipped.
ClaimTags ==
    LET all == marked \cup {t \in TagIds : tagTrend[t].peak > 0}
        free == {t \in all : \A w \in Works : t \notin writing[w].flags}
    IN  /\ scoring.phase = "none" /\ free # {} /\ marked' = all
        /\ scoring' = [NotScoring EXCEPT !.phase = "sum", !.claimed = free, !.left = Ordered(free)]
        /\ UNCHANGED <<author, tagged, actorUses, usage, usageLock, writing, tagTrend, today, pin_vars>>

\* refresh_tag_trend: its sum is made in the snapshot of the statement, which
\* then waits for the row.
SumTag ==
    /\ scoring.phase = "sum" /\ scoring.left # <<>>
    /\ scoring' = [scoring EXCEPT !.phase = "store", !.stored[Head(scoring.left)] = SumOf(actorUses[Head(scoring.left)])]
    /\ UNCHANGED <<author, tagged, actorUses, usage, usageLock, marked, writing, tagTrend, today, pin_vars>>

StoreTag ==
    LET t == Head(scoring.left) IN
    /\ scoring.phase = "store" /\ MayLock(t, "scoring")
    /\ usageLock' = [usageLock EXCEPT ![t] = "scoring"]
    /\ scoring' = [scoring EXCEPT !.phase = "sum", !.left = Tail(@)]
    /\ UNCHANGED <<author, tagged, actorUses, usage, marked, writing, tagTrend, today, pin_vars>>

\* tag_raw_score, with the quotient rounded down
TagRawScore(observed, expected) ==
    LET e == IF expected < 1 THEN 1 ELSE expected IN
    IF observed < TrendAt \/ e > observed THEN 0 ELSE ((observed - e) * (observed - e)) \div e

\* choose_tag_peak
ChooseTagPeak(raw, old) ==
    IF old.peak > 0 /\ old.at >= today - PeakDays /\ raw <= old.peak THEN old ELSE [peak |-> raw, at |-> today]

\* All uses are of day 1: observed today, expected from yesterday
Observed(u) == IF today = 1 THEN u.accounts ELSE 0
Expected(u) == IF today = 2 THEN u.accounts ELSE 1
NewTrend(t, u) ==
    LET best == ChooseTagPeak(TagRawScore(Observed(u), Expected(u)), tagTrend[t]) IN
    IF u = NoUsage \/ best.peak = 0 THEN [peak |-> 0, at |-> 1] ELSE best

CommitScoring ==
    /\ scoring.phase = "sum" /\ scoring.left = <<>>
    /\ usage' = [t \in TagIds |-> IF t \in scoring.claimed THEN scoring.stored[t] ELSE usage[t]]
    /\ tagTrend' = [t \in TagIds |-> IF t \in scoring.claimed THEN NewTrend(t, scoring.stored[t]) ELSE tagTrend[t]]
    /\ marked' = marked \ scoring.claimed /\ usageLock' = Released("scoring") /\ scoring' = NotScoring
    /\ UNCHANGED <<author, tagged, actorUses, writing, today, pin_vars>>

\* Who waits for whom; the database ends a cycle by rolling one of them back.
Awaits(x, y) ==
    \/ /\ x \in Works /\ writing[x].plan # <<>>
       /\ \/ writing[x].phase \in {"lock", "store"} /\ usageLock[Step(x)[1]] = y
          \/ writing[x].phase = "mark" /\ y = "scoring" /\ Step(x)[1] \in scoring.claimed
    \/ x = "scoring" /\ scoring.phase = "store" /\ usageLock[Head(scoring.left)] = y

Transactions == Works \cup {"scoring"}
InCycle(x) == \E y \in Transactions \ {x} : Awaits(x, y) /\ (Awaits(y, x) \/ \E z \in Transactions \ {x, y} : Awaits(y, z) /\ Awaits(z, x))

RollbackWriting(w) ==
    /\ InCycle(w) /\ writing' = [writing EXCEPT ![w] = NotWriting] /\ usageLock' = Released(w)
    /\ UNCHANGED <<author, tagged, actorUses, usage, marked, scoring, tagTrend, today, pin_vars>>

RollbackScoring ==
    /\ InCycle("scoring") /\ scoring' = NotScoring /\ usageLock' = Released("scoring")
    /\ UNCHANGED <<author, tagged, actorUses, usage, marked, writing, tagTrend, today, pin_vars>>

NextDay ==
    /\ today < LastDay /\ today' = today + 1
    /\ UNCHANGED <<author, tagged, actorUses, usage, usageLock, marked, writing, scoring, tagTrend, pin_vars>>

TagUsageNext ==
    \/ \E w \in Works :
          \/ \E new \in SUBSET TagIds : TagNewStatus(w, new) \/ RetagStatus(w, new)
          \/ UntagDeleted(w) \/ LockUsage(w) \/ SumUsage(w) \/ StoreUsage(w) \/ MarkTag(w) \/ CommitWriting(w) \/ RollbackWriting(w)
    \/ ClaimTags \/ SumTag \/ StoreTag \/ CommitScoring \/ RollbackScoring \/ NextDay
-----------------------------------------------------------------------------
(* Pins and featured tags of an account *)

\* mutate_status_pin with pin, featured_tags create and feature_tag: the
\* advisory lock of the account comes first.
StartPin(r, k, i) ==
    /\ pinner[r].phase = "none" /\ pinLock[k] = Unlocked
    /\ pinLock' = [pinLock EXCEPT ![k] = r]
    /\ pinner' = [pinner EXCEPT ![r] = [phase |-> "row", kind |-> k, item |-> i, room |-> FALSE]]
    /\ UNCHANGED <<usage_vars, pinned, workLock, alive, toldPins, theirPins, pinCache, pinMail, pinFetch>>

\* The requests: of statuses, and of tags by identity or by name
PinStatus(r, i) == StartPin(r, "pin", i)
FeatureTag(r, i) == StartPin(r, "tag", i)

PinDone(r) ==
    /\ pinner' = [pinner EXCEPT ![r] = NoPinner]
    /\ pinLock' = [k \in Kinds |-> IF pinLock[k] = r THEN Unlocked ELSE pinLock[k]]
    /\ workLock' = [i \in Pinnable |-> IF workLock[i] = r THEN Unlocked ELSE workLock[i]]

\* The row of a status is locked and must be alive; a tag has none.
LockPinned(r) ==
    LET x == pinner[r] IN
    /\ x.phase = "row" /\ (x.kind = "pin" => workLock[x.item] = Unlocked)
    /\ IF x.kind = "tag" \/ x.item \in alive
       THEN /\ workLock' = IF x.kind = "pin" THEN [workLock EXCEPT ![x.item] = r] ELSE workLock
            /\ pinner' = [pinner EXCEPT ![r].phase = "count"] /\ UNCHANGED pinLock
       ELSE PinDone(r)
    /\ UNCHANGED <<usage_vars, pinned, alive, toldPins, theirPins, pinCache, pinMail, pinFetch>>

\* pin_local_status, feature_local_tag: an item that is there already needs no room.
CountPins(r) ==
    LET x == pinner[r] IN
    /\ x.phase = "count"
    /\ pinner' = [pinner EXCEPT ![r].phase = "insert", ![r].room = x.item \in pinned[x.kind] \/ Cardinality(pinned[x.kind]) < PinLimit]
    /\ UNCHANGED <<usage_vars, pinned, pinLock, workLock, alive, toldPins, theirPins, pinCache, pinMail, pinFetch>>

Tell(op, k, i) == Len(toldPins) < MaxTold /\ toldPins' = Append(toldPins, [op |-> op, kind |-> k, item |-> i])

\* enqueue_pin_activity_in_transaction, enqueue_featured_tag_activity: only for a change
InsertPin(r) ==
    LET x == pinner[r] IN
    /\ x.phase = "insert" /\ PinDone(r)
    /\ IF x.room /\ x.item \notin pinned[x.kind]
       THEN pinned' = [pinned EXCEPT ![x.kind] = @ \cup {x.item}] /\ Tell("Add", x.kind, x.item)
       ELSE UNCHANGED <<pinned, toldPins>>
    /\ UNCHANGED <<usage_vars, alive, theirPins, pinCache, pinMail, pinFetch>>

\* unpin_local_status, unfeature_local_tag, unfeature_local_tag_by_name
Unpin(k, i) ==
    /\ pinLock[k] = Unlocked /\ i \in pinned[k] /\ (k = "pin" => i \in alive)
    /\ pinned' = [pinned EXCEPT ![k] = @ \ {i}] /\ Tell("Remove", k, i)
    /\ UNCHANGED <<usage_vars, pinLock, workLock, alive, pinner, theirPins, pinCache, pinMail, pinFetch>>

UnpinStatus(i) == Unpin("pin", i)
UnfeatureTag(i) == Unpin("tag", i)

\* delete_owned_local_status: it waits for the row, and takes no advisory lock.
DeletePinned(i) ==
    /\ i \in alive /\ workLock[i] = Unlocked
    /\ alive' = alive \ {i} /\ pinned' = [pinned EXCEPT !["pin"] = @ \ {i}]
    /\ UNCHANGED <<usage_vars, pinLock, workLock, pinner, toldPins, theirPins, pinCache, pinMail, pinFetch>>
-----------------------------------------------------------------------------
(* The collections of a remote actor *)

\* External: the other server changes its collection and tells of it.
TheyPin(i) ==
    /\ i \notin theirPins /\ theirPins' = theirPins \cup {i} /\ Cardinality(pinMail) < MaxTold
    /\ pinMail' = pinMail \cup {[op |-> "Add", item |-> i]}
    /\ UNCHANGED <<usage_vars, pinned, pinLock, workLock, alive, pinner, toldPins, pinCache, pinFetch>>

TheyUnpin(i) ==
    /\ i \in theirPins /\ theirPins' = theirPins \ {i} /\ Cardinality(pinMail) < MaxTold
    /\ pinMail' = pinMail \cup {[op |-> "Remove", item |-> i]}
    /\ UNCHANGED <<usage_vars, pinned, pinLock, workLock, alive, pinner, toldPins, pinCache, pinFetch>>

Trimmed(q) == SubSeq(q, 1, IF Len(q) < PinLimit THEN Len(q) ELSE PinLimit)

\* apply_remote_status_pin_activity; replays are ignored by the marker of the inbox.
\* Nothing is cached twice, so that a Remove takes one row.
ApplyPinActivity(m) ==
    /\ pinFetch.kind = "pin" /\ m \in pinMail /\ pinMail' = pinMail \ {m}
    /\ pinCache' = IF m.op = "Remove" THEN RemoveFirst(pinCache, m.item)
                   ELSE IF m.item \in ToSet(pinCache) THEN Trimmed(pinCache) ELSE Trimmed(<<m.item>> \o pinCache)
    /\ UNCHANGED <<usage_vars, pinned, pinLock, workLock, alive, pinner, toldPins, theirPins, pinFetch>>

\* apply_remote_featured_tag_activity: an Add moves the tag to the front
ApplyTagActivity(m) ==
    /\ pinFetch.kind = "tag" /\ m \in pinMail /\ pinMail' = pinMail \ {m}
    /\ LET others == RemoveFirst(pinCache, m.item) IN
       pinCache' = IF m.op = "Remove" THEN others ELSE Trimmed(<<m.item>> \o others)
    /\ UNCHANGED <<usage_vars, pinned, pinLock, workLock, alive, pinner, toldPins, theirPins, pinFetch>>

\* The inbox: Add and Remove of either collection
FeaturedActivity(m) == ApplyPinActivity(m) \/ ApplyTagActivity(m)

\* refresh_remote_featured, refresh_remote_featured_tags: pages are read until
\* the limit is met, then the cache is replaced under its lock.
FetchCollection ==
    /\ ~ pinFetch.busy
    /\ \E items \in SUBSET theirPins :
          /\ Cardinality(items) = IF Cardinality(theirPins) < PinLimit THEN Cardinality(theirPins) ELSE PinLimit
          /\ pinFetch' = [pinFetch EXCEPT !.busy = TRUE, !.items = items]
    /\ UNCHANGED <<usage_vars, pinned, pinLock, workLock, alive, pinner, toldPins, theirPins, pinCache, pinMail>>

RefreshFeatured == pinFetch.kind = "pin" /\ FetchCollection
RefreshFeaturedTags == pinFetch.kind = "tag" /\ FetchCollection

ReplaceCollection ==
    /\ pinFetch.busy /\ pinFetch' = [pinFetch EXCEPT !.busy = FALSE, !.items = {}]
    /\ \E q \in SetToSeqs(pinFetch.items) : pinCache' = q
    /\ UNCHANGED <<usage_vars, pinned, pinLock, workLock, alive, pinner, toldPins, theirPins, pinMail>>

\* replace_remote_status_pins, replace_remote_featured_tags
ReplacePins == pinFetch.kind = "pin" /\ ReplaceCollection
ReplaceFeaturedTags == pinFetch.kind = "tag" /\ ReplaceCollection

PinsNext ==
    \/ \E r \in Pinners :
          \/ \E i \in Pinnable : PinStatus(r, i) \/ FeatureTag(r, i)
          \/ LockPinned(r) \/ CountPins(r) \/ InsertPin(r)
    \/ \E i \in Pinnable : DeletePinned(i) \/ UnpinStatus(i) \/ UnfeatureTag(i)

CollectionsNext ==
    \/ \E i \in Pinnable : TheyPin(i) \/ TheyUnpin(i)
    \/ \E m \in pinMail : FeaturedActivity(m)
    \/ RefreshFeatured \/ RefreshFeaturedTags \/ ReplacePins \/ ReplaceFeaturedTags

TagsSpec == TagsInit /\ [][TagUsageNext \/ PinsNext \/ CollectionsNext]_<<usage_vars, pin_vars>>
-----------------------------------------------------------------------------
(* Properties *)

\* The daily usage of a tag, which transactions of statuses and the refresh
\* of trends both write, is that of the statuses whenever nobody has its row
\* locked; and a tag that still trends without any use is marked to be scored
\* again.  What is summed before a row is locked must never reach it.
UsageIsTrue ==
    /\ \A t \in TagIds : usageLock[t] = Unlocked =>
          usage[t] = SumOf([a \in Authors |-> Cardinality({w \in Works : author[w] = a /\ t \in tagged[w]})])
    /\ \A t \in TagIds : tagTrend[t].peak > 0 /\ usage[t] = NoUsage => t \in marked

\* An account never has more pins or featured tags than the limit, whatever
\* requests race; no deleted status is pinned; the activities its followers
\* get, in their order, end in what is pinned.  A cache is within its bound.
LastTold(k, i) == SelectLastInSeq(toldPins, LAMBDA m : m.kind = k /\ m.item = i)
PinsAreTrue ==
    /\ \A k \in Kinds : Cardinality(pinned[k]) <= PinLimit
    /\ pinned["pin"] \subseteq alive
    /\ \A k \in Kinds, i \in Pinnable : (k = "pin" => i \in alive) =>
          (i \in pinned[k] <=> LastTold(k, i) > 0 /\ toldPins[LastTold(k, i)].op = "Add")
    /\ Len(pinCache) <= PinLimit

\* Usage, pins and featured tags are what the requests that committed made them.
TagsSafe == TagsTypeOK /\ UsageIsTrue /\ PinsAreTrue
=============================================================================
