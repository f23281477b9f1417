-------------------------- MODULE NotificationFeed --------------------------
(***************************************************************************)
(* The notifications of one account: the functions that create them, which  *)
(* look for the event and insert it in two statements; their groups of      *)
(* twelve hours; web push and streaming; the flat list, the grouped list    *)
(* and dismissal.  The verdict of the policy is NotificationPolicy.tla's,   *)
(* requests are NotificationRequests.tla's: here a sender's held rows are   *)
(* released at any time.                                                    *)
(***************************************************************************)
EXTENDS Naturals, FiniteSets

CONSTANTS
    Events,         \* [fn, kind, sender, about]: what may happen, once or again
    RemoteSenders,  \* senders that are remote actors
    Notifiers,      \* transactions in flight
    Window,         \* a group takes notifications for so long: twelve hours in the code
    MaxSpan,        \* bound: a transaction lasts no longer than this
    LastHour, MaxRows,
    SampleLimit,    \* accounts that a group shows: 8 in the code
    Nothing

ASSUME FeedAssumption ==
    /\ Window \in Nat \ {0} /\ SampleLimit \in Nat \ {0} /\ MaxSpan \in Nat /\ MaxRows \in Nat
    /\ Nothing \notin {e.about : e \in Events}

VARIABLES
    rows,       \* local_notification
    groupState, \* local_notification_group_state: [<<kind, about>> -> [group, started]]
    notifier,   \* [Notifiers -> [phase, event, held, row, since]]
    pushes,     \* rows a web push job was made for
    streams,    \* rows that were streamed
    unseen,     \* senders that are hidden from the account, or may not notify it
    visible,    \* statuses that the account may see
    lastRead,   \* the marker of the notifications timeline
    hourNow, nextRow

feed_vars == <<rows, groupState, notifier, pushes, streams, unseen, visible, lastRead, hourNow, nextRow>>

FeedSenders == {e.sender : e \in Events}
Abouts == {e.about : e \in Events}
Groupable == {"favourite", "follow", "reblog"}
AtRest == [phase |-> "none", event |-> Nothing, held |-> FALSE, row |-> 0, since |-> 0]

FeedInit ==
    /\ rows = {} /\ groupState = [t \in Groupable \X Abouts |-> [group |-> 0, started |-> 0]]
    /\ notifier = [w \in Notifiers |-> AtRest] /\ pushes = {} /\ streams = {} /\ unseen = {} /\ visible = Abouts
    /\ lastRead = 0 /\ hourNow = 1 /\ nextRow = 1

\* Rows have identities of their own, and no event has two of them.
FeedTypeOK ==
    /\ \A r \in rows : r.id \in 1..MaxRows /\ r.group \in 0..MaxRows /\ r.event \in Events
    /\ \A r, q \in rows : r.id = q.id \/ r.event = q.event => r = q
    /\ pushes \cup streams \subseteq 1..MaxRows /\ unseen \subseteq FeedSenders /\ lastRead \in 0..MaxRows
-----------------------------------------------------------------------------
(* Creation *)

\* local_account_allows_notification, remote_account_allows_notification
Allowed(e) == e.sender \notin unseen
Existing(e) == {r \in rows : r.event = e}

Become(w, phase, e, held, id) ==
    /\ notifier' = [notifier EXCEPT ![w] = [phase |-> phase, event |-> e, held |-> held, row |-> id, since |-> hourNow]]
    /\ UNCHANGED <<rows, groupState, pushes, streams, unseen, visible, lastRead, hourNow, nextRow>>

\* An event that is there is given back (again) or not.
Found(w, e, again(_)) == \E r \in Existing(e) : IF again(r) THEN Become(w, "publish", e, r.filtered, r.id) ELSE Become(w, "none", Nothing, FALSE, 0)

\* The verdict: accepted, held by a filter, or dropped.
Decided(w, e, verdicts) ==
    /\ Existing(e) = {} /\ nextRow <= MaxRows
    /\ \E v \in verdicts : IF v = "drop" THEN Become(w, "none", Nothing, FALSE, 0) ELSE Become(w, "insert", e, v = "filter", 0)

ByPolicy == {"accept", "filter", "drop"}
Always(r) == TRUE
Never(r) == FALSE
IfShown(r) == ~ r.filtered

Begin(w, e, fn) == notifier[w].phase = "none" /\ e.fn = fn

\* notify_local_account: no policy
NotifyLocalAccount(w, e) == Begin(w, e, "local_account") /\ (Found(w, e, Always) \/ Decided(w, e, {"accept"}))
\* notify_local_account_with_policy, called by create_and_stream_notification
NotifyWithPolicy(w, e) == Begin(w, e, "with_policy") /\ Allowed(e) /\ (Found(w, e, Always) \/ Decided(w, e, ByPolicy))
NotifyMention(w, e) == Begin(w, e, "mention") /\ Allowed(e) /\ (Found(w, e, IfShown) \/ Decided(w, e, ByPolicy))
NotifyQuoted(w, e) == Begin(w, e, "quote") /\ Allowed(e) /\ (Found(w, e, IfShown) \/ Decided(w, e, ByPolicy))
NotifyRemoteFollow(w, e) == Begin(w, e, "remote_follow") /\ Allowed(e) /\ (Found(w, e, Never) \/ Decided(w, e, ByPolicy))
\* It looks for the event before it asks whether the actor may notify.
NotifyRemoteFavourite(w, e) == Begin(w, e, "remote_favourite") /\ (Found(w, e, Always) \/ (Allowed(e) /\ Decided(w, e, ByPolicy)))
NotifyRemoteReblog(w, e) == Begin(w, e, "remote_reblog") /\ Allowed(e) /\ (Found(w, e, Never) \/ Decided(w, e, ByPolicy))
NotifyRemoteMention(w, e) == Begin(w, e, "remote_mention") /\ Allowed(e) /\ (Found(w, e, IfShown) \/ Decided(w, e, ByPolicy))
NotifyRemoteStatus(w, e) == Begin(w, e, "remote_status") /\ Allowed(e) /\ (Found(w, e, Never) \/ Decided(w, e, {"accept"}))

\* replace_local_status_update_notifications, replace_remote_status_update_notifications
\* delete the row of an earlier edit and insert another, in one transaction
\* that holds the status: nothing comes between.
ReplaceUpdate(w, e) ==
    /\ Begin(w, e, "update") /\ Allowed(e) /\ nextRow <= MaxRows
    /\ rows' = (rows \ Existing(e)) \cup
               {[id |-> nextRow, event |-> e, group |-> 0, filtered |-> FALSE, dismissed |-> FALSE, at |-> hourNow]}
    /\ nextRow' = nextRow + 1 /\ pushes' = pushes \cup {nextRow}
    /\ notifier' = [notifier EXCEPT ![w] = [phase |-> "publish", event |-> e, held |-> FALSE, row |-> nextRow, since |-> hourNow]]
    /\ UNCHANGED <<groupState, streams, unseen, visible, lastRead, hourNow>>

NotifyUpdateLocal(w, e) == e.sender \notin RemoteSenders /\ ReplaceUpdate(w, e)
NotifyUpdateRemote(w, e) == e.sender \in RemoteSenders /\ ReplaceUpdate(w, e)

\* before_save: the group of a row, which is that of earlier ones while their
\* window lasts.  now() is when the transaction began.
\* Mutant: a group never ends.
GroupOf_Endless(e, since) ==
    LET g == groupState[<<e.kind, e.about>>] IN
    IF g.group # 0 THEN g ELSE [group |-> nextRow, started |-> since]

GroupOf(e, since) ==
    LET g == groupState[<<e.kind, e.about>>] IN
    IF g.group # 0 /\ g.started + Window > since THEN g ELSE [group |-> nextRow, started |-> since]

\* The unique index refuses an event that another transaction has inserted: the
\* request fails.  after_save: a push for every subscription, unless it is held.
InsertRow(w) ==
    LET x == notifier[w]  e == x.event  grouped == e.kind \in Groupable
        g == IF grouped THEN GroupOf(e, x.since) ELSE [group |-> 0, started |-> 0]
    IN  /\ x.phase = "insert" /\ nextRow <= MaxRows
        /\ IF Existing(e) # {}
           THEN Become(w, "none", Nothing, FALSE, 0)
           ELSE /\ rows' = rows \cup {[id |-> nextRow, event |-> e, group |-> g.group, filtered |-> x.held, dismissed |-> FALSE, at |-> x.since]}
                /\ groupState' = IF grouped THEN [groupState EXCEPT ![<<e.kind, e.about>>] = g] ELSE groupState
                /\ pushes' = IF x.held THEN pushes ELSE pushes \cup {nextRow}
                /\ nextRow' = nextRow + 1
                /\ notifier' = [notifier EXCEPT ![w].phase = "publish", ![w].row = nextRow]
                /\ UNCHANGED <<streams, unseen, visible, lastRead, hourNow>>

\* notification_response: nothing for a status that is gone or may not be seen
Response(r) == r.event.about \in visible

\* create_and_stream_notification, publish_committed_notification: after the
\* commit, with the row as it was read.
PublishNotification(w) ==
    LET x == notifier[w] IN
    /\ x.phase = "publish" /\ notifier' = [notifier EXCEPT ![w] = AtRest]
    /\ streams' = streams \cup {r.id : r \in {r \in rows : r.id = x.row /\ ~ x.held /\ Response(r)}}
    /\ UNCHANGED <<rows, groupState, pushes, unseen, visible, lastRead, hourNow, nextRow>>
-----------------------------------------------------------------------------
(* Reading and dismissing *)

\* local_notifications_for_account and the query of the groups share these conditions.
ListedRows(kinds, held) ==
    {r \in rows : ~ r.dismissed /\ (held \/ ~ r.filtered) /\ r.event.kind \in kinds
                  /\ ~ (r.event.sender \in unseen /\ r.event.sender \in RemoteSenders)}

AllKinds == {e.kind : e \in Events}

\* notification_groups_for_account
GroupKey(r, grouped) == IF r.group # 0 /\ r.event.kind \in grouped THEN <<r.event.kind, r.group>> ELSE <<"ungrouped", r.id>>
Groups(grouped, held) ==
    {{r \in ListedRows(AllKinds, held) : GroupKey(r, grouped) = k} : k \in {GroupKey(r, grouped) : r \in ListedRows(AllKinds, held)}}

\* notifications_in_group_with_connection: the rows that a key names
InGroup(key) ==
    {r \in ListedRows(AllKinds, FALSE) : IF key[1] = "ungrouped" THEN r.id = key[2] ELSE r.event.kind = key[1] /\ r.group = key[2]}

\* notification_group_accounts: everyone behind a group
GroupAccounts(key) == {r.event.sender : r \in InGroup(key)}

\* grouped_notification_types: without a choice of the client, all that can be grouped
GroupedTypes(asked) == IF asked = Nothing THEN Groupable ELSE asked \cap Groupable

\* notifications, notification_page_response: a row without a response is left out
ShownFlat(kinds, held) == {r \in ListedRows(kinds, held) : Response(r)}

NewestRow(g) == CHOOSE r \in g : \A q \in g : q.id <= r.id
\* notification_group_from_rows, and the samples of the query
Samples(g) ==
    {r.event.sender : r \in {r \in g : /\ \A q \in g : q.event.sender = r.event.sender => q.id <= r.id
                                       /\ Cardinality({q.event.sender : q \in {q \in g : q.id > r.id}}) < SampleLimit}}
\* grouped_response: the newest status of a group, if it may be seen
GroupStatus(g) == IF NewestRow(g).event.about \in visible THEN NewestRow(g).event.about ELSE Nothing

Dismissed(ids) == {[r EXCEPT !.dismissed = @ \/ r.id \in ids] : r \in rows}

\* dismiss_notification: visible rows only
DismissOne(r) ==
    /\ r \in rows /\ ~ r.dismissed /\ ~ r.filtered /\ rows' = Dismissed({r.id})
    /\ UNCHANGED <<groupState, notifier, pushes, streams, unseen, visible, lastRead, hourNow, nextRow>>

DismissGroup(key) ==
    /\ InGroup(key) # {} /\ rows' = Dismissed({r.id : r \in InGroup(key)})
    /\ UNCHANGED <<groupState, notifier, pushes, streams, unseen, visible, lastRead, hourNow, nextRow>>

ClearNotifications ==
    /\ \E r \in rows : ~ r.dismissed /\ ~ r.filtered
    /\ rows' = Dismissed({r.id : r \in {r \in rows : ~ r.filtered}})
    /\ UNCHANGED <<groupState, notifier, pushes, streams, unseen, visible, lastRead, hourNow, nextRow>>

\* merge_notification_requests
ReleaseHeld(s) ==
    /\ \E r \in rows : r.event.sender = s /\ r.filtered
    /\ rows' = {[r EXCEPT !.filtered = @ /\ r.event.sender # s] : r \in rows}
    /\ UNCHANGED <<groupState, notifier, pushes, streams, unseen, visible, lastRead, hourNow, nextRow>>

\* save_local_timeline_marker stores any position the client sends
SaveMarker(id) ==
    /\ id \in {r.id : r \in rows} /\ lastRead' = id
    /\ UNCHANGED <<rows, groupState, notifier, pushes, streams, unseen, visible, hourNow, nextRow>>

\* unread_count and grouped_unread_count
Unread == {r \in ListedRows(AllKinds, FALSE) : r.id > lastRead}
UnreadGroups(grouped) == {g \in Groups(grouped, FALSE) : NewestRow(g).id > lastRead}

\* A block or a mute of a sender, and its end; a status is deleted or restricted.
HideSender(s) ==
    /\ unseen' = (unseen \ {s}) \cup ({s} \ unseen)
    /\ UNCHANGED <<rows, groupState, notifier, pushes, streams, visible, lastRead, hourNow, nextRow>>

HideAbout(a) ==
    /\ a \in visible \cap {e.about : e \in {e \in Events : e.kind # "follow"}} /\ visible' = visible \ {a}
    /\ UNCHANGED <<rows, groupState, notifier, pushes, streams, unseen, lastRead, hourNow, nextRow>>

HourPasses ==
    /\ hourNow < LastHour /\ hourNow' = hourNow + 1
    /\ \A w \in Notifiers : notifier[w].phase = "insert" => hourNow < notifier[w].since + MaxSpan
    /\ UNCHANGED <<rows, groupState, notifier, pushes, streams, unseen, visible, lastRead, nextRow>>

NotifyNext ==
    \E w \in Notifiers :
        \/ \E e \in Events :
              \/ NotifyLocalAccount(w, e) \/ NotifyWithPolicy(w, e) \/ NotifyMention(w, e) \/ NotifyQuoted(w, e)
              \/ NotifyRemoteFollow(w, e) \/ NotifyRemoteFavourite(w, e) \/ NotifyRemoteReblog(w, e)
              \/ NotifyRemoteMention(w, e) \/ NotifyRemoteStatus(w, e) \/ NotifyUpdateLocal(w, e) \/ NotifyUpdateRemote(w, e)
        \/ InsertRow(w) \/ PublishNotification(w)

FeedNext ==
    \/ NotifyNext \/ ClearNotifications \/ HourPasses
    \/ \E r \in rows : DismissOne(r) \/ DismissGroup(GroupKey(r, Groupable)) \/ SaveMarker(r.id)
    \/ \E s \in FeedSenders : HideSender(s) \/ ReleaseHeld(s)
    \/ \E a \in Abouts : HideAbout(a)

FeedSpec == FeedInit /\ [][FeedNext]_feed_vars
-----------------------------------------------------------------------------
(* Properties *)

\* The flat list, the grouped list and the operations on a group agree for
\* every choice of grouped types: each listed notification is in one group, of
\* one kind and one subject, whose key names just its rows; no group spans
\* more than its window; whatever is unread is in an unread group, and a group
\* shows an account of each newest sender and no status that may not be seen.
GroupsAgree ==
    \A grouped \in {GroupedTypes(asked) : asked \in (SUBSET Groupable) \cup {Nothing}} :
        LET groups == Groups(grouped, FALSE) IN
        /\ UNION groups = ListedRows(AllKinds, FALSE)
        /\ Unread \subseteq UNION UnreadGroups(grouped)
        /\ \A r \in ShownFlat(AllKinds, FALSE) : \E g \in groups : r \in g /\ GroupStatus(g) # Nothing
        /\ \A g \in groups : \A r \in g :
              /\ InGroup(GroupKey(r, grouped)) = g
              /\ \A q \in g : q.event.kind = r.event.kind /\ q.event.about = r.event.about /\ r.at < q.at + Window + MaxSpan
              /\ NewestRow(g).event.sender \in Samples(g) /\ Samples(g) \subseteq GroupAccounts(GroupKey(r, grouped)) /\ Cardinality(Samples(g)) <= SampleLimit
              /\ GroupStatus(g) \in visible \cup {Nothing}

\* What the policy holds back is neither pushed nor streamed, although an event
\* that happens again is given back to the caller and published again.
HeldIsSilent == \A r \in rows : r.filtered => r.id \notin pushes \cup streams

\* The notifications that are shown, pushed and streamed agree.
FeedIsTrue == FeedTypeOK /\ GroupsAgree /\ HeldIsSilent
=============================================================================
