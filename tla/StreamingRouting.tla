-------------------------- MODULE StreamingRouting --------------------------
(***************************************************************************)
(* Who is told of a timeline entry: the streaming events that publishing,  *)
(* editing and removing a status or a boost produces, and the subscribed   *)
(* streams each event belongs to. One entry (a status or a boost) lives    *)
(* through its handlers in a fixed social neighbourhood n; payloads are    *)
(* left out.                                                               *)
(***************************************************************************)
EXTENDS Naturals, FiniteSets

CONSTANTS
    Account,    \* local accounts
    Remote,     \* the remote actor
    Author      \* who writes or boosts

ASSUME RoutingAssumption ==
    /\ Remote \notin Account
    /\ Author \subseteq Account \cup {Remote}

Visibilities == {"public", "unlisted", "private", "direct"}
PublicStreams == {"public", "public:media", "public:local", "public:local:media",
                  "public:remote", "public:remote:media"}
Streams == PublicStreams \cup {"user", "user:notification", "direct"}

KindsOf(a) == IF a = Remote THEN {"remote_status", "remote_boost"}
              ELSE {"local_status", "boost_of_local", "boost_of_remote"}

Entries == UNION {[kind : KindsOf(a), author : {a}, visibility : Visibilities,
                   reply : BOOLEAN, media : BOOLEAN] : a \in Author}
NoEntry == [kind |-> "none"]

\* Followers of the author, those who want its boosts, those who mute or block it,
\* those who block it, followers of the status' tags and the accounts it mentions.
\* Recipients are picked account by account, so accounts that are not authors do.
Neighbourhoods ==
    LET S == SUBSET (Account \ Author)
    IN {n \in [followers : S, boosted : S, hides : S, blocks : S, tagged : S, mentioned : S] :
            n.boosted \subseteq n.followers /\ n.blocks \subseteq n.hides}
-----------------------------------------------------------------------------
\* A reply never goes to the public streams.
StreamVisibility(e) == IF e.reply THEN "unlisted" ELSE e.visibility

\* filter_stream_recipients, filter_remote_stream_recipients
Visible(n, S) == S \ n.hides

\* The mentioned accounts are the recipients of a private or direct status.
Explicit(e, n) == IF e.visibility \in {"private", "direct"} THEN n.mentioned ELSE {}
Tagged(e, n) == IF e.visibility = "public" THEN n.tagged ELSE {}

\* status_stream_recipients
LocalRecipients(e, n) ==
    IF e.visibility = "direct" THEN {}
    ELSE Visible(n, n.followers \cup Tagged(e, n) \cup Explicit(e, n))

\* accepted_local_followers_of_remote_actor
RemoteFollowers(n) == n.followers \ n.blocks

\* publish_remote_status_change
RemoteRecipients(e, n) ==
    Visible(n, (IF e.visibility = "direct" THEN {} ELSE RemoteFollowers(n))
               \cup Tagged(e, n) \cup Explicit(e, n))

Message(event, account, users, mentions, visibility, origin, media) ==
    [event |-> event, account |-> account, users |-> users, mentions |-> mentions,
     visibility |-> visibility, origin |-> origin, media |-> media]
-----------------------------------------------------------------------------
\* publish_status_update once the status is committed, publish_status_edit later.
CreateStatus(e, n) ==
    {Message("update", e.author, LocalRecipients(e, n), {}, StreamVisibility(e), "local", e.media)}
UpdateStatus(e, n) ==
    {Message("status.update", e.author, LocalRecipients(e, n), n.mentioned,
             StreamVisibility(e), "local", e.media)}

\* mutant: the media flag is left out of the delete
PublishStatusDelete_NoMedia(e, n) ==
    {Message("delete", e.author, LocalRecipients(e, n) \cup n.mentioned, {},
             StreamVisibility(e), "local", FALSE)}

PublishStatusDelete(e, n) ==
    {Message("delete", e.author, LocalRecipients(e, n) \cup n.mentioned, {},
             StreamVisibility(e), "local", e.media)}

\* publish_remote_status_change: nobody to tell means no event.
RemoteUpdate(e, n, event) ==
    LET mentions == IF event = "update" THEN {} ELSE n.mentioned
    IN IF e.visibility = "public" \/ RemoteRecipients(e, n) # {} \/ mentions # {}
       THEN {Message(event, e.author, RemoteRecipients(e, n), mentions, StreamVisibility(e),
                     "remote", e.media)}
       ELSE {}

\* repair_one_remote_status_delete and publish_delete_repair.
RemoteDelete(e, n) ==
    LET home == IF e.visibility = "direct" THEN {}
                ELSE RemoteFollowers(n) \cup Tagged(e, n) \cup n.mentioned
        direct == IF e.visibility = "direct" THEN Explicit(e, n) ELSE {}
    IN (IF StreamVisibility(e) = "public" \/ home # {}
        THEN {Message("delete", e.author, home, {}, StreamVisibility(e), "remote", e.media)}
        ELSE {})
       \cup (IF direct # {} THEN {Message("delete", e.author, direct, {}, "direct", "local", FALSE)}
             ELSE {})
-----------------------------------------------------------------------------
\* reblog_stream_recipients and their remote counterpart
LocalBoostRecipients(n) == Visible(n, n.boosted)
RemoteBoostRecipients(n) == Visible(n, n.boosted \ n.blocks)

Reblog(e, n) ==
    {Message("update", e.author, LocalBoostRecipients(n), {}, "unlisted", "local", e.media)}

Unreblog(e, n) ==
    {Message("delete", e.author, LocalBoostRecipients(n), {},
             IF e.kind = "boost_of_local" THEN "direct" ELSE "unlisted", "local", FALSE)}

\* publish_status_delete: the boosts of a deleted local status.
BoostedLocalDeleted(e, n) ==
    {Message("delete", e.author, LocalBoostRecipients(n), {}, "direct", "local", FALSE)}

\* repair_one_remote_status_delete: the local boosts of a deleted remote status.
BoostedRemoteDeleted(e) ==
    {Message("delete", e.author, {e.author}, {}, "direct", "local", FALSE)}

\* publish_remote_reblog_update and publish_remote_reblog_delete.
Announce(e, n) ==
    {Message("update", e.author, RemoteBoostRecipients(n), {}, "unlisted", "local", e.media)}
UndoAnnounce(e, n) ==
    {Message("delete", e.author, RemoteBoostRecipients(n), {}, "unlisted", "local", FALSE)}

\* The boosted status, or the boosting actor, is deleted upstream.
AnnouncedDeleted(e, n) ==
    IF RemoteFollowers(n) = {} THEN {}
    ELSE {Message("delete", e.author, RemoteFollowers(n), {}, "direct", "remote", FALSE)}

\* What showed the latest version of an entry: its creation or its last edit.
Shows(e, n) ==
    CASE e.kind = "local_status"  -> {CreateStatus(e, n), UpdateStatus(e, n)}
      [] e.kind = "remote_status" -> {RemoteUpdate(e, n, "update"),
                                      RemoteUpdate(e, n, "status.update")}
      [] e.kind = "remote_boost"  -> {Announce(e, n)}
      [] OTHER                    -> {Reblog(e, n)}

\* What the handlers of this server that remove it publish.
Removals(e, n) ==
    CASE e.kind = "local_status"   -> {PublishStatusDelete(e, n)}
      [] e.kind = "remote_status"  -> {RemoteDelete(e, n)}
      [] e.kind = "remote_boost"   -> {UndoAnnounce(e, n), AnnouncedDeleted(e, n)}
      [] e.kind = "boost_of_local" -> {Unreblog(e, n), BoostedLocalDeleted(e, n)}
      [] OTHER                     -> {Unreblog(e, n)}
-----------------------------------------------------------------------------
VARIABLES
    entry, near,    \* the entry in its latest version, its neighbourhood
    stage,          \* new, shown, removed, or withdrawn by the origin of what it boosts
    shown, removal  \* the messages of the handlers that showed and removed it

routing_vars == <<entry, near, stage, shown, removal>>

RoutingInit ==
    /\ entry \in Entries /\ near \in Neighbourhoods
    /\ stage = "new" /\ shown = {} /\ removal = {}

ShowEntry ==
    /\ stage = "new"
    /\ stage' = "shown" /\ shown' \in Shows(entry, near)
    /\ UNCHANGED <<entry, near, removal>>

RemoveEntry ==
    /\ stage = "shown"
    /\ stage' = "removed" /\ removal' \in Removals(entry, near)
    /\ UNCHANGED <<entry, near, shown>>

\* The boosted remote status is deleted by its origin.
WithdrawEntry ==
    /\ stage = "shown" /\ entry.kind = "boost_of_remote"
    /\ stage' = "withdrawn" /\ removal' = BoostedRemoteDeleted(entry)
    /\ UNCHANGED <<entry, near, shown>>

RoutingNext == ShowEntry \/ RemoveEntry \/ WithdrawEntry

RoutingSpec == RoutingInit /\ [][RoutingNext]_routing_vars
-----------------------------------------------------------------------------
is_visible_to_stream(m, me, stream) ==
    LET public == m.visibility = "public"
    IN CASE stream = "user" -> me = m.account \/ me \in m.users \cup m.mentions
         [] stream = "user:notification" -> m.event = "status.update" /\ me \in m.mentions
         [] stream = "direct" -> FALSE
         [] stream = "public" -> public
         [] stream = "public:media" -> public /\ m.media
         [] stream = "public:local" -> public /\ m.origin = "local"
         [] stream = "public:local:media" -> public /\ m.origin = "local" /\ m.media
         [] stream = "public:remote" -> public /\ m.origin = "remote"
         [] OTHER -> public /\ m.origin = "remote" /\ m.media

\* The streams of an account that some message of a handler reaches.
Reached(messages, me) ==
    {stream \in Streams : \E m \in messages : is_visible_to_stream(m, me, stream)}

\* The user:notification stream takes edits and never deletes.
Undone == \A me \in Account :
    Reached(shown, me) \ {"user:notification"} \subseteq Reached(removal, me)

\* "Limited to local status deletes and removed boost timeline entries"
\* (compatibility.adoc): a stream that shows the latest version of an entry is told
\* of its removal, whichever handler of this server removes it. (A boosted remote
\* status that its origin deletes is announced to the booster alone.)
RemovalReachesShown == stage = "removed" => Undone

Limited == \/ entry.kind \notin {"local_status", "remote_status"}
           \/ entry.reply \/ entry.visibility # "public"

\* Replies, boosts and statuses that are not public reach no public stream, and no
\* stream of an account that is neither the author nor addressed.
OnlyPublicIsPublic == stage \in {"shown", "removed", "withdrawn"} /\ Limited =>
    \A me \in Account : LET streams == Reached(shown \cup removal, me) IN
        /\ streams \cap PublicStreams = {}
        /\ "user" \in streams => me \in {entry.author} \cup near.followers \cup near.tagged
                                         \cup near.mentioned

\* A new status or a boost is not pushed to the home stream of an account that mutes
\* or blocks its author.
HiddenAuthorsAreNotPushed ==
    stage = "shown" => \A m \in shown : \A me \in near.hides :
        m.event = "update" => ~is_visible_to_stream(m, me, "user")

\* Every handler routes an entry, and its removal, to the streams it belongs to.
RoutingSafe == OnlyPublicIsPublic /\ HiddenAuthorsAreNotPushed /\ RemovalReachesShown
=============================================================================
