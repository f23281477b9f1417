----------------------------- MODULE Timelines -----------------------------
(***************************************************************************)
(* Which statuses the surfaces of the API show to Me, as predicates over    *)
(* the relations of SocialGraph.  The queries were written one by one, in   *)
(* SQL, and the single-status rule in Rust; the properties compare them.    *)
(* A post stands for every status of its author with the same attributes.   *)
(***************************************************************************)
EXTENDS SocialGraph

Posts == [author : Peers \cup {Me},
          visibility : {"public", "unlisted", "private", "direct"},
          tome : BOOLEAN,      \* Me is a recipient (mentioned)
          reply : BOOLEAN,     \* a reply to a status of its own author
          tagged : BOOLEAN]    \* has the tag that Me follows

Boostable(s) == s.visibility \in {"public", "unlisted"}
Follows(b) == <<Me, b>> \in follow
Own(s) == s.author = Me

\* can_view_status, local_status_visible_to_account and its remote counterpart.
Addressed(s) ==
    \/ Own(s)
    \/ s.visibility \in {"public", "unlisted"}
    \/ s.visibility = "private" /\ (Follows(s.author) \/ s.tome)
    \/ s.visibility = "direct" /\ s.tome

\* status_visible_to_viewer_on and remote_status_visible_to_account: a block in
\* either direction hides a local author, the viewer's block a remote one.
VisibleTo(s) ==
    /\ Addressed(s)
    /\ s.author \in LocalPeers => ~ AreBlocked(Me, s.author)
    /\ s.author \in RemotePeers => <<Me, s.author>> \notin block

Stored(s) == s.author \notin erased

\* status_context_item_visible: what GET /api/v1/statuses/:id opens.
Openable(s) == Stored(s) /\ s.author \notin suspended /\ VisibleTo(s)

\* hidden_local_account_ids_for_account, hidden_remote_actor_ids_for_account
Hidden(b) == \/ b \in mute \/ <<Me, b>> \in block
             \/ b \in LocalPeers /\ <<b, Me>> \in block

HiddenAuthor(b) == Hidden(b)

Listed(b) == b \in member /\ mylist.there
Exclusive(b) == Listed(b) /\ mylist.exclusive

\* remote_status_available: only remote authors are looked at.
Available(s) == s.author \in RemotePeers => s.author \notin suspended

\* home_timeline_for_account, the local and the remote half.
HomeCandidate(s) ==
    \/ Own(s)
    \/ /\ Follows(s.author) /\ s.visibility # "direct"
    \/ s.visibility = "private" /\ s.tome
    \/ s.visibility = "public" /\ s.tagged

HomeRow(s) == /\ Stored(s) /\ HomeCandidate(s)
              /\ ~ HiddenAuthor(s.author) /\ ~ Exclusive(s.author)

\* home_timeline_models drops what is not available any more.
Home(s) == HomeRow(s) /\ Available(s)

\* The boosts that a query selects: of Me, and of follows that show boosts.
BoostRow(p) == p = Me \/ (Follows(p) /\ p \notin quiet /\ ~ Exclusive(p))

\* reblog_response: a boost by a local account of a local status.
LocalBoost(p, s) == VisibleTo(s)

\* remote_reblog_response: a boost by a remote account.
RemoteBoost(p, s) == p \notin suspended /\ ~ Hidden(p) /\ VisibleTo(s)

\* local_remote_reblog_response and its caller: a boost by a local account of a
\* remote status; the account that boosts is not looked at.
LocalRemoteBoost(p, s) == Available(s) /\ ~ Hidden(s.author)

BoostShown(p, s) ==
    /\ Boostable(s) /\ Stored(s)
    /\ p \in RemotePeers => RemoteBoost(p, s)
    /\ p \notin RemotePeers /\ s.author \in RemotePeers => LocalRemoteBoost(p, s)
    /\ p \notin RemotePeers /\ s.author \notin RemotePeers => LocalBoost(p, s)

\* Only the query for local boosts of local statuses leaves hidden accounts out.
Boosted(p, s) ==
    /\ BoostRow(p) /\ BoostShown(p, s)
    /\ p \notin RemotePeers /\ s.author \notin RemotePeers => ~ Hidden(p)

\* A reply on the list: to a member, or to an account that Me follows.
ListReply(s) ==
    s.reply => \/ mylist.policy = "list" /\ Listed(s.author)
               \/ mylist.policy = "followed" /\ Follows(s.author)

\* local_list_timeline: the boosts of the members that are not hidden ...
ListBoost(p, s) == Listed(p) /\ ~ Hidden(p) /\ BoostShown(p, s)

\* ... and their statuses.
ListTimeline(s) ==
    /\ Stored(s) /\ Listed(s.author) /\ ~ HiddenAuthor(s.author)
    /\ s.visibility # "direct" /\ ListReply(s)
    /\ Available(s)

InGoodStanding(b) == b \notin suspended \cup limited

\* public_timeline_with_options
PublicTimeline(s) ==
    /\ Stored(s) /\ s.visibility = "public" /\ ~ s.reply
    /\ InGoodStanding(s.author) /\ ~ HiddenAuthor(s.author)

\* tag_timeline
TagTimeline(s) ==
    /\ Stored(s) /\ s.visibility = "public" /\ s.tagged
    /\ InGoodStanding(s.author) /\ ~ HiddenAuthor(s.author)

\* search_statuses: an author who allows indexing, or a mention of Me.
Search(s) ==
    /\ Stored(s) /\ s.author \notin suspended
    /\ s.author \in limited => Own(s)
    /\ Own(s) \/ s.visibility = "public" \/ s.tome
    /\ Addressed(s)
    /\ ~ Own(s) => ~ Hidden(s.author)

\* account_statuses with local_statuses_by_account
LocalProfile(s) == s.author \notin suspended /\ Addressed(s)

\* link_timeline looks at the author and not at the viewer.
LinkTimeline(s) == s.visibility = "public" /\ ~ s.reply /\ Stored(s) /\ InGoodStanding(s.author)

\* remote_statuses_by_account: no direct messages.
RemoteProfile(s) ==
    /\ Stored(s) /\ s.author \notin suspended
    /\ s.visibility # "direct" /\ Addressed(s)

\* The mixed timelines hide whom Me blocks or mutes; profiles do not.
Feed(s) == \/ Home(s) \/ ListTimeline(s) \/ PublicTimeline(s) \/ TagTimeline(s) \/ Search(s)
           \/ \E p \in Peers \cup {Me} : Boosted(p, s) \/ ListBoost(p, s)
Profile(s) == IF s.author \in RemotePeers THEN RemoteProfile(s) ELSE LocalProfile(s)
-----------------------------------------------------------------------------
\* Whatever a timeline or the search shows can be opened: the queries ask for
\* no less than the rule of the single status, for every relation the actions
\* reach.  A list member whose follow ended under it or has not been answered
\* since the account moved, and a local author who is suspended, are the exceptions.
ShownIsOpenable ==
    \A s \in Posts :
       ~ Openable(s) /\ s.author \notin LocalPeers \cap suspended =>
          (Feed(s) => ListTimeline(s) /\ (<<Me, s.author>> \in late \/ s.author \in pending))

\* A profile or a link timeline shows nothing that is not addressed to Me, and a
\* profile all of it that can be opened but the direct messages of a remote author.
ProfileIsAddressed ==
    \A s \in Posts :
       /\ Profile(s) \/ LinkTimeline(s) => Addressed(s)
       /\ Openable(s) /\ ~ (s.author \in RemotePeers /\ s.visibility = "direct") => Profile(s)

\* The graph, the timelines and the single status agree in every state that
\* requests, remote servers and administrators lead to.
TimelinesSafe ==
    /\ SocialGraphTypeOK
    /\ SeveredStaysSevered /\ ShownIsOpenable /\ ProfileIsAddressed
=============================================================================
