---------------------------- MODULE PublicPages -----------------------------
(***************************************************************************)
(* Where a status can be read by whoever comes: the API (a status and its   *)
(* context), the web pages of a profile and of a thread, and the documents  *)
(* of ActivityPub (note, outbox, featured collection, actor).  Each reads   *)
(* one snapshot, and each decides about visibility for itself; accounts are *)
(* suspended and restored, block and follow, and statuses are pinned,       *)
(* boosted, quoted and deleted in between.                                  *)
(***************************************************************************)
EXTENDS Naturals, Sequences, FiniteSets, SequencesExt

CONSTANTS
    Residents,    \* local accounts
    Foreigners,   \* remote actors
    Archive,       \* statuses, numbered by age: [author, visibility, parent, mentioned, quotes, sensitive]
    Anonymous, NoWork,
    PublicAncestors, PublicDescendants, PublicDepth, \* limits of the context without a login
    AllLimit,     \* limit with a login
    ChunkSize     \* URLs in one sitemap: 50,000 in the code

Everyone == Residents \cup Foreigners
Entries == 1..Len(Archive)

\* An answer may be older here than what it answers, which is fetched later, and
\* answers of other servers may even run in a circle.
ASSUME PagesAssumption ==
    /\ IsFiniteSet(Residents) /\ IsFiniteSet(Foreigners) /\ Residents \cap Foreigners = {}
    /\ Anonymous \notin Everyone /\ NoWork \notin Entries
    /\ Archive \in Seq([author : Everyone, visibility : {"public", "unlisted", "private", "direct"},
                        parent : Entries \cup {NoWork}, mentioned : SUBSET Everyone,
                        quotes : Entries \cup {NoWork}, sensitive : BOOLEAN])
    /\ {PublicAncestors, PublicDescendants, PublicDepth, AllLimit} \subseteq Nat /\ ChunkSize \in Nat \ {0}

VARIABLES
    removed,   \* deleted statuses
    shut,      \* suspended accounts and actors
    dimmed,    \* accounts that are limited, or not discoverable
    fences,    \* blocks: <<who, whom>>
    circle,     \* accepted follows: <<who, whom>>
    pinnedPosts,     \* pinned statuses
    boosted,   \* boosts by local accounts: <<who, status>>
    consented   \* statuses whose quote is accepted

pages_vars == <<removed, shut, dimmed, fences, circle, pinnedPosts, boosted, consented>>

Local(w) == Archive[w].author \in Residents
IsOpen(w) == Archive[w].visibility \in {"public", "unlisted"}

PagesInit ==
    /\ removed = {} /\ shut = {} /\ dimmed = {} /\ fences = {} /\ circle = {} /\ pinnedPosts = {} /\ boosted = {} /\ consented = {}

PagesTypeOK ==
    /\ removed \cup pinnedPosts \cup consented \subseteq Entries /\ boosted \subseteq Residents \X Entries
    /\ shut \cup dimmed \subseteq Everyone
    /\ fences \cup circle \subseteq Everyone \X Everyone /\ fences \cap circle = {} /\ pinnedPosts \cap removed = {}
-----------------------------------------------------------------------------
(* Who may see what *)

Blocked(p, q) == <<p, q>> \in fences \/ <<q, p>> \in fences

\* status_visible_to_viewer_on; remote_status_visible_to_account
Readable(w, v) ==
    LET x == Archive[w] IN
    IF v = Anonymous THEN IsOpen(w)
    ELSE \/ v = x.author
         \/ /\ IF Local(w) THEN ~ Blocked(v, x.author) ELSE <<v, x.author>> \notin fences
            /\ \/ IsOpen(w) \/ v \in x.mentioned
               \/ x.visibility = "private" /\ <<v, x.author>> \in circle

\* status_context_item_visible
ItemVisible(w, v) == w \notin removed /\ Archive[w].author \notin shut /\ Readable(w, v)

\* find_status_context_item; status_context_parent and find_status_context_parent
Parent(w) == IF Archive[w].parent \in removed THEN NoWork ELSE Archive[w].parent

\* StatusContextLimits::for_viewer
LimitsFor(v) ==
    IF v = Anonymous THEN [ancestors |-> PublicAncestors, descendants |-> PublicDescendants, depth |-> PublicDepth]
    ELSE [ancestors |-> AllLimit, descendants |-> AllLimit, depth |-> AllLimit]

\* status_ancestors: up to the first parent that is gone, hidden or seen before;
\* oldest first
Climb(below, v) ==
    LET p == Parent(Head(below)) IN
    IF p # NoWork /\ p \notin Range(Front(below)) /\ ItemVisible(p, v) THEN <<p>> \o below ELSE below
Ancestors(w, v) ==
    LET up[n \in 0..LimitsFor(v).ancestors] == IF n = 0 THEN <<w>> ELSE Climb(up[n - 1], v)
    IN  Front(up[LimitsFor(v).ancestors])

\* status_context_replies: oldest first
OldestFirst(ws) == [i \in 1..Cardinality(ws) |-> CHOOSE w \in ws : Cardinality({u \in ws : u <= w}) = i]
Replies(w) == {r \in Entries \ removed : Archive[r].parent = w}
\* count_status_context_replies
RepliesCount(w) == Cardinality({r \in Entries \ removed : Archive[r].parent = w})

\* status_descendants: breadth first, a hidden reply hides what is below it;
\* the depth bounds whose replies are looked for, the limit how many are given.
\* Everything is reached through its one parent, so of all that was seen only
\* the status it starts from can turn up again.
Level(ws, root, v) ==
    FlattenSeq([i \in DOMAIN ws |-> OldestFirst({r \in Replies(ws[i]) : r # root /\ ItemVisible(r, v)})])
Descendants(w, v) ==
    LET l == LimitsFor(v)
        level[n \in 0..Len(Archive)] == IF n = 0 THEN <<w>> ELSE IF n > l.depth THEN <<>> ELSE Level(level[n - 1], w, v)
        all == FlattenSeq([n \in 1..Len(Archive) |-> level[n]])
    IN  SubSeq(all, 1, IF Len(all) < l.descendants THEN Len(all) ELSE l.descendants)
-----------------------------------------------------------------------------
(* The API: a token of a suspended account is refused *)

\* show_status
ShowStatus(w, v) == v \notin shut /\ ItemVisible(w, v)
\* status_context
StatusContext(w, v) == Ancestors(w, v) \o Descendants(w, v)
-----------------------------------------------------------------------------
(* The web pages *)

\* ui_viewer: a session of a suspended account is nobody's
UiViewer(v) == IF v \in shut THEN Anonymous ELSE v
\* active_local_profile
ActiveProfile(p) == p \in Residents /\ p \notin shut

\* Mutant: the page does not ask whether the quoted status is visible.
UiQuote_Unchecked(w, v) ==
    LET q == Archive[w].quotes IN IF w \in consented /\ q # NoWork /\ q \notin removed THEN {q} ELSE {}

\* ui_status_quote: accepted, there and visible; the quote of a quote is left out
UiQuote(w, v) ==
    LET q == Archive[w].quotes IN IF w \in consented /\ q # NoWork /\ ItemVisible(q, v) THEN {q} ELSE {}
\* ui_local_status
UiLocalStatus(w, v) == {w} \cup UiQuote(w, v)
\* ui_remote_status: an author that is gone fails the page
UiRemoteStatus(w, v) == IF Archive[w].author \in shut THEN {} ELSE {w} \cup UiQuote(w, v)
\* ui_context_status
UiContextStatus(w, v) == IF Local(w) THEN UiLocalStatus(w, v) ELSE UiRemoteStatus(w, v)

\* local_statuses_by_account: an account's statuses that a viewer may read
ByAccount(p, v) ==
    {w \in Entries \ removed : LET x == Archive[w] IN
        x.author = p /\ (v = p \/ IsOpen(w) \/ v \in x.mentioned \/ (x.visibility = "private" /\ <<v, p>> \in circle))}
\* ui_profile_status_page
ProfileTab(p, v, tab) == {w \in ByAccount(p, v) : tab = "posts" => Archive[w].parent = NoWork}
\* ui_local_statuses asks again for each
UiStatuses(ws, v) == UNION {UiLocalStatus(w, v) : w \in {w \in ws : Readable(w, v)}}
\* pinned_local_statuses_by_account
PinnedBy(p) == {w \in pinnedPosts \ removed : Archive[w].author = p}

\* profile_timeline, and profile_statuses for the pages that follow
ProfileTimeline(p, cookie, tab) ==
    LET v == UiViewer(cookie) IN
    IF ~ ActiveProfile(p) \/ (v \notin {p, Anonymous} /\ Blocked(v, p)) THEN {}
    ELSE UiStatuses(ProfileTab(p, v, tab), v) \cup (IF tab = "posts" THEN UiStatuses(PinnedBy(p), v) ELSE {})
ProfileStatuses(p, cookie, tab) ==
    LET v == UiViewer(cookie) IN
    IF ~ ActiveProfile(p) \/ (v \notin {p, Anonymous} /\ Blocked(v, p)) THEN {} ELSE UiStatuses(ProfileTab(p, v, tab), v)

\* ui_public_account counts local and remote rows
UiPublicAccount(p) ==
    [followers |-> Cardinality({q \in Residents : <<q, p>> \in circle}) + Cardinality({q \in Foreigners : <<q, p>> \in circle}),
     following |-> Cardinality({q \in Residents : <<p, q>> \in circle}) + Cardinality({q \in Foreigners : <<p, q>> \in circle})]
\* profile_header
ProfileHeader(p) == IF ActiveProfile(p) THEN UiPublicAccount(p) ELSE [followers |-> 0, following |-> 0]

\* visible_status_thread_on
Thread(w, v) == IF ItemVisible(w, v) THEN Ancestors(w, v) \o <<w>> \o Descendants(w, v) ELSE <<>>
\* status_thread: the page of a local status at its author's address
ThreadPage(p, w, cookie) ==
    LET v == UiViewer(cookie) IN
    IF ActiveProfile(p) /\ Local(w) /\ Archive[w].author = p /\ (v \in {p, Anonymous} \/ ~ Blocked(v, p)) THEN Thread(w, v) ELSE <<>>
NoIndex(w) == Archive[w].author \in dimmed \/ ~ IsOpen(w)

\* search_status_sitemap_urls: what is promoted to search engines, a chunk from its cursor on
Promoted ==
    {w \in Entries \ removed : /\ Local(w) /\ Archive[w].visibility = "public" /\ ~ Archive[w].sensitive
                               /\ Archive[w].author \notin dimmed \cup shut}
SitemapUrls(cursor) ==
    {w \in Promoted : w >= cursor /\ Cardinality({u \in Promoted : cursor <= u /\ u < w}) < ChunkSize}
\* search_sitemap_chunks: each row whose row_index the size divides
SitemapChunks == {w \in Promoted : Cardinality({u \in Promoted : u < w}) % ChunkSize = 0}
\* sitemap_index and status_sitemap
Sitemap == UNION {SitemapUrls(c) : c \in SitemapChunks}
-----------------------------------------------------------------------------
(* ActivityPub *)

\* webfinger, actor, featured_tags, account_for_collection
ActorServed(p) == p \in Residents /\ p \notin shut
\* note asks for the visibility and not for the author's suspension
Note(w) == Local(w) /\ w \notin removed /\ (Archive[w].visibility = "public" \/ (Archive[w].visibility = "unlisted" /\ w \in pinnedPosts))
\* featured
Featured(p) == IF ActorServed(p) THEN PinnedBy(p) ELSE {}

\* local_outbox_status_visibility, for the actor who signed the request
OutboxVisibility(w, r) ==
    \/ IsOpen(w)
    \/ /\ r # Anonymous
       /\ \/ Archive[w].visibility = "private" /\ (<<r, Archive[w].author>> \in circle \/ r \in Archive[w].mentioned)
          \/ Archive[w].visibility = "direct" /\ r \in Archive[w].mentioned

\* local_actor_outbox_page: statuses, boosts of local and boosts of remote statuses
OutboxStatuses(p, r) == {w \in Entries \ removed : Archive[w].author = p /\ OutboxVisibility(w, r)}
OutboxBoosts(p, r) ==
    {w \in Entries \ removed : <<p, w>> \in boosted /\ IF Local(w) THEN OutboxVisibility(w, r) ELSE IsOpen(w)}
\* count_local_actor_outbox_items
OutboxCount(p, r) == Cardinality(OutboxStatuses(p, r)) + Cardinality(OutboxBoosts(p, r))
\* signed_outbox_requester: an actor whose key is cached, suspended or not, or nobody
Requesters == Foreigners \cup {Anonymous}
\* outbox: a requester that is blocked is shown nothing
Outbox(p, r) ==
    IF ~ ActorServed(p) \/ (r # Anonymous /\ Blocked(p, r)) THEN [total |-> 0, items |-> {}]
    ELSE [total |-> OutboxCount(p, r),
          items |-> {<<"create", w>> : w \in OutboxStatuses(p, r)} \cup {<<"announce", w>> : w \in OutboxBoosts(p, r)}]
\* follow_collection_page: local and remote rows in one list
FollowEntries(local, remote) == local \cup remote
\* followers, following
FollowersOf(p) ==
    IF ActorServed(p) THEN FollowEntries({q \in Residents : <<q, p>> \in circle}, {q \in Foreigners : <<q, p>> \in circle}) ELSE {}
FollowingOf(p) ==
    IF ActorServed(p) THEN FollowEntries({q \in Residents : <<p, q>> \in circle}, {q \in Foreigners : <<p, q>> \in circle}) ELSE {}
-----------------------------------------------------------------------------
(* What changes in between *)

SuspendAccount(p) ==
    /\ p \notin shut /\ shut' = shut \cup {p}
    /\ circle' = {f \in circle : p \notin {f[1], f[2]}}
    /\ UNCHANGED <<removed, dimmed, fences, pinnedPosts, boosted, consented>>
RestoreAccount(p) == p \in shut /\ shut' = shut \ {p} /\ UNCHANGED <<removed, dimmed, fences, circle, pinnedPosts, boosted, consented>>
LimitAccount(p) == p \notin dimmed /\ dimmed' = dimmed \cup {p} /\ UNCHANGED <<removed, shut, fences, circle, pinnedPosts, boosted, consented>>
DeleteWork(w) ==
    /\ w \notin removed /\ removed' = removed \cup {w} /\ pinnedPosts' = pinnedPosts \ {w}
    /\ UNCHANGED <<shut, dimmed, fences, circle, boosted, consented>>
BlockAccount(p, q) ==
    /\ p # q /\ <<p, q>> \notin fences /\ fences' = fences \cup {<<p, q>>} /\ circle' = circle \ {<<p, q>>, <<q, p>>}
    /\ UNCHANGED <<removed, shut, dimmed, pinnedPosts, boosted, consented>>
FollowAccount(p, q) ==
    /\ p # q /\ ~ Blocked(p, q) /\ {p, q} \cap shut = {} /\ {p, q} \cap Residents # {} /\ circle' = circle \cup {<<p, q>>}
    /\ UNCHANGED <<removed, shut, dimmed, fences, pinnedPosts, boosted, consented>>
PinWork(w) ==
    /\ Local(w) /\ IsOpen(w) /\ w \notin removed \cup pinnedPosts /\ Archive[w].author \notin shut /\ pinnedPosts' = pinnedPosts \cup {w}
    /\ UNCHANGED <<removed, shut, dimmed, fences, circle, boosted, consented>>
BoostWork(p, w) ==
    /\ w \notin removed /\ Readable(w, p) /\ p \notin shut /\ (Archive[w].visibility = "private" => Archive[w].author = p)
    /\ boosted' = boosted \cup {<<p, w>>}
    /\ UNCHANGED <<removed, shut, dimmed, fences, circle, pinnedPosts, consented>>
AcceptQuote(w) ==
    /\ Archive[w].quotes # NoWork /\ consented' = consented \cup {w}
    /\ UNCHANGED <<removed, shut, dimmed, fences, circle, pinnedPosts, boosted>>

PagesNext ==
    \/ \E p \in Everyone : SuspendAccount(p) \/ RestoreAccount(p) \/ LimitAccount(p)
    \/ \E p, q \in Everyone : BlockAccount(p, q) \/ FollowAccount(p, q)
    \/ \E w \in Entries : DeleteWork(w) \/ PinWork(w) \/ AcceptQuote(w) \/ \E p \in Residents : BoostWork(p, w)

PagesSpec == PagesInit /\ [][PagesNext]_pages_vars
-----------------------------------------------------------------------------
(* Properties *)

Readers == Residents \cup {Anonymous}

\* Whatever a web page shows to a visitor, quotes included, the API opens for
\* the same visitor, or for nobody in particular once the visitor is suspended;
\* the page of a thread shows the context of the API; and
\* the chunks of the sitemap name all that is promoted, each with an open page
\* that may be indexed.
PagesShowWhatTheApiShows ==
    \A c \in Readers : LET v == UiViewer(c) IN
        /\ \A p \in Residents : \A tab \in {"posts", "replies"} :
              ProfileTimeline(p, c, tab) \cup ProfileStatuses(p, c, tab) \subseteq {w \in Entries : ShowStatus(w, v)}
        /\ \A p \in Residents, w \in Entries :
              LET page == Range(ThreadPage(p, w, c)) IN page # {} =>
              /\ \A u \in page : LET shown == UiContextStatus(u, v) IN shown # {} /\ \A s \in shown : ShowStatus(s, v)
              /\ page = Range(StatusContext(w, v)) \cup {w}
    /\ Sitemap = Promoted /\ \A w \in Promoted : ~ NoIndex(w) /\ ThreadPage(Archive[w].author, w, Anonymous) # <<>>

\* Whoever follows the parents up from w never comes to an end.
Endless(w) == \E ws \in SUBSET Entries : w \in ws /\ \A u \in ws : Archive[u].parent \in ws

\* A context hangs together: everything but its oldest ancestor answers
\* something in it, nothing is in it twice unless the answers run in a circle
\* (and even then not among the ancestors or among what is below the status),
\* and there are no more direct replies than the count beside the status.
ThreadsHangTogether ==
    \A v \in Readers, w \in Entries : LET t == Thread(w, v) IN
        /\ IsInjective(t) \/ Endless(w)
        /\ IsInjective(Ancestors(w, v)) /\ IsInjective(<<w>> \o Descendants(w, v))
        /\ \A i \in 2..Len(t) : Archive[t[i]].parent \in Range(t)
        /\ Cardinality({u \in Range(t) : Archive[u].parent = w}) <= RepliesCount(w)

\* A status that the API opens for anybody, or one of a suspended author, which
\* the API hides and a document may go on to serve.
ShownOrShut(w) == ShowStatus(w, Anonymous) \/ Archive[w].author \in shut

\* The documents for other servers against the API: a Note that is served, and a
\* status that the outbox lists for nobody in particular, is one that the API
\* opens for anybody, but for authors who are suspended: their Notes stay served,
\* and boosts of their statuses stay listed; they have no featured collection
\* and no outbox of their own.  What is listed for the actor who signed is public
\* or was addressed to that actor while they do not block each other; the announced
\* total is what the pages hold; the collections of follows hold as many as the
\* profile says, nobody suspended or blocked.
DocumentsShowWhatTheApiShows ==
    /\ \A w \in Entries : Note(w) => IsOpen(w) /\ ShownOrShut(w)
    /\ \A p \in Residents : Featured(p) \subseteq {w \in Entries : Note(w) /\ ShowStatus(w, Anonymous)}
    /\ \A p \in Residents : \A q \in FollowersOf(p) \cup FollowingOf(p) : q \notin shut /\ ~ Blocked(p, q)
    /\ \A p \in Residents : ProfileHeader(p) = [followers |-> Cardinality(FollowersOf(p)), following |-> Cardinality(FollowingOf(p))]
    /\ \A p \in Residents, r \in Requesters : LET o == Outbox(p, r) IN
          /\ o.total = Cardinality(o.items) /\ (p \in shut => o.items = {})
          /\ \A i \in o.items : LET x == Archive[i[2]] IN
                \/ IsOpen(i[2])
                \/ r \in x.mentioned \/ (x.visibility = "private" /\ <<r, x.author>> \in circle)
          /\ \A i \in Outbox(p, Anonymous).items :
                ShowStatus(i[2], Anonymous) \/ (i[1] = "announce" /\ Archive[i[2]].author \in shut)

\* Every surface that decides for itself what is visible agrees with the others.
PagesAgree == PagesTypeOK /\ PagesShowWhatTheApiShows /\ ThreadsHangTogether /\ DocumentsShowWhatTheApiShows
=============================================================================
