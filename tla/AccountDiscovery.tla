-------------------------- MODULE AccountDiscovery --------------------------
(***************************************************************************)
(* How the account Viewer finds others, and what it is told about them:     *)
(* the directory, the suggestions, the search, a lookup, a profile, the     *)
(* lists of followers, of blocks and of mutes, and the relationship object. *)
(* Each is a query of its own over the same tables, and repeats the rules   *)
(* of the others: nothing but their agreement shows that one of them has    *)
(* forgotten a rule.  Each reads one snapshot, so that a query is an        *)
(* operator of the state, and the actions are what happens in between.      *)
(***************************************************************************)
EXTENDS Naturals, FiniteSets

CONSTANTS
    Viewer, Neighbours, \* local accounts
    Strangers,      \* cached remote actors, each on a domain of its own
    Rank,           \* the order of the last post, of the creation and of the id
    PoolLimit,      \* 1,000 in the code: accounts that each source of suggestions offers
    ListingLimit    \* accounts on a page

ASSUME DiscoveryAssumption ==
    /\ Viewer \in Neighbours /\ Neighbours \cap Strangers = {}
    /\ ListingLimit \in Nat \ {0} /\ PoolLimit \in Nat \ {0}
    /\ IsFiniteSet(Neighbours) /\ IsFiniteSet(Strangers)
    /\ Rank \in [Neighbours \cup Strangers -> Nat]   \* the id settles every tie
    /\ \A a, b \in Neighbours \cup Strangers : Rank[a] = Rank[b] => a = b

Known == Neighbours \cup Strangers
Others == Known \ {Viewer}
Tied == (Neighbours \X Known) \cup (Strangers \X Neighbours)

VARIABLES
    tie,       \* local_follow, remote_following and remote_follow
    walls,     \* blocks between Viewer and the others
    silenced,  \* accounts that Viewer mutes, not yet expired
    dismissed, \* local_account_suggestion_dismissal of Viewer
    standing,  \* open, private (not discoverable), limited, suspended, moved or gone
    rules,      \* the severity of the rule for the domain of a remote actor
    score      \* the materialized view account_suggestion_score

discovery_vars == <<tie, walls, silenced, dismissed, standing, rules, score>>

DiscoveryInit ==
    /\ tie = [p \in Tied |-> "none"] /\ walls = {} /\ silenced = {} /\ dismissed = {}
    /\ standing = [a \in Known |-> "open"] /\ rules = [a \in Strangers |-> "none"]
    /\ score = [a \in Known |-> 0]

DiscoveryTypeOK ==
    /\ tie \in [Tied -> {"none", "pending", "accepted", "retired"}]
    /\ \A p \in Tied : p[2] \in Neighbours => tie[p] # "retired"
    /\ walls \subseteq ({Viewer} \X Others) \cup (Others \X {Viewer})
    /\ silenced \cup dismissed \subseteq Others
-----------------------------------------------------------------------------
(* What happens to accounts and between them *)

Walled(a) == <<Viewer, a>> \in walls \/ <<a, Viewer>> \in walls

\* follow_local_account is accepted at once; a remote one waits, and a row that
\* a move had retired is used again.
RequestFollow(a, b) ==
    /\ a # b /\ tie[<<a, b>>] \in {"none", "retired"}
    /\ <<a, b>> \notin walls /\ <<b, a>> \notin walls
    /\ b \in Strangers => standing[b] \notin {"suspended", "gone"} /\ rules[b] # "suspend"
    /\ tie' = [tie EXCEPT ![<<a, b>>] = IF {a, b} \subseteq Neighbours THEN "accepted" ELSE "pending"]
    /\ UNCHANGED <<walls, silenced, dismissed, standing, rules, score>>

\* authorize_follow_request, or the Accept of the remote actor
AuthorizeFollow(a, b) ==
    /\ tie[<<a, b>>] = "pending"
    /\ tie' = [tie EXCEPT ![<<a, b>>] = "accepted"]
    /\ UNCHANGED <<walls, silenced, dismissed, standing, rules, score>>

\* An unfollow, reject_follow_request, or the Undo or the Reject of the remote actor.
EndFollow(a, b) ==
    /\ tie[<<a, b>>] \in {"pending", "accepted"}
    /\ tie' = [tie EXCEPT ![<<a, b>>] = "none"]
    /\ UNCHANGED <<walls, silenced, dismissed, standing, rules, score>>

\* migrate_remote_following_for_actor_move keeps the old row as an inactive one.
MigrateFollow(a, r, s) ==
    /\ standing[r] = "moved" /\ r # s /\ tie[<<a, r>>] = "accepted" /\ tie[<<a, s>>] # "retired"
    /\ tie' = [tie EXCEPT ![<<a, r>>] = "retired",
                          ![<<a, s>>] = IF @ = "none" THEN "pending" ELSE @]
    /\ UNCHANGED <<walls, silenced, dismissed, standing, rules, score>>

\* block, and the Block of a remote actor: the follows of both go.
CreateBlock(a, b) ==
    /\ Viewer \in {a, b} /\ a # b /\ <<a, b>> \notin walls
    /\ b \in Strangers => standing[b] \notin {"suspended", "gone"} /\ rules[b] # "suspend"
    /\ walls' = walls \cup {<<a, b>>}
    /\ tie' = [p \in Tied |-> IF p \in {<<a, b>>, <<b, a>>} THEN "none" ELSE tie[p]]
    /\ UNCHANGED <<silenced, dismissed, standing, rules, score>>

DeleteBlock(a, b) ==
    /\ <<a, b>> \in walls /\ walls' = walls \ {<<a, b>>}
    /\ UNCHANGED <<tie, silenced, dismissed, standing, rules, score>>

MuteAccount(a) ==
    /\ a \in Strangers => standing[a] \notin {"suspended", "gone"} /\ rules[a] # "suspend"
    /\ silenced' = silenced \cup {a}
    /\ UNCHANGED <<tie, walls, dismissed, standing, rules, score>>

UnmuteAccount(a) ==
    /\ silenced' = silenced \ {a}
    /\ UNCHANGED <<tie, walls, dismissed, standing, rules, score>>

\* dismiss_suggestion: there is no way back.
DismissSuggestion(a) ==
    /\ dismissed' = dismissed \cup {a}
    /\ UNCHANGED <<tie, walls, silenced, standing, rules, score>>

\* A profile is changed or moderated, moves or is deleted; a deleted remote actor
\* leaves no follow behind, and stays deleted.
ChangeStanding(a, s) ==
    /\ s \in {"moved", "gone"} => a \in Strangers
    /\ standing[a] # "gone" /\ standing' = [standing EXCEPT ![a] = s]
    /\ tie' = IF s = "gone" THEN [p \in Tied |-> IF a \in {p[1], p[2]} THEN "none" ELSE tie[p]] ELSE tie
    /\ UNCHANGED <<walls, silenced, dismissed, rules, score>>

SetDomainRule(r, severity) ==
    /\ rules' = [rules EXCEPT ![r] = severity]
    /\ UNCHANGED <<tie, walls, silenced, dismissed, standing, score>>

IsFollowing(a, b) == <<a, b>> \in Tied /\ tie[<<a, b>>] = "accepted"

\* account_suggestion_score: followers that are local and not suspended
ScoreOf(a) == Cardinality({f \in Neighbours : IsFollowing(f, a) /\ standing[f] # "suspended"})

\* refresh_account_suggestion_scores: the counts are as old as the last refresh.
RefreshScores ==
    /\ score' = [a \in Known |-> ScoreOf(a)]
    /\ UNCHANGED <<tie, walls, silenced, dismissed, standing, rules>>

DiscoveryNext ==
    \/ \E p \in Tied : RequestFollow(p[1], p[2]) \/ AuthorizeFollow(p[1], p[2]) \/ EndFollow(p[1], p[2])
    \/ \E a \in Neighbours, r, s \in Strangers : MigrateFollow(a, r, s)
    \/ \E a \in Others : CreateBlock(Viewer, a) \/ CreateBlock(a, Viewer) \/ DeleteBlock(Viewer, a) \/ DeleteBlock(a, Viewer)
    \/ \E a \in Others : MuteAccount(a) \/ UnmuteAccount(a) \/ DismissSuggestion(a)
    \/ \E a \in Others, s \in {"open", "private", "limited", "suspended", "moved", "gone"} : ChangeStanding(a, s)
    \/ \E r \in Strangers, severity \in {"none", "silence", "suspend"} : SetDomainRule(r, severity)
    \/ RefreshScores

DiscoverySpec == DiscoveryInit /\ [][DiscoveryNext]_discovery_vars
-----------------------------------------------------------------------------
(* The queries.  A viewer is {Viewer}, or {} for a request without a login. *)

\* hidden_federation_domains
OnHiddenDomain(a) == a \in Strangers /\ rules[a] \in {"silence", "suspend"}

\* remote_actor_is_suspended_on
RemoteIsSuspended(a) == standing[a] \in {"gone", "suspended"} \/ rules[a] = "suspend"

\* The first n of a set in an order.
Top(S, n, Before(_, _)) == {a \in S : Cardinality({b \in S : Before(b, a)}) < n}

\* account_directory, the candidates: local accounts ...
LocalListed(v) ==
    {a \in Neighbours : /\ standing[a] = "open"
                        /\ v # {} => a # Viewer /\ ~ Walled(a) /\ a \notin silenced}

\* ... and remote actors
RemoteListed(v) ==
    {a \in Strangers : /\ standing[a] = "open" /\ ~ OnHiddenDomain(a)
                       /\ v # {} => ~ Walled(a) /\ a \notin silenced}

DirectoryCandidates(v, localOnly) == LocalListed(v) \cup (IF localOnly THEN {} ELSE RemoteListed(v))

\* account_directory: one more row than the page shows is read.
ByRank(a, b) == Rank[a] > Rank[b]
DirectoryPage(v, localOnly, offset) ==
    LET candidates == DirectoryCandidates(v, localOnly)
        before == Top(candidates, offset, ByRank)
        rows == Top(candidates, offset + ListingLimit + 1, ByRank) \ before
    IN  [items |-> Top(rows, ListingLimit, ByRank), hasMore |-> Cardinality(rows) > ListingLimit]

\* directory: the offsets to which the links of the pages lead.
DirectoryOffsets(v, localOnly) ==
    LET starts == {k * ListingLimit : k \in 0..Cardinality(Known)}
        last == {o \in starts : ~ DirectoryPage(v, localOnly, o).hasMore}
    IN  {o \in starts : \A l \in last : o <= l}

\* account_suggestions: the follows of Viewer, and theirs.  The newest 1,000 and 100
\* of them are more than an instance has here.
FirstDegree == {a \in Known : IsFollowing(Viewer, a)}
FriendsCount(c) == Cardinality({f \in FirstDegree : IsFollowing(f, c)})

\* A greater key first, and the rank among equal ones.
Sooner(a, b, ka, kb) == ka > kb \/ (ka = kb /\ Rank[a] > Rank[b])

ByFriends(a, b) == Sooner(a, b, FriendsCount(a), FriendsCount(b))
FriendCandidates(kind) == Top({c \in kind : FriendsCount(c) > 0}, PoolLimit, ByFriends)

ByScore(a, b) == Sooner(a, b, score[a], score[b])
GloballyRanked(kind) == Top({a \in kind : score[a] > 0}, PoolLimit, ByScore)

RecentlyActive(kind) == Top({a \in kind : standing[a] = "open"}, PoolLimit, ByRank)

\* local_pool and remote_pool: the cuts come before the rules of the viewer.
Pool(kind) == FriendCandidates(kind) \cup GloballyRanked(kind) \cup RecentlyActive(kind)

\* friends_count of a candidate: 0 for one that was cut from the friend candidates
FriendProof ==
    LET kept == FriendCandidates(Neighbours) \cup FriendCandidates(Strangers)
    IN  [a \in Known |-> IF a \in kept THEN FriendsCount(a) ELSE 0]

\* The order of the suggestions: friends, then the score.
Foremost(S, n) ==
    LET proof == FriendProof
    IN  Top(S, n, LAMBDA a, b : proof[a] > proof[b] \/ (proof[a] = proof[b] /\ ByScore(a, b)))

LocalCandidates ==
    Foremost({a \in Pool(Neighbours) :
                 /\ a # Viewer /\ standing[a] = "open" /\ tie[<<Viewer, a>>] = "none"
                 /\ a \notin dismissed /\ ~ Walled(a) /\ a \notin silenced},
             PoolLimit)

\* Mutant: only an accepted follow keeps a remote actor from being suggested.
NotAskedFor_Accepted(a) == tie[<<Viewer, a>>] # "accepted"

\* No row of remote_following that is active, a pending one included.
NotAskedFor(a) == tie[<<Viewer, a>>] \in {"none", "retired"}

RemoteCandidates ==
    Foremost({a \in Pool(Strangers) :
                 /\ standing[a] = "open" /\ NotAskedFor(a) /\ a \notin dismissed
                 /\ ~ OnHiddenDomain(a) /\ ~ Walled(a) /\ a \notin silenced},
             PoolLimit)

Suggestions == LocalCandidates \cup RemoteCandidates

\* suggestions_v1 and suggestions_v2: one page of all suggestions.
SuggestionPage(all, offset) == Foremost(all, offset + ListingLimit) \ Foremost(all, offset)

\* sources, and the source that older clients read.
SourcesOf(a) ==
    (IF FriendProof[a] > 0 THEN {"friends_of_friends"} ELSE {}) \cup {"most_followed"}

\* search_accounts with a query that every name contains
Matching(v, followingOnly) ==
    {a \in Known :
        /\ standing[a] \notin {"limited", "suspended", "gone"}
        /\ ~ OnHiddenDomain(a)
        /\ v # {} => <<Viewer, a>> \notin walls
        /\ followingOnly => v # {} /\ IsFollowing(Viewer, a)}

\* search_accounts of the server: remote actors only where federation is on
SearchAccounts(v, followingOnly, federated) ==
    Matching(v, followingOnly) \cap (IF federated THEN Known ELSE Neighbours)

\* search: without a login there is nobody to follow.
SearchResults(v, followingOnly, federated) ==
    IF v = {} /\ followingOnly THEN {} ELSE SearchAccounts(v, followingOnly, federated)

\* search_local_accounts, which hides blocks of either side
LocalMatching == {a \in Neighbours : standing[a] \notin {"limited", "suspended"} /\ ~ Walled(a)}

\* resolved_url_search: the address of a profile names one account.
ResolvedByUrl(v, a, followingOnly) ==
    /\ standing[a] \notin {"limited", "suspended", "gone"}
    /\ a \in Strangers => rules[a] # "suspend"
    /\ followingOnly => v # {} /\ IsFollowing(Viewer, a)

\* lookup_account without resolve, and show_account
LookedUp(a) == a \in Strangers => ~ RemoteIsSuspended(a)
Shown(a) == a \in Strangers => standing[a] # "gone" /\ rules[a] # "suspend"

\* followers_for_local_account, followers_for_remote_account
FollowerRows(a) == {f \in Known : IsFollowing(f, a)}
RemoteFollowerRows(a) == {f \in Neighbours : IsFollowing(f, a)}

\* following_for_local_account reads the inactive rows too.
FollowingRows(a) ==
    {b \in Known : <<a, b>> \in Tied /\ tie[<<a, b>>] \in {"accepted", "retired"}}

\* following_for_remote_account
RemoteFollowingRows(a) == {b \in Neighbours : IsFollowing(a, b)}

\* pending_remote_follow_requests, blocked_accounts_for_account, muted_accounts_for_account
RequestRows == {a \in Strangers : tie[<<a, Viewer>>] = "pending"}
BlockRows == {a \in Others : <<Viewer, a>> \in walls}
MuteRows == silenced

\* account_responses leaves out remote actors that are suspended or deleted.
Responses(rows) == {a \in rows : a \in Strangers => ~ RemoteIsSuspended(a)}

\* follow_account_collection
FollowCollection(a, which) ==
    IF a \in Neighbours THEN (IF which = "followers" THEN FollowerRows(a) ELSE FollowingRows(a))
    ELSE IF RemoteIsSuspended(a) THEN {}
    ELSE IF which = "followers" THEN RemoteFollowerRows(a) ELSE RemoteFollowingRows(a)

\* account_collection: blocks and mutes are those of Viewer.
AccountCollection(a, which) ==
    Responses(CASE which = "blocks" -> BlockRows [] which = "mutes" -> MuteRows
                [] OTHER -> FollowCollection(a, which))

\* follow_requests leaves nobody out.
FollowRequests == RequestRows

\* account_response_on and remote_account_response_on, and the same in the SQL of
\* the directory and of the suggestions.
FollowersCount(a) == Cardinality({f \in Neighbours : IsFollowing(f, a)}) + Cardinality({f \in Strangers : IsFollowing(f, a)})
FollowingCount(a) == Cardinality({b \in Neighbours : IsFollowing(a, b)}) + Cardinality({b \in Strangers : IsFollowing(a, b)})

\* relationship_model_on
Relationship(a) ==
    [following |-> IsFollowing(Viewer, a), requested |-> tie[<<Viewer, a>>] = "pending",
     followed_by |-> IsFollowing(a, Viewer), blocking |-> <<Viewer, a>> \in walls,
     blocked_by |-> <<a, Viewer>> \in walls, muting |-> a \in silenced]
-----------------------------------------------------------------------------
(* Properties *)

Unrelated(a) ==
    LET r == Relationship(a) IN
    ~ r.following /\ ~ r.requested /\ ~ r.blocking /\ ~ r.blocked_by /\ ~ r.muting

\* Nobody is suggested to whom Viewer has anything to do, and nobody who is not in the
\* directory; whoever is in the directory can be searched for and opened.
WhatIsOfferedIsListed ==
    /\ \A a \in Suggestions :
        Unrelated(a) /\ a \notin dismissed /\ a \in DirectoryCandidates({Viewer}, FALSE)
    /\ \A v \in {{}, {Viewer}} :
        /\ DirectoryCandidates(v, FALSE) \subseteq SearchResults(v, FALSE, TRUE)
        /\ SearchResults(v, TRUE, TRUE) \subseteq SearchResults(v, FALSE, TRUE)
        /\ \A a \in SearchResults(v, FALSE, TRUE) : Shown(a) /\ LookedUp(a) /\ ResolvedByUrl(v, a, FALSE)
    /\ LocalMatching \subseteq SearchResults({Viewer}, FALSE, FALSE)

\* The cut of the pools before the filters loses nobody while the accounts fit in
\* one of them: then everybody in the directory without a tie is suggested.
FewAreAllSuggested ==
    \A kind \in {Neighbours, Strangers} :
        Cardinality({a \in kind : standing[a] = "open"}) <= PoolLimit =>
            {a \in DirectoryCandidates({Viewer}, FALSE) \cap kind : Unrelated(a) /\ a \notin dismissed}
                \subseteq Suggestions

\* The links from page to page show the whole directory, each account once, and
\* the last page has no next one.
DirectoryIsWalked ==
    /\ \A v \in {{}, {Viewer}} :
        LET offsets == DirectoryOffsets(v, FALSE)
            page == [o \in offsets |-> DirectoryPage(v, FALSE, o).items]
        IN  /\ UNION {page[o] : o \in offsets} = DirectoryCandidates(v, FALSE)
            /\ \A o, p \in offsets : o # p => page[o] \cap page[p] = {}
            /\ \A o \in offsets : o > 0 => page[o] # {}
    /\ LET all == Suggestions IN UNION {SuggestionPage(all, k * ListingLimit) : k \in 0..Cardinality(Known)} = all

\* A list of followers has as many rows as the profile counts, and the lists say of
\* an account what the relationship with it says.
ListsAgree ==
    /\ \A a \in Known : Cardinality(FollowerRows(a)) = FollowersCount(a)
    /\ \A a \in Strangers :
        /\ Cardinality(RemoteFollowerRows(a)) = FollowersCount(a)
        /\ Cardinality(RemoteFollowingRows(a)) = FollowingCount(a)
    /\ \A a \in Others :
        LET r == Relationship(a) IN
        /\ a \in AccountCollection(Viewer, "followers") => r.followed_by
        /\ a \in AccountCollection(Viewer, "blocks") => r.blocking
        /\ a \in AccountCollection(Viewer, "mutes") => r.muting
        /\ r.following /\ LookedUp(a) => a \in AccountCollection(Viewer, "following")
        /\ a \in FollowRequests => ~ r.followed_by /\ ~ r.blocking /\ ~ r.blocked_by

\* The queries about accounts agree with one another whatever was followed, blocked,
\* muted, dismissed, moderated and moved before, and however old the scores are.
DiscoveryAgrees ==
    DiscoveryTypeOK /\ WhatIsOfferedIsListed /\ FewAreAllSuggested /\ DirectoryIsWalked /\ ListsAgree
=============================================================================
