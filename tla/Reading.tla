------------------------------- MODULE Reading -------------------------------
(***************************************************************************)
(* What accounts, visitors and servers are shown: timelines, pages of them, *)
(* the public pages, discovery and notifications.  They share no variable   *)
(* of the models, so a behaviour is about one part, chosen at the start.    *)
(***************************************************************************)
EXTENDS Timelines, Paging, PublicPages, AccountDiscovery, NotificationFeed

VARIABLE part

reading_vars == <<part, graph_vars, paging_vars, pages_vars, discovery_vars, feed_vars>>

ReadingInit ==
    /\ part \in {"timelines", "paging", "pages", "discovery", "feed"}
    /\ SocialGraphInit /\ PagingInit /\ PagesInit /\ DiscoveryInit /\ FeedInit

ReadingNext ==
    \/ /\ part = "timelines" /\ SocialGraphNext
       /\ UNCHANGED <<part, paging_vars, pages_vars, discovery_vars, feed_vars>>
    \/ /\ part = "paging" /\ PagingNext
       /\ UNCHANGED <<part, graph_vars, pages_vars, discovery_vars, feed_vars>>
    \/ /\ part = "pages" /\ PagesNext
       /\ UNCHANGED <<part, graph_vars, paging_vars, discovery_vars, feed_vars>>
    \/ /\ part = "discovery" /\ DiscoveryNext
       /\ UNCHANGED <<part, graph_vars, paging_vars, pages_vars, feed_vars>>
    \/ /\ part = "feed" /\ FeedNext
       /\ UNCHANGED <<part, graph_vars, paging_vars, pages_vars, discovery_vars>>

ReadingSpec == ReadingInit /\ [][ReadingNext]_reading_vars
-----------------------------------------------------------------------------
(* What is checked.  A part that does not move stays as it starts, so its   *)
(* properties are evaluated in the behaviours about it only.                *)

\* SeveredStaysSevered, ShownIsOpenable and ProfileIsAddressed: a block or an
\* unfollow ends what depends on it, and every timeline query asks for no less
\* than the rule of the single status.
TimelinesHold == part = "timelines" => TimelinesSafe

\* WalkIsComplete: following the links of merged pages loses and repeats no row.
PagingHolds == part = "paging" => PagingSafe

\* PagesAgree: the web pages, the API, the sitemap and the documents for other
\* servers show the same statuses and counts, but for the documents of suspended authors.
PagesHold == part = "pages" => PagesAgree

\* DiscoveryAgrees: suggestions, directory, search, lists and relationships say
\* the same about an account.
DiscoveryHolds == part = "discovery" => DiscoveryAgrees

\* FeedIsTrue: flat and grouped notifications, pushes and streams agree, also when
\* one event is delivered twice at once.
FeedHolds == part = "feed" => FeedIsTrue
=============================================================================
