------------------------------ MODULE MCReading ------------------------------
(***************************************************************************)
(* What is read, in small scopes: a behaviour is about one part, so that   *)
(* the sizes of the parts add up.                                          *)
(***************************************************************************)
EXTENDS Reading

CONSTANTS ann, rex, old \* a local and two remote peers of Me

VARIABLE scope

\* All relations with one peer, boosts between both, or the move of one to another.
TouchesWall(b) == \E p \in block \cup late : b \in {p[1], p[2]}
OnlyWith(b) == follow \cup block \subseteq {<<Me, b>>, <<b, Me>>} /\ pending \subseteq {b}
Untouched(b) == b \notin mute \cup suspended \cup limited \cup quiet \cup erased
GraphInScope ==
    /\ scope = "local peer" => /\ OnlyWith(ann) /\ Untouched(rex) /\ Untouched(old)
                              /\ \A c \in checked : c[1] # "move"
    /\ scope = "remote peer" => /\ OnlyWith(rex) /\ Untouched(ann) /\ Untouched(old)
                                /\ checked \subseteq {"member"} \X {<<Me, rex>>}
    /\ scope = "boosts" => /\ ~ mylist.there /\ limited = {} /\ ~ TouchesWall(ann)
                           /\ checked \subseteq {<<"follow", <<Me, ann>>>>} /\ Untouched(old)
                           /\ pending \cup erased = {}
    /\ scope = "move" => /\ follow \subseteq {<<Me, rex>>, <<Me, old>>} /\ Untouched(ann)
                         /\ block \subseteq {<<Me, rex>>, <<rex, Me>>} /\ mute \cup limited = {}
                         /\ checked \subseteq {"member", "move"} \X {<<Me, rex>>, <<Me, old>>}
                         /\ <<"move", <<Me, old>>>> \notin checked /\ old \notin suspended \cup erased
                         /\ mylist.there => mylist.policy = "list" /\ ~ mylist.exclusive

\* A public status, an answer of a remote actor, a private and a public answer
\* below it, a direct message that quotes, a sensitive answer, and one that claims
\* to answer itself.
MCEntry(who, sees, answers, names, quoted) ==
    [sensitive |-> FALSE, author |-> who, visibility |-> sees, parent |-> answers, mentioned |-> names, quotes |-> quoted]
MCArchive ==
    <<MCEntry("a", "public", NoWork, {}, NoWork), MCEntry("r", "unlisted", 1, {}, NoWork),
      MCEntry("b", "private", 2, {}, NoWork), MCEntry("a", "public", 3, {}, 1),
      MCEntry("a", "direct", NoWork, {"r"}, 2),
      [MCEntry("b", "public", 2, {}, NoWork) EXCEPT !.sensitive = TRUE],
      MCEntry("r", "public", 7, {}, NoWork)>>

\* At most two things are out of the ordinary besides a quote, one of each sort.
PagesInScope ==
    /\ \A n \in {Cardinality(removed), Cardinality(fences), Cardinality(circle),
                 Cardinality(pinnedPosts), Cardinality(boosted), Cardinality(shut)} : n <= 1
    /\ dimmed \subseteq {"a"}
    /\ Cardinality(removed) + Cardinality(fences) + Cardinality(circle) + Cardinality(pinnedPosts)
       + Cardinality(boosted) + Cardinality(shut) + Cardinality(dimmed) + Cardinality(consented)
         <= IF consented = {} THEN 2 ELSE 3

MCRank == [me |-> 4, f |-> 3, r |-> 2, s |-> 1]
\* Three relations or decisions, two once the scores have been refreshed.
DiscoveryInScope ==
    Cardinality({p \in Tied : tie[p] # "none"}) + Cardinality(walls) + Cardinality(silenced)
    + Cardinality(dismissed) + Cardinality({a \in Known : standing[a] # "open"})
    + Cardinality({a \in Strangers : rules[a] # "none"})
      <= IF \A a \in Known : score[a] = 0 THEN 3 ELSE 2

MCEvent(f, k, from, of) == [fn |-> f, kind |-> k, sender |-> from, about |-> of]
MCEvents ==
    {MCEvent("with_policy", "favourite", "l", "s"), MCEvent("remote_favourite", "favourite", "r", "s"),
     MCEvent("remote_reblog", "reblog", "r", "s"), MCEvent("with_policy", "follow", "l", "me"),
     MCEvent("remote_follow", "follow", "r", "me"), MCEvent("mention", "mention", "l", "t"),
     MCEvent("remote_mention", "mention", "r", "u"), MCEvent("quote", "quote", "l", "t"),
     MCEvent("remote_status", "status", "r", "u"), MCEvent("local_account", "poll", "l", "t"),
     MCEvent("update", "update", "l", "t"), MCEvent("update", "update", "r", "u")}

\* Groups grow over the hours; elsewhere what is shown, read and hidden varies.
FeedInScope ==
    /\ \A w \in Notifiers : LET e == notifier[w].event IN e # Nothing =>
          /\ scope = "groups" => e.kind = "favourite"
          /\ scope = "mentions" => e.kind \in {"mention", "follow"} /\ e.sender = "r"
          /\ scope = "others" => w = 1 /\ e.kind # "favourite" /\ (e.kind \in {"mention", "follow"} => e.sender = "l")
    /\ scope = "mentions" => \A v, w \in Notifiers :   \* two deliveries of one activity
          Nothing \in {notifier[v].event, notifier[w].event} \/ notifier[v].event = notifier[w].event
    /\ scope = "groups" => unseen = {} /\ lastRead = 0 /\ visible = Abouts /\ \A w \in Notifiers : ~ notifier[w].held
    /\ scope # "groups" => hourNow = 1
    /\ scope = "others" => unseen = {} /\ lastRead = 0
    /\ Abouts \ visible \subseteq {"t", "u"} /\ Cardinality(Abouts \ visible) + Cardinality(unseen) <= 1

Scopes == [timelines |-> {"local peer", "remote peer", "boosts", "move"}, paging |-> {"all"}, pages |-> {"all"},
           discovery |-> {"all"}, feed |-> {"groups", "mentions", "others"}]

MCInit == ReadingInit /\ scope \in Scopes[part]

InScope ==
    /\ part = "timelines" => GraphInScope
    /\ part = "pages" => PagesInScope
    /\ part = "discovery" => DiscoveryInScope
    /\ part = "feed" => FeedInScope

MCNext == ReadingNext /\ UNCHANGED scope /\ InScope'

MCSpec == MCInit /\ [][MCNext]_<<scope, reading_vars>>
=============================================================================
