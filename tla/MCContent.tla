------------------------------ MODULE MCContent ------------------------------
(***************************************************************************)
(* What accounts write: statuses, interactions, polls, quotes, cards,      *)
(* conversations, tags and pins.  They share no variable of the models, so *)
(* a behaviour is about one part, chosen at the start, and the sizes of    *)
(* the parts add up.                                                       *)
(* Within a part a scope bounds what happens at once.                      *)
(***************************************************************************)
EXTENDS LocalStatuses, Interactions, Polls, Quotes, PreviewCards, Conversations, Tags

CONSTANTS r1, r2, r3, r4, k1, m1,      \* requests, an Idempotency-Key, a medium
          alice, mallory, own, far, \* local and remote actors, statuses of both
          ann, bob, peer            \* the participants of conversations

VARIABLES part, scope

tag_vars == <<usage_vars, pin_vars>>

\* Two requests and a schedule repeat a key, another schedule has none and must
\* share the limit with the first; a request and a schedule want one medium.
MCRequestKey == [r \in Requests |-> IF r = r3 THEN Nil ELSE k1]
MCRequestMedia == [r \in Requests |-> IF r \in {r2, r3} THEN {m1} ELSE {}]

NoPublisherIsBusy == \A p \in Publishers : publisher[p].pc = "idle"
NoEditorIsBusy == \A e \in Editors : editor[e].pc = "idle"
StatusesInScope ==
    /\ scope = "keys" => /\ request[r3] = "new" /\ NoPublisherIsBusy
                         /\ \A e \in Editors : editor[e].pc # "editing"
    /\ scope = "edits" => /\ request[r2] = "new" /\ request[r4] = "new" /\ keyRow[k1] = Nil /\ excused = {}
                          /\ NoPublisherIsBusy /\ medium[m1].st = "stored"
    /\ scope = "publication" => /\ request[r1] = "new" /\ request[r4] = "new"
                                /\ request[r2] # "new" => NoEditorIsBusy
    /\ scope = "limit" => /\ request[r1] = "new" /\ request[r2] = "new"
                          /\ deleting = {} /\ NoEditorIsBusy

\* Requests about one row, one request of each kind beside the maintenance, or
\* boosts of a remote status without it.
InteractionsInScope ==
    LET busy == {r \in Clients : client[r].pc # "idle"} IN
    /\ scope = "count" => \A r \in busy : client[r].key.on = own /\ client[r].key.verb = "like"
    /\ scope = "boost" => /\ refresh = "none"
                          /\ \A r \in busy : client[r].key.on = far /\ client[r].key.verb = "boost"
    /\ scope = "single" => busy \subseteq {1} /\ \A r \in busy : client[r].key.by = alice
    /\ scope = "marks" => \A r \in busy : client[r].key.verb = "bookmark"

\* Two fetchers at one host, or one fetcher of a card that two statuses share.
CardsInScope ==
    /\ scope = "host" => /\ link[2] = NoCard /\ ~ scanned[2]
                         /\ \A c \in CardIds : fetchJob[c].attempts = 0
    /\ scope = "rows" => fetcher[2] = Resting

MCBallots == {<<"x", "y">>, <<"y", "x">>}
PollsInScope ==
    /\ scope = "votes" => clock = 1 /\ poll.ends \in {Never, 3} /\ poll.closed = Never
    /\ scope = "time" => arriving = Nobody /\ poll.ballot \in {<<>>, <<"x", "y">>} /\ ~ poll.hide

\* Somebody else is addressed, with the first private message at first nobody of
\* this server; bob only reads; the third message is used where
\* the second, a remote one, is not, and there the peer is purged, not ann.
ConversationsInScope ==
    /\ \A w \in Writers : writer[w] # NoWriter =>
        /\ writer[w].row.by \notin writer[w].row.to \cup {bob}
        /\ writer[w].row.to = {} => scope = "private" /\ writer[w].msg = 1 /\ writer[w].kind = "attach"
        /\ writer[w].msg # IF scope = "private" THEN 2 ELSE 3
    /\ scope = "federated" => \A m \in Messages \ RemoteMessages : message[m].state # "purged"

\* Only around remote messages is a conversation read or hidden, the first one.
ReadInScope ==
    message' = message /\ writer' = writer =>
        view' = view \/ (scope = "federated" /\ view'[2] = view[2])

\* On the second day one writer is at work beside the refresh, which is the first
\* by the symmetry of works and authors.
UsageInScope == today = 2 => writing["w2"].phase = "none"

Scopes == [statuses |-> {"keys", "edits", "publication", "limit"},
           interactions |-> {"count", "boost", "single", "marks"},
           polls |-> {"votes", "time"}, quotes |-> {"all"}, cards |-> {"host", "rows"},
           conversations |-> {"private", "federated"},
           tags |-> {"usage", "pins", "collections"}]

MCInit ==
    /\ part \in DOMAIN Scopes /\ scope \in Scopes[part]
    /\ LocalStatusesInit /\ InteractionsInit /\ PreviewCardsInit
    /\ PollsInit /\ (part # "polls" => home = "local")
    /\ QuotesInit
    /\ part # "quotes" => kind = [by |-> "local", of |-> "local"] /\ tie = "none" /\ target.policy = "nobody"
    \* The authors of the works matter to the usage, the kind to the collections.
    /\ TagsInit /\ author["w1"] = "x" /\ (scope # "usage" => author["w2"] = "x")
    /\ scope # "collections" => pinFetch.kind = "pin"
    /\ ConversationsInit /\ hides = IF scope = "federated" THEN {ann} ELSE {}

MCNext ==
    /\ UNCHANGED <<part, scope>>
    /\ \/ /\ part = "statuses" /\ LocalStatusesNext /\ StatusesInScope'
          /\ UNCHANGED <<interaction_vars, poll_vars, quote_vars, card_vars, conversation_vars, tag_vars>>
       \/ /\ part = "interactions" /\ InteractionsNext /\ InteractionsInScope'
          /\ UNCHANGED <<statuses_vars, poll_vars, quote_vars, card_vars, conversation_vars, tag_vars>>
       \/ /\ part = "polls" /\ PollsNext /\ PollsInScope'
          /\ UNCHANGED <<statuses_vars, interaction_vars, quote_vars, card_vars, conversation_vars, tag_vars>>
       \/ /\ part = "quotes" /\ QuotesNext
          /\ UNCHANGED <<statuses_vars, interaction_vars, poll_vars, card_vars, conversation_vars, tag_vars>>
       \/ /\ part = "cards" /\ PreviewCardsNext /\ CardsInScope'
          /\ UNCHANGED <<statuses_vars, interaction_vars, poll_vars, quote_vars, conversation_vars, tag_vars>>
       \/ /\ part = "conversations" /\ ConversationsNext /\ ConversationsInScope' /\ ReadInScope
          /\ UNCHANGED <<statuses_vars, interaction_vars, poll_vars, quote_vars, card_vars, tag_vars>>
       \/ /\ scope = "usage" /\ TagUsageNext /\ UsageInScope'
          /\ UNCHANGED <<statuses_vars, interaction_vars, poll_vars, quote_vars, card_vars, conversation_vars>>
       \/ /\ scope = "pins" /\ PinsNext
          /\ UNCHANGED <<statuses_vars, interaction_vars, poll_vars, quote_vars, card_vars, conversation_vars>>
       \/ /\ scope = "collections" /\ CollectionsNext
          /\ UNCHANGED <<statuses_vars, interaction_vars, poll_vars, quote_vars, card_vars, conversation_vars>>

MCSpec == MCInit /\ [][MCNext]_<<part, scope, statuses_vars, interaction_vars, poll_vars,
                                 quote_vars, card_vars, conversation_vars, tag_vars>>
=============================================================================
