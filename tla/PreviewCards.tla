---------------------------- MODULE PreviewCards ----------------------------
(***************************************************************************)
(* Preview cards: the row of a URL that statuses share, the job that        *)
(* fetches its page and its picture, the lease of the host it is fetched    *)
(* from, and the removal of rows nobody refers to.                          *)
(*                                                                          *)
(* Times are kept as what is left of them, in ticks.                        *)
(***************************************************************************)
EXTENDS Naturals

CONSTANTS
    Posts,          \* statuses whose text may have the URL
    CardIds,        \* rows of the URL, one at a time: a row that was removed comes back with a new id
    Fetchers,       \* workers, in any process
    LeaseTicks,     \* thirty seconds
    SpacingTicks,   \* one second
    TimeoutTicks,   \* fifteen seconds
    MaxFetchAttempts

ASSUME PreviewCardsAssumption ==
    /\ CardIds \subseteq Nat \ {0} /\ LeaseTicks \in Nat /\ SpacingTicks \in Nat
    /\ TimeoutTicks \in Nat /\ TimeoutTicks < LeaseTicks /\ MaxFetchAttempts \in Nat \ {0}

VARIABLES
    card,      \* preview_card: [id, state, old]
    link,      \* status_preview_card: the card of each status
    scanned,   \* status_preview_scan
    fetchJob,  \* the PreviewCardFetch job of each row: [state, attempts]
    fetcher,   \* [card, stage, doing, age, asked]: age is that of its lease, asked that of its request
    host,      \* preview_fetch_host: [lease, wait]
    overtaken, \* the fetchers whose lease was released by one that had lost its own (history)
    pruning    \* what prune_preview_cards has chosen

card_vars == <<card, link, scanned, fetchJob, fetcher, host, overtaken, pruning>>

NoCard == 0
Ready(c, stage) == [card |-> c, stage |-> stage, doing |-> "ready", age |-> 0, asked |-> 0]
Resting == Ready(NoCard, "idle")
NoJob == [state |-> "none", attempts |-> 0]

PreviewCardsInit ==
    /\ card = [id |-> NoCard, state |-> "pending", old |-> FALSE]
    /\ link = [p \in Posts |-> NoCard] /\ scanned = [p \in Posts |-> FALSE]
    /\ fetchJob = [c \in CardIds |-> NoJob]
    /\ fetcher = [f \in Fetchers |-> Resting]
    /\ host = [lease |-> 0, wait |-> 0] /\ overtaken = {} /\ pruning = NoCard

PreviewCardsTypeOK ==
    /\ card.id \in CardIds \cup {NoCard} /\ card.state \in {"pending", "ready", "failed"}
    /\ \A p \in Posts : link[p] \in {NoCard, card.id}
    /\ \A c \in CardIds : fetchJob[c].state \in {"none", "queued", "running"}
    /\ host.lease \in 0..LeaseTicks /\ host.wait \in 0..SpacingTicks /\ overtaken \subseteq Fetchers
-----------------------------------------------------------------------------
(* Statuses *)

\* The URL in the text of a new or edited status: normalize_preview_url and
\* first_local_preview_url or first_remote_preview_url found one.
UsedIds == {c \in CardIds : c <= card.id \/ fetchJob[c] # NoJob \/ \E f \in Fetchers : fetcher[f].card = c}
FreshId == IF card.id # NoCard THEN card.id ELSE CHOOSE c \in CardIds \ UsedIds : TRUE

NeedsFetch == card.id = NoCard \/ card.state = "pending" \/ card.old

\* replace_status_preview_card with a URL
AttachCard(p) ==
    /\ card.id # NoCard \/ CardIds \ UsedIds # {}
    /\ scanned' = [scanned EXCEPT ![p] = TRUE]
    /\ card' = IF card.id # NoCard THEN card ELSE [id |-> FreshId, state |-> "pending", old |-> FALSE]
    /\ link' = [link EXCEPT ![p] = FreshId]
    /\ fetchJob' = IF NeedsFetch /\ fetchJob[FreshId].state = "none"
                   THEN [fetchJob EXCEPT ![FreshId] = [state |-> "queued", attempts |-> 0]] ELSE fetchJob
    /\ UNCHANGED <<fetcher, host, overtaken, pruning>>

\* replace_status_preview_card without one, and remove_status_preview_card
DetachCard(p) ==
    /\ link' = [link EXCEPT ![p] = NoCard] /\ scanned' = [scanned EXCEPT ![p] = TRUE]
    /\ UNCHANGED <<card, fetchJob, fetcher, host, overtaken, pruning>>

\* backfill_preview_cards: statuses that were never scanned
Backfill(p) == ~ scanned[p] /\ (AttachCard(p) \/ DetachCard(p))
-----------------------------------------------------------------------------
(* The fetch *)

BeginFetch(f, c) ==
    /\ fetcher[f] = Resting /\ fetchJob[c].state = "queued"
    /\ IF card.id = c
       THEN /\ fetcher' = [fetcher EXCEPT ![f] = Ready(c, "page")]
            /\ fetchJob' = [fetchJob EXCEPT ![c].state = "running"]
       ELSE fetchJob' = [fetchJob EXCEPT ![c] = NoJob] /\ UNCHANGED fetcher
    /\ UNCHANGED <<card, link, scanned, host, overtaken, pruning>>

\* acquire_preview_host_lease: the row keeps the time, not the fetcher.
HostIsFree == host.wait = 0 /\ host.lease = 0

Acquire(f) ==
    /\ fetcher[f].stage # "idle" /\ fetcher[f].doing = "ready" /\ HostIsFree
    /\ host' = [lease |-> LeaseTicks, wait |-> SpacingTicks]
    /\ fetcher' = [fetcher EXCEPT ![f].doing = "leased"]
    /\ UNCHANGED <<card, link, scanned, fetchJob, overtaken, pruning>>

\* fetch_once: the request begins once the lease is committed, and is over
\* when there is an answer or its client has timed out.
Request(f) ==
    /\ fetcher[f].doing = "leased"
    /\ fetcher' = [fetcher EXCEPT ![f].doing = "asking"]
    /\ UNCHANGED <<card, link, scanned, fetchJob, host, overtaken, pruning>>

Return(f) ==
    /\ fetcher[f].doing = "asking"
    /\ fetcher' = [fetcher EXCEPT ![f].doing = "answered", ![f].asked = 0]
    /\ UNCHANGED <<card, link, scanned, fetchJob, host, overtaken, pruning>>

\* update_preview_card: nothing if the row is gone.
Stored(c, state) == IF card.id = c THEN [card EXCEPT !.state = state, !.old = FALSE] ELSE card

FinishFetch(f) ==
    /\ card' = Stored(fetcher[f].card, "ready")
    /\ fetchJob' = [fetchJob EXCEPT ![fetcher[f].card] = NoJob]
    /\ fetcher' = [fetcher EXCEPT ![f] = Resting]

\* fetch_preview_card_with_context: the error of the last attempt is taken
\* note of, every other one is left to the retry of the job.
\* Mutant: the last error is not recorded.
GiveUp_Silently(c) == card

GiveUp(c) == Stored(c, "failed")

FailFetch(f) ==
    LET c == fetcher[f].card
        last == fetchJob[c].attempts + 1 >= MaxFetchAttempts IN
    /\ card' = IF last THEN GiveUp(c) ELSE card
    /\ fetchJob' = [fetchJob EXCEPT ![c] = IF last THEN NoJob ELSE [state |-> "queued", attempts |-> @.attempts + 1]]
    /\ fetcher' = [fetcher EXCEPT ![f] = Resting]

EndAttempt(f) == IF fetcher[f].stage = "page" THEN FailFetch(f) ELSE FinishFetch(f)

\* fetch_bytes does not get to a request: its address is not permitted, or the
\* host is busy. A page is tried again later, a picture is left out.
NotPermitted(f) ==
    /\ fetcher[f].stage # "idle" /\ fetcher[f].doing = "ready" /\ EndAttempt(f)
    /\ UNCHANGED <<link, scanned, host, overtaken, pruning>>

\* The lease of a fetcher runs out, or another one releases it.
HasLease(f) == fetcher[f].doing # "ready" /\ fetcher[f].age < LeaseTicks /\ f \notin overtaken

\* release_preview_host_lease names no holder: it ends the lease of whoever
\* took the host since.
ReleaseHost(f) ==
    /\ host' = [host EXCEPT !.lease = 0]
    /\ overtaken' = IF HasLease(f) THEN overtaken ELSE {g \in Fetchers \ {f} : fetcher[g].doing # "ready"}

\* begin_write is awaited between the answer and the release: a redirect is
\* followed, a page may name a picture, anything else ends the attempt.
HandleAnswer(f, answer) ==
    /\ fetcher[f].doing = "answered"
    /\ ReleaseHost(f)
    /\ CASE answer = "redirect" -> /\ fetcher' = [fetcher EXCEPT ![f] = Ready(@.card, @.stage)]
                                   /\ UNCHANGED <<card, fetchJob>>
         [] answer = "error" -> EndAttempt(f)
         [] answer = "document" -> FinishFetch(f)
         [] answer = "pictured" -> /\ fetcher[f].stage = "page"
                                   /\ fetcher' = [fetcher EXCEPT ![f] = Ready(@.card, "picture")]
                                   /\ UNCHANGED <<card, fetchJob>>
    /\ UNCHANGED <<link, scanned, pruning>>

\* A process dies with its fetch, or the database refuses the release: the
\* lease of the job runs out and it is queued again, the lease of the host stays.
FetcherDies(f) ==
    /\ fetcher[f] # Resting
    /\ fetchJob' = [fetchJob EXCEPT ![fetcher[f].card].state = "queued"]
    /\ fetcher' = [fetcher EXCEPT ![f] = Resting] /\ overtaken' = overtaken \ {f}
    /\ UNCHANGED <<card, link, scanned, host, pruning>>

\* No request outlives the timeout of its client; what comes before and after
\* it takes any time.
Older(r) == [r EXCEPT !.age = IF r.doing = "ready" \/ r.age = LeaseTicks THEN r.age ELSE r.age + 1,
                      !.asked = IF r.doing = "asking" THEN r.asked + 1 ELSE r.asked]

TimePasses ==
    /\ \A f \in Fetchers : fetcher[f].asked # TimeoutTicks
    /\ fetcher' = [f \in Fetchers |-> Older(fetcher[f])]
    /\ host' = [lease |-> IF host.lease = 0 THEN 0 ELSE host.lease - 1, wait |-> IF host.wait = 0 THEN 0 ELSE host.wait - 1]
    /\ card' \in {card, [card EXCEPT !.old = TRUE]}
    /\ UNCHANGED <<link, scanned, fetchJob, overtaken, pruning>>
-----------------------------------------------------------------------------
(* prune_preview_cards, from the trend maintenance: the references are read  *)
(* before the rows are deleted                                               *)

ChooseOrphans ==
    /\ pruning = NoCard /\ card.id # NoCard /\ card.old
    /\ \A p \in Posts : link[p] # card.id
    /\ pruning' = card.id
    /\ UNCHANGED <<card, link, scanned, fetchJob, fetcher, host, overtaken>>

\* The deletion cascades to the statuses that refer to the row by now.
DeleteOrphans ==
    /\ pruning # NoCard
    /\ card' = IF card.id = pruning THEN [card EXCEPT !.id = NoCard, !.state = "pending", !.old = FALSE] ELSE card
    /\ link' = [p \in Posts |-> IF link[p] = pruning THEN NoCard ELSE link[p]]
    /\ pruning' = NoCard
    /\ UNCHANGED <<scanned, fetchJob, fetcher, host, overtaken>>

PreviewCardsNext ==
    \/ \E p \in Posts : AttachCard(p) \/ DetachCard(p) \/ Backfill(p)
    \/ \E f \in Fetchers : \/ Acquire(f) \/ Request(f) \/ Return(f) \/ NotPermitted(f) \/ FetcherDies(f)
                           \/ \E c \in CardIds : BeginFetch(f, c)
                           \/ \E a \in {"redirect", "error", "document", "pictured"} : HandleAnswer(f, a)
    \/ TimePasses \/ ChooseOrphans \/ DeleteOrphans

PreviewCardsSpec == PreviewCardsInit /\ [][PreviewCardsNext]_card_vars
-----------------------------------------------------------------------------
\* The installation guide: "PostgreSQL additionally serializes and rate-limits
\* requests to each remote host across all processes". Two requests are under
\* way at once only if one of their fetchers has lost its lease: it took longer
\* than that from acquire_preview_host_lease to the end, or a fetcher that did
\* released it. A fetcher that is in time takes nobody's lease.
OneRequestPerHost ==
    \A f, g \in Fetchers :
        fetcher[f].doing = "asking" /\ fetcher[g].doing = "asking" /\ HasLease(f) /\ HasLease(g) => f = g

\* A status is not left with a card that is still to be fetched by nobody:
\* there is a job for it until its page is known or given up.
PendingCardHasJob ==
    \A p \in Posts : link[p] # NoCard /\ card.state = "pending" => fetchJob[link[p]].state # "none"

\* Fetches by several workers keep to the limit of a host, and no card is
\* forgotten.
PreviewCardsSafe == PreviewCardsTypeOK /\ OneRequestPerHost /\ PendingCardHasJob
=============================================================================
