# Verification of roosty

roosty is a Mastodon-compatible ActivityPub server in Rust. All shared state is in
PostgreSQL. `roosty serve` processes answer HTTP (client API, federation inbox, streaming
sockets), `roosty worker` processes run durable jobs, `serve --with-worker` does both, and
any number of processes may share one database. What is hard in it is therefore what
happens *between* transactions: a row read in one statement and used in another, a job that
is run twice or not at all, a notification that is lost while a connection is away, an
activity that a peer sends late or twice.

This directory holds TLA+ modules for these parts, TLC configurations that check them on
small instances, and TLAPS proofs of their safety properties for every value of the
constants. `PROJECT.json` lists the runs, the source lines of every definition, the mutants
that show each property can fail, the hazards of the code, the findings and the theorems.
A helper whose lines lie within those of the definition that uses it is mapped with it.

## Parts of the system

| Part | State | What makes it correct | Module |
|---|---|---|---|
| durable job table | `job` rows: key, run_after, claim, attempts, outcome | one active job per key, leases honoured until they run out, counted attempts, final outcomes, every job settled | `JobQueue`, `JobLifecycle` |
| worker pool, process life cycle | loops, claimed jobs in memory | no lease leaks, late outcomes discarded, graceful shutdown finishes its jobs | `JobQueue` |
| notification policy | one row per account | local and remote senders are judged alike; stricter lets less through | `NotificationPolicy` |
| notification requests | held notifications, requests by sender, permissions | one open request per sender, held rows belong to it, nothing is deleted but with its Note or sender or unless dismissed, jobs pick up what waits | `NotificationRequests` |
| notification feed | notifications, groups, marker | an event is told once, flat and grouped lists agree, held ones stay silent | `NotificationFeed` |
| streaming fan-out | event log, cursor, queue and bus of each process | at most once, in the origin's order, nothing lost unnoticed | `StreamingFanout`, `OrderedBroadcast` |
| streaming routing | none (recipients of an event) | private entries stay out of public streams; a removal reaches whoever was shown the entry | `StreamingRouting` |
| streaming sockets | permits, subscriptions, timers | permits conserved, live clients stay, dead ones leave | `StreamingSocket` |
| relationships with remote actors | follows and blocks both ways, inbox markers, moves | a block severs, answers agree, no peer keeps a follow we forgot, moves complete | `Relationships` |
| local relationships, lists | follows, pending follows, blocks, mutes, memberships | what was severed stays severed, also around moves and deletions of remote actors | `SocialGraph` |
| timelines, search, profiles | none (queries) | every query asks for no less than the rule for opening a status | `Timelines` |
| pagination | cursors of a walk | no row is lost or repeated | `Paging` |
| local and scheduled statuses | statuses, keys, schedules, media, revisions, activities | one status per key and schedule, a waiting schedule has a job and its media, followers are told in order | `LocalStatuses` |
| favourites, boosts, trends | rows, counters, dirty marks, maintenance | a wrong counter is always marked for a recount; an Announce or Like that was sent is stored or undone | `Interactions` |
| polls | votes, tally, deadline, jobs | the tally is that of the votes, the deadline keeps a job | `Polls` |
| quotes | quote row, authorizations given and withdrawn | no quote is shown without an authorization of the quoted author that still stands | `Quotes` |
| conversations | messages, views | what a view lists can be read; who is addressed has a view | `Conversations` |
| tags, featured tags, pins | usage, trend marks, pins, caches | usage is that of the statuses; limits hold; peers were told the present pins | `Tags` |
| preview cards | card, job, host lease | one request per host among fetchers that hold its lease, a pending card has a job | `PreviewCards` |
| remote statuses | cached Notes, tombstones, replay markers | no accepted version is lost to an older one, a deleted Note stays deleted, an orphan has a job | `RemoteStatuses` |
| discovery, inbox authentication | cached actors, keys, handles | what is accepted is signed with a key that the actor's own server gave as the actor's | `RemoteActors` |
| HTTP signatures, integrity proofs | a message on its way | what is accepted is what was signed | `Signatures` |
| local actor keys | keys with their expiry | a proof finds its key as long as it is retried | `ActorKeys` |
| outgoing delivery | groups and jobs by inbox | whoever is removed from a status is told | `Delivery` |
| moderation | suspensions, purge, domain rules, reports | a suspended account is purged, a restored one is not; violations cite rules | `Moderation` |
| registration, OAuth, web push | attempts, sessions, codes, tokens, subscriptions | the limit of registrations holds | `Access` |
| remote media cache | rows, files, fetch jobs | what is served is what the row advertises | `MediaCache` |
| public pages, threads, documents | none (queries) | pages show what the API shows, documents no more but for suspended authors | `PublicPages` |
| directory, suggestions, account lists | scores, dismissals | what one query says of an account the others say too | `AccountDiscovery` |

`PROJECT.json` lists the same parts with their sources, those that are left out with the
reason, and under "hazards" what can go wrong at which line.

## Modules and the code they model

**JobLifecycle** is the abstract specification: what the table promises to code that
enqueues work. No workers, leases or clocks; a job is queued at most once per key, failed
attempts are counted by one, outcomes are final until retention removes the row.

**JobQueue** (`db/src/lib.rs` 21300-21660, `server/src/main.rs`) has a row per job (`job`),
what each worker loop or detached media task holds in memory (`held`, `pc`) and the state of
each process (`proc`). One action per SQL statement of the queue: `EnqueueJob` with the
partial unique index as its guard, `ClaimDueJob`/`ClaimDueJobByKey`, the three outcomes (each
conditional on the claim id), `RescheduleJob`, `BringForward`, `CancelJob`,
`CancelAccountPurge` (which completes a row and leaves its claim), `CleanupExpiredJobs`.
Processes shut down, crash and restart; `DatabaseError` and `HandlerEscapes` are the `?` of
`worker_iteration`, which end the whole pool. Time is `Tick`: every row holds ages and
waits counted in ticks and capped at the largest duration that is compared, so that states
stay finite without losing a comparison. `orphans`, `unheard` and `faults` are history
variables.

**NotificationRequests** (`db/src/lib.rs` 9990-10900) splits a mention, which locks its request,
from the other kinds, which read it without a lock; accept, dismiss, merge and cleanup lock what
they work on and are atomic. `DismissSender` is a block or a purge by the account, which dismisses
every notification of the sender, held or visible; `ReceiveDelete` is the Delete of a Note or an
actor, which removes rows outright. The two jobs appear as the phases of their row, including
`handled`: the handler has committed, the row is not yet marked. The policy that decides is an
input. **NotificationPolicy** (`db/src/lib.rs` 9700-9990) is that decision, in its local and its
remote form.

**OrderedBroadcast** is what streaming promises to sockets, without queues, sequence numbers,
cursors or connections: a process hears what it publishes, may offer it to the others, and they
hear what is offered at most once and in the order of its origin, or not at all.

**StreamingFanout** (`server/src/streaming.rs`, `db/src/lib.rs` 641-746) separates drawing a
sequence number from committing the row, and LISTEN from the cursor snapshot. Its faults are a
failed publication, a failed recovery query, a lost connection seen by the loop, one that the
driver repairs silently, an expiry of log rows and a restart. A worker is a process that publishes
to its own bus and has no queue: `AccountedFor` excepts its events, which no other process ever
sees. **StreamingRouting** computes who is sent what, for each entry of two accounts in every
neighbourhood. **StreamingSocket** (`server/src/compat.rs`) is one process' sockets.

**Relationships** (`db/src/lib.rs` 2800-3010, 3390-3880, 6640-6985, 9000-9470,
`server/src/federation.rs`, `accounts.rs`) is one local account and its remote peers. A
transaction that takes the pair's advisory lock before it reads is one action. Those that
decide on what they read without it are two, `Begin...` and the rest, with what was read
kept in `open`: unfollow, unblock, accept, reject and the migration of a moved account.
Whatever a peer may send is in `Receive...`, at any time and again; `processed` are the
replay markers. A peer answers only what was queued for it.

**LocalStatuses** (`db/src/lib.rs` 5800-5890, 11140-11300, 13820-14620, 18200-18260,
`server/src/statuses.rs` 750-2640) gives every request its own identifier. A transaction is split
where it reads rows it does not lock: the check of media from their attachment, the snapshot of a
schedule from its publication, the read of a deletion from its write. An edit of the contents
stores a revision and sends an Update; `CommitPolicy` is the branch that changes the quote policy
alone and sends one without a revision. The advisory lock of a key, the primary key, the CHECK on
media rows and ON DELETE SET NULL are guards. A publisher may die at any step and another hold the
same job.

**Interactions** (17200-17800 and 12780-13000 of `db/src/lib.rs`): a request reads its mark,
writes it (or meets the row of another request, keeps it and still sends its own Announce),
adjusts the counter and marks the status; marks carry the identifier of the activity that is sent
for them, and `outbox` has every Like, Announce and Undo. The maintenance claims marks with SKIP
LOCKED, recounts and clears them. Any transaction may be rolled back, which is also how PostgreSQL
ends a deadlock between the two. **Tags** has the same shape for the daily usage of tags, and the
pins and featured tags with the activities about them.

**Polls**, **Quotes**, **Conversations** and **PreviewCards** each follow one row (a poll, a
quote, two threads, the cards of one host) through requests, inbox activities and jobs. In
Quotes a handler decides, or fetches and verifies an authorization, in one step (`deciding`) and
writes in another; `granted` and `withdrawn` are the authorizations the quoted author has given
and taken back. In Conversations an edit reads the views before it writes to the conversation
row, and `PurgeAuthor` is the purge of a local or remote author. In PreviewCards the answer of
the host and the release of its lease, which names no holder, are two steps; the second includes what
follows from the answer, since nothing reads the lease and the card together.

**RemoteStatuses** (`db/src/lib.rs` 3290-3440, 3900-4480, `server/src/federation.rs` 3480-4690):
the origin publishes versions and deletions, the inbox receives them in any order and again,
workers fetch parents and replies; a handler looks up the parent, writes, publishes on the streams
and commits as four steps. Versions carry a text (`TextOf`), because an edit that says what the
row says leaves its timestamp alone. **RemoteActors**, **Signatures**, **ActorKeys** and
**Delivery** are the two directions of federation around it. An actor document of RemoteActors
lists its keys embedded, with the owner it claims for them, or by reference, in which case the
document of the key is fetched and asked; a key id belongs to one row, whatever actor lists it;
`vouched` is what an actor's server has given as the actor's own. In Delivery an edit reads the
previous recipients (`ReadRecipients`) before its transaction takes the lock. What an adversary or
a slow network may change in a message is the set `altered` of Signatures. **Authentication** puts
the cache of actors and the signatures together: the two checks the inbox makes of a delivery.

**Moderation**, **Access** and **MediaCache** separate the unlocked read of a request from its
locked write, and the file of a medium from its row. An unsuspension of Moderation decides on what
it has read of the account, before or after a purge.

**SocialGraph**, **Timelines**, **PublicPages** and **AccountDiscovery** describe reading. The
actions change relations, and every query is an operator over the state: one per SQL query or Rust
predicate, so that the properties compare definitions that were written independently in the code.
SocialGraph has the follows of remote accounts while they are pending, the migration of a follow
with its list membership before the target has answered, and the Delete of a remote actor, which
leaves memberships. **Paging** walks a merged collection while rows commit below the cursor.
**NotificationFeed** inserts, groups, publishes and reads notifications. **Reading** composes
these parts: they share no variable, a behaviour is about one of them, and what holds of a part
holds of the composition.

**MC modules.** Parts that share no variable are explored *side by side*: a behaviour is
about one part, chosen at the start, and leaves the others where they begin, so that their
sizes add up instead of multiplying. `Reading` (with `MCReading`), `MCContent`, `MCFederation`,
`MCSocial` and `MCStreaming` do so. A *scope* inside a part says which rows, kinds or requests a
behaviour uses; scopes are stated next to the values of the constants, restrict only how many
things happen at once, and between them every action of every module is taken. The proofs are
about the modules without any scope.

## Exceptions the properties name

Some invariants hold except after a particular race that the code has. The exception is a
history variable set in exactly that step, so that the property still covers all others:

* `stale` (Relationships): a row changed by a transaction that had read another value of
  it: the migration that looked for blocks before it took the lock, the unfollow, accept or
  reject whose row was renewed between read and write.
* `behind` (StreamingFanout): notifications missed because the driver reconnected on its
  own, or a recovery query failed; they wait for the next notification.
* `overtaken` (StreamingFanout): a row that committed after a row with a higher sequence.
* `orphans` (JobQueue): a lease whose holder died with its process or pool.
* `excused` (LocalStatuses): keys that expired, or whose request died after its commit and
  before the key was recorded.
* `crossed` (Interactions): an account's mark on a remote status that two of its requests were
  about at once.
* `revived` (Quotes): authorizations stored after their withdrawal by the handler of a Note that
  had verified them before.
* `lost` (Conversations): views that an edit had read and that a deletion removed before it
  committed. Messages of a purged author are named by their state.
* `overtaken` (PreviewCards): fetchers whose lease was released by one that had outlived its own.
* `overtaken`, `swallowed` (RemoteStatuses): Notes whose Delete came before an older activity, and
  those whose request for a parent was taken in by a job that had done its work.
* `late`, `pending` (SocialGraph): pairs whose check was overtaken by a block, an unfollow, a
  rejection or a Delete before the insert or after it; follows that a peer has not answered.
* `unseen` (Delivery): people whom an edit removed and that were named after it had read the
  previous recipients.
* `reopened` (Moderation): accounts whose suspension ended although a purge had removed their data.
* `overruns` (MediaCache): executions of a fetch that outlived their claim.

## Runs

| Run | Instance | Checks |
|---|---|---|
| `jobs_two_pools` | 2 jobs with one key, 3 loops in 2 processes (one with an older binary), one fault | deduplication, honoured leases, fresh backoff, graceful shutdown |
| `jobs_kinds` | media fetch, scheduled status and purge; a loop and a media task | the inductive invariant of the proofs, nothing leaked or forgotten, late outcomes discarded, refinement of JobLifecycle |
| `jobs_liveness` | 1 job, 2 processes, 2 faults, 3 attempts | every job is settled |
| `streaming` | 2 servers and a worker, 2 events, 2 faults; 2 accounts; 2 sockets, 1 permit, 3 events | no duplicates, order, no silent loss, delivery, refinement of OrderedBroadcast, routing, permits, timers |
| `social` | 2 senders, 4 events (3, and no failing handler, beside drops, blocks and Deletes), 3 requests, 1 fault; all policies and facts; 2 peers, 3 own activities, 1 move, 2 open transactions | requests, holds, deletions, policy agreement and monotonicity; blocks, answers, redelivery, nothing left behind, a first move completes |
| `content` | 4 requests, 2 publishers, 2 editors, 1 medium; 2 clients and a maintenance batch of 1; a poll of 2 options; every kind of quote, 2 authorizations; 2 cards of one host, 2 fetchers; 3 messages in 2 threads; 2 works, 2 tags, limit 1 | `...Safe` of the seven modules that MCContent extends |
| `reading` | Me with a local and two remote peers; 2 tables of 5 ids, pages of 2; an archive of 7 statuses, one of which answers itself; 4 accounts, pages and pools of 1; 12 kinds of notification, 2 notifiers, 3 hours | agreement of the queries of five modules |
| `federation` | 2 actors, 2 keys, embedded and referred to; a Note and its reply in 3 versions, a Note whose last version says what its first said, 2 handlers; keys over 5 hours; 2 peers behind one inbox, 2 edits under way; 3 registrations, 2 exchanges of a code; an image and two attachments, one fetch that outlives its claim | `...Safe` of eight modules |
| `jobs_embedded` | `serve --with-worker`, 1 fault | *violated*: jobs wait for ever when the embedded pool has ended |
| `notifications_lost_merge` | 2 senders, 2 mentions, 1 fault | *violated*: an accept absorbed by a job that has already run |
| `relationships_return` | move and return | *violated*: the second move never completes |
| `streaming_overtaken` | 3 servers, no fault | *violated*: a committed row is passed over |

A property called `...Safe`, `...Holds` or `...Agrees` is the conjunction of the named parts
just above it in its module (the type invariant is one of them); each part has a comment of
its own. The four violations are disagreements between the code and what the repository says
of it, quoted in `PROJECT.json`.

**Why the bounds are enough.** Each race of the hazards list needs two actors and at most two
rounds: a lease that is lost and taken over (two loops, a claim TTL of one tick, three to five
claim ids, whose names are symmetric), a request opened again after a merge (three request ids), a
row overtaken while a third process reads (three servers), a follow undone and renewed under a
late answer (three activities, two open transactions), two requests with one key beside a schedule
with the same, two schedules at a limit of one, an edit between the lookup of a vote and its lock,
a Note edited twice and deleted while a fetch is under way (three versions, two handlers), a key
rotated twice within the life of a delivery. Queries are compared over two peers because their
rules speak of at most the viewer, the author and one third account (the booster, the quoted or
the mentioned one). One or two faults suffice because every recovery ends in a state without
memory of the fault except the history variables. Where a part still has too many states, its MC
module keeps apart what does not meet in the code: in `MCFederation` deliveries name one of the
two actors (`ActorsInScope`), images and attachments are explored one after the other, and a fetch
outlives its claim only among attachments that nobody opens (`MediaInScope`); in `MCContent` one
of two alike writers rests on the second day (`UsageInScope`); in `MCSocial` facts about a sender
that the policy does not read keep one value (`Distinct`), and drops, blocks and Deletes come with
one event less and no failing handler (`RequestsInScope`). Counters (`MaxAttempts`, `MaxFaults`,
`MaxEvents`, `MaxConnects`, `MaxActivity`, `MaxOpen`, `MaxEdits`, `MaxVersion`, `MaxRevision`,
`MaxClock`, `LastTick`, ...) are bounded in the guards and named in the constants. Channels,
batches, pages and pools have capacity one or two instead of hundreds, so that they do fill up.

The runs of several parts say CHECK_DEADLOCK FALSE: requests, votes or versions are used up
there, and the system may rest.

**Fairness.** `JobQueue`: loops step (they poll every five seconds), handlers return (their
network calls have timeouts), time passes, a stopping process ends and the supervisor
restarts it (`restart: unless-stopped` in deploy/compose.production.yaml). Nothing renews a
lease, so `EventuallySettled` assumes that handlers finish within it; client requests,
cancellations and media tasks owe nothing. `NotificationRequests`: queued jobs are run.
`StreamingFanout`: the publication task and the listener loop run and a COMMIT ends.
`StreamingSocket`: timers fire and the socket task runs; clients owe nothing.
`Relationships`: a transaction that has begun ends, and migration jobs are run and retried;
requests and peers owe nothing. The modules of `content`, `reading` and `federation` state
safety only: what must happen eventually there is a job, and a property such as
`WaitingHasJob`, `PendingCardHasJob`, `OrphansHaveJobs`, `DeadlineIsKept` or
`SuspendedIsPurged` says that the job exists, which `jobs_liveness` then settles.

## Deviations seen while modelling

Besides the four violation runs, the models describe these behaviours of the code, which a
document, a comment or the purpose of the code makes one doubt. The properties are worded so
that they hold with them.

* An error of an account purge, a domain reconciliation, trend maintenance, a preview
  backfill or a malformed payload leaves `worker_iteration` by `?` (`main.rs:713`): it ends
  the pool and is recorded in no row, while roosty-implementation-spec.md:422 says "Failures
  must be inspectable."
* A dedicated `roosty worker` has no publication queue (`main.rs:354`): what its jobs publish
  reaches no server process.
* The coalesced update of a poll may have read the tally before the last vote
  (`db/src/polls.rs:721`): the final tally need not be sent.
* The Create of a quoting status is built before the row of its quote (`statuses.rs:1111`).
* An edit of a remote direct message without a parent opens a second conversation and leaves
  the first as it was (`db/src/lib.rs:16405`).
* Each batch of the trend maintenance marks every trending status anew (`lib.rs:12844`): with
  more of them than a batch holds the chain of continuations does not end.
* Two administrators may suspend each other (`admin.rs:324`), each counting the other as
  active before taking a lock.
* The permanent failure of a push endpoint removes the subscription by its id
  (`lib.rs:20386`), which may name a newer endpoint by then.
* A change of a remote status is published on the streams before the transaction of the
  request commits (`federation.rs:4633`).
* The key maintenance takes the first fifty accounts by id whether or not their keys are due
  (`federation.rs:7755`): on a larger instance the keys of the others are never rotated, while
  compatibility.adoc:65 says "Active keys rotate automatically with a bounded overlap."
* The Note of a suspended account is still served (`federation.rs:1956`; administration.adoc:59:
  "Suspending an account immediately hides its profile and posts"), and boosts of its statuses stay
  listed in the outboxes of others (`ShownOrShut`); and a delivery of an actor
  that is still cached is accepted without a look at the rule about its domain
  (`federation.rs:2144`, `federation/discovery.rs:613`; administration.adoc:77: "rejects
  federation").
* Answers of other servers may run in a circle (`federation.rs` links a reply whenever its
  parent arrives). `status_ancestors` then stops where it has been, but does not count the
  status it started from (`statuses.rs:5557`): that status is listed above itself. Nothing else
  is repeated, which is what `ThreadsHangTogether` says with `Endless`.
* Two boosts of a remote status that run at once both send an Announce, while one row with one
  activity id is kept (`lib.rs:17668`); an unboost looks again (`lib.rs:17732`) and may delete
  another row than the one its Undo names. Other servers then keep an Announce that nobody here can
  take back (`crossed`).
* A remote quote of a local status that its author has revoked is accepted again by a later
  Note or QuoteRequest with a new authorization (`lib.rs:15297`), and a handler that verified an
  authorization before its withdrawal stores it afterwards (`revived`). A Delete of an authorization
  that overtakes its Accept finds no quote and is forgotten (`federation.rs:2632`).
* The lease of a host is released without naming its holder (`lib.rs:12164`) after `begin_write` is
  awaited (`preview_cards.rs:245`): a fetcher that took longer than its lease ends that of the next,
  and a second request goes out beside the first, while installation.adoc:375 says the database
  "serializes and rate-limits requests to each remote host across all processes."
* An edit of a direct message inserts the views that were missing when it looked
  (`lib.rs:16318`): one that a deletion removes meanwhile is lost (`lost`). The purge of an author
  leaves conversations listed without a message (`lib.rs:7986`).
* The purge of a remote actor hides its statuses without taking them out of the usage of their tags
  (`lib.rs:7986`); `Tags` has deletions and edits by their authors only.
* Of two edits under way, the second removes a mention that the first has added without having
  seen it (`statuses.rs:2085`, before the lock of `lib.rs:13920`): who was named is never told
  (`unseen`).
* An edit of a remote Note that goes back to the text the row still has leaves `updated_at` alone
  (`lib.rs:4037`): an earlier edit that arrives later is then taken for the newer one and stays.
* An unsuspension that looked at the account before its purge committed (`admin.rs:321`,
  `lib.rs:7844`) reopens an account whose data is gone, although the error it would otherwise give
  is "an account cannot be unsuspended after its data was purged" (`admin.rs:331`).
  `data_purged_at` stays, so what is written from then on is never purged (`lib.rs:8028`;
  administration.adoc:62: "Its content is purged after 30 days"; `reopened`).
* Of two token requests that both read an authorization code before either consumes it
  (`lib.rs:20007`), both get a token; the code is called "one-time" (`lib.rs:19970`). `Access` shows
  it and no property forbids it.
* The option that a remote vote names is looked up before the poll is locked
  (`federation.rs:3450`): an edit in between may put another option in its place, and the vote
  counts for that one. `TallyIsTrue` counts votes and does not see it.
* A move copies list memberships to its target while the new follow is pending (`lib.rs:2951`),
  and the Delete of a remote actor removes its follow and leaves its memberships (`lib.rs:3361`).
* A block dismisses the notifications of the sender, but the list of notification requests still
  counts those that are held (`lib.rs:9055`), and the summary does not.
* The following list of an account has follows that a move has deactivated (`lib.rs:3093`).
* An Undo(Follow) that overtakes its Follow deletes nothing and the Follow stays
  (`federation.rs:3142`); a held favourite inserted while a mention opens its request is not
  attached to it (`lib.rs:10092`); an edit that removes the last attachment is not routed to
  the media streams (`streaming.rs:633`); the removal of a local boost of a remote status is
  sent to the booster alone (`lib.rs:4408`).

## Proofs

Eight modules hold the theorems. Each is about the specification of a component for every
value of its constants, under the assumptions named in the component's module (`...Assumption`;
TLC evaluates them in every run). They say only what the code fixes: sets of identifiers that
are disjoint or numbered, limits that are positive numbers, a ping interval below the idle
timeout, a request timeout below the host lease, a burst window that together with the lag of
a transaction is below the daily window. The bounds of the runs (`MaxEvents`, `MaxFaults`,
`MaxActivity`, ...) are any numbers.

| Module | Theorem | States |
|---|---|---|
| `JobQueueProofs` | `Invariance`, `TypeCorrect` | the inductive invariant `IInv`, the types |
| | `Deduplication` | `UniqueActiveKey` |
| | `SnapshotFresh` | `FreshSnapshot` |
| | `NothingIsForgotten` | `NothingForgotten` |
| | `LeasesAreHonoured`, `StaleOutcomesAreDiscarded`, `ShutdownIsGraceful` | `LeaseHonoured`, `StaleOutcomeDiscarded`, `GracefulShutdown`: action properties |
| | `Refinement` | `JobQueue` implements `JobLifecycle` |
| `SocialProofs` | `RequestsAreSafe` | `RequestsSafe` |
| | `DeletionsHaveACause` | `DeletedForCause`, an action property |
| | `OnePolicy` | `PolicyIsOne`, for every policy and every pair of facts |
| | `RelationshipsAreSafe` | `RelationshipsSafe` |
| `AuthenticationProofs` | `SendersAreProved`, `SignaturesProtect`, `AcceptedIsProved` | `RemoteActorsSafe`, `SignaturesSafe`, both as `OnlyProvedIsAccepted` |
| | `RotationIsSafe` | `ActorKeysSafe` |
| `StreamingProofs` | `SocketsAreSafe` | `SocketsSafe` |
| | `RoutingIsSafe` | `RoutingSafe` |
| | `FanoutIsSafe` | `FanoutSafe` |
| | `FanoutImplementsBroadcast` | `StreamingFanout` implements `OrderedBroadcast` |
| `FederationProofs` | `RemoteStatusesAreSafe` | `RemoteStatusesSafe` |
| | `DeliveriesTell` | `DeliverySafe` |
| `ContentProofs` | `StatusesAreMadeOnce` | `LocalStatusesSafe` |
| | `CountersAndBoostsAreTrue` | `InteractionsSafe` |
| | `PollsAreTrue`, `QuotesNeedConsent` | `PollsSafe`, `QuotesSafe` |
| | `ConversationsAreTrue`, `CardsAreFetched` | `ConversationsSafe`, `PreviewCardsSafe` |
| | `TagsAreSafe` | `TagsSafe` |
| `ReadingProofs` | `WalksAreComplete`, `PagingAlwaysHolds` | `PagingSafe`; `PagingHolds` of `Reading` |
| | `TimelinesAreSafe`, `TimelinesAlwaysHold` | `TimelinesSafe`; `TimelinesHold` |
| | `DiscoveryAlwaysAgrees`, `DiscoveryAlwaysHolds` | `DiscoveryAgrees`; `DiscoveryHolds` |
| | `FeedIsAlwaysTrue`, `FeedAlwaysHolds` | `FeedIsTrue`; `FeedHolds` |
| | `PagesAlwaysAgree`, `PagesAlwaysHold` | `PagesAgree`; `PagesHold` |
| `AdministrationProofs` | `DecisionsAreCarriedOut` | `ModerationSafe` |
| | `LimitsHold` | `AccessSafe` |
| | `ServedMediaIsAdvertised` | `MediaSafe` |

Each proof is an induction over the steps: an invariant `...Inv` holds initially, one lemma per
action (or group of alike actions) keeps it, and it implies the property. What the invariants
add to the properties is what a process remembers between two transactions.

* **Jobs.** Claim ids are fresh (`ClaimsDistinct`), so no two workers hold one. `FreshSnapshot`
  also needs that a row's attempts change only with its
  claim or through its holder; a purge that is cancelled under its worker breaks this unless a
  claimed row is active or a completed purge (`RowShape`) and a worker never records an error
  of a purge (`HoldingWhileBusy`). The action properties and the refinement rest on `NextTable`,
  which says what a step may do to one row.
* **Notifications.** What a sender looked up without a lock is a request of that sender
  (`LookedUpIsOfSender`), and what is held belongs to a request of its sender (`Held`).
* **Relationships.** Only what was received is answered, what was sent is in the order of its
  numbers, and an open migration belongs to a move that was processed. `BoundsInv` counts the
  activities through the moves that were transferred.
* **Authentication.** The owner of a key that is stored has given it as its own
  (`OwnerHasVouched`), and so has the actor a fetch is about to write, also after the document
  changed (`FetchedIsVouched`), and the signer of a delivery between two checks
  (`SignerHasVouched`); the base of each signature format covers the parts
  that the verdict rests on. For keys: a retired key has a successor, and the proofs made with
  it expire first (`ProofsOutlived`).
* **Fan-out.** An event is in one queue, one transaction or one row (`FlightsFit`); numbers
  are drawn once (`NumbersFit`); the queue, the transaction and the committed rows of an origin
  are in one order (`QueuesFit`, `HistoryFits`); an entry of a bus is the process' own or a
  foreign row up to the cursor (`BusesFit`), which is why a recovery repeats nothing; and a
  cursor is the number of a row (`PhasesFit`), which is why a row that commits below it was
  overtaken. `InOrderIsSorted` shows that ranking rows by their number lists each once. The
  refinement adds that what is on its way from a process was heard there (`FlightsAreHeard`): a
  commit is then an offer of the process' next event, a recovery a hearing of events that may
  follow all heard before (`LaterMayFollow`), an exit a restart, and every other step unseen.
* **Sockets, routing.** The idle timer of a client that answers never runs ahead of its ping
  timer by more than an interval (`AnsweredInTime`); what was shown is one of the shows that the
  neighbourhood allows (`RoutingInv`), and routes are compared kind by kind.
* **Remote statuses, delivery.** What a handler of the inbox or a worker holds agrees with the
  rows it will write (`TransactionsFit`, `WorkersHoldJobs`); a peer that believes something
  wrong has a delivery under way that corrects it (`WrongIsCorrected`).
* **Statuses.** Keys that are taken name their status (`KeysFit`), publishers and editors hold
  jobs and versions that exist (`PublishersFit`, `EditorsFit`), and what followers were told is
  a creation, updates, of which those of contents are as many as the revisions after the original,
  and deletions at the end (`TellsFit`).
* **Interactions, polls, quotes, conversations, cards.** A counter that is wrong is marked or held
  by a client or batch that will mark it, and a client that is alone with its row finds it as it
  has read it (`ClientsFit`); the tally is that of the votes plus what a vote in progress has
  still to add; an authorization that a quote or a handler has was given, and is no withdrawn one
  but for the exception (`ConsentFits`, `LocalQuoteFits`); a writer of a conversation keeps what
  it read, since it locks its message (`WritersFit`), and every view shows a message of its
  conversation, or one that was moved away or purged (`ShownFits`); the lease of a host and the
  age of the fetch that holds it add up to its length (`LeaseIsOurs`), so that one holds it
  (`OneHasLease`).
* **Moderation, access, media.** A purge that runs belongs to a suspension that stands
  (`PurgesFit`), and an account that was purged and not reopened has no data (`PurgedIsEmpty`);
  attempts that count are kept at least as long as they count (`AttemptsKept`); a file that counts
  is the one its row advertises or is about to be replaced by a fetch that claims the row
  (`FilesFit`, `ClaimsHold`).

* **Tags.** The rows of the authors count the statuses that carry the tag, and its usage is their
  sum (`UsageFits`). What a transaction has summed it has locked, and the sum is still that of the
  rows with its own change (`TaggersFit`, and `ScoringFits` for the refresh of trends), which is
  why it may be stored; a tag that trends without use is marked (`TrendsFit`). Requests that pin
  hold the lock of the account from the count to the insertion (`PinLocksFit`, `RequestsFit`), and
  the last activity about an item says whether it is pinned (`FollowersFit`). Sums are
  cardinalities of disjoint sets, so that one row more or less is one element more or less.
* **Paging.** What a client has been shown lies at or above its cursor, and what it is owed was
  shown, was deleted or lies below (`PagingInv`). That a page of the merged tables is the newest
  rows of their union rests on lemmas about the first `n` elements of an order (`FirstOf`): the
  first `n` of each table contain the first `n` of all, whatever the tables are.
* **Timelines.** A follow or a check for one beside a block, and a member that is not followed,
  are those of a transaction that committed late or of a follow that is pending (`FollowsFit`,
  `MembersFit`, in `GraphInv`). Every
  query is then compared with the rule of the single status.
* **Discovery.** Whoever moved or is gone is remote, and no request is pending across a block
  (`DiscoveryInv`). The walk over the directory is the same argument about the first of an order
  as for pages: offsets that are multiples of the limit split the ranks.
* **Feed.** A row has a number of its own and an event is stored once (`RowsFit`); a group is of
  one kind and subject and of one window, also for transactions that took the time before they
  waited (`GroupsFit`, `DeliveriesFit`); what is pushed or streamed is no held row (`SilenceFits`).
* **Public pages.** Follows are between accounts that are open to each other (`CircleFits`), and
  what is pinned is open (`PinnedFit`). The rest is about data, see below.

**Induction over data.** The threads, the levels of a thread, the chunks of a sitemap and the
pages of a walk are of any length, and the library's theorems of induction cannot be
instantiated. What takes their place: a set of numbers that is not empty has a least element
(`LeastIsThere`, from the well-foundedness of `<`), hence a set that has 0 and with `n` also
`n + 1` has all numbers (`StepByStep`). A recursive function is first shown to exist, by
extending it one argument at a time (`ClimbIsDefined`, `FlattenIsDefined`, `LevelsAreDefined`);
what it computes is then the set of arguments for which the claim holds. So `ClimbFits` says
that every way up is a chain of parents without repetition, `FlattenFits` what a concatenation
holds, `LevelsAreApart` that no status is on two levels (the least level that shares one would
have a parent on an earlier level), and `SitemapIsComplete` that every row lies in the chunk
whose first row is a multiple of the size before it.

Some definitions were corrected because a proof failed for a good reason. `AccountedFor` was
false with a worker, whose events reach no log: the runs had no worker. And `ServedIsAdvertised`
is false of an image when an execution outlives the claim of its job and a second one fetches a
newer address beside it: the two may swap their files. It is now said of images as long as
there was no such execution (`overruns`), and of attachments, whose address is fixed, always.
`BoostShown` of Timelines was a CASE with overlapping guards, of which TLC takes the first and
TLA+ any: it is a conjunction of implications now. `PublicPages` had no `seen` set, on the
silent assumption that a parent is older than its answers; a parent that is fetched later is not,
and two remote statuses may answer each other. `Climb` and `Level` have the guards of the code
now, `ThreadsHangTogether` says what they achieve, and the archive of the run has a circle. The
sitemap follows the `row_index` of its SQL instead of a fold.

Only model-checked:

* liveness (`EventuallySettled`, `EventuallyDelivered`, `DeadClientsLeave`, `PickedUpByItsJob`,
  `FirstMigrationCompletes`): fairness and ENABLED are out of the prover's reach;
* that the composed MC specifications do what their parts do: but for `Reading`, whose steps are
  shown to be steps of its parts (`ReadingImplementsParts`), the theorems are about the parts.

Every safety property of the runs, invariant or action property, is stated by a theorem.

## Plan

1. An abstract specification worth stating: an inbox in which each activity takes effect at most
   once, for `RemoteStatuses`; with its refinement, which rests on the invariant above.
2. Composition: `LocalStatuses` with `StreamingRouting` and `Delivery`, `Moderation` with
   `Relationships`.

## Not modelled

SQL and HTTP themselves, JSON and HTML, key material, encryption, hashing and image processing;
configuration, migrations, the command line, the web interface and deployment; instance
information and static pages. Texts are abstracted to what the code compares. Remote actors that
are deleted or suspended and domain policies appear neither in `Relationships` nor in
`StreamingRouting`; `SocialGraph` has both for what is read, without the follows that a suspended
domain severs, and lets a move return, whose failure is the subject of `Relationships`. In
`NotificationRequests` the recipient itself is not purged. Wall-clock jumps between processes are
not modelled: all timestamps of the job table are taken as one clock. In `Timelines`,
`PublicPages` and `AccountDiscovery` a query reads one snapshot, as its SQL statement does; two
statements of one request that see different snapshots are not explored there.
