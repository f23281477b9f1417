------------------------------ MODULE Delivery ------------------------------
(***************************************************************************)
(* Outgoing activities: the audience of a status, deliveries grouped by     *)
(* inbox, deliveries to one actor, and what a worker does with the answer   *)
(* of the other server.  The queue itself is in JobQueue.tla: here a job is *)
(* in a set and may be taken in any order, since retries reorder them.      *)
(***************************************************************************)
EXTENDS Naturals, FiniteSets

CONSTANTS
    Peers,          \* remote actors
    SharedBy,       \* those of one server, which has a shared inbox
    Rfc9421Only,    \* those whose server verifies RFC 9421 signatures only
    MaxRevision      \* bound on edits of the status

ASSUME DeliveryAssumption == SharedBy \subseteq Peers /\ Rfc9421Only \subseteq Peers /\ MaxRevision \in Nat \ {0}

VARIABLES
    status,     \* [version, alive, direct, names]: names are the remote actors it mentions
    reads,      \* whom the status named when edits that are under way looked
    fans,       \* accepted remote followers
    barred,     \* actors that are blocked, or suspended by a rule
    movedInbox, \* actors whose inbox is another one now
    groups,     \* FederationStatusDelivery and actor update jobs
    singles,    \* jobs to one actor
    seen,       \* [Peers -> [version, named]], what the server of an actor has received
    arrived,    \* <<kind, peer, part>> of single deliveries
    missed,     \* actors that a delivery was given up for
    unseen      \* history: those an edit removed that were named after it looked

delivery_vars == <<status, reads, fans, barred, movedInbox, groups, singles, seen, arrived, missed, unseen>>

DeliveryInit ==
    /\ \E direct \in BOOLEAN : status = [version |-> 0, alive |-> FALSE, direct |-> direct, names |-> {}]
    /\ fans \in SUBSET Peers /\ barred = {} /\ movedInbox = {} /\ groups = {} /\ singles = {}
    /\ seen = [p \in Peers |-> [version |-> 0, named |-> FALSE]] /\ arrived = {} /\ missed = {}
    /\ reads = {} /\ unseen = {}

\* Every value is of its type; a job to one actor is for one.
DeliveryTypeOK ==
    /\ status.version \in 0..MaxRevision /\ status.names \subseteq Peers
    /\ fans \cup barred \cup movedInbox \cup missed \cup unseen \subseteq Peers /\ reads \subseteq SUBSET Peers
    /\ \A g \in groups : g.actors \subseteq Peers /\ g.actors # {} /\ (g.personal => Cardinality(g.actors) = 1)
    /\ \A j \in singles : j.to \in Peers
-----------------------------------------------------------------------------
(* Who an activity is for *)

\* The inbox that a delivery to an actor uses
Inbox(p, personal) ==
    IF ~ personal /\ p \in SharedBy THEN <<"shared", FALSE>> ELSE <<p, p \in movedInbox>>

\* delivery_groups
DeliveryGroups(recipients, personal) ==
    {[inbox |-> i, actors |-> {p \in recipients : Inbox(p, personal) = i}] : i \in {Inbox(p, personal) : p \in recipients}}

\* status_audience
FollowersAreAddressed(s) == ~ s.direct

\* status_delivery_recipients: who an edit removes is told of it.
\* Mutant: only the audience of the new version is told.
Recipients_New(s, previous) == s.names \cup (IF FollowersAreAddressed(s) THEN fans ELSE {})

Recipients(s, previous) == s.names \cup previous \cup (IF FollowersAreAddressed(s) THEN fans ELSE {})

\* status_activity, with the note it carries
Activity(s) == [version |-> s.version, names |-> IF s.alive THEN s.names ELSE {}]

\* enqueue_status_delivery_groups, enqueue_actor_update_delivery_groups
GroupJobs(recipients, personal, activity) ==
    {[version |-> activity.version, names |-> activity.names, inbox |-> g.inbox, actors |-> g.actors, personal |-> personal] :
        g \in DeliveryGroups(recipients, personal)}

\* enqueue_status_activity_in_transaction
EnqueueStatus(s, previous) ==
    /\ status' = s /\ groups' = groups \cup GroupJobs(Recipients(s, previous), s.direct, Activity(s))
    /\ unseen' = (unseen \cup status.names) \ (s.names \cup previous)
    /\ UNCHANGED <<reads, fans, barred, movedInbox, singles, seen, arrived, missed>>

\* The handlers of LocalStatuses.tla that call it: create, edit and delete
Publish(names) ==
    /\ status.version = 0 /\ EnqueueStatus([status EXCEPT !.version = 1, !.alive = TRUE, !.names = names], {})

\* update_status reads the recipients before it has the lock on the row; any
\* number of edits may be under way.
ReadRecipients ==
    /\ status.alive /\ status.names \notin reads /\ reads' = reads \cup {status.names}
    /\ UNCHANGED <<status, fans, barred, movedInbox, groups, singles, seen, arrived, missed, unseen>>

EditStatus(previous, names) ==
    /\ previous \in reads /\ status.alive /\ status.version < MaxRevision
    /\ EnqueueStatus([status EXCEPT !.version = @ + 1, !.names = names], previous)

DeleteStatus ==
    /\ status.alive /\ status.version < MaxRevision
    /\ EnqueueStatus([status EXCEPT !.version = @ + 1, !.alive = FALSE], {})

\* enqueue_actor_update_in_transaction, enqueue_actor_delete_in_transaction: to
\* the followers of the moment (before the status, to bound the model).
UpdateActor ==
    /\ status.version = 0 /\ groups' = groups \cup GroupJobs(fans, FALSE, [version |-> 0, names |-> {}])
    /\ UNCHANGED <<status, reads, unseen, fans, barred, movedInbox, singles, seen, arrived, missed>>
-----------------------------------------------------------------------------
(* Deliveries to one actor: the inbox they use, and their activities *)

SingleJob(kind, p, personal, parts) == [kind |-> kind, to |-> p, personal |-> personal, parts |-> parts]

FollowJob(p) == SingleJob("Follow", p, FALSE, {1})
UnfollowJob(p) == SingleJob("Undo Follow", p, FALSE, {1})
BlockJob(p) == SingleJob("Block", p, TRUE, {1})
UnblockJob(p) == SingleJob("Undo Block", p, TRUE, {1})
FlagJob(p) == SingleJob("Flag", p, TRUE, {1})
LikeJob(p) == SingleJob("Like", p, FALSE, {1})
AnnounceJob(p) == SingleJob("Announce", p, FALSE, {1})
QuoteRequestJob(p) == SingleJob("QuoteRequest", p, TRUE, {1})
RevocationJob(p) == SingleJob("Delete QuoteAuthorization", p, TRUE, {1})
\* One activity per choice
VoteJob(p) == SingleJob("Vote", p, TRUE, {1, 2})
\* deliver_follow_response uses the inbox of the actor.
ResponseJob(p) == SingleJob("Accept", p, TRUE, {1})

SingleJobs(p) == {FollowJob(p), UnfollowJob(p), BlockJob(p), UnblockJob(p), FlagJob(p), LikeJob(p), AnnounceJob(p),
                  QuoteRequestJob(p), RevocationJob(p), VoteJob(p), ResponseJob(p)}

EnqueueSingle(j) ==
    /\ j \notin singles /\ ~ (\E part \in j.parts : <<j.kind, j.to, part>> \in arrived) /\ singles' = singles \cup {j}
    /\ UNCHANGED <<status, reads, unseen, fans, barred, movedInbox, groups, seen, arrived, missed>>

Bar(p) ==
    /\ p \notin barred /\ barred' = barred \cup {p} /\ fans' = fans \ {p}
    /\ UNCHANGED <<status, reads, unseen, movedInbox, groups, singles, seen, arrived, missed>>

Unbar(p) ==
    /\ p \in barred /\ barred' = barred \ {p}
    /\ UNCHANGED <<status, reads, unseen, fans, movedInbox, groups, singles, seen, arrived, missed>>

\* A refresh of the actor finds another inbox.
MoveInbox(p) ==
    /\ p \notin movedInbox /\ movedInbox' = movedInbox \cup {p}
    /\ UNCHANGED <<status, reads, unseen, fans, barred, groups, singles, seen, arrived, missed>>
-----------------------------------------------------------------------------
(* The worker *)

\* deliver_grouped_activity: one recipient that is still eligible is enough.
Eligible(g) == {p \in g.actors : Inbox(p, g.personal) = g.inbox /\ p \notin barred}

\* The server behind an inbox
Behind(inbox) == IF inbox[1] = "shared" THEN SharedBy ELSE {inbox[1]}

\* send_signed_post: what the server behind the inbox may answer to a format
Answers(peers, format) ==
    {"gone", "error"} \cup (IF peers \cap Rfc9421Only # {} /\ format = "legacy" THEN {"unauthorized"} ELSE {"ok"})

\* should_retry_with_rfc9421: a request that is not authorized is signed again.
SignedPost(peers) ==
    IF "unauthorized" \in Answers(peers, "legacy")
    THEN (Answers(peers, "legacy") \ {"unauthorized"}) \cup Answers(peers, "rfc9421") ELSE Answers(peers, "legacy")

\* classify_delivery_status
Permanent(answer) == answer \in {"gone", "unauthorized"}

Receives(g) ==
    seen' = [p \in Peers |-> IF p \in Behind(g.inbox) /\ g.version > seen[p].version
                             THEN [version |-> g.version, named |-> p \in g.names] ELSE seen[p]]

\* deliver_status_activity, deliver_actor_update; an error leaves the job.
DeliverGroup(g, answer) ==
    /\ g \in groups
    /\ IF Eligible(g) = {} THEN groups' = groups \ {g} /\ missed' = missed \cup g.actors /\ UNCHANGED seen
       ELSE /\ answer \in SignedPost(Behind(g.inbox))
            /\ groups' = IF answer = "ok" \/ Permanent(answer) THEN groups \ {g} ELSE groups
            /\ missed' = IF Permanent(answer) THEN missed \cup g.actors ELSE missed \cup (g.actors \ Behind(g.inbox))
            /\ IF answer = "ok" THEN Receives(g) ELSE UNCHANGED seen
    /\ UNCHANGED <<status, reads, unseen, fans, barred, movedInbox, singles, arrived>>

\* A Block and its Undo reach an actor that is blocked.
MayDeliver(j) == j.to \notin barred \/ j.kind \in {"Block", "Undo Block"}

\* deliver_activity and the handlers that call it: deliver_poll_vote sends one
\* activity after the other, and all of them again when one fails.
DeliverSingle(j, answer, sent) ==
    /\ j \in singles
    /\ IF ~ MayDeliver(j) /\ j.kind # "Accept" THEN singles' = singles \ {j} /\ UNCHANGED arrived
       ELSE /\ answer \in SignedPost(Behind(Inbox(j.to, j.personal)))
            /\ sent = IF answer = "ok" THEN j.parts ELSE {part \in sent : \E later \in j.parts : part < later}
            /\ arrived' = arrived \cup {<<j.kind, j.to, part>> : part \in sent}
            /\ singles' = IF answer = "ok" \/ Permanent(answer) THEN singles \ {j} ELSE singles
    /\ UNCHANGED <<status, reads, unseen, fans, barred, movedInbox, groups, seen, missed>>

StatusDeliveryNext ==
    \/ \E names \in SUBSET Peers : Publish(names) \/ \E previous \in reads : EditStatus(previous, names)
    \/ ReadRecipients \/ DeleteStatus \/ UpdateActor
    \/ \E p \in Peers : Bar(p) \/ Unbar(p) \/ MoveInbox(p)
    \/ \E g \in groups, answer \in {"ok", "gone", "error", "unauthorized"} : DeliverGroup(g, answer)

SingleDeliveryNext ==
    \/ \E p \in Peers : Bar(p) \/ Unbar(p) \/ \E j \in SingleJobs(p) : EnqueueSingle(j)
    \/ \E j \in singles, answer \in {"ok", "gone", "error", "unauthorized"} :
           \E sent \in SUBSET j.parts : DeliverSingle(j, answer, sent)

DeliverySpec == DeliveryInit /\ [][StatusDeliveryNext \/ SingleDeliveryNext]_delivery_vars
-----------------------------------------------------------------------------
\* Once their deliveries are done, the people a status names know that it names
\* them, and those that an edit or a deletion removed know that it does not: in
\* whatever order the deliveries ran, and whichever signature their server wants.
\* Of two edits under way, the second removes whom the first has added without
\* having seen it: that person hears nothing until an edit names or removes them.
RemovedAreTold ==
    \A p \in Peers :
        p \notin missed \cup unseen /\ (\A g \in groups : p \notin g.actors) =>
            (seen[p].named <=> status.alive /\ p \in status.names)

\* Deliveries that run late or twice end in what the status says.
DeliverySafe == DeliveryTypeOK /\ RemovedAreTold
=============================================================================
