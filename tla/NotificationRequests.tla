------------------------ MODULE NotificationRequests ------------------------
(***************************************************************************)
(* Notifications of one recipient held back by its policy, the requests    *)
(* that group them by sender, and the two durable jobs (merge and cleanup, *)
(* one deduplication key each) that release or delete them.                *)
(*                                                                         *)
(* Transactions run at READ COMMITTED. A mention decides its fate in one   *)
(* statement and takes effect from the upsert of its request, which locks  *)
(* the row until commit, in another; the remaining kinds also read the     *)
(* active request before they insert, without a lock. accept, dismiss,     *)
(* merge and cleanup lock the rows they work on first, and are atomic.     *)
(***************************************************************************)
EXTENDS Naturals, FiniteSets

CONSTANTS
    Notes, SenderOf, Mentions,  \* logical events, their sender, mention or quote
    Requests, RequestSender,    \* the UUIDs a sender's requests may draw
    Senders,
    None,
    MaxFaults                   \* bound: handler failures and lost leases

ASSUME RequestAssumption ==
    /\ None \notin Requests
    /\ Mentions \subseteq Notes
    /\ \A n \in Notes : SenderOf[n] \in Senders
    /\ \A r \in Requests : RequestSender[r] \in Senders
    /\ IsFiniteSet(Notes)
    /\ MaxFaults \in Nat

JobKinds == {"merge", "cleanup"}
Verdicts == {"accept", "filter", "drop"}

VARIABLES
    note,       \* [st, filtered, req] of every event
    request,    \* state of every request row
    permitted,  \* senders with a local_notification_permission
    job,        \* the active job of each key
    faults

vars == <<note, request, permitted, job, faults>>

TypeOK ==
    /\ note \in [Notes -> [st : {"new", "decided", "looked", "stored", "dismissed",
                                 "dropped", "deleted"},
                           filtered : BOOLEAN, req : Requests \cup {None}]]
    /\ request \in [Requests -> {"absent", "pending", "merging", "dismissed", "gone"}]
    /\ permitted \subseteq Senders
    /\ job \in [JobKinds -> {"none", "queued", "running", "handled"}]
    /\ faults \in Nat

Init ==
    /\ note = [n \in Notes |-> [st |-> "new", filtered |-> FALSE, req |-> None]]
    /\ request = [r \in Requests |-> "absent"]
    /\ permitted = {}
    /\ job = [k \in JobKinds |-> "none"]
    /\ faults = 0
-----------------------------------------------------------------------------
Open(r) == request[r] \in {"pending", "merging"}
ActiveOf(s) == {r \in Requests : RequestSender[r] = s /\ Open(r)}
Stored(n) == note[n].st \in {"stored", "dismissed"}

Keep(n, st, filtered, r) ==
    note' = [note EXCEPT ![n] = [st |-> st, filtered |-> filtered, req |-> r]]

\* The event is new; a block or a mute drops it, then a permission accepts it,
\* otherwise the policy decides, which may have changed since the last event.
DecideNotification(n, action) ==
    /\ note[n].st = "new"
    /\ SenderOf[n] \in permitted => action # "filter"
    /\ CASE action = "accept" -> Keep(n, "stored", FALSE, None)
         [] action = "drop"   -> Keep(n, "dropped", FALSE, None)
         [] OTHER             -> Keep(n, "decided", TRUE, None)
    /\ UNCHANGED <<request, permitted, job, faults>>

\* INSERT ... ON CONFLICT on the sender's pending or merging request, then every
\* held notification of the sender without a request is attached, then the
\* mention itself is inserted.
UpsertNotificationRequest(n, r) ==
    /\ note[n].st = "decided" /\ n \in Mentions
    /\ RequestSender[r] = SenderOf[n]
    /\ IF ActiveOf(SenderOf[n]) = {} THEN request[r] = "absent" ELSE Open(r)
    /\ request' = [request EXCEPT ![r] = IF @ = "absent" THEN "pending" ELSE @]
    /\ note' = [m \in Notes |->
                  IF m = n THEN [st |-> "stored", filtered |-> TRUE, req |-> r]
                  ELSE IF /\ Stored(m) /\ note[m].filtered /\ note[m].req = None
                          /\ SenderOf[m] = SenderOf[n]
                       THEN [note[m] EXCEPT !.req = r] ELSE note[m]]
    /\ UNCHANGED <<permitted, job, faults>>

\* Follows, favourites and boosts only look for an active request.
ActiveNotificationRequestId(n) ==
    /\ note[n].st = "decided" /\ n \notin Mentions
    /\ \E r \in Requests \cup {None} :
         /\ IF ActiveOf(SenderOf[n]) = {} THEN r = None ELSE r \in ActiveOf(SenderOf[n])
         /\ Keep(n, "looked", TRUE, r)
    /\ UNCHANGED <<request, permitted, job, faults>>

\* Mutant: no foreign key.
InsertNotification_Unchecked(n) ==
    /\ note[n].st = "looked"
    /\ Keep(n, "stored", TRUE, note[n].req)
    /\ UNCHANGED <<request, permitted, job, faults>>

\* The foreign key refuses a request deleted meanwhile: the transaction fails and
\* the event may be delivered again.
InsertNotification(n) ==
    /\ note[n].st = "looked"
    /\ IF note[n].req # None /\ request[note[n].req] = "gone"
         THEN Keep(n, "new", FALSE, None)
         ELSE Keep(n, "stored", TRUE, note[n].req)
    /\ UNCHANGED <<request, permitted, job, faults>>

\* Dismissing, clearing and dismissing a group touch visible rows only.
DismissLocalNotification(n) ==
    /\ note[n].st = "stored" /\ ~note[n].filtered
    /\ note' = [note EXCEPT ![n].st = "dismissed"]
    /\ UNCHANGED <<request, permitted, job, faults>>

From(s) == {n \in Notes : SenderOf[n] = s /\ Stored(n)}

\* A block, in either direction, and a suspension of the sender or of its domain
\* dismiss all that came from it, held or visible; its request stays.
DismissSender(s) ==
    /\ \E n \in From(s) : note[n].st = "stored"
    /\ note' = [n \in Notes |-> IF n \in From(s) THEN [note[n] EXCEPT !.st = "dismissed"] ELSE note[n]]
    /\ UNCHANGED <<request, permitted, job, faults>>

\* A Delete takes the notifications with it, whatever their state: of a Note what
\* mentions or quotes in it, of an actor all that came from it.
ReceiveDelete(ns) ==
    /\ \/ \E n \in Mentions : Stored(n) /\ ns = {n}
       \/ \E s \in Senders : ns = From(s) /\ ns # {}
    /\ note' = [n \in Notes |-> IF n \in ns THEN [note[n] EXCEPT !.st = "deleted", !.req = None]
                                ELSE note[n]]
    /\ UNCHANGED <<request, permitted, job, faults>>
-----------------------------------------------------------------------------
\* enqueue_job_in_transaction: an active job with the key absorbs the request.
Enqueue(k) == job' = [job EXCEPT ![k] = IF @ = "none" THEN "queued" ELSE @]

AcceptNotificationRequests(rs) ==
    /\ rs # {} /\ \A r \in rs : request[r] = "pending"
    /\ request' = [r \in Requests |-> IF r \in rs THEN "merging" ELSE request[r]]
    /\ permitted' = permitted \cup {RequestSender[r] : r \in rs}
    /\ Enqueue("merge")
    /\ UNCHANGED <<note, faults>>

DismissNotificationRequests(rs) ==
    /\ rs # {} /\ \A r \in rs : request[r] = "pending"
    /\ request' = [r \in Requests |-> IF r \in rs THEN "dismissed" ELSE request[r]]
    /\ Enqueue("cleanup")
    /\ UNCHANGED <<note, permitted, faults>>

\* One request or several, accepted or dismissed: all of them or none.
RequestAction(rs, accept) ==
    IF accept THEN AcceptNotificationRequests(rs) ELSE DismissNotificationRequests(rs)

\* The requests that the account is shown, each with everything it holds.
ListedRequests == {r \in Requests : request[r] = "pending"}
HeldIn(r) == {n \in Notes : note[n].st \in {"stored", "dismissed"} /\ note[n].req = r}
\* Whether the client may stop polling for the merge.
RequestsMerged == \A r \in Requests : request[r] # "merging"
\* The summary beside the policy counts what is held and not dismissed.
Summary == [requests |-> Cardinality(ListedRequests),
            notifications |-> Cardinality({n \in Notes : note[n].st = "stored" /\ note[n].filtered})]

\* A worker claims the job, runs the handler's transaction and completes it.
ClaimJob(k) ==
    /\ job[k] = "queued"
    /\ job' = [job EXCEPT ![k] = "running"]
    /\ UNCHANGED <<note, request, permitted, faults>>

In(n, state) == Stored(n) /\ note[n].req # None /\ request[note[n].req] = state

MergeNotificationRequests ==
    /\ job["merge"] = "running"
    /\ note' = [n \in Notes |-> IF In(n, "merging")
                                  THEN [note[n] EXCEPT !.filtered = FALSE, !.req = None]
                                  ELSE note[n]]
    /\ request' = [r \in Requests |-> IF request[r] = "merging" THEN "gone" ELSE request[r]]
    /\ job' = [job EXCEPT !["merge"] = "handled"]
    /\ UNCHANGED <<permitted, faults>>

\* Mutant: cleanup deletes by sender instead of by request.
CleanupNotificationRequests_BySender ==
    /\ job["cleanup"] = "running"
    /\ note' = [n \in Notes |->
          IF /\ Stored(n) /\ note[n].filtered
             /\ \E r \in Requests : request[r] = "dismissed" /\ RequestSender[r] = SenderOf[n]
          THEN [note[n] EXCEPT !.st = "deleted", !.req = None] ELSE note[n]]
    /\ request' = [r \in Requests |-> IF request[r] = "dismissed" THEN "gone" ELSE request[r]]
    /\ job' = [job EXCEPT !["cleanup"] = "handled"]
    /\ UNCHANGED <<permitted, faults>>

CleanupNotificationRequests ==
    /\ job["cleanup"] = "running"
    /\ note' = [n \in Notes |-> IF In(n, "dismissed")
                                  THEN [note[n] EXCEPT !.st = "deleted", !.req = None]
                                  ELSE note[n]]
    /\ request' = [r \in Requests |-> IF request[r] = "dismissed" THEN "gone" ELSE request[r]]
    /\ job' = [job EXCEPT !["cleanup"] = "handled"]
    /\ UNCHANGED <<permitted, faults>>

CompleteJob(k) ==
    /\ job[k] = "handled"
    /\ job' = [job EXCEPT ![k] = "none"]
    /\ UNCHANGED <<note, request, permitted, faults>>

\* Mutant: a failed handler completes its job.
RetryJob_Completes(k) ==
    /\ job[k] \in {"running", "handled"}
    /\ faults < MaxFaults
    /\ job' = [job EXCEPT ![k] = "none"]
    /\ faults' = faults + 1
    /\ UNCHANGED <<note, request, permitted>>

\* The handler fails, or its worker dies before or after the commit: the job is
\* executed again.
RetryJob(k) ==
    /\ job[k] \in {"running", "handled"}
    /\ faults < MaxFaults
    /\ job' = [job EXCEPT ![k] = "queued"]
    /\ faults' = faults + 1
    /\ UNCHANGED <<note, request, permitted>>

JobStep(k) ==
    \/ ClaimJob(k)
    \/ k = "merge" /\ MergeNotificationRequests
    \/ k = "cleanup" /\ CleanupNotificationRequests
    \/ CompleteJob(k)

RequestsNext ==
    \/ \E n \in Notes : \/ \E action \in Verdicts : DecideNotification(n, action)
                        \/ \E r \in Requests : UpsertNotificationRequest(n, r)
                        \/ ActiveNotificationRequestId(n)
                        \/ InsertNotification(n)
                        \/ DismissLocalNotification(n)
    \/ \E rs \in SUBSET Requests :
         \E accept \in BOOLEAN : RequestAction(rs, accept)
    \/ \E k \in JobKinds : JobStep(k) \/ RetryJob(k)

SenderNext ==
    \/ \E s \in Senders : DismissSender(s)
    \/ \E ns \in SUBSET Notes : ReceiveDelete(ns)

Next == RequestsNext \/ SenderNext

Spec == Init /\ [][Next]_vars

\* Workers keep claiming, running and completing due jobs (jobs_liveness shows it
\* of the queue).
FairSpec == Spec /\ \A k \in JobKinds : WF_vars(JobStep(k))
-----------------------------------------------------------------------------
\* A sender has at most one request that is pending or being merged, although
\* upserts, accepts, dismissals and merges interleave.
OneActiveRequest ==
    \A q, r \in Requests : q # r /\ RequestSender[q] = RequestSender[r]
                           => ~(Open(q) /\ Open(r))

\* A stored notification that names a request is held, comes from the request's
\* sender, and the request still exists, also when blocks and Deletes take
\* notifications from under it; what the list of requests counts is within the
\* summary, but for what a block dismissed, which only the list still counts; and
\* once the client is told that all is merged, whatever is held with a request
\* waits for the account's decision or its deletion.
HeldByItsRequest ==
    /\ Summary.notifications >=
         Cardinality({n \in UNION {HeldIn(r) : r \in ListedRequests} : note[n].st # "dismissed"})
    /\ RequestsMerged => \A n \in Notes : Stored(n) /\ note[n].req # None =>
                              request[note[n].req] \in {"pending", "dismissed"}
    /\ \A n \in Notes : Stored(n) /\ note[n].req # None =>
        /\ note[n].filtered
        /\ RequestSender[note[n].req] = SenderOf[n]
        /\ request[note[n].req] \in {"pending", "merging", "dismissed"}

\* A notification is deleted with its Note or its sender, by a step that touches
\* no other sender, no request and no job; or else only through the dismissal of
\* the request it was held by: what is accepted, visible or held elsewhere
\* survives every cleanup and every merge.
DeletedForCause ==
    [][\A n \in Notes : Stored(n) /\ note'[n].st = "deleted" =>
         \/ /\ UNCHANGED <<request, permitted, job>>
            /\ \A m \in Notes : note'[m] # note[m] => SenderOf[m] = SenderOf[n]
         \/ note[n].filtered /\ note[n].req # None /\ request[note[n].req] = "dismissed"]_vars

\* A request accepted or dismissed before its job has run is worked off by that
\* job, across handler failures and lost leases.
PickedUpByItsJob ==
    \A r \in Requests :
        (\/ request[r] = "merging" /\ job["merge"] \in {"queued", "running"}
         \/ request[r] = "dismissed" /\ job["cleanup"] \in {"queued", "running"})
        ~> request[r] = "gone"

\* Accepting a request enqueues its durable merge: it is merged eventually.
AcceptedIsMerged == \A r \in Requests : request[r] = "merging" ~> request[r] = "gone"

\* Behind it: what a favourite, follow or boost has looked up is a request of its
\* sender, which may be deleted by now but was inserted once.
LookedUpIsOfSender ==
    \A n \in Notes : note[n].st = "looked" /\ note[n].req # None =>
        RequestSender[note[n].req] = SenderOf[n] /\ request[note[n].req] # "absent"

\* Whatever upserts, decisions and jobs interleave, a sender has one request and
\* what is held belongs to it.
RequestsSafe == TypeOK /\ OneActiveRequest /\ HeldByItsRequest /\ LookedUpIsOfSender
=============================================================================
