--------------------------- MODULE LocalStatuses ---------------------------
(***************************************************************************)
(* The life of a local status: creation under an Idempotency-Key, schedules *)
(* and their publication by the worker, uploaded media that are reserved,   *)
(* attached, moved by edits and deleted, edits with their stored revisions, *)
(* deletion, and the activities that are queued for the followers.          *)
(*                                                                          *)
(* A request r of the API creates the status (or the schedule and later its *)
(* publication) with the identifier r.  A transaction is split where it     *)
(* reads rows it does not lock.  PostgreSQL's row locks, its primary key,   *)
(* the CHECK on media rows and ON DELETE SET NULL are guards and updates.   *)
(***************************************************************************)
EXTENDS Integers, Sequences, FiniteSets

CONSTANTS
    Requests,      \* POST /api/v1/statuses calls
    Schedules,     \* those that carry scheduled_at
    RequestKey,    \* [Requests -> Keys \cup {Nil}], the Idempotency-Key
    RequestMedia,  \* [Requests -> SUBSET Media], the media_ids
    Keys, Media, Nil,
    Publishers,    \* workers that execute ScheduledStatusPublish
    Editors,       \* PUT and DELETE requests on statuses
    ScheduleLimit, \* scheduled_statuses.total_limit
    MaxEdits       \* bound: edits of one status, reschedules of one schedule

ASSUME LocalStatusesAssumption ==
    /\ Schedules \subseteq Requests
    /\ Nil \notin Requests \cup Keys \cup Media
    /\ RequestKey \in [Requests -> Keys \cup {Nil}] /\ RequestMedia \in [Requests -> SUBSET Media]
    /\ ScheduleLimit \in Nat /\ MaxEdits \in Nat

VARIABLES
    keyRow,     \* status_creation_idempotency: the recorded result of a key
    request,    \* where each request is
    row,        \* local_status: "none", "live" or "deleted"
    made,       \* history: how often a status with this id was inserted
    schedule,   \* scheduled_status: "none", "later" or "due"
    moves,      \* reschedules so far
    duty,       \* the ScheduledStatusPublish job: "none", "active" or "over"
    publisher,  \* [pc, id, media, had] of each worker handler
    editor,     \* [pc, id, media, had] of each edit or deletion
    medium,     \* local_media_attachment: [status, schedule, st]
    deleting,   \* media whose deletion has passed its checks
    revision,   \* local_status_edit: the contents stored for a status
    sent,       \* the activities queued for the followers of a status
    excused     \* keys whose row expired or whose request died after its commit

statuses_vars == <<keyRow, request, row, made, schedule, moves, duty, publisher,
                   editor, medium, deleting, revision, sent, excused>>

IdlePublisher == [pc |-> "idle", id |-> Nil, media |-> {}]
Unattached == [status |-> Nil, schedule |-> Nil, st |-> "stored"]

LocalStatusesInit ==
    /\ keyRow = [k \in Keys |-> Nil]
    /\ request = [r \in Requests |-> "new"]
    /\ row = [r \in Requests |-> "none"]
    /\ made = [r \in Requests |-> 0]
    /\ schedule = [r \in Requests |-> "none"]
    /\ moves = [r \in Requests |-> 0]
    /\ duty = [r \in Requests |-> "none"]
    /\ publisher = [p \in Publishers |-> IdlePublisher]
    /\ editor = [e \in Editors |-> IdlePublisher]
    /\ medium = [m \in Media |-> [Unattached EXCEPT !.st = "absent"]]
    /\ deleting = {}
    /\ revision = [r \in Requests |-> <<>>]
    /\ sent = [r \in Requests |-> <<>>]
    /\ excused = {}

LocalStatusesTypeOK ==
    /\ keyRow \in [Keys -> Requests \cup {Nil}]
    /\ request \in [Requests -> {"new", "reserved", "checked", "made", "done",
                                 "replayed", "refused"}]
    /\ row \in [Requests -> {"none", "live", "deleted"}]
    /\ schedule \in [Requests -> {"none", "later", "due"}]
    /\ duty \in [Requests -> {"none", "active", "over"}]
    /\ medium \in [Media -> [status : Requests \cup {Nil}, schedule : Requests \cup {Nil},
                             st : {"absent", "stored", "deleted"}]]
    /\ \A r \in Requests : duty[r] = "none" => schedule[r] = "none"
-----------------------------------------------------------------------------
\* A request between begin_status_creation and the end of its guard holds the
\* advisory lock of its key.
Holds(r, k) == RequestKey[r] = k /\ request[r] \in {"reserved", "checked", "made"}

\* Mutant: the key is looked up without its advisory lock.
KeyIsFree_Unlocked(k) == TRUE

KeyIsFree(k) == \A r \in Requests : ~ Holds(r, k)

\* begin_status_creation: wait for the lock of the key, then reserve it or find
\* the result of an earlier request, which is rendered instead.
BeginStatusCreation(r) ==
    /\ request[r] = "new"
    /\ RequestKey[r] # Nil => KeyIsFree(RequestKey[r])
    /\ request' = [request EXCEPT ![r] =
            IF RequestKey[r] # Nil /\ keyRow[RequestKey[r]] # Nil THEN "replayed"
                                                                   ELSE "reserved"]
    /\ UNCHANGED <<keyRow, row, made, schedule, moves, duty, publisher, editor,
                   medium, deleting, revision, sent, excused>>

\* A medium that belongs to no status, and to no schedule but the one published.
IsAvailable(m, r) ==
    /\ medium[m].st = "stored"
    /\ medium[m].status = Nil
    /\ medium[m].schedule \in {Nil, r}

\* create_status_from_input up to the insert: the media are checked, not locked.
CheckStatusInput(r) ==
    /\ request[r] = "reserved" /\ r \notin Schedules
    /\ request' = [request EXCEPT ![r] =
            IF \A m \in RequestMedia[r] : IsAvailable(m, r) THEN "checked" ELSE "refused"]
    /\ UNCHANGED <<keyRow, row, made, schedule, moves, duty, publisher, editor,
                   medium, deleting, revision, sent, excused>>

\* enqueue_status_activity_in_transaction: the deliveries of an activity are
\* queued by the transaction that changes the status.
Announce(r, kind) == sent' = [sent EXCEPT ![r] = Append(@, kind)]

Attach(ms, r) == [m \in Media |-> IF m \in ms THEN [medium[m] EXCEPT !.status = r, !.schedule = Nil]
                                              ELSE medium[m]]
StillStored(ms) == \A m \in ms : medium[m].st = "stored"

\* The insert, the attachments and the Create activity, in one commit. The media are
\* read again but not checked again: one reserved since is taken from its schedule.
CreateStatus(r) ==
    /\ request[r] = "checked"
    /\ IF StillStored(RequestMedia[r])
         THEN /\ request' = [request EXCEPT ![r] = "made"]
              /\ row' = [row EXCEPT ![r] = "live"]
              /\ made' = [made EXCEPT ![r] = @ + 1]
              /\ medium' = Attach(RequestMedia[r], r)
              /\ Announce(r, "Create")
         ELSE /\ request' = [request EXCEPT ![r] = "refused"]
              /\ UNCHANGED <<row, made, medium, sent>>
    /\ UNCHANGED <<keyRow, schedule, moves, duty, publisher, editor, deleting, 
                   revision, excused>>

\* guard.complete: the result is recorded under the key and the lock released.
CompleteCreation(r) ==
    /\ request[r] = "made"
    /\ request' = [request EXCEPT ![r] = "done"]
    /\ keyRow' = IF RequestKey[r] = Nil THEN keyRow
                                        ELSE [keyRow EXCEPT ![RequestKey[r]] = r]
    /\ UNCHANGED <<row, made, schedule, moves, duty, publisher, editor, medium,
                   deleting, revision, sent, excused>>

\* The process dies, the client goes away or the rendering fails after the
\* commit: the guard is dropped and its transaction rolled back.
LoseCreation(r) ==
    /\ request[r] = "made"
    /\ request' = [request EXCEPT ![r] = "refused"]
    /\ excused' = excused \cup {RequestKey[r]}
    /\ UNCHANGED <<keyRow, row, made, schedule, moves, duty, publisher, editor,
                   medium, deleting, revision, sent>>

\* The hour of a recorded key passes; the next request deletes the row.
ExpireKey(k) ==
    /\ keyRow[k] # Nil
    /\ keyRow' = [keyRow EXCEPT ![k] = Nil]
    /\ excused' = excused \cup {k}
    /\ UNCHANGED <<request, row, made, schedule, moves, duty, publisher, editor,
                   medium, deleting, revision, sent>>
-----------------------------------------------------------------------------
BelowLimits == Cardinality({r \in Requests : schedule[r] # "none"}) < ScheduleLimit

\* The checks of the request; the reply and quote targets are left out.
AcceptsSchedule(r) == BelowLimits /\ \A m \in RequestMedia[r] : IsAvailable(m, Nil)

\* create_scheduled_status: the account row is locked for the limits, the media
\* rows for the reservation; the publication is queued in the same commit.
CreateScheduledStatus(r) ==
    /\ request[r] = "reserved" /\ r \in Schedules
    /\ IF AcceptsSchedule(r)
         THEN /\ request' = [request EXCEPT ![r] = "made"]
              /\ schedule' = [schedule EXCEPT ![r] = "later"]
              /\ duty' = [duty EXCEPT ![r] = "active"]
              /\ medium' = [m \in Media |-> IF m \in RequestMedia[r]
                                              THEN [medium[m] EXCEPT !.schedule = r]
                                              ELSE medium[m]]
         ELSE /\ request' = [request EXCEPT ![r] = "refused"]
              /\ UNCHANGED <<schedule, duty, medium>>
    /\ UNCHANGED <<keyRow, row, made, moves, publisher, editor, deleting, 
                   revision, sent, excused>>

ScheduleComesDue(r) ==
    /\ schedule[r] = "later"
    /\ schedule' = [schedule EXCEPT ![r] = "due"]
    /\ UNCHANGED <<keyRow, request, row, made, moves, duty, publisher, editor,
                   medium, deleting, revision, sent, excused>>

\* reschedule_status moves the row and the run_after of its active job.
MoveSchedule(r) == schedule' = [schedule EXCEPT ![r] = "later"]

RescheduleStatus(r) ==
    /\ schedule[r] # "none" /\ moves[r] < MaxEdits
    /\ MoveSchedule(r)
    /\ moves' = [moves EXCEPT ![r] = @ + 1]
    /\ UNCHANGED <<keyRow, request, row, made, duty, publisher, editor, medium,
                   deleting, revision, sent, excused>>

\* ON DELETE SET NULL releases the media of a schedule that is deleted.
Release(r, ms) == [m \in Media |-> IF ms[m].schedule = r
                                     THEN [ms[m] EXCEPT !.schedule = Nil] ELSE ms[m]]

\* cancel_scheduled_status, called by the owner or by the worker.
Cancel(r) ==
    /\ schedule' = [schedule EXCEPT ![r] = "none"]
    /\ medium' = Release(r, medium)
    /\ duty' = [duty EXCEPT ![r] = IF schedule[r] = "none" THEN @ ELSE "over"]

CancelScheduledStatus(r) ==
    /\ schedule[r] # "none"
    /\ Cancel(r)
    /\ UNCHANGED <<keyRow, request, row, made, moves, publisher, editor, deleting,
                   revision, sent, excused>>
-----------------------------------------------------------------------------
\* A worker claims the job once it is due; the lease of a slow worker expires,
\* so that another may hold the same job.
ClaimPublication(p, r) ==
    /\ publisher[p].pc = "idle"
    /\ duty[r] = "active" /\ schedule[r] = "due"
    /\ publisher' = [publisher EXCEPT ![p] = [pc |-> "claimed", id |-> r, media |-> {}]]
    /\ UNCHANGED <<keyRow, request, row, made, schedule, moves, duty, editor,
                   medium, deleting, revision, sent, excused>>

Retire(p) == publisher' = [publisher EXCEPT ![p] = IdlePublisher]
EndDuty(r) == duty' = [duty EXCEPT ![r] = "over"]

ScheduleIsGone(r) == schedule[r] = "none"

\* The snapshot of publish_scheduled_status: nothing to do without a row, a
\* retry when it was moved.  (The row and the absence of its status change in
\* one commit, so the branch for a status that exists already is never taken.)
SnapshotSchedule(p) == LET r == publisher[p].id IN
    /\ publisher[p].pc = "claimed"
    /\ \/ /\ ScheduleIsGone(r)
          /\ EndDuty(r) /\ Retire(p) /\ UNCHANGED <<schedule, medium>>
       \/ /\ schedule[r] = "later"
          /\ Retire(p) /\ UNCHANGED <<schedule, medium, duty>>
       \/ /\ schedule[r] = "due"
          /\ publisher' = [publisher EXCEPT ![p] = [pc |-> "read", id |-> r,
                  media |-> {m \in Media : medium[m].schedule = r}]]
          /\ UNCHANGED <<schedule, medium, duty>>
    /\ UNCHANGED <<keyRow, request, row, made, moves, editor, deleting, 
                   revision, sent, excused>>

\* The input is rejected (a reply target that is gone, a quote that may not be
\* made any more): the schedule is cancelled like the owner would.
RejectPublication(p) ==
    /\ publisher[p].pc = "read"
    /\ Cancel(publisher[p].id) /\ Retire(p)
    /\ UNCHANGED <<keyRow, request, row, made, moves, editor, deleting, 
                   revision, sent, excused>>

\* An unavailable medium is a server error, and the job is tried again.
CheckPublication(p) == LET q == publisher[p] IN
    /\ q.pc = "read"
    /\ IF \A m \in q.media : IsAvailable(m, q.id)
         THEN publisher' = [publisher EXCEPT ![p].pc = "checked"]
         ELSE Retire(p)
    /\ UNCHANGED <<keyRow, request, row, made, schedule, moves, duty, editor,
                   medium, deleting, revision, sent, excused>>

\* The primary key of local_status also counts deleted rows.
IdIsUnused(r) == row[r] = "none"

\* The status is inserted under the identifier drawn with the schedule, and the
\* schedule deleted, in one commit; a duplicate identifier is a server error.
PublishSchedule(p) == LET q == publisher[p] IN
    /\ q.pc = "checked" /\ Retire(p)
    /\ IF IdIsUnused(q.id) /\ StillStored(q.media)
         THEN /\ row' = [row EXCEPT ![q.id] = "live"]
              /\ made' = [made EXCEPT ![q.id] = @ + 1]
              /\ schedule' = [schedule EXCEPT ![q.id] = "none"]
              /\ medium' = Release(q.id, Attach(q.media, q.id))
              /\ Announce(q.id, "Create")
              /\ EndDuty(q.id)
         ELSE UNCHANGED <<row, made, schedule, medium, sent, duty>>
    /\ UNCHANGED <<keyRow, request, moves, editor, deleting, revision, excused>>

\* A worker that dies leaves its job to the next claim.
AbandonPublication(p) ==
    /\ publisher[p].pc # "idle" /\ Retire(p)
    /\ UNCHANGED <<keyRow, request, row, made, schedule, moves, duty, editor,
                   medium, deleting, revision, sent, excused>>
-----------------------------------------------------------------------------
UploadMedia(m) ==
    /\ medium[m].st = "absent"
    /\ medium' = [medium EXCEPT ![m] = Unattached]
    /\ UNCHANGED <<keyRow, request, row, made, schedule, moves, duty, publisher,
                   editor, deleting, revision, sent, excused>>

\* delete_owned_unattached_media_attachment checks without a lock ...
BeginDeleteMedia(m) ==
    /\ IsAvailable(m, Nil) /\ m \notin deleting
    /\ \A r \in Requests : \A i \in DOMAIN revision[r] : m \notin revision[r][i]
    /\ deleting' = deleting \cup {m}
    /\ UNCHANGED <<keyRow, request, row, made, schedule, moves, duty, publisher,
                   editor, medium, revision, sent, excused>>

\* ... and deletes the row by its identifier; a revision that names it by now
\* makes the foreign key fail.
DeleteMedia(m) ==
    /\ m \in deleting
    /\ deleting' = deleting \ {m}
    /\ medium' = IF \A r \in Requests : \A i \in DOMAIN revision[r] : m \notin revision[r][i]
                   THEN [medium EXCEPT ![m] = [Unattached EXCEPT !.st = "deleted"]]
                   ELSE medium
    /\ UNCHANGED <<keyRow, request, row, made, schedule, moves, duty, publisher,
                   editor, revision, sent, excused>>
-----------------------------------------------------------------------------
Locked(r) == \E e \in Editors : editor[e].pc = "editing" /\ editor[e].id = r
MediaOf(r) == {m \in Media : medium[m].status = r}

RowIsFree(r) == ~ Locked(r)

\* The request finds the status it owns; bound: MaxEdits.
MayEdit(r) ==
    /\ row[r] = "live"
    /\ Cardinality({i \in DOMAIN sent[r] : sent[r][i] \in {"Update", "Policy"}}) < MaxEdits

\* update_owned_local_status locks the row of a status that is not deleted and
\* looks for changes and free media; ms is the new media list.
BeginEdit(e, r, ms) ==
    /\ editor[e].pc = "idle" /\ RowIsFree(r)
    /\ MayEdit(r)
    /\ \A m \in ms : medium[m].st = "stored" /\ medium[m].status \in {Nil, r}
    /\ editor' = [editor EXCEPT ![e] = [pc |-> "editing", id |-> r, media |-> ms]]
    /\ UNCHANGED <<keyRow, request, row, made, schedule, moves, duty, publisher,
                   medium, deleting, revision, sent, excused>>

\* CHECK (NOT (status_id IS NOT NULL AND scheduled_status_id IS NOT NULL))
MediaCheck(ms) == \A m \in ms : medium[m].schedule = Nil

\* local_status_snapshot: an edit stores the new revision, the first one the
\* original too.
Revised(r, ms) == (IF revision[r] = <<>> THEN <<MediaOf(r)>> ELSE revision[r]) \o <<ms>>

AnnounceEdit(r) == Announce(r, "Update")

\* The media list is replaced; the CHECK refuses a medium that is reserved.
CommitEdit(e) == LET q == editor[e] IN
    /\ q.pc = "editing"
    /\ editor' = [editor EXCEPT ![e] = IdlePublisher]
    /\ IF StillStored(q.media) /\ MediaCheck(q.media)
         THEN /\ medium' = [m \in Media |->
                     IF m \in q.media THEN [medium[m] EXCEPT !.status = q.id]
                     ELSE IF medium[m].status = q.id THEN [medium[m] EXCEPT !.status = Nil]
                     ELSE medium[m]]
              /\ revision' = [revision EXCEPT ![q.id] = Revised(q.id, q.media)]
              /\ AnnounceEdit(q.id)
         ELSE UNCHANGED <<medium, revision, sent>>
    /\ UNCHANGED <<keyRow, request, row, made, schedule, moves, duty, publisher,
                   deleting, excused>>

\* LocalStatusUpdateResult::Unchanged: a PUT that changes nothing but the quote
\* policy sends an Update with the old contents and stores no revision.
CommitPolicy(e) == LET q == editor[e] IN
    /\ q.pc = "editing" /\ q.media = MediaOf(q.id)
    /\ editor' = [editor EXCEPT ![e] = IdlePublisher]
    /\ Announce(q.id, "Policy")
    /\ UNCHANGED <<keyRow, request, row, made, schedule, moves, duty, publisher, medium,
                   deleting, revision, excused>>

\* delete_owned_local_status reads the status without a lock ...
BeginDelete(e, r) ==
    /\ editor[e].pc = "idle" /\ row[r] = "live"
    /\ editor' = [editor EXCEPT ![e] = [pc |-> "deleting", id |-> r, media |-> {}]]
    /\ UNCHANGED <<keyRow, request, row, made, schedule, moves, duty, publisher,
                   medium, deleting, revision, sent, excused>>

DeleteRow(r) == row' = [row EXCEPT ![r] = "deleted"]

\* ... and its UPDATE waits for the lock of an edit.
CommitDelete(e) == LET r == editor[e].id IN
    /\ editor[e].pc = "deleting" /\ RowIsFree(r)
    /\ editor' = [editor EXCEPT ![e] = IdlePublisher]
    /\ DeleteRow(r) /\ Announce(r, "Delete")
    /\ UNCHANGED <<keyRow, request, made, schedule, moves, duty, publisher, medium,
                   deleting, revision, excused>>
-----------------------------------------------------------------------------
LocalStatusesNext ==
    \/ \E r \in Requests :
          \/ BeginStatusCreation(r) \/ CheckStatusInput(r) \/ CreateStatus(r)
          \/ CompleteCreation(r) \/ LoseCreation(r) \/ CreateScheduledStatus(r)
          \/ ScheduleComesDue(r) \/ RescheduleStatus(r) \/ CancelScheduledStatus(r)
    \/ \E k \in Keys : ExpireKey(k)
    \/ \E p \in Publishers :
          \/ \E r \in Requests : ClaimPublication(p, r)
          \/ SnapshotSchedule(p) \/ RejectPublication(p) \/ CheckPublication(p)
          \/ PublishSchedule(p) \/ AbandonPublication(p)
    \/ \E m \in Media : UploadMedia(m) \/ BeginDeleteMedia(m) \/ DeleteMedia(m)
    \/ \E e \in Editors :
          \/ \E r \in Requests : BeginDelete(e, r) \/ \E ms \in SUBSET Media : BeginEdit(e, r, ms)
          \/ CommitEdit(e) \/ CommitPolicy(e) \/ CommitDelete(e)

LocalStatusesSpec == LocalStatusesInit /\ [][LocalStatusesNext]_statuses_vars
-----------------------------------------------------------------------------
\* Requests that repeat an Idempotency-Key make one status, and a schedule is
\* published once, however the requests and the workers interleave: a second
\* status needs a key that expired or a request that died after its commit.
CreatedOnce ==
    /\ \A r \in Requests : made[r] <= 1
    /\ \A r, s \in Requests :
          /\ r # s /\ RequestKey[r] # Nil /\ RequestKey[r] = RequestKey[s]
          /\ made[r] + made[s] > 1
          => RequestKey[r] \in excused

\* A schedule that waits always has a job that will publish it: no way through
\* the worker, the owner's changes or a crash ends the job before the schedule.
WaitingHasJob == \A r \in Requests : schedule[r] # "none" => duty[r] = "active"

\* No medium is reserved and attached at once, and no reservation outlives its
\* schedule, whatever cancels or publishes it.
ReservationHolds ==
    \A m \in Media : medium[m].schedule # Nil =>
        medium[m].status = Nil /\ schedule[medium[m].schedule] # "none"

\* A schedule that waits has the media it names, although edits, deletions and other
\* posts name them too. Only what had checked a medium before it was reserved takes
\* it away, unlocked as that check is: a deletion, or a post made with it.
ScheduleHasItsMedia ==
    \A r \in Requests : \A m \in RequestMedia[r] : schedule[r] # "none" =>
        \/ medium[m].schedule = r
        \/ medium[m].st = "deleted"
        \/ \E s \in Requests : m \in RequestMedia[s] /\ made[s] > 0

\* Followers are told of a status in an order they can apply: Create first and
\* once, nothing but a repeated Delete after a Delete; and the history of a
\* status holds its original and every edit of its contents they were told of,
\* while an Update for the quote policy alone stores none.
ToldInOrder ==
    \A r \in Requests : LET told == sent[r] IN
       /\ \A i \in DOMAIN told : (told[i] = "Create") <=> (i = 1)
       /\ \A i, j \in DOMAIN told : i < j /\ told[i] = "Delete" => told[j] = "Delete"
       /\ LET edits == Cardinality({i \in DOMAIN told : told[i] = "Update"})
          IN  Len(revision[r]) = IF edits = 0 THEN 0 ELSE edits + 1

\* The promises of creation, scheduling and publication hold together after
\* every step of the requests, the workers and the owner.
LocalStatusesSafe ==
    /\ LocalStatusesTypeOK
    /\ CreatedOnce /\ WaitingHasJob /\ ReservationHolds /\ ScheduleHasItsMedia /\ ToldInOrder
=============================================================================
