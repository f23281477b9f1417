----------------------------- MODULE MediaCache -----------------------------
(***************************************************************************)
(* The cache of remote media: the profile image of an actor, whose address  *)
(* may change under its row, and the attachment of a status, which gets a   *)
(* new row with every edit.  Requests for a file that is not there queue a  *)
(* fetch, claim its job and wait; the file is written before the row says   *)
(* that it may be served.                                                   *)
(***************************************************************************)
EXTENDS Naturals, FiniteSets

CONSTANTS
    Images,       \* ids of remote_profile_media, in the order they are used
    Attachments,  \* ids of remote_media_attachment
    MaxUrl,       \* addresses 1..MaxUrl; 0 stands for none
    MediaFetchers,\* executions of the fetch job, by the pool or for a request
    Permits,      \* remote_media_fetches
    Visitors,     \* requests for a file
    MaxOverruns   \* executions that outlive the claim of their job

MediaIds == Images \cup Attachments

ASSUME MediaAssumption ==
    /\ Images \subseteq Nat /\ Attachments \subseteq Nat /\ Images \cap Attachments = {}
    /\ {MaxUrl, Permits} \subseteq Nat \ {0} /\ MaxOverruns \in Nat

VARIABLES
    mediaRow,      \* [state, url, file, stale] of a row
    disk,          \* the address whose bytes are at the path of the id, 0 without a file
    mediaJob,      \* job with the key of the id: none, queued, running
    download,      \* [id, url, stage, held] of an execution
    rejectMedia,   \* the domain's media are rejected
    visitor,       \* [id, stage] of a request
    overruns

media_vars == <<mediaRow, disk, mediaJob, download, rejectMedia, visitor, overruns>>

\* remote_profile_media, remote_media_attachment
MediaRow == [state : {"unused", "pending", "ready", "failed", "deleted"}, url : 0..MaxUrl, file : BOOLEAN, stale : BOOLEAN]

UnusedRow == [state |-> "unused", url |-> 0, file |-> FALSE, stale |-> FALSE]
Discovered(u) == [UnusedRow EXCEPT !.state = "pending", !.url = u]
IdleDownload == [id |-> 0, url |-> 0, stage |-> "idle", held |-> FALSE]

MediaInit ==
    /\ mediaRow = [i \in MediaIds |-> UnusedRow] /\ disk = [i \in MediaIds |-> 0]
    /\ mediaJob = [i \in MediaIds |-> "none"] /\ download = [f \in MediaFetchers |-> IdleDownload]
    /\ rejectMedia = FALSE /\ visitor = [v \in Visitors |-> [id |-> 0, stage |-> "idle"]] /\ overruns = 0

\* Every value is of its type.
MediaTypeOK ==
    /\ mediaRow \in [MediaIds -> MediaRow] /\ disk \in [MediaIds -> 0..MaxUrl]
    /\ mediaJob \in [MediaIds -> {"none", "queued", "running"}]
    /\ \A f \in MediaFetchers : download[f].stage \in {"idle", "waiting", "selected", "fetched", "written", "error", "changed", "done"}
    /\ \A v \in Visitors : visitor[v].stage \in {"idle", "asked", "queued", "waiting", "served", "missing", "bad_gateway", "unavailable"}
-----------------------------------------------------------------------------
Live(i) == mediaRow[i].state \notin {"unused", "deleted"}

\* enqueue_job: a job with the key that is active absorbs the new one.
Coalesced(i, jobs) == [jobs EXCEPT ![i] = IF @ = "none" THEN "queued" ELSE @]

Fresh(i) == mediaRow[i].state = "ready" /\ ~ mediaRow[i].stale
NextOf(S) == {i \in S : mediaRow[i].state = "unused" /\ \A j \in S : mediaRow[j].state = "unused" => i <= j}

\* replace_remote_profile_media_kind: the same address keeps its row as it is.
ReplaceProfileMedia(u) ==
    LET old == {i \in Images : Live(i)} IN
    /\ \/ old = {} /\ u # 0 /\ \E i \in NextOf(Images) : mediaRow' = [mediaRow EXCEPT ![i] = Discovered(u)]
       \/ \E i \in old : mediaRow[i].url # u /\ mediaRow' = [mediaRow EXCEPT ![i] =
              IF u = 0 THEN [UnusedRow EXCEPT !.state = "deleted"] ELSE Discovered(u)]
    /\ UNCHANGED <<disk, mediaJob, download, rejectMedia, visitor, overruns>>

\* queue_remote_media_fetch, queue_remote_profile_media_fetch: pending with a job; the file stays.
QueueFetch(i) ==
    mediaRow' = [mediaRow EXCEPT ![i].state = "pending"] /\ mediaJob' = Coalesced(i, mediaJob)

\* enqueue_remote_profile_media_fetches, after the actor was stored
QueueProfileFetches ==
    \E i \in Images : /\ Live(i) /\ ~ Fresh(i)
                      /\ QueueFetch(i)
                      /\ UNCHANGED <<disk, download, rejectMedia, visitor, overruns>>

\* replace_remote_media_attachments with
\* enqueue_remote_status_media_fetches_in_transaction: every row is new.
ReplaceAttachments(u) ==
    \E i \in NextOf(Attachments) :
        /\ u # 0
        /\ mediaRow' = [j \in MediaIds |-> IF j = i THEN Discovered(u)
                                           ELSE IF j \in Attachments /\ Live(j) THEN [UnusedRow EXCEPT !.state = "deleted"]
                                           ELSE mediaRow[j]]
        /\ mediaJob' = Coalesced(i, mediaJob)
        /\ UNCHANGED <<disk, download, rejectMedia, visitor, overruns>>

\* cache_is_expired turns true.
CacheExpires(i) ==
    /\ mediaRow[i].file /\ ~ mediaRow[i].stale /\ mediaRow' = [mediaRow EXCEPT ![i].stale = TRUE]
    /\ UNCHANGED <<disk, mediaJob, download, rejectMedia, visitor, overruns>>

\* The domain's policy is set.
SetRejectMedia ==
    /\ ~ rejectMedia /\ rejectMedia' = TRUE
    /\ UNCHANGED <<mediaRow, disk, mediaJob, download, visitor, overruns>>
-----------------------------------------------------------------------------
(* Requests *)

\* read_remote_profile_media
ReadableImage(i) == mediaRow[i].file /\ disk[i] # 0

\* read_remote_attachment: the file or its preview, which were written together
ReadableAttachment(i) == mediaRow[i].file /\ disk[i] # 0

Readable(i) == IF i \in Images THEN ReadableImage(i) ELSE ReadableAttachment(i)

Answer(v, stage) == visitor' = [visitor EXCEPT ![v].stage = stage]

\* The row is read; a file that is there is served, and refreshed when it is old.
Visit(v, i) ==
    /\ visitor[v].stage = "idle" /\ mediaRow[i].state # "unused"
    /\ visitor' = [visitor EXCEPT ![v] = [id |-> i, stage |->
          IF ~ Live(i) THEN "missing" ELSE IF Readable(i) THEN "served"
          ELSE IF mediaRow[i].state = "failed" THEN "bad_gateway" ELSE "asked"]]
    /\ IF Live(i) /\ Readable(i) /\ mediaRow[i].stale
         THEN QueueFetch(i)
         ELSE UNCHANGED <<mediaRow, mediaJob>>
    /\ UNCHANGED <<disk, download, rejectMedia, overruns>>

\* serve_remote_profile_media
VisitImage(v, i) == i \in Images /\ Visit(v, i)

\* serve_remote_media_attachment, serve_remote_media_preview
VisitAttachment(v, i) == i \in Attachments /\ Visit(v, i)

\* The fetch is queued: an error when the row is gone.
VisitQueues(v) ==
    LET i == visitor[v].id IN
    /\ visitor[v].stage = "asked"
    /\ IF Live(i) THEN QueueFetch(i) /\ Answer(v, "queued")
                  ELSE Answer(v, "missing") /\ UNCHANGED <<mediaRow, mediaJob>>
    /\ UNCHANGED <<disk, download, rejectMedia, overruns>>

IdleFetcher(f) == download[f].stage = "idle"
StartFetch(f, i) == download' = [download EXCEPT ![f] = [id |-> i, url |-> 0, stage |-> "waiting", held |-> TRUE]]

\* claim_remote_media_fetch: the request runs the job itself when nobody else does.
VisitClaims(v) ==
    LET i == visitor[v].id IN
    /\ visitor[v].stage = "queued" /\ Answer(v, "waiting")
    /\ IF mediaJob[i] = "queued"
         THEN \E f \in MediaFetchers : IdleFetcher(f) /\ StartFetch(f, i) /\ mediaJob' = [mediaJob EXCEPT ![i] = "running"]
         ELSE UNCHANGED <<download, mediaJob>>
    /\ UNCHANGED <<mediaRow, disk, rejectMedia, overruns>>

\* The row is read again until there is an answer or the deadline passes.
Wait(v) ==
    LET i == visitor[v].id IN
    /\ visitor[v].stage = "waiting"
    /\ Answer(v, IF ~ Live(i) THEN "missing" ELSE IF Readable(i) THEN "served"
                 ELSE IF mediaRow[i].state = "failed" THEN "bad_gateway" ELSE "unavailable")
    /\ UNCHANGED <<mediaRow, disk, mediaJob, download, rejectMedia, overruns>>

\* wait_for_remote_profile_media
WaitForImage(v) == visitor[v].id \in Images /\ Wait(v)

\* wait_for_remote_attachment
WaitForAttachment(v) == visitor[v].id \in Attachments /\ Wait(v)
-----------------------------------------------------------------------------
(* The job *)

\* The pool claims it.
ClaimFetch(f, i) ==
    /\ IdleFetcher(f) /\ mediaJob[i] = "queued" /\ StartFetch(f, i)
    /\ mediaJob' = [mediaJob EXCEPT ![i] = "running"]
    /\ UNCHANGED <<mediaRow, disk, rejectMedia, visitor, overruns>>

Working == {f \in MediaFetchers : download[f].stage \notin {"idle", "waiting", "done"}}
Stage(f, stage) == download' = [download EXCEPT ![f].stage = stage]

\* fetch_remote_media: a permit, then the row, its address and the policy in one snapshot
SelectMedia(f) ==
    LET i == download[f].id IN
    /\ download[f].stage = "waiting" /\ Cardinality(Working) < Permits
    /\ download' = [download EXCEPT ![f].url = mediaRow[i].url,
                                    ![f].stage = IF Live(i) /\ ~ rejectMedia THEN "selected" ELSE "error"]
    /\ UNCHANGED <<mediaRow, disk, mediaJob, rejectMedia, visitor, overruns>>

\* The request to the remote server, its limits, and the decoding of an image
Fetch(f, fetched) ==
    /\ download[f].stage = "selected" /\ Stage(f, IF fetched THEN "fetched" ELSE "error")
    /\ UNCHANGED <<mediaRow, disk, mediaJob, rejectMedia, visitor, overruns>>

\* The path depends on the id alone.
WriteFile(f) ==
    /\ download[f].stage = "fetched" /\ Stage(f, "written")
    /\ disk' = [disk EXCEPT ![download[f].id] = download[f].url]
    /\ UNCHANGED <<mediaRow, mediaJob, rejectMedia, visitor, overruns>>

\* mark_remote_profile_media_ready: WHERE id AND remote_url
\* Mutant: the row is found by its id.
Published_Any(i, u) == Live(i)

Published(i, u) == Live(i) /\ mediaRow[i].url = u

Cached(i) == [mediaRow EXCEPT ![i].state = "ready", ![i].file = TRUE, ![i].stale = FALSE]

PublishImage(f) ==
    LET i == download[f].id
        published == Published(i, download[f].url) IN
    /\ download[f].stage = "written" /\ i \in Images
    /\ mediaRow' = IF published THEN Cached(i) ELSE mediaRow
    /\ Stage(f, IF published THEN "done" ELSE "changed")
    /\ UNCHANGED <<disk, mediaJob, rejectMedia, visitor, overruns>>

\* mark_remote_media_ready: a row that is gone is left alone.
PublishAttachment(f) ==
    LET i == download[f].id IN
    /\ download[f].stage = "written" /\ i \in Attachments /\ Stage(f, "done")
    /\ mediaRow' = IF Live(i) THEN Cached(i) ELSE mediaRow
    /\ UNCHANGED <<disk, mediaJob, rejectMedia, visitor, overruns>>

\* mark_remote_media_failed: the file stays.
Failed(i) == IF Live(i) THEN [mediaRow EXCEPT ![i].state = "failed"] ELSE mediaRow

\* mark_remote_profile_media_failed likewise; not called when the address has changed.
MarkMediaFailed(f) ==
    /\ download[f].stage = "error" /\ Stage(f, "changed") /\ mediaRow' = Failed(download[f].id)
    /\ UNCHANGED <<disk, mediaJob, rejectMedia, visitor, overruns>>

\* execute_claimed_remote_media_job: an outcome of a claim that was lost is discarded.
FinishFetch(f, permanent) ==
    LET i == download[f].id IN
    /\ download[f].stage \in {"done", "changed"} /\ (permanent => download[f].stage = "changed")
    /\ download' = [download EXCEPT ![f] = IdleDownload]
    /\ mediaJob' = IF ~ download[f].held THEN mediaJob
                   ELSE [mediaJob EXCEPT ![i] = IF download[f].stage = "done" \/ permanent THEN "none" ELSE "queued"]
    /\ UNCHANGED <<mediaRow, disk, rejectMedia, visitor, overruns>>

\* REMOTE_MEDIA_JOB_CLAIM_TTL passes while the execution waits or works.
OutliveClaim(f) ==
    /\ download[f].held /\ download[f].stage # "idle" /\ overruns < MaxOverruns /\ overruns' = overruns + 1
    /\ download' = [download EXCEPT ![f].held = FALSE] /\ mediaJob' = [mediaJob EXCEPT ![download[f].id] = "queued"]
    /\ UNCHANGED <<mediaRow, disk, rejectMedia, visitor>>

MediaNext ==
    \/ \E u \in 0..MaxUrl : ReplaceProfileMedia(u) \/ ReplaceAttachments(u)
    \/ QueueProfileFetches \/ SetRejectMedia
    \/ \E i \in MediaIds : CacheExpires(i) \/ (\E v \in Visitors : VisitImage(v, i) \/ VisitAttachment(v, i)) \/ \E f \in MediaFetchers : ClaimFetch(f, i)
    \/ \E v \in Visitors : VisitQueues(v) \/ VisitClaims(v) \/ WaitForImage(v) \/ WaitForAttachment(v)
    \/ \E f \in MediaFetchers : \/ SelectMedia(f) \/ WriteFile(f) \/ PublishImage(f) \/ PublishAttachment(f) \/ MarkMediaFailed(f) \/ OutliveClaim(f)
                                \/ \E choice \in BOOLEAN : Fetch(f, choice) \/ FinishFetch(f, choice)

MediaSpec == MediaInit /\ [][MediaNext]_media_vars
-----------------------------------------------------------------------------
\* A file that the row lets through holds the bytes of the address the row
\* advertises: a fetch that began before the address changed publishes nothing
\* (replace_remote_profile_media, mark_remote_profile_media_ready).  Two fetches
\* of one image at a time could still swap their files, so this is said of an
\* image as long as no execution has outlived its claim; an attachment keeps its
\* address, and nothing is assumed.
ServedIsAdvertised ==
    \A i \in MediaIds : Live(i) /\ Readable(i) /\ (i \in Images => overruns = 0) => disk[i] = mediaRow[i].url

\* No file is served under an address it was not fetched from.
MediaSafe == MediaTypeOK /\ ServedIsAdvertised
=============================================================================
