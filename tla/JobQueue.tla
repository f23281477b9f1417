------------------------------ MODULE JobQueue ------------------------------
(***************************************************************************)
(* The durable job table of roosty and the processes that work on it:      *)
(* enqueueing with deduplication, leases taken with FOR UPDATE SKIP        *)
(* LOCKED, the worker pool of every process, cold-cache media requests     *)
(* that claim one job by key, retries with backoff, cancellation, graceful *)
(* shutdown, crashes and retention cleanup.                                *)
(*                                                                         *)
(* One SQL statement is one step; a handler and the statement that records *)
(* its outcome are two steps, so everything may happen in between.         *)
(*                                                                         *)
(* Timestamps are kept as distances from the clock (time left until        *)
(* run_after, time since locked_at, created_at and completed_at), each     *)
(* saturating where the code stops telling values apart, so that a         *)
(* behaviour may last for ever in a finite state space.                    *)
(***************************************************************************)
EXTENDS Integers, FiniteSets

CONSTANTS
    Jobs,               \* the UUIDs that may be drawn for a new row
    KindOf, KeyOf,      \* the kind and the deduplication key a row is inserted with
    NoKey,              \* deduplication_key IS NULL
    FederationKinds,    \* kinds whose name starts with "federation_"
    EscapingKinds,      \* kinds whose handler errors leave worker_iteration by `?`
    PurgeKinds,         \* account_purge, cancelled without releasing the claim
    ScheduledKinds,     \* scheduled_status_publish, whose owner moves run_after
    PollKinds,          \* poll_update, whose requests bring run_after forward
    MediaKinds,         \* federation_remote_media_fetch, claimable by key
    Procs,              \* operating-system processes
    Embedded,           \* those started as `serve --with-worker`
    Slots,              \* worker loops of all pools
    HttpTasks,          \* tasks spawned by cold-cache media requests
    ProcOf,             \* the process of a loop or task
    Knows,              \* the job kinds a process's binary can decode
    Claims, NoClaim,    \* JobClaimId UUIDs and NULL
    NoHold,             \* a loop that holds no ClaimedJob
    Delays,             \* the distances of run_after callers ask for
    ClaimTtl, MaxAge, SuccessRetention, FailureRetention, BatchSize,
    ExponentCap, BackoffCap,
    MaxAttempts,        \* bound: retryable errors per job
    MaxFaults           \* bound: crashes, shutdowns and database errors

Workers == Slots \cup HttpTasks
Retention == IF SuccessRetention < FailureRetention THEN FailureRetention
                                                    ELSE SuccessRetention
Statuses == {"unborn", "active", "done", "failed", "deleted"}

ASSUME QueueAssumption ==
    /\ NoClaim \notin Claims
    /\ NoHold \notin [job : Jobs, claim : Claims, attempts : Nat]
    /\ Slots \cap HttpTasks = {}
    /\ \A w \in Workers : ProcOf[w] \in Procs
    /\ Embedded \subseteq Procs
    /\ PurgeKinds \subseteq EscapingKinds /\ PurgeKinds \cap FederationKinds = {}
    /\ Delays \subseteq Nat
    /\ ClaimTtl \in Nat /\ MaxAge \in Nat
    /\ SuccessRetention \in Nat \ {0} /\ FailureRetention \in Nat \ {0}
    /\ BatchSize \in Nat \ {0}
    /\ ExponentCap \in Nat /\ BackoffCap \in Nat \ {0}
    /\ MaxAttempts \in Nat /\ MaxFaults \in Nat

VARIABLES
    job,      \* the job table: [Jobs -> Row]
    pc,       \* where each worker loop or media task is
    held,     \* the ClaimedJob it works on
    proc,     \* whether a process runs, was told to stop, or has ended
    faults,   \* crashes, shutdowns and database errors so far
    orphans,  \* history: jobs whose lease lost its holder to a crash or an abort
    unheard   \* history: jobs with a handler error that no row records

vars == <<job, pc, held, proc, faults, orphans, unheard>>
-----------------------------------------------------------------------------
Row == [st : Statuses, wait : Nat, attempts : Nat,
        claim : Claims \cup {NoClaim}, locked : Nat, age : Nat, over : Nat]

Unborn == [st |-> "unborn", wait |-> 0, attempts |-> 0, claim |-> NoClaim,
           locked |-> 0, age |-> 0, over |-> 0]

TypeOK ==
    /\ job \in [Jobs -> Row]
    /\ pc \in [Workers -> {"poll", "run", "ok", "error", "permanent", "stopped"}]
    /\ held \in [Workers -> [job : Jobs, claim : Claims, attempts : Nat] \cup {NoHold}]
    /\ proc \in [Procs -> {"up", "stopping", "ended"}]
    /\ faults \in Nat
    /\ orphans \subseteq Jobs
    /\ unheard \subseteq Jobs

Init ==
    /\ job = [j \in Jobs |-> Unborn]
    /\ pc = [w \in Workers |-> "poll"]
    /\ held = [w \in Workers |-> NoHold]
    /\ proc = [p \in Procs |-> "up"]
    /\ faults = 0
    /\ orphans = {}
    /\ unheard = {}
-----------------------------------------------------------------------------
Active(j) == job[j].st = "active"
SameKey(i, j) == KeyOf[i] # NoKey /\ KeyOf[i] = KeyOf[j] /\ KindOf[i] = KindOf[j]

\* The claim of worker w is still the one stored in its row.
Current(w) == held[w] # NoHold /\ job[held[w].job].claim = held[w].claim

\* A new UUID: no row and no running holder refers to it.
Fresh(c) == /\ \A j \in Jobs : job[j].claim # c
            /\ \A w \in Workers : held[w] # NoHold => held[w].claim # c

worker_state == <<pc, held, proc, faults, orphans, unheard>>

\* Mutant: the partial unique index ignores rows that are being worked on.
EnqueueJob_ClaimedRowsDoNotCount(j, d) ==
    /\ job[j].st = "unborn"
    /\ ~ \E i \in Jobs : Active(i) /\ SameKey(i, j) /\ job[i].claim = NoClaim
    /\ job' = [job EXCEPT ![j] = [Unborn EXCEPT !.st = "active", !.wait = d]]
    /\ UNCHANGED worker_state

\* INSERT ... ON CONFLICT DO UPDATE: an active row with the same kind and key
\* absorbs the request without changing; otherwise a row is inserted.
EnqueueJob(j, d) ==
    /\ job[j].st = "unborn"
    /\ ~ \E i \in Jobs : Active(i) /\ SameKey(i, j)
    /\ job' = [job EXCEPT ![j] = [Unborn EXCEPT !.st = "active", !.wait = d]]
    /\ UNCHANGED worker_state

\* The author moves a scheduled status, whether or not its job is claimed.
RescheduleJob(j, d) ==
    /\ Active(j)
    /\ KindOf[j] \in ScheduledKinds
    /\ job' = [job EXCEPT ![j].wait = d]
    /\ UNCHANGED worker_state

\* A poll tally request absorbed by an active job: LEAST(run_after, $1).
BringForward(j, d) ==
    /\ Active(j)
    /\ KindOf[j] \in PollKinds
    /\ job' = [job EXCEPT ![j].wait = IF d < @ THEN d ELSE @]
    /\ UNCHANGED worker_state

Claimed(row, c) == [row EXCEPT !.claim = c, !.locked = 0]
Released(row) == [row EXCEPT !.claim = NoClaim, !.locked = 0]
Retried(row, d) == [row EXCEPT !.attempts = @ + 1, !.wait = d]
Completed(row) == [row EXCEPT !.st = "done", !.over = 0]
GivenUp(row) == [row EXCEPT !.st = "failed", !.over = 0]

\* Mutant: cancelling leaves the claim in place.
CancelJob_KeepsClaim(j) ==
    /\ Active(j)
    /\ KindOf[j] \notin PurgeKinds
    /\ job' = [job EXCEPT ![j] = Completed(job[j])]
    /\ UNCHANGED worker_state

\* Work cancelled from outside: remote actor deleted, domain suspended,
\* scheduled status cancelled.
CancelJob(j) ==
    /\ Active(j)
    /\ KindOf[j] \notin PurgeKinds
    /\ job' = [job EXCEPT ![j] = Released(Completed(job[j]))]
    /\ UNCHANGED worker_state

\* Unsuspending an account completes its purge job but leaves the claim in place.
CancelAccountPurge(j) ==
    /\ Active(j)
    /\ KindOf[j] \in PurgeKinds
    /\ job' = [job EXCEPT ![j] = Completed(job[j])]
    /\ UNCHANGED worker_state
-----------------------------------------------------------------------------
\* Mutant: the lease is not looked at.
Claimable_IgnoresLease(j) ==
    /\ Active(j)
    /\ job[j].wait = 0

\* Mutant: a lease is never taken over.
Claimable_NoTakeover(j) ==
    /\ Active(j)
    /\ job[j].wait = 0
    /\ job[j].claim = NoClaim

Claimable(j) ==
    /\ Active(j)
    /\ job[j].wait = 0
    /\ job[j].claim = NoClaim \/ job[j].locked > ClaimTtl

\* Mutant: the attempt is counted when the job is claimed, after it was read.
TakeClaim_CountsAttempt(w, j, c) ==
    /\ Fresh(c)
    /\ job' = [job EXCEPT ![j] = Retried(Claimed(job[j], c), 0)]
    /\ held' = [held EXCEPT ![w] = [job |-> j, claim |-> c, attempts |-> job[j].attempts]]
    /\ pc' = [pc EXCEPT ![w] = "run"]
    /\ orphans' = orphans \ {j}
    /\ UNCHANGED <<proc, faults, unheard>>

TakeClaim(w, j, c) ==
    /\ Fresh(c)
    /\ job' = [job EXCEPT ![j] = Claimed(job[j], c)]
    /\ held' = [held EXCEPT ![w] = [job |-> j, claim |-> c, attempts |-> job[j].attempts]]
    /\ pc' = [pc EXCEPT ![w] = "run"]
    /\ orphans' = orphans \ {j}
    /\ UNCHANGED <<proc, faults, unheard>>

\* SKIP LOCKED passes over rows other transactions hold, so any claimable row
\* may be the one returned.
ClaimDueJob(w, j, c) ==
    /\ w \in Slots
    /\ pc[w] = "poll"
    /\ proc[ProcOf[w]] = "up"
    /\ KindOf[j] \in Knows[ProcOf[w]]
    /\ Claimable(j)
    /\ TakeClaim(w, j, c)

\* A media request claims the job of its own attachment, in a detached task
\* that graceful shutdown does not wait for.
ClaimDueJobByKey(w, j, c) ==
    /\ w \in HttpTasks
    /\ pc[w] = "poll"
    /\ KindOf[j] \in MediaKinds
    /\ Claimable(j)
    /\ TakeClaim(w, j, c)

\* The handler returns. Only federation handlers build the error text that
\* marks a permanent failure.
HandlerReturns(w, result) ==
    /\ pc[w] = "run"
    /\ LET j == held[w].job IN
         \/ result = "ok"
         \/ /\ result = "error"
            /\ KindOf[j] \notin EscapingKinds
            /\ job[j].attempts < MaxAttempts
         \/ /\ result = "permanent"
            /\ KindOf[j] \in FederationKinds
    /\ pc' = [pc EXCEPT ![w] = result]
    /\ UNCHANGED <<job, held, proc, faults, orphans, unheard>>

\* Mutant: the outcome is written by id alone.
Finish_WithoutClaim(w, row) ==
    /\ job' = [job EXCEPT ![held[w].job] = row]
    /\ held' = [held EXCEPT ![w] = NoHold]
    /\ pc' = [pc EXCEPT ![w] = "poll"]
    /\ UNCHANGED <<proc, faults, orphans, unheard>>

Finish(w, row) ==
    /\ job' = IF Current(w) THEN [job EXCEPT ![held[w].job] = row] ELSE job
    /\ held' = [held EXCEPT ![w] = NoHold]
    /\ pc' = [pc EXCEPT ![w] = "poll"]
    /\ UNCHANGED <<proc, faults, orphans, unheard>>

\* UPDATE ... WHERE id = $1 AND claim_id = $2: no row matches a lost lease.
MarkJobCompleted(w) ==
    /\ pc[w] = "ok"
    /\ Finish(w, Released(Completed(job[held[w].job])))

next_retry_delay(attempts) ==
    LET seconds == 2 ^ (IF attempts < ExponentCap THEN attempts ELSE ExponentCap)
    IN  IF seconds \in 0 .. BackoffCap THEN seconds ELSE BackoffCap

GivesUp(w) ==
    /\ KindOf[held[w].job] \in FederationKinds
    /\ pc[w] = "permanent" \/ job[held[w].job].age >= MaxAge

\* Mutant: the retry forgets to release the claim.
MarkJobFailed_KeepsClaim(w) ==
    /\ pc[w] \in {"error", "permanent"}
    /\ ~GivesUp(w)
    /\ Finish(w, Retried(job[held[w].job], next_retry_delay(held[w].attempts)))

\* The backoff uses the attempts read when the job was claimed, the counter is
\* incremented in the row.
MarkJobFailed(w) ==
    /\ pc[w] \in {"error", "permanent"}
    /\ ~GivesUp(w)
    /\ Finish(w, Released(Retried(job[held[w].job], next_retry_delay(held[w].attempts))))

MarkJobPermanentlyFailed(w) ==
    /\ pc[w] \in {"error", "permanent"}
    /\ GivesUp(w)
    /\ Finish(w, Released(GivenUp(job[held[w].job])))
-----------------------------------------------------------------------------
TasksOf(p) == {w \in Workers : ProcOf[w] = p}
LoopsOf(p) == TasksOf(p) \cap Slots

Drop(ws) ==
    /\ pc' = [w \in Workers |-> IF w \in ws THEN "stopped" ELSE pc[w]]
    /\ held' = [w \in Workers |-> IF w \in ws THEN NoHold ELSE held[w]]
    /\ orphans' = orphans \cup {held[w].job : w \in {v \in ws : Current(v)}}

\* Any `?` of worker_iteration ends worker_loop; worker_pool returns the error
\* and dropping its JoinSet aborts every other loop of the process. `worker`
\* then exits, while `serve` looks at the pool only once its listener is closed.
PoolFails(p) ==
    /\ faults < MaxFaults
    /\ IF p \in Embedded
         THEN Drop(LoopsOf(p)) /\ UNCHANGED proc
         ELSE Drop(TasksOf(p)) /\ proc' = [proc EXCEPT ![p] = "ended"]
    /\ faults' = faults + 1
    /\ UNCHANGED job

\* A statement of the loop itself fails: the claim or the record of an outcome.
DatabaseError(w) ==
    /\ w \in Slots
    /\ pc[w] \in {"poll", "ok", "error", "permanent"}
    /\ PoolFails(ProcOf[w])
    /\ UNCHANGED unheard

\* The handler of an escaping kind fails: the error is never written to the row.
HandlerEscapes(w) ==
    /\ w \in Slots
    /\ pc[w] = "run"
    /\ KindOf[held[w].job] \in EscapingKinds
    /\ PoolFails(ProcOf[w])
    /\ unheard' = unheard \cup {held[w].job}

\* The same failure in a detached media task is logged and the task ends.
MediaOutcomeLost(w) ==
    /\ w \in HttpTasks
    /\ pc[w] \in {"ok", "error", "permanent"}
    /\ faults < MaxFaults
    /\ pc' = [pc EXCEPT ![w] = "poll"]
    /\ held' = [held EXCEPT ![w] = NoHold]
    /\ orphans' = orphans \cup {held[v].job : v \in {u \in {w} : Current(u)}}
    /\ faults' = faults + 1
    /\ UNCHANGED <<job, proc, unheard>>

\* Ctrl-C: the loops see it at the top of their next iteration.
Shutdown(p) ==
    /\ proc[p] = "up"
    /\ faults < MaxFaults
    /\ proc' = [proc EXCEPT ![p] = "stopping"]
    /\ faults' = faults + 1
    /\ UNCHANGED <<job, pc, held, orphans, unheard>>

StopLoop(w) ==
    /\ w \in Slots
    /\ pc[w] = "poll"
    /\ proc[ProcOf[w]] = "stopping"
    /\ pc' = [pc EXCEPT ![w] = "stopped"]
    /\ UNCHANGED <<job, held, proc, faults, orphans, unheard>>

\* Mutant: the process does not wait for its loops.
Exit_WithoutWaiting(p) ==
    /\ proc[p] = "stopping"
    /\ Drop(TasksOf(p))
    /\ proc' = [proc EXCEPT ![p] = "ended"]
    /\ UNCHANGED <<job, faults, unheard>>

\* The pool has returned; the runtime is dropped and with it detached tasks.
Exit(p) ==
    /\ proc[p] = "stopping"
    /\ \A w \in LoopsOf(p) : pc[w] = "stopped"
    /\ Drop(TasksOf(p))
    /\ proc' = [proc EXCEPT ![p] = "ended"]
    /\ UNCHANGED <<job, faults, unheard>>

Crash(p) ==
    /\ proc[p] # "ended"
    /\ faults < MaxFaults
    /\ Drop(TasksOf(p))
    /\ proc' = [proc EXCEPT ![p] = "ended"]
    /\ faults' = faults + 1
    /\ UNCHANGED <<job, unheard>>

\* The supervisor (`restart: unless-stopped`) starts a process that ended.
Restart(p) ==
    /\ proc[p] = "ended"
    /\ proc' = [proc EXCEPT ![p] = "up"]
    /\ pc' = [w \in Workers |-> IF w \in TasksOf(p) THEN "poll" ELSE pc[w]]
    /\ held' = [w \in Workers |-> IF w \in TasksOf(p) THEN NoHold ELSE held[w]]
    /\ UNCHANGED <<job, faults, orphans, unheard>>
-----------------------------------------------------------------------------
Expired(j) ==
    \/ job[j].st = "done" /\ job[j].over >= SuccessRetention
    \/ job[j].st = "failed" /\ job[j].over >= FailureRetention

\* One batch of cleanup_expired_jobs.
CleanupExpiredJobs(batch) ==
    /\ batch # {}
    /\ Cardinality(batch) <= BatchSize
    /\ \A j \in batch : Expired(j)
    /\ job' = [j \in Jobs |-> IF j \in batch THEN [Unborn EXCEPT !.st = "deleted"]
                                             ELSE job[j]]
    /\ UNCHANGED worker_state

Upto(n, bound) == IF n < bound THEN n + 1 ELSE n

Elapse(row) ==
    CASE row.st = "active" ->
           [row EXCEPT !.wait = IF @ > 0 THEN @ - 1 ELSE 0,
                       !.locked = IF row.claim = NoClaim THEN 0 ELSE Upto(@, ClaimTtl + 1),
                       !.age = Upto(@, MaxAge)]
      [] row.st \in {"done", "failed"} -> [row EXCEPT !.over = Upto(@, Retention)]
      [] OTHER -> row

Tick ==
    /\ job' = [j \in Jobs |-> Elapse(job[j])]
    /\ UNCHANGED worker_state

WorkerStep(w) ==
    \/ \E j \in Jobs, c \in Claims : ClaimDueJob(w, j, c) \/ ClaimDueJobByKey(w, j, c)
    \/ \E result \in {"ok", "error", "permanent"} : HandlerReturns(w, result)
    \/ MarkJobCompleted(w) \/ MarkJobFailed(w) \/ MarkJobPermanentlyFailed(w)
    \/ StopLoop(w)

Next ==
    \/ \E j \in Jobs, d \in Delays : EnqueueJob(j, d) \/ RescheduleJob(j, d) \/ BringForward(j, d)
    \/ \E j \in Jobs : CancelJob(j) \/ CancelAccountPurge(j)
    \/ \E w \in Workers : WorkerStep(w)
    \/ \E w \in Workers : DatabaseError(w) \/ HandlerEscapes(w) \/ MediaOutcomeLost(w)
    \/ \E p \in Procs : Shutdown(p) \/ Exit(p) \/ Crash(p) \/ Restart(p)
    \/ \E batch \in SUBSET Jobs : CleanupExpiredJobs(batch)
    \/ Tick

Spec == Init /\ [][Next]_vars

\* Handlers return (their network calls have timeouts), time passes, a stopping
\* process ends and the supervisor restarts it. A media task runs only while a
\* client asks for the attachment, so no fairness is owed to its claim.
Fairness ==
    /\ \A w \in Slots : WF_vars(WorkerStep(w))
    /\ \A w \in HttpTasks :
         /\ WF_vars(\E result \in {"ok", "error", "permanent"} : HandlerReturns(w, result))
         /\ WF_vars(MarkJobCompleted(w) \/ MarkJobFailed(w) \/ MarkJobPermanentlyFailed(w))
    /\ \A p \in Procs : WF_vars(Exit(p)) /\ WF_vars(Restart(p))
    /\ WF_vars(Tick)

FairSpec == Spec /\ Fairness
-----------------------------------------------------------------------------
\* At most one active job per kind and deduplication key, whatever was claimed,
\* cancelled, failed or re-enqueued before (the partial unique index).
UniqueActiveKey ==
    \A i, j \in Jobs : i # j /\ SameKey(i, j) => ~(Active(i) /\ Active(j))

\* The attempts a worker read when it claimed are those still in the row while
\* its claim is current, so the backoff it computes belongs to this retry.
FreshSnapshot ==
    \A w \in Workers : Current(w) => held[w].attempts = job[held[w].job].attempts

\* A claim in the table always has a live holder, unless the holder was lost to
\* a crash or an aborted pool: no error path forgets to release a lease.
NoLeakedClaim ==
    \A j \in Jobs : job[j].claim # NoClaim =>
        j \in orphans \/ \E w \in Workers : Current(w) /\ held[w].job = j

\* Every other kind than those whose errors leave the loop by `?` (line 713 and
\* following of main.rs) has its failures in its row.
FailuresRecorded == \A j \in unheard : KindOf[j] \in EscapingKinds

\* No error path of a loop or of a media task forgets a lease or a failure: what
\* is left behind belongs to a crash, an ended pool or an escaping kind.
NothingForgotten == NoLeakedClaim /\ FailuresRecorded

\* An unexpired lease of a job that stays active is never taken by another
\* worker: the claim is only cleared, or left alone.
LeaseHonoured ==
    [][\A j \in Jobs :
         /\ Active(j) /\ Active(j)'
         /\ job[j].claim # NoClaim /\ job[j].locked <= ClaimTtl
         => job'[j].claim \in {job[j].claim, NoClaim}]_vars

\* What a worker that lost its lease reports is discarded: a row changes its
\* attempts or its outcome only by its current holder or by a cancellation.
StaleOutcomeDiscarded ==
    [][\A w \in Workers :
         held[w] # NoHold /\ ~Current(w) /\ held'[w] = NoHold => UNCHANGED job]_vars

\* Graceful shutdown finishes the jobs its loops hold: a process that ends
\* without a fault leaves no lease of a pool loop behind.
GracefulShutdown ==
    [][\A w \in Slots :
         proc[ProcOf[w]] = "stopping" /\ proc'[ProcOf[w]] = "ended" /\ faults' = faults
         => held[w] = NoHold]_vars

\* The table seen by the code that enqueues work.
Lifecycle == INSTANCE JobLifecycle WITH
    Duplicate <- SameKey,
    state <- [j \in Jobs |-> job[j].st],
    tries <- [j \in Jobs |-> job[j].attempts]

\* Workers, leases, crashes and clocks are invisible to it: the queue implements
\* the lifecycle (one active job per key, final outcomes, attempts counted by one).
ImplementsLifecycle == Lifecycle!Spec

\* Handlers outlive their lease: the code renews no lease, so a job whose handler
\* always needs more than the claim TTL is stolen for ever.
Overrun ==
    \E w \in Workers : held[w] # NoHold /\
        (Current(w) => job[held[w].job].locked > ClaimTtl)

\* Every enqueued job is eventually completed, cancelled or permanently failed,
\* across crashes, shutdowns, lost outcomes and retries, provided that handlers
\* finish within the lease.
EventuallySettled ==
    [](~Overrun) => \A j \in Jobs : Active(j) ~> ~Active(j)

=============================================================================
