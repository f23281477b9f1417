--------------------------- MODULE JobQueueProofs ---------------------------
(***************************************************************************)
(* Machine-checked proofs about JobQueue, for any number of jobs, workers, *)
(* processes and claims and any durations.                                 *)
(***************************************************************************)
EXTENDS JobQueue, TLAPS

Busy == {"run", "ok", "error", "permanent"}

\* A worker holds a ClaimedJob exactly while it works on one, and never has an
\* error of a purge to record (those errors end the pool).
HoldingWhileBusy ==
    \A w \in Workers :
        /\ pc[w] \in Busy <=> held[w] # NoHold
        /\ pc[w] \in {"error", "permanent"} => KindOf[held[w].job] \notin PurgeKinds

\* Every claim identifier is held by at most one worker (UUIDs are fresh).
ClaimsDistinct ==
    \A v, w \in Workers :
        held[v] # NoHold /\ held[w] # NoHold /\ held[v].claim = held[w].claim => v = w

\* A claimed row is being worked on, or is a purge completed under its worker;
\* rows outside the queue are blank.
RowShape ==
    \A j \in Jobs :
        /\ job[j].claim # NoClaim => \/ job[j].st = "active"
                                     \/ job[j].st = "done" /\ KindOf[j] \in PurgeKinds
        /\ job[j].st = "unborn" => job[j].attempts = 0

\* The inductive invariant.
IInv ==
    /\ TypeOK
    /\ HoldingWhileBusy
    /\ ClaimsDistinct
    /\ RowShape
    /\ UniqueActiveKey
    /\ FreshSnapshot

USE QueueAssumption
-----------------------------------------------------------------------------
\* The backoff stays within its cap.
LEMMA RetryDelayBounded ==
    ASSUME NEW n \in Nat
    PROVE  next_retry_delay(n) \in Nat
BY DEF next_retry_delay

\* Initial states satisfy the invariant.
LEMMA InitIInv == Init => IInv
<1> SUFFICES ASSUME Init PROVE IInv
  OBVIOUS
<1>1. TypeOK
  BY DEF Init, TypeOK, Unborn, Row, Statuses
<1>2. HoldingWhileBusy
  BY DEF Init, HoldingWhileBusy, Busy
<1>3. ClaimsDistinct /\ FreshSnapshot
  BY DEF Init, ClaimsDistinct, FreshSnapshot, Current
<1>4. RowShape /\ UniqueActiveKey
  BY DEF Init, RowShape, UniqueActiveKey, Active, Unborn
<1> QED
  BY <1>1, <1>2, <1>3, <1>4 DEF IInv

\* Steps that touch nothing but rows: what they must do to keep the invariant.
LEMMA RowStepIInv ==
    ASSUME IInv, UNCHANGED worker_state,
           job' \in [Jobs -> Row],
           \A j \in Jobs :
               /\ job'[j].claim \in {job[j].claim, NoClaim}
               /\ job'[j].claim # NoClaim => job'[j].attempts = job[j].attempts,
           RowShape', UniqueActiveKey'
    PROVE  IInv'
<1>1. TypeOK'
  BY DEF IInv, TypeOK, worker_state
<1>2. HoldingWhileBusy' /\ ClaimsDistinct'
  BY DEF IInv, HoldingWhileBusy, ClaimsDistinct, worker_state
<1>3. FreshSnapshot'
  <2> SUFFICES ASSUME NEW w \in Workers, Current(w)'
               PROVE  held'[w].attempts = job'[held'[w].job].attempts
    BY DEF FreshSnapshot
  <2>1. held' = held /\ held[w] # NoHold /\ held[w].job \in Jobs /\ held[w].claim \in Claims
    BY DEF Current, worker_state, IInv, TypeOK
  <2>2. job'[held[w].job].claim = held[w].claim /\ held[w].claim # NoClaim
    BY <2>1 DEF Current
  <2>3. Current(w)
    BY <2>1, <2>2 DEF Current
  <2> QED
    BY <2>1, <2>2, <2>3 DEF IInv, FreshSnapshot
<1> QED
  BY <1>1, <1>2, <1>3 DEF IInv

LEMMA EnqueueIInv ==
    ASSUME IInv, NEW j \in Jobs, NEW d \in Delays, EnqueueJob(j, d)
    PROVE  IInv'
<1>1. job' \in [Jobs -> Row]
  BY DEF IInv, TypeOK, EnqueueJob, Unborn, Row, Statuses
<1>2. \A i \in Jobs : /\ job'[i].claim \in {job[i].claim, NoClaim}
                      /\ job'[i].claim # NoClaim => job'[i].attempts = job[i].attempts
  BY DEF IInv, TypeOK, EnqueueJob, Unborn, Row
<1>3. RowShape'
  BY DEF IInv, TypeOK, EnqueueJob, Unborn, RowShape, Row
<1>4. UniqueActiveKey'
  BY DEF IInv, TypeOK, EnqueueJob, Unborn, UniqueActiveKey, Active, SameKey, Row
<1> QED
  BY <1>1, <1>2, <1>3, <1>4, RowStepIInv DEF EnqueueJob

LEMMA RescheduleIInv ==
    ASSUME IInv, NEW j \in Jobs, NEW d \in Delays, RescheduleJob(j, d) \/ BringForward(j, d)
    PROVE  IInv'
<1>1. PICK t \in Nat : job' = [job EXCEPT ![j].wait = t]
  BY DEF IInv, TypeOK, RescheduleJob, BringForward, Row
<1>2. job' \in [Jobs -> Row]
  BY <1>1 DEF IInv, TypeOK, Row
<1>3. \A i \in Jobs : /\ job'[i].claim = job[i].claim
                      /\ job'[i].attempts = job[i].attempts
                      /\ job'[i].st = job[i].st
  BY <1>1 DEF IInv, TypeOK, Row
<1>4. RowShape' /\ UniqueActiveKey'
  BY <1>3 DEF IInv, RowShape, UniqueActiveKey, Active, SameKey
<1>5. UNCHANGED worker_state
  BY DEF RescheduleJob, BringForward
<1> QED
  BY <1>2, <1>3, <1>4, <1>5, RowStepIInv

\* What completing and releasing do to a row.
LEMMA RowUpdates ==
    ASSUME NEW row \in Row
    PROVE  /\ Completed(row) \in Row
           /\ Completed(row).st = "done"
           /\ Completed(row).claim = row.claim
           /\ Completed(row).attempts = row.attempts
           /\ Released(row) \in Row
           /\ Released(row).st = row.st
           /\ Released(row).claim = NoClaim
           /\ Released(row).attempts = row.attempts
BY DEF Completed, Released, Row, Statuses

LEMMA RowClaimed ==
    ASSUME NEW row \in Row, NEW c \in Claims
    PROVE  /\ Claimed(row, c) \in Row
           /\ Claimed(row, c).claim = c
           /\ Claimed(row, c).st = row.st
           /\ Claimed(row, c).attempts = row.attempts
<1>1. c \in Claims \cup {NoClaim}
  OBVIOUS
<1>2. Claimed(row, c) \in Row
  BY <1>1 DEF Claimed, Row
<1>3. /\ Claimed(row, c).claim = c
      /\ Claimed(row, c).st = row.st
      /\ Claimed(row, c).attempts = row.attempts
  BY DEF Claimed, Row
<1> QED
  BY <1>2, <1>3

LEMMA RowRetried ==
    ASSUME NEW row \in Row, NEW d \in Nat
    PROVE  /\ Retried(row, d) \in Row
           /\ Retried(row, d).st = row.st
           /\ Retried(row, d).attempts = row.attempts + 1
<1> DEFINE n == row.attempts + 1
<1>1. n \in Nat
  BY DEF Row
<1>2. Retried(row, d) = [row EXCEPT !.attempts = n, !.wait = d]
  BY DEF Retried
<1> HIDE DEF n
<1>3. /\ Retried(row, d) \in Row
      /\ Retried(row, d).st = row.st
      /\ Retried(row, d).attempts = n
  BY <1>1, <1>2 DEF Row
<1> QED
  BY <1>3 DEF n

LEMMA CancelIInv ==
    ASSUME IInv, NEW j \in Jobs, CancelJob(j) \/ CancelAccountPurge(j)
    PROVE  IInv'
<1> job[j] \in Row /\ job[j].st = "active" /\ job \in [Jobs -> Row]
  BY DEF IInv, TypeOK, CancelJob, CancelAccountPurge, Active
<1>1. PICK row \in Row :
        /\ job' = [job EXCEPT ![j] = row]
        /\ row.st = "done" /\ row.attempts = job[j].attempts
        /\ \/ row.claim = NoClaim
           \/ row.claim = job[j].claim /\ KindOf[j] \in PurgeKinds
  <2>1. CASE CancelJob(j)
    <3>1. Completed(job[j]) \in Row /\ Completed(job[j]).st = "done"
          /\ Completed(job[j]).attempts = job[j].attempts
      BY RowUpdates
    <3> DEFINE row == Released(Completed(job[j]))
    <3>2. row \in Row /\ row.st = "done" /\ row.claim = NoClaim
          /\ row.attempts = job[j].attempts
      BY <3>1, RowUpdates
    <3>3. job' = [job EXCEPT ![j] = row]
      BY <2>1 DEF CancelJob
    <3> QED
      BY <3>2, <3>3
  <2>2. CASE CancelAccountPurge(j)
    BY <2>2, RowUpdates DEF CancelAccountPurge
  <2> QED
    BY <2>1, <2>2
<1>2. job' \in [Jobs -> Row]
  BY <1>1
<1>3. \A i \in Jobs : /\ job'[i].claim \in {job[i].claim, NoClaim}
                      /\ job'[i].attempts = job[i].attempts
                      /\ job'[i].st = "active" => job[i].st = "active"
  BY <1>1
<1>4. RowShape'
  BY <1>1 DEF IInv, RowShape
<1>5. UniqueActiveKey'
  BY <1>3 DEF IInv, UniqueActiveKey, Active, SameKey
<1>6. UNCHANGED worker_state
  BY DEF CancelJob, CancelAccountPurge
<1> QED
  BY <1>2, <1>3, <1>4, <1>5, <1>6, RowStepIInv

LEMMA CleanupIInv ==
    ASSUME IInv, NEW batch \in SUBSET Jobs, CleanupExpiredJobs(batch)
    PROVE  IInv'
<1>1. job' \in [Jobs -> Row]
  BY DEF IInv, TypeOK, CleanupExpiredJobs, Unborn, Row, Statuses
<1>2. \A i \in Jobs : /\ job'[i].claim \in {job[i].claim, NoClaim}
                      /\ job'[i].claim # NoClaim => job'[i].attempts = job[i].attempts
                      /\ job'[i].st = "active" => job[i].st = "active"
  BY DEF IInv, TypeOK, CleanupExpiredJobs, Unborn, Row
<1>3. RowShape'
  BY DEF IInv, TypeOK, CleanupExpiredJobs, Unborn, RowShape, Row
<1>4. UniqueActiveKey'
  BY <1>2 DEF IInv, UniqueActiveKey, Active, SameKey
<1> QED
  BY <1>1, <1>2, <1>3, <1>4, RowStepIInv DEF CleanupExpiredJobs

\* The passage of time moves no claim, attempt or status.
LEMMA ElapseKeeps ==
    ASSUME NEW row \in Row
    PROVE  /\ Elapse(row) \in Row
           /\ Elapse(row).claim = row.claim
           /\ Elapse(row).attempts = row.attempts
           /\ Elapse(row).st = row.st
<1>1. CASE row.st = "active"
  <2> DEFINE w == IF row.wait > 0 THEN row.wait - 1 ELSE 0
             l == IF row.claim = NoClaim THEN 0 ELSE Upto(row.locked, ClaimTtl + 1)
             a == Upto(row.age, MaxAge)
  <2>1. w \in Nat /\ l \in Nat /\ a \in Nat
    BY DEF Upto, Row
  <2>2. Elapse(row) = [row EXCEPT !.wait = w, !.locked = l, !.age = a]
    BY <1>1 DEF Elapse
  <2> HIDE DEF w, l, a
  <2> QED
    BY <2>1, <2>2 DEF Row
<1>2. CASE row.st \in {"done", "failed"}
  BY <1>2 DEF Elapse, Upto, Row
<1>3. CASE row.st \notin {"active", "done", "failed"}
  BY <1>3 DEF Elapse, Row
<1> QED
  BY <1>1, <1>2, <1>3

LEMMA TickIInv ==
    ASSUME IInv, Tick
    PROVE  IInv'
<1>1. \A i \in Jobs : /\ job'[i] \in Row
                      /\ job'[i].claim = job[i].claim
                      /\ job'[i].attempts = job[i].attempts
                      /\ job'[i].st = job[i].st
  BY ElapseKeeps DEF IInv, TypeOK, Tick
<1>2. job' \in [Jobs -> Row]
  BY <1>1 DEF Tick
<1>3. RowShape' /\ UniqueActiveKey'
  BY <1>1 DEF IInv, RowShape, UniqueActiveKey, Active, SameKey
<1> QED
  BY <1>1, <1>2, <1>3, RowStepIInv DEF Tick

LEMMA ClaimIInv ==
    ASSUME IInv, NEW w \in Workers, NEW j \in Jobs, NEW c \in Claims,
           ClaimDueJob(w, j, c) \/ ClaimDueJobByKey(w, j, c)
    PROVE  IInv'
<1>1. TakeClaim(w, j, c) /\ job[j].st = "active"
  BY DEF ClaimDueJob, ClaimDueJobByKey, Claimable, Active
<1> DEFINE h == [job |-> j, claim |-> c, attempts |-> job[j].attempts]
<1>2. /\ job \in [Jobs -> Row]
      /\ held \in [Workers -> [job : Jobs, claim : Claims, attempts : Nat] \cup {NoHold}]
      /\ h \in [job : Jobs, claim : Claims, attempts : Nat] /\ h # NoHold
      /\ h.job = j /\ h.claim = c /\ h.attempts = job[j].attempts
  BY DEF IInv, TypeOK, Row
<1>3. held' = [held EXCEPT ![w] = h] /\ pc' = [pc EXCEPT ![w] = "run"]
  BY <1>1 DEF TakeClaim
<1>4. /\ job' \in [Jobs -> Row]
      /\ \A i \in Jobs : /\ job'[i].st = job[i].st
                         /\ job'[i].attempts = job[i].attempts
                         /\ i # j => job'[i].claim = job[i].claim
      /\ job'[j].claim = c
  <2> DEFINE new == Claimed(job[j], c)
  <2>1. /\ new \in Row /\ new.claim = c
        /\ new.st = job[j].st /\ new.attempts = job[j].attempts
    BY <1>2, RowClaimed
  <2>2. job' = [job EXCEPT ![j] = new]
    BY <1>1 DEF TakeClaim
  <2> QED
    BY <1>2, <2>1, <2>2
<1> HIDE DEF h
<1>5. TypeOK'
  BY <1>1, <1>2, <1>3, <1>4 DEF IInv, TypeOK, TakeClaim
<1>6. HoldingWhileBusy'
  BY <1>2, <1>3 DEF IInv, TypeOK, HoldingWhileBusy, Busy
<1>7. ClaimsDistinct'
  BY <1>1, <1>2, <1>3 DEF IInv, ClaimsDistinct, TakeClaim, Fresh
<1>8. RowShape' /\ UniqueActiveKey'
  BY <1>1, <1>4 DEF IInv, RowShape, UniqueActiveKey, Active, SameKey
<1>9. FreshSnapshot'
  BY <1>1, <1>2, <1>3, <1>4 DEF IInv, FreshSnapshot, Current, TakeClaim, Fresh
<1> QED
  BY <1>5, <1>6, <1>7, <1>8, <1>9 DEF IInv

LEMMA HandlerReturnsIInv ==
    ASSUME IInv, NEW w \in Workers, NEW result \in {"ok", "error", "permanent"},
           HandlerReturns(w, result)
    PROVE  IInv'
<1>1. TypeOK'
  BY DEF IInv, TypeOK, HandlerReturns
<1>2. HoldingWhileBusy'
  BY DEF IInv, TypeOK, HandlerReturns, HoldingWhileBusy, Busy
<1>3. ClaimsDistinct' /\ FreshSnapshot'
  BY DEF IInv, HandlerReturns, ClaimsDistinct, FreshSnapshot, Current
<1>4. RowShape' /\ UniqueActiveKey'
  BY DEF IInv, HandlerReturns, RowShape, UniqueActiveKey, Active, SameKey
<1> QED
  BY <1>1, <1>2, <1>3, <1>4 DEF IInv

\* Recording an outcome, whatever row it writes, as long as that row is released
\* and makes no job active.
LEMMA FinishIInv ==
    ASSUME IInv, NEW w \in Workers, pc[w] \in Busy, NEW row \in Row, Finish(w, row),
           row.claim = NoClaim,
           Current(w) => row.st # "unborn",
           row.st = "active" => job[held[w].job].st = "active"
    PROVE  IInv'
<1>1. held[w] # NoHold /\ held[w].job \in Jobs
  BY DEF IInv, TypeOK, HoldingWhileBusy
<1>2. /\ job \in [Jobs -> Row] /\ job' \in [Jobs -> Row]
      /\ \A i \in Jobs : \/ job'[i] = job[i]
                         \/ i = held[w].job /\ job'[i] = row /\ Current(w)
  <2>1. job \in [Jobs -> Row]
    BY DEF IInv, TypeOK
  <2>2. CASE Current(w)
    <3>1. job' = [job EXCEPT ![held[w].job] = row]
      BY <2>2 DEF Finish
    <3> QED
      BY <1>1, <2>1, <2>2, <3>1
  <2>3. CASE ~Current(w)
    BY <2>1, <2>3 DEF Finish
  <2> QED
    BY <2>2, <2>3
<1>3. TypeOK'
  BY <1>2 DEF IInv, TypeOK, Finish
<1>4. HoldingWhileBusy' /\ ClaimsDistinct'
  BY DEF IInv, TypeOK, Finish, HoldingWhileBusy, ClaimsDistinct, Busy
<1>5. RowShape'
  BY <1>2 DEF IInv, RowShape
<1>6. UniqueActiveKey'
  BY <1>1, <1>2 DEF IInv, UniqueActiveKey, Active, SameKey
<1>7. FreshSnapshot'
  <2> SUFFICES ASSUME NEW v \in Workers, Current(v)'
               PROVE  held'[v].attempts = job'[held'[v].job].attempts
    BY DEF FreshSnapshot
  <2>1. v # w /\ held'[v] = held[v] /\ held[v] # NoHold
    BY DEF Current, Finish, IInv, TypeOK
  <2>2. held[v].job \in Jobs /\ held[v].claim \in Claims
    BY <2>1 DEF IInv, TypeOK
  <2>3. job'[held[v].job] = job[held[v].job]
    BY <1>2, <2>1, <2>2 DEF Current
  <2> QED
    BY <2>1, <2>3 DEF Current, IInv, FreshSnapshot
<1> QED
  BY <1>3, <1>4, <1>5, <1>6, <1>7 DEF IInv

\* The row each of the three outcomes writes.
LEMMA OutcomeRows ==
    ASSUME IInv, NEW w \in Workers, pc[w] \in Busy
    PROVE  /\ held[w].job \in Jobs /\ job[held[w].job] \in Row
           /\ LET row == Released(Completed(job[held[w].job])) IN
                /\ row \in Row /\ row.claim = NoClaim /\ row.st = "done"
                /\ row.attempts = job[held[w].job].attempts
           /\ LET row == Released(Retried(job[held[w].job], next_retry_delay(held[w].attempts))) IN
                /\ row \in Row /\ row.claim = NoClaim
                /\ row.st = job[held[w].job].st
                /\ row.attempts = job[held[w].job].attempts + 1
           /\ LET row == Released(GivenUp(job[held[w].job])) IN
                /\ row \in Row /\ row.claim = NoClaim /\ row.st = "failed"
                /\ row.attempts = job[held[w].job].attempts
<1> DEFINE r == job[held[w].job]
           failed == Retried(r, next_retry_delay(held[w].attempts))
           perm == GivenUp(r)
<1>1. held[w].job \in Jobs /\ held[w].attempts \in Nat /\ r \in Row
  BY DEF IInv, TypeOK, HoldingWhileBusy
<1>2. Completed(r) \in Row /\ Completed(r).st = "done" /\ Completed(r).attempts = r.attempts
  BY <1>1, RowUpdates
<1>3. failed \in Row /\ failed.st = r.st /\ failed.attempts = r.attempts + 1
  <2> DEFINE d == next_retry_delay(held[w].attempts)
  <2>1. d \in Nat
    BY <1>1, RetryDelayBounded
  <2> HIDE DEF r
  <2> QED
    BY <1>1, <2>1, RowRetried
<1>4. perm \in Row /\ perm.st = "failed" /\ perm.attempts = r.attempts
  BY <1>1 DEF GivenUp, Row, Statuses
<1> HIDE DEF r, failed, perm
<1>5. /\ Released(Completed(r)) \in Row /\ Released(Completed(r)).claim = NoClaim
      /\ Released(Completed(r)).st = "done" /\ Released(Completed(r)).attempts = r.attempts
  BY <1>2, RowUpdates
<1>6. /\ Released(failed) \in Row /\ Released(failed).claim = NoClaim
      /\ Released(failed).st = r.st /\ Released(failed).attempts = r.attempts + 1
  BY <1>3, RowUpdates
<1>7. /\ Released(perm) \in Row /\ Released(perm).claim = NoClaim
      /\ Released(perm).st = "failed" /\ Released(perm).attempts = r.attempts
  BY <1>4, RowUpdates
<1> QED
  BY <1>1, <1>5, <1>6, <1>7 DEF r, failed, perm

LEMMA OutcomeIInv ==
    ASSUME IInv, NEW w \in Workers,
           MarkJobCompleted(w) \/ MarkJobFailed(w) \/ MarkJobPermanentlyFailed(w)
    PROVE  IInv'
<1>1. pc[w] \in Busy
  BY DEF MarkJobCompleted, MarkJobFailed, MarkJobPermanentlyFailed, Busy
<1>2. held[w] # NoHold /\ held[w].job \in Jobs /\ held[w].claim \in Claims
  BY <1>1 DEF IInv, TypeOK, HoldingWhileBusy
<1>3. Current(w) => job[held[w].job].st # "unborn"
  BY <1>2 DEF IInv, RowShape, Current
<1>4. CASE MarkJobCompleted(w)
  BY <1>1, <1>4, OutcomeRows, FinishIInv DEF MarkJobCompleted
<1>5. CASE MarkJobFailed(w)
  BY <1>1, <1>3, <1>5, OutcomeRows, FinishIInv DEF MarkJobFailed
<1>6. CASE MarkJobPermanentlyFailed(w)
  BY <1>1, <1>6, OutcomeRows, FinishIInv DEF MarkJobPermanentlyFailed
<1> QED
  BY <1>4, <1>5, <1>6

\* Steps that leave the table alone and only take holds away.
LEMMA DropIInv ==
    ASSUME IInv, TypeOK', UNCHANGED job, HoldingWhileBusy',
           \A w \in Workers : held'[w] \in {held[w], NoHold}
    PROVE  IInv'
<1>1. ClaimsDistinct'
  BY DEF IInv, ClaimsDistinct
<1>2. FreshSnapshot'
  BY DEF IInv, FreshSnapshot, Current
<1>3. RowShape' /\ UniqueActiveKey'
  BY DEF IInv, RowShape, UniqueActiveKey, Active, SameKey
<1> QED
  BY <1>1, <1>2, <1>3 DEF IInv

\* The tasks of a process vanish.
LEMMA DropFacts ==
    ASSUME IInv, NEW ws \in SUBSET Workers, Drop(ws)
    PROVE  /\ pc' \in [Workers -> {"poll", "run", "ok", "error", "permanent", "stopped"}]
           /\ held' \in [Workers -> [job : Jobs, claim : Claims, attempts : Nat] \cup {NoHold}]
           /\ orphans' \subseteq Jobs
           /\ HoldingWhileBusy'
           /\ \A w \in Workers : held'[w] \in {held[w], NoHold}
<1>1. \A w \in Workers : held'[w] \in {held[w], NoHold}
  BY DEF Drop
<1>2. /\ pc' \in [Workers -> {"poll", "run", "ok", "error", "permanent", "stopped"}]
      /\ held' \in [Workers -> [job : Jobs, claim : Claims, attempts : Nat] \cup {NoHold}]
  BY DEF Drop, IInv, TypeOK
<1>3. orphans' \subseteq Jobs
  BY DEF Drop, IInv, TypeOK, Current
<1>4. HoldingWhileBusy'
  BY DEF Drop, IInv, HoldingWhileBusy, Busy
<1> QED
  BY <1>1, <1>2, <1>3, <1>4

LEMMA PoolFailsIInv ==
    ASSUME IInv, NEW w \in Workers, DatabaseError(w) \/ HandlerEscapes(w)
    PROVE  IInv'
<1>1. PoolFails(ProcOf[w])
  BY DEF DatabaseError, HandlerEscapes
<1>2. PICK ws \in SUBSET Workers : Drop(ws)
  <2>1. LoopsOf(ProcOf[w]) \in SUBSET Workers /\ TasksOf(ProcOf[w]) \in SUBSET Workers
    BY DEF LoopsOf, TasksOf
  <2> QED
    BY <1>1, <2>1 DEF PoolFails
<1>3. unheard' \subseteq Jobs
  <2>1. CASE DatabaseError(w)
    BY <2>1 DEF DatabaseError, IInv, TypeOK
  <2>2. CASE HandlerEscapes(w)
    <3>1. held[w].job \in Jobs
      BY <2>2 DEF HandlerEscapes, IInv, TypeOK, HoldingWhileBusy, Busy
    <3> QED
      BY <2>2, <3>1 DEF HandlerEscapes, IInv, TypeOK
  <2> QED
    BY <2>1, <2>2
<1>4. TypeOK'
  BY <1>1, <1>2, <1>3, DropFacts DEF IInv, TypeOK, PoolFails
<1> QED
  BY <1>1, <1>2, <1>4, DropFacts, DropIInv DEF PoolFails

LEMMA MediaOutcomeLostIInv ==
    ASSUME IInv, NEW w \in Workers, MediaOutcomeLost(w)
    PROVE  IInv'
<1>1. \A v \in Workers : held'[v] \in {held[v], NoHold}
  BY DEF MediaOutcomeLost, IInv, TypeOK
<1>2. HoldingWhileBusy'
  BY DEF MediaOutcomeLost, IInv, TypeOK, HoldingWhileBusy, Busy
<1>3. orphans' \subseteq Jobs
  BY DEF MediaOutcomeLost, IInv, TypeOK, Current
<1>4. TypeOK'
  BY <1>3 DEF MediaOutcomeLost, IInv, TypeOK
<1> QED
  BY <1>1, <1>2, <1>4, DropIInv DEF MediaOutcomeLost

LEMMA ProcessIInv ==
    ASSUME IInv, NEW p \in Procs, Shutdown(p) \/ Exit(p) \/ Crash(p) \/ Restart(p)
    PROVE  IInv'
<1>0. TasksOf(p) \in SUBSET Workers
  BY DEF TasksOf
<1>1. CASE Shutdown(p)
  <2>1. TypeOK' /\ HoldingWhileBusy'
    BY <1>1 DEF Shutdown, IInv, TypeOK, HoldingWhileBusy
  <2> QED
    BY <1>1, <2>1, DropIInv DEF Shutdown
<1>2. CASE Exit(p) \/ Crash(p)
  <2>1. Drop(TasksOf(p)) /\ UNCHANGED job
    BY <1>2 DEF Exit, Crash
  <2>2. TypeOK'
    BY <1>0, <1>2, <2>1, DropFacts DEF Exit, Crash, IInv, TypeOK
  <2> QED
    BY <1>0, <2>1, <2>2, DropFacts, DropIInv
<1>3. CASE Restart(p)
  <2>1. TypeOK'
    BY <1>3 DEF Restart, IInv, TypeOK
  <2>2. HoldingWhileBusy'
    BY <1>3 DEF Restart, IInv, HoldingWhileBusy, Busy
  <2> QED
    BY <1>3, <2>1, <2>2, DropIInv DEF Restart
<1> QED
  BY <1>1, <1>2, <1>3

LEMMA StopLoopIInv ==
    ASSUME IInv, NEW w \in Workers, StopLoop(w)
    PROVE  IInv'
<1>1. TypeOK' /\ HoldingWhileBusy'
  BY DEF StopLoop, IInv, TypeOK, HoldingWhileBusy, Busy
<1> QED
  BY <1>1, DropIInv DEF StopLoop

\* Every step of the queue, or none, preserves the invariant.
LEMMA NextIInv == IInv /\ [Next]_vars => IInv'
<1> SUFFICES ASSUME IInv, [Next]_vars PROVE IInv'
  OBVIOUS
<1>1. ASSUME NEW j \in Jobs, NEW d \in Delays,
             EnqueueJob(j, d) \/ RescheduleJob(j, d) \/ BringForward(j, d)
      PROVE  IInv'
  BY <1>1, EnqueueIInv, RescheduleIInv
<1>2. ASSUME NEW j \in Jobs, CancelJob(j) \/ CancelAccountPurge(j)
      PROVE  IInv'
  BY <1>2, CancelIInv
<1>3. ASSUME NEW w \in Workers, WorkerStep(w)
      PROVE  IInv'
  BY <1>3, ClaimIInv, HandlerReturnsIInv, OutcomeIInv, StopLoopIInv DEF WorkerStep
<1>4. ASSUME NEW w \in Workers, DatabaseError(w) \/ HandlerEscapes(w) \/ MediaOutcomeLost(w)
      PROVE  IInv'
  BY <1>4, PoolFailsIInv, MediaOutcomeLostIInv
<1>5. ASSUME NEW p \in Procs, Shutdown(p) \/ Exit(p) \/ Crash(p) \/ Restart(p)
      PROVE  IInv'
  BY <1>5, ProcessIInv
<1>6. ASSUME NEW batch \in SUBSET Jobs, CleanupExpiredJobs(batch)
      PROVE  IInv'
  BY <1>6, CleanupIInv
<1>7. CASE Tick
  BY <1>7, TickIInv
<1>8. CASE UNCHANGED vars
  <2>1. TypeOK' /\ HoldingWhileBusy'
    BY <1>8 DEF vars, IInv, TypeOK, HoldingWhileBusy
  <2> QED
    BY <1>8, <2>1, DropIInv DEF vars
<1> QED
  BY <1>1, <1>2, <1>3, <1>4, <1>5, <1>6, <1>7, <1>8 DEF Next

\* The inductive invariant holds in every reachable state of the job queue.
THEOREM Invariance == Spec => []IInv
BY InitIInv, NextIInv, PTL DEF Spec

\* Every reachable state of the job table, of the worker loops and of the
\* processes is well typed.
THEOREM TypeCorrect == Spec => []TypeOK
<1>1. IInv => TypeOK
  BY DEF IInv
<1> QED
  BY <1>1, Invariance, PTL

\* Deduplication: at most one active job per kind and key, for any number of
\* jobs and workers.
THEOREM Deduplication == Spec => []UniqueActiveKey
<1>1. IInv => UniqueActiveKey
  BY DEF IInv
<1> QED
  BY <1>1, Invariance, PTL

\* The attempts a holder snapshots are those of its row while it holds the claim.
THEOREM SnapshotFresh == Spec => []FreshSnapshot
<1>1. IInv => FreshSnapshot
  BY DEF IInv
<1> QED
  BY <1>1, Invariance, PTL
-----------------------------------------------------------------------------
\* The table as a whole: how one step may change it. Claims appear only on
\* claimable rows; attempts and statuses move as in JobLifecycle.
Keeps(i) ==
    /\ job'[i].st = job[i].st
    /\ job'[i].attempts = job[i].attempts

OnlyClears(i) == job'[i].claim \in {job[i].claim, NoClaim}

Claiming(j) == Claimable(j) /\ \A i \in Jobs : Keeps(i) /\ (i # j => OnlyClears(i))

Inserting(j) ==
    /\ job[j].st = "unborn" /\ job'[j].st = "active"
    /\ ~ \E i \in Jobs : Active(i) /\ SameKey(i, j)
    /\ job'[j].attempts = job[j].attempts
    /\ \A i \in Jobs : OnlyClears(i) /\ (i # j => Keeps(i))

Retrying(j) ==
    /\ job[j].st = "active"
    /\ job'[j].st = job[j].st /\ job'[j].attempts = job[j].attempts + 1
    /\ \A i \in Jobs : OnlyClears(i) /\ (i # j => Keeps(i))

Settling(j) ==
    /\ job[j].st = "active" /\ job'[j].st \in {"done", "failed"}
    /\ job'[j].attempts = job[j].attempts
    /\ \A i \in Jobs : OnlyClears(i) /\ (i # j => Keeps(i))

Forgetting(batch) ==
    /\ \A j \in batch : /\ job[j].st \in {"done", "failed"}
                        /\ job'[j].st = "deleted" /\ job'[j].attempts = 0
    /\ \A i \in Jobs : OnlyClears(i) /\ (i \notin batch => Keeps(i))

TableStep ==
    \/ \A i \in Jobs : Keeps(i) /\ OnlyClears(i)
    \/ \E j \in Jobs : Claiming(j) \/ Inserting(j) \/ Retrying(j) \/ Settling(j)
    \/ \E batch \in SUBSET Jobs : Forgetting(batch)

\* Recording an outcome changes at most the row of the job that is held.
LEMMA FinishTable ==
    ASSUME IInv, NEW w \in Workers, NEW row \in Row, Finish(w, row), pc[w] \in Busy,
           row.claim = NoClaim
    PROVE  \/ UNCHANGED job
           \/ /\ held[w].job \in Jobs /\ Current(w)
              /\ job[held[w].job].st \in {"active", "done"}
              /\ job[held[w].job].st = "done" => KindOf[held[w].job] \in PurgeKinds
              /\ job'[held[w].job] = row
              /\ \A i \in Jobs : OnlyClears(i) /\ (i # held[w].job => Keeps(i))
<1>1. held[w] # NoHold /\ held[w].job \in Jobs /\ held[w].claim \in Claims
  BY DEF IInv, TypeOK, HoldingWhileBusy
<1>2. CASE ~Current(w)
  BY <1>2 DEF Finish
<1>3. CASE Current(w)
  <2>1. job' = [job EXCEPT ![held[w].job] = row] /\ job \in [Jobs -> Row]
    BY <1>3 DEF Finish, IInv, TypeOK
  <2>2. job[held[w].job].claim # NoClaim
    BY <1>1, <1>3 DEF Current
  <2>3. /\ job[held[w].job].st \in {"active", "done"}
        /\ job[held[w].job].st = "done" => KindOf[held[w].job] \in PurgeKinds
    BY <1>1, <2>2 DEF IInv, RowShape
  <2> QED
    BY <1>1, <1>3, <2>1, <2>3 DEF OnlyClears, Keeps
<1> QED
  BY <1>2, <1>3

LEMMA OutcomeTable ==
    ASSUME IInv, NEW w \in Workers,
           MarkJobCompleted(w) \/ MarkJobFailed(w) \/ MarkJobPermanentlyFailed(w)
    PROVE  TableStep
<1> DEFINE j == held[w].job
<1>1. pc[w] \in Busy
  BY DEF MarkJobCompleted, MarkJobFailed, MarkJobPermanentlyFailed, Busy
<1>2. UNCHANGED job => TableStep
  BY DEF TableStep, Keeps, OnlyClears
<1>3. CASE MarkJobCompleted(w)
  <2> DEFINE row == Released(Completed(job[j]))
  <2>1. row \in Row /\ row.claim = NoClaim /\ row.st = "done" /\ row.attempts = job[j].attempts
    BY <1>1, OutcomeRows
  <2>2. Finish(w, row)
    BY <1>3 DEF MarkJobCompleted
  <2> HIDE DEF row
  <2>3. CASE ~UNCHANGED job
    <3>1. /\ j \in Jobs /\ job[j].st \in {"active", "done"} /\ job'[j] = row
          /\ \A i \in Jobs : OnlyClears(i) /\ (i # j => Keeps(i))
      BY <1>1, <2>1, <2>2, <2>3, FinishTable
    <3>2. CASE job[j].st = "active"
      BY <2>1, <3>1, <3>2 DEF TableStep, Settling
    <3>3. CASE job[j].st = "done"
      BY <2>1, <3>1, <3>3 DEF TableStep, Keeps
    <3> QED
      BY <3>1, <3>2, <3>3
  <2> QED
    BY <1>2, <2>3
<1>4. CASE MarkJobFailed(w)
  <2> DEFINE row == Released(Retried(job[j], next_retry_delay(held[w].attempts)))
  <2>1. /\ row \in Row /\ row.claim = NoClaim /\ row.st = job[j].st
        /\ row.attempts = job[j].attempts + 1
    BY <1>1, OutcomeRows
  <2>2. Finish(w, row) /\ KindOf[j] \notin PurgeKinds
    BY <1>4 DEF MarkJobFailed, IInv, HoldingWhileBusy
  <2> HIDE DEF row
  <2>3. CASE ~UNCHANGED job
    <3>1. /\ j \in Jobs /\ job[j].st = "active" /\ job'[j] = row
          /\ \A i \in Jobs : OnlyClears(i) /\ (i # j => Keeps(i))
      BY <1>1, <2>1, <2>2, <2>3, FinishTable
    <3> QED
      BY <2>1, <3>1 DEF TableStep, Retrying
  <2> QED
    BY <1>2, <2>3
<1>5. CASE MarkJobPermanentlyFailed(w)
  <2> DEFINE row == Released(GivenUp(job[j]))
  <2>1. /\ row \in Row /\ row.claim = NoClaim /\ row.st = "failed"
        /\ row.attempts = job[j].attempts
    BY <1>1, OutcomeRows
  <2>2. Finish(w, row) /\ KindOf[j] \in FederationKinds
    BY <1>5 DEF MarkJobPermanentlyFailed, GivesUp
  <2> HIDE DEF row
  <2>3. CASE ~UNCHANGED job
    <3>1. /\ j \in Jobs /\ job[j].st = "active" /\ job'[j] = row
          /\ \A i \in Jobs : OnlyClears(i) /\ (i # j => Keeps(i))
      BY <1>1, <2>1, <2>2, <2>3, FinishTable
    <3> QED
      BY <2>1, <3>1 DEF TableStep, Settling
  <2> QED
    BY <1>2, <2>3
<1> QED
  BY <1>3, <1>4, <1>5

LEMMA NextTable == IInv /\ [Next]_vars => TableStep
<1> SUFFICES ASSUME IInv, [Next]_vars PROVE TableStep
  OBVIOUS
<1>0. job \in [Jobs -> Row]
  BY DEF IInv, TypeOK
<1>1. ASSUME NEW j \in Jobs, NEW d \in Delays, EnqueueJob(j, d)
      PROVE  TableStep
  <2>1. /\ job' = [job EXCEPT ![j] = [Unborn EXCEPT !.st = "active", !.wait = d]]
        /\ job[j].st = "unborn" /\ job[j].attempts = 0
    BY <1>1 DEF EnqueueJob, IInv, RowShape
  <2>2. /\ job'[j].st = "active" /\ job'[j].attempts = 0 /\ job'[j].claim = NoClaim
        /\ \A i \in Jobs : i # j => job'[i] = job[i]
    BY <1>0, <2>1 DEF Unborn
  <2>3. Inserting(j)
    BY <1>1, <2>1, <2>2 DEF EnqueueJob, Inserting, Keeps, OnlyClears
  <2> QED
    BY <2>3 DEF TableStep
<1>2. ASSUME NEW j \in Jobs, NEW d \in Delays, RescheduleJob(j, d) \/ BringForward(j, d)
      PROVE  TableStep
  <2>1. PICK t : job' = [job EXCEPT ![j].wait = t]
    BY <1>2 DEF RescheduleJob, BringForward
  <2>2. \A i \in Jobs : Keeps(i) /\ OnlyClears(i)
    BY <1>0, <2>1 DEF Keeps, OnlyClears, Row
  <2> QED
    BY <2>2 DEF TableStep
<1>3. ASSUME NEW j \in Jobs, CancelJob(j) \/ CancelAccountPurge(j)
      PROVE  TableStep
  <2>1. job[j] \in Row /\ job[j].st = "active"
    BY <1>0, <1>3 DEF CancelJob, CancelAccountPurge, Active
  <2>2. /\ Completed(job[j]) \in Row /\ Completed(job[j]).st = "done"
        /\ Completed(job[j]).attempts = job[j].attempts
        /\ Completed(job[j]).claim = job[j].claim
    BY <2>1, RowUpdates
  <2>3. /\ Released(Completed(job[j])).st = "done"
        /\ Released(Completed(job[j])).attempts = job[j].attempts
        /\ Released(Completed(job[j])).claim = NoClaim
    BY <2>2, RowUpdates
  <2>4. Settling(j)
    BY <1>0, <1>3, <2>1, <2>2, <2>3
       DEF CancelJob, CancelAccountPurge, Settling, Keeps, OnlyClears
  <2> QED
    BY <2>4 DEF TableStep
<1>4. ASSUME NEW w \in Workers, NEW j \in Jobs, NEW c \in Claims,
             ClaimDueJob(w, j, c) \/ ClaimDueJobByKey(w, j, c)
      PROVE  TableStep
  <2>1. Claimable(j) /\ job' = [job EXCEPT ![j] = Claimed(job[j], c)]
    BY <1>4 DEF ClaimDueJob, ClaimDueJobByKey, TakeClaim
  <2>2. /\ Claimed(job[j], c).st = job[j].st
        /\ Claimed(job[j], c).attempts = job[j].attempts
    BY <1>0, RowClaimed
  <2>3. Claiming(j)
    BY <1>0, <2>1, <2>2 DEF Claiming, Keeps, OnlyClears
  <2> QED
    BY <2>3 DEF TableStep
<1>5. ASSUME NEW batch \in SUBSET Jobs, CleanupExpiredJobs(batch)
      PROVE  TableStep
  <2>1. \A i \in Jobs : job'[i] = IF i \in batch THEN [Unborn EXCEPT !.st = "deleted"]
                                                  ELSE job[i]
    BY <1>5 DEF CleanupExpiredJobs
  <2>2. LET row == [Unborn EXCEPT !.st = "deleted"] IN
          row.st = "deleted" /\ row.attempts = 0 /\ row.claim = NoClaim
    BY DEF Unborn
  <2>3. Forgetting(batch)
    BY <1>5, <2>1, <2>2 DEF CleanupExpiredJobs, Expired, Forgetting, Keeps, OnlyClears
  <2> QED
    BY <2>3 DEF TableStep
<1>6. CASE Tick
  <2>1. \A i \in Jobs : Keeps(i) /\ OnlyClears(i)
    BY <1>0, <1>6, ElapseKeeps DEF Tick, Keeps, OnlyClears
  <2> QED
    BY <2>1 DEF TableStep
<1>7. ASSUME UNCHANGED job PROVE TableStep
  BY <1>7 DEF TableStep, Keeps, OnlyClears
<1>8. ASSUME NEW w \in Workers, WorkerStep(w)
      PROVE  TableStep
  <2>1. ASSUME NEW result, HandlerReturns(w, result) PROVE TableStep
    BY <1>7, <2>1 DEF HandlerReturns
  <2>2. CASE StopLoop(w)
    BY <1>7, <2>2 DEF StopLoop
  <2> QED
    BY <1>4, <1>8, <2>1, <2>2, OutcomeTable DEF WorkerStep
<1>9. ASSUME NEW w \in Workers, DatabaseError(w) \/ HandlerEscapes(w) \/ MediaOutcomeLost(w)
      PROVE  TableStep
  BY <1>7, <1>9 DEF DatabaseError, HandlerEscapes, MediaOutcomeLost, PoolFails
<1>10. ASSUME NEW p \in Procs, Shutdown(p) \/ Exit(p) \/ Crash(p) \/ Restart(p)
       PROVE  TableStep
  BY <1>7, <1>10 DEF Shutdown, Exit, Crash, Restart
<1>11. CASE UNCHANGED vars
  BY <1>7, <1>11 DEF vars
<1> QED
  BY <1>1, <1>2, <1>3, <1>5, <1>6, <1>8, <1>9, <1>10, <1>11 DEF Next

\* An unexpired lease is never taken over: claim_due_job and claim_due_job_by_key
\* honour it, and no other statement writes a claim.
THEOREM LeasesAreHonoured == Spec => LeaseHonoured
<1>1. IInv /\ [Next]_vars =>
        [\A j \in Jobs : /\ Active(j) /\ Active(j)'
                         /\ job[j].claim # NoClaim /\ job[j].locked <= ClaimTtl
           => job'[j].claim \in {job[j].claim, NoClaim}]_vars
  <2> SUFFICES ASSUME IInv, [Next]_vars, NEW j \in Jobs,
                      job[j].claim # NoClaim, job[j].locked <= ClaimTtl
               PROVE  OnlyClears(j)
    BY DEF OnlyClears
  <2>1. job[j].locked \in Nat
    BY DEF IInv, TypeOK, Row
  <2>2. ~Claimable(j)
    BY <2>1 DEF Claimable
  <2>3. TableStep
    BY NextTable
  <2> QED
    BY <2>2, <2>3 DEF TableStep, Claiming, Inserting, Retrying, Settling, Forgetting
<1> QED
  BY <1>1, Invariance, PTL DEF Spec, LeaseHonoured

\* Refinement: seen through statuses and attempts the queue, with all its
\* workers, crashes and clocks, is the job lifecycle.
THEOREM Refinement == Spec => ImplementsLifecycle
<1>1. Init => Lifecycle!Init
  BY DEF Init, Lifecycle!Init, Unborn
<1>2. IInv /\ [Next]_vars => [Lifecycle!Next]_(Lifecycle!vars)
  <2> SUFFICES ASSUME IInv, [Next]_vars PROVE [Lifecycle!Next]_(Lifecycle!vars)
    OBVIOUS
  <2>0. TableStep
    BY NextTable
  <2>1. CASE \A i \in Jobs : Keeps(i)
    BY <2>1 DEF Keeps, Lifecycle!vars
  <2>2. ASSUME NEW j \in Jobs, Inserting(j) PROVE Lifecycle!Enqueue(j)
    BY <2>2 DEF Inserting, Keeps, Active, SameKey, Lifecycle!Enqueue
  <2>3. ASSUME NEW j \in Jobs, Retrying(j) PROVE Lifecycle!CountFailure(j)
    BY <2>3 DEF Retrying, Keeps, Lifecycle!CountFailure
  <2>4. ASSUME NEW j \in Jobs, NEW outcome, Settling(j), job'[j].st = outcome
        PROVE  Lifecycle!Settle(j, outcome)
    BY <2>4 DEF Settling, Keeps, Lifecycle!Settle
  <2>5. ASSUME NEW batch \in SUBSET Jobs, Forgetting(batch) PROVE Lifecycle!Forget(batch)
    BY <2>5 DEF Forgetting, Keeps, Lifecycle!Forget
  <2>6. ASSUME NEW j \in Jobs, Claiming(j) PROVE \A i \in Jobs : Keeps(i)
    BY <2>6 DEF Claiming
  <2>7. ASSUME NEW j \in Jobs, Inserting(j) \/ Retrying(j) PROVE Lifecycle!Next
    BY <2>2, <2>3, <2>7 DEF Lifecycle!Next
  <2>8. ASSUME NEW j \in Jobs, Settling(j) PROVE Lifecycle!Next
    <3>1. PICK outcome \in {"done", "failed"} : job'[j].st = outcome
      BY <2>8 DEF Settling
    <3>2. Lifecycle!Settle(j, outcome)
      BY <2>4, <2>8, <3>1
    <3> QED
      BY <3>2 DEF Lifecycle!Next
  <2>9. ASSUME NEW batch \in SUBSET Jobs, Forgetting(batch) PROVE Lifecycle!Next
    BY <2>5, <2>9 DEF Lifecycle!Next
  <2> QED
    BY <2>0, <2>1, <2>6, <2>7, <2>8, <2>9 DEF TableStep
<1> QED
  BY <1>1, <1>2, Invariance, PTL DEF Spec, ImplementsLifecycle, Lifecycle!Spec

-----------------------------------------------------------------------------
(* What is left behind *)

\* A process that has ended has no loop and no task; the supervisor finds
\* nothing that it could forget.
EndedIsStopped == \A w \in Workers : proc[ProcOf[w]] = "ended" => pc[w] = "stopped"

LeftBehind == NothingForgotten /\ EndedIsStopped

LEMMA RowStepLeaves ==
    ASSUME IInv, LeftBehind, UNCHANGED worker_state, \A j \in Jobs : OnlyClears(j)
    PROVE  LeftBehind'
<1>1. NoLeakedClaim'
  <2> SUFFICES ASSUME NEW j \in Jobs, job'[j].claim # NoClaim
               PROVE  j \in orphans' \/ \E w \in Workers : Current(w)' /\ held'[w].job = j
    BY DEF NoLeakedClaim
  <2>1. job'[j].claim = job[j].claim /\ held' = held /\ orphans' = orphans
    BY DEF OnlyClears, worker_state
  <2>2. j \in orphans \/ \E w \in Workers : Current(w) /\ held[w].job = j
    BY <2>1 DEF LeftBehind, NothingForgotten, NoLeakedClaim
  <2> QED BY <2>1, <2>2 DEF Current
<1>2. FailuresRecorded' /\ EndedIsStopped'
  BY DEF LeftBehind, NothingForgotten, FailuresRecorded, EndedIsStopped, worker_state
<1> QED BY <1>1, <1>2 DEF LeftBehind, NothingForgotten

\* A claim that is taken has its holder; the other holders stay.
LEMMA TakeLeaves ==
    ASSUME IInv, LeftBehind, NEW w \in Workers, NEW j \in Jobs, NEW c \in Claims, pc[w] = "poll", TakeClaim(w, j, c)
    PROVE  LeftBehind' /\ held'[w] # NoHold /\ \A v \in Workers \ {w} : held'[v] = held[v]
<1> DEFINE hold == [job |-> j, claim |-> c, attempts |-> job[j].attempts]
<1>1. /\ job' = [job EXCEPT ![j] = Claimed(job[j], c)] /\ held' = [held EXCEPT ![w] = hold] /\ pc' = [pc EXCEPT ![w] = "run"]
      /\ orphans' = orphans \ {j} /\ UNCHANGED <<proc, faults, unheard>>
  BY DEF TakeClaim
<1>2. job \in [Jobs -> Row] /\ job[j] \in Row /\ held[w] = NoHold /\ held \in [Workers -> [job : Jobs, claim : Claims, attempts : Nat] \cup {NoHold}]
  BY DEF IInv, TypeOK, HoldingWhileBusy, Busy
<1>3. job'[j].claim = c /\ \A i \in Jobs \ {j} : job'[i] = job[i]
  BY <1>1, <1>2, RowClaimed
<1>4. hold \in [job : Jobs, claim : Claims, attempts : Nat] /\ hold.job = j /\ hold.claim = c
  BY <1>2 DEF Row
<1> HIDE DEF hold
<1>5. held'[w] = hold /\ hold # NoHold /\ \A v \in Workers \ {w} : held'[v] = held[v]
  BY <1>1, <1>2, <1>4
<1>6. NoLeakedClaim'
  <2> SUFFICES ASSUME NEW i \in Jobs, job'[i].claim # NoClaim
               PROVE  i \in orphans' \/ \E v \in Workers : Current(v)' /\ held'[v].job = i
    BY DEF NoLeakedClaim
  <2>1. CASE i = j
    <3>1. Current(w)' /\ held'[w].job = i
      BY <1>3, <1>4, <1>5, <2>1 DEF Current
    <3> QED BY <3>1
  <2>2. CASE i # j
    <3>1. i \in orphans \/ \E v \in Workers : Current(v) /\ held[v].job = i
      BY <1>3, <2>2 DEF LeftBehind, NothingForgotten, NoLeakedClaim
    <3>2. \A v \in Workers : Current(v) /\ held[v].job = i => Current(v)' /\ held'[v].job = i
      BY <1>2, <1>3, <1>5, <2>2 DEF Current
    <3> QED BY <1>1, <2>2, <3>1, <3>2
  <2> QED BY <2>1, <2>2
<1>7. EndedIsStopped'
  <2>1. proc[ProcOf[w]] # "ended"
    BY DEF LeftBehind, EndedIsStopped
  <2> QED BY <1>1, <2>1 DEF LeftBehind, EndedIsStopped, IInv, TypeOK
<1>8. FailuresRecorded'
  BY <1>1 DEF LeftBehind, NothingForgotten, FailuresRecorded
<1> QED BY <1>5, <1>6, <1>7, <1>8 DEF LeftBehind, NothingForgotten

\* An outcome releases the claim it belongs to, and touches no other.
LEMMA FinishLeaves ==
    ASSUME IInv, LeftBehind, NEW w \in Workers, NEW row \in Row, Finish(w, row), pc[w] \in Busy, row.claim = NoClaim
    PROVE  LeftBehind' /\ (~ Current(w) => UNCHANGED job) /\ \A v \in Workers \ {w} : held'[v] = held[v]
<1>1. held[w] # NoHold /\ held[w].job \in Jobs /\ job \in [Jobs -> Row] /\ held \in [Workers -> [job : Jobs, claim : Claims, attempts : Nat] \cup {NoHold}]
  BY DEF IInv, TypeOK, HoldingWhileBusy
<1>2. /\ job' = (IF Current(w) THEN [job EXCEPT ![held[w].job] = row] ELSE job) /\ held' = [held EXCEPT ![w] = NoHold]
      /\ pc' = [pc EXCEPT ![w] = "poll"] /\ UNCHANGED <<proc, faults, orphans, unheard>>
  BY DEF Finish
<1>3. \A v \in Workers \ {w} : held'[v] = held[v]
  BY <1>1, <1>2
<1>4. NoLeakedClaim'
  <2> SUFFICES ASSUME NEW i \in Jobs, job'[i].claim # NoClaim
               PROVE  i \in orphans' \/ \E v \in Workers : Current(v)' /\ held'[v].job = i
    BY DEF NoLeakedClaim
  <2>1. job'[i] = job[i] /\ (Current(w) => i # held[w].job)
    BY <1>1, <1>2
  <2>2. i \in orphans \/ \E v \in Workers : Current(v) /\ held[v].job = i
    BY <2>1 DEF LeftBehind, NothingForgotten, NoLeakedClaim
  <2>3. \A v \in Workers : Current(v) /\ held[v].job = i => v # w /\ Current(v)' /\ held'[v].job = i
    BY <1>3, <2>1 DEF Current
  <2> QED BY <1>2, <2>2, <2>3
<1>5. EndedIsStopped'
  <2>1. proc[ProcOf[w]] # "ended"
    BY DEF LeftBehind, EndedIsStopped, Busy
  <2> QED BY <1>2, <2>1 DEF LeftBehind, EndedIsStopped, IInv, TypeOK
<1>6. FailuresRecorded'
  BY <1>2 DEF LeftBehind, NothingForgotten, FailuresRecorded
<1> QED BY <1>2, <1>3, <1>4, <1>5, <1>6 DEF LeftBehind, NothingForgotten

LEMMA OutcomeLeaves ==
    ASSUME IInv, LeftBehind, NEW w \in Workers, MarkJobCompleted(w) \/ MarkJobFailed(w) \/ MarkJobPermanentlyFailed(w)
    PROVE  LeftBehind' /\ (~ Current(w) => UNCHANGED job) /\ \A v \in Workers \ {w} : held'[v] = held[v]
<1>1. pc[w] \in Busy
  BY DEF MarkJobCompleted, MarkJobFailed, MarkJobPermanentlyFailed, Busy
<1>2. CASE MarkJobCompleted(w)
  BY <1>1, <1>2, OutcomeRows, FinishLeaves DEF MarkJobCompleted
<1>3. CASE MarkJobFailed(w)
  BY <1>1, <1>3, OutcomeRows, FinishLeaves DEF MarkJobFailed
<1>4. CASE MarkJobPermanentlyFailed(w)
  BY <1>1, <1>4, OutcomeRows, FinishLeaves DEF MarkJobPermanentlyFailed
<1> QED BY <1>2, <1>3, <1>4

\* Holds are taken away: each claim that was current is an orphan's.
LEMMA HoldsTaken ==
    ASSUME NoLeakedClaim, UNCHANGED job, NEW ws \in SUBSET Workers,
           \A w \in Workers \ ws : held'[w] = held[w],
           orphans' = orphans \cup {held[w].job : w \in {v \in ws : Current(v)}}
    PROVE  NoLeakedClaim'
<1> SUFFICES ASSUME NEW j \in Jobs, job[j].claim # NoClaim
             PROVE  j \in orphans' \/ \E w \in Workers : Current(w)' /\ held'[w].job = j
  BY DEF NoLeakedClaim
<1>1. CASE j \in orphans
  BY <1>1
<1>2. ASSUME NEW w \in Workers, Current(w), held[w].job = j
      PROVE  j \in orphans' \/ \E v \in Workers : Current(v)' /\ held'[v].job = j
  <2>1. CASE w \in ws
    BY <1>2, <2>1
  <2>2. CASE w \notin ws
    BY <1>2, <2>2 DEF Current
  <2> QED BY <2>1, <2>2
<1> QED BY <1>1, <1>2 DEF NoLeakedClaim

LEMMA DropLeaves ==
    ASSUME NoLeakedClaim, UNCHANGED job, NEW ws \in SUBSET Workers, Drop(ws)
    PROVE  NoLeakedClaim' /\ \A w \in Workers : pc'[w] = IF w \in ws THEN "stopped" ELSE pc[w]
<1>1. \A w \in Workers \ ws : held'[w] = held[w]
  BY DEF Drop
<1>2. NoLeakedClaim'
  BY <1>1, HoldsTaken DEF Drop
<1> QED BY <1>2 DEF Drop

\* What a worker without the current claim reports changes no row.
StaleStep ==
    \A w \in Workers : held[w] # NoHold /\ ~ Current(w) /\ held'[w] = NoHold => UNCHANGED job

\* A pool that fails, or one process that ends, leaves its leases to the orphans.
LEMMA PoolFailsLeaves ==
    ASSUME IInv, LeftBehind, NEW p \in Procs, PoolFails(p)
    PROVE  NoLeakedClaim' /\ EndedIsStopped' /\ UNCHANGED job
<1>1. NoLeakedClaim /\ EndedIsStopped /\ UNCHANGED job
  BY DEF LeftBehind, NothingForgotten, PoolFails
<1>2. LoopsOf(p) \in SUBSET Workers /\ TasksOf(p) \in SUBSET Workers
  BY DEF LoopsOf, TasksOf
<1>3. CASE p \in Embedded
  <2>1. Drop(LoopsOf(p)) /\ UNCHANGED proc
    BY <1>3 DEF PoolFails
  <2>2. NoLeakedClaim' /\ \A w \in Workers : pc'[w] = IF w \in LoopsOf(p) THEN "stopped" ELSE pc[w]
    BY <1>1, <1>2, <2>1, DropLeaves
  <2> QED BY <1>1, <2>1, <2>2 DEF EndedIsStopped
<1>4. CASE p \notin Embedded
  <2>1. Drop(TasksOf(p)) /\ proc' = [proc EXCEPT ![p] = "ended"]
    BY <1>4 DEF PoolFails
  <2>2. NoLeakedClaim' /\ \A w \in Workers : pc'[w] = IF w \in TasksOf(p) THEN "stopped" ELSE pc[w]
    BY <1>1, <1>2, <2>1, DropLeaves
  <2>3. \A w \in Workers \ TasksOf(p) : proc'[ProcOf[w]] = proc[ProcOf[w]]
    BY <2>1 DEF TasksOf, IInv, TypeOK
  <2> QED BY <1>1, <2>2, <2>3 DEF EndedIsStopped
<1> QED BY <1>1, <1>3, <1>4

LEMMA FailureLeaves ==
    ASSUME IInv, LeftBehind, NEW w \in Workers, DatabaseError(w) \/ HandlerEscapes(w) \/ MediaOutcomeLost(w)
    PROVE  LeftBehind' /\ UNCHANGED job
<1>0. ProcOf[w] \in Procs
  OBVIOUS
<1>1. CASE DatabaseError(w)
  BY <1>0, <1>1, PoolFailsLeaves DEF DatabaseError, LeftBehind, NothingForgotten, FailuresRecorded
<1>2. CASE HandlerEscapes(w)
  <2>1. NoLeakedClaim' /\ EndedIsStopped' /\ UNCHANGED job
    BY <1>0, <1>2, PoolFailsLeaves DEF HandlerEscapes
  <2>2. FailuresRecorded'
    BY <1>2 DEF HandlerEscapes, LeftBehind, NothingForgotten, FailuresRecorded
  <2> QED BY <2>1, <2>2 DEF LeftBehind, NothingForgotten
<1>3. CASE MediaOutcomeLost(w)
  <2>1. /\ pc[w] # "stopped" /\ pc' = [pc EXCEPT ![w] = "poll"] /\ held' = [held EXCEPT ![w] = NoHold]
        /\ orphans' = orphans \cup {held[v].job : v \in {u \in {w} : Current(u)}} /\ UNCHANGED <<job, proc, unheard>>
    BY <1>3 DEF MediaOutcomeLost
  <2>2. \A v \in Workers \ {w} : held'[v] = held[v]
    BY <2>1 DEF IInv, TypeOK
  <2>3. NoLeakedClaim /\ {w} \in SUBSET Workers
    BY DEF LeftBehind, NothingForgotten
  <2>4. NoLeakedClaim'
    BY <2>1, <2>2, <2>3, HoldsTaken
  <2>5. EndedIsStopped'
    BY <2>1 DEF LeftBehind, EndedIsStopped, IInv, TypeOK
  <2> QED BY <2>1, <2>4, <2>5 DEF LeftBehind, NothingForgotten, FailuresRecorded
<1> QED BY <1>1, <1>2, <1>3

LEMMA ProcessLeaves ==
    ASSUME IInv, LeftBehind, NEW p \in Procs, Shutdown(p) \/ Exit(p) \/ Crash(p) \/ Restart(p)
    PROVE  LeftBehind' /\ UNCHANGED job
<1>0. NoLeakedClaim /\ FailuresRecorded /\ EndedIsStopped /\ proc \in [Procs -> {"up", "stopping", "ended"}]
  BY DEF LeftBehind, NothingForgotten, IInv, TypeOK
<1>1. CASE Shutdown(p)
  <2>1. NoLeakedClaim' /\ FailuresRecorded'
    BY <1>0, <1>1 DEF Shutdown, NoLeakedClaim, FailuresRecorded, Current
  <2>2. EndedIsStopped'
    BY <1>0, <1>1 DEF Shutdown, EndedIsStopped
  <2> QED BY <1>1, <2>1, <2>2 DEF LeftBehind, NothingForgotten, Shutdown
<1>2. CASE Exit(p) \/ Crash(p)
  <2>1. Drop(TasksOf(p)) /\ proc' = [proc EXCEPT ![p] = "ended"] /\ UNCHANGED <<job, unheard>>
    BY <1>2 DEF Exit, Crash
  <2>2. TasksOf(p) \in SUBSET Workers
    BY DEF TasksOf
  <2>3. NoLeakedClaim' /\ \A w \in Workers : pc'[w] = IF w \in TasksOf(p) THEN "stopped" ELSE pc[w]
    BY <1>0, <2>1, <2>2, DropLeaves
  <2>4. \A w \in Workers \ TasksOf(p) : proc'[ProcOf[w]] = proc[ProcOf[w]]
    BY <1>0, <2>1 DEF TasksOf
  <2>5. EndedIsStopped'
    BY <1>0, <2>3, <2>4 DEF EndedIsStopped
  <2> QED BY <1>0, <2>1, <2>3, <2>5 DEF LeftBehind, NothingForgotten, FailuresRecorded
<1>3. CASE Restart(p)
  <2>1. /\ proc[p] = "ended" /\ proc' = [proc EXCEPT ![p] = "up"] /\ UNCHANGED <<job, faults, orphans, unheard>>
        /\ pc' = [w \in Workers |-> IF w \in TasksOf(p) THEN "poll" ELSE pc[w]]
        /\ held' = [w \in Workers |-> IF w \in TasksOf(p) THEN NoHold ELSE held[w]]
    BY <1>3 DEF Restart
  <2>2. \A w \in TasksOf(p) : held[w] = NoHold
    BY <1>0, <2>1 DEF TasksOf, EndedIsStopped, IInv, HoldingWhileBusy, Busy
  <2>3. \A w \in Workers : held'[w] = held[w]
    BY <2>1, <2>2
  <2>4. NoLeakedClaim'
    BY <1>0, <2>1, <2>3 DEF NoLeakedClaim, Current
  <2>5. EndedIsStopped'
    BY <1>0, <2>1 DEF EndedIsStopped, TasksOf
  <2> QED BY <1>0, <2>1, <2>4, <2>5 DEF LeftBehind, NothingForgotten, FailuresRecorded
<1> QED BY <1>1, <1>2, <1>3

\* The steps of a loop or of a task, except for its failures.
LEMMA WorkerLeaves ==
    ASSUME IInv, LeftBehind, NEW w \in Workers, WorkerStep(w)
    PROVE  LeftBehind' /\ StaleStep
<1>1. ASSUME NEW j \in Jobs, NEW c \in Claims, ClaimDueJob(w, j, c) \/ ClaimDueJobByKey(w, j, c)
      PROVE  LeftBehind' /\ StaleStep
  <2>1. pc[w] = "poll" /\ TakeClaim(w, j, c)
    BY <1>1 DEF ClaimDueJob, ClaimDueJobByKey
  <2>2. LeftBehind' /\ held'[w] # NoHold /\ \A v \in Workers \ {w} : held'[v] = held[v]
    BY <2>1, TakeLeaves
  <2> QED BY <2>2 DEF StaleStep
<1>2. ASSUME NEW result \in {"ok", "error", "permanent"}, HandlerReturns(w, result)
      PROVE  LeftBehind' /\ StaleStep
  <2>1. pc[w] = "run" /\ pc' = [pc EXCEPT ![w] = result] /\ UNCHANGED <<job, held, proc, faults, orphans, unheard>>
    BY <1>2 DEF HandlerReturns
  <2>2. NoLeakedClaim' /\ FailuresRecorded'
    BY <2>1 DEF LeftBehind, NothingForgotten, NoLeakedClaim, FailuresRecorded, Current
  <2>3. EndedIsStopped'
    BY <2>1 DEF LeftBehind, EndedIsStopped, IInv, TypeOK
  <2> QED BY <2>1, <2>2, <2>3 DEF LeftBehind, NothingForgotten, StaleStep
<1>3. CASE MarkJobCompleted(w) \/ MarkJobFailed(w) \/ MarkJobPermanentlyFailed(w)
  <2>1. LeftBehind' /\ (~ Current(w) => UNCHANGED job) /\ \A v \in Workers \ {w} : held'[v] = held[v]
    BY <1>3, OutcomeLeaves
  <2> QED BY <2>1 DEF StaleStep
<1>4. CASE StopLoop(w)
  <2>1. pc' = [pc EXCEPT ![w] = "stopped"] /\ UNCHANGED <<job, held, proc, faults, orphans, unheard>>
    BY <1>4 DEF StopLoop
  <2>2. NoLeakedClaim' /\ FailuresRecorded'
    BY <2>1 DEF LeftBehind, NothingForgotten, NoLeakedClaim, FailuresRecorded, Current
  <2>3. EndedIsStopped'
    BY <2>1 DEF LeftBehind, EndedIsStopped, IInv, TypeOK
  <2> QED BY <2>1, <2>2, <2>3 DEF LeftBehind, NothingForgotten, StaleStep
<1> QED BY <1>1, <1>2, <1>3, <1>4 DEF WorkerStep

\* Every step of the queue leaves behind only what is recorded, and a stale
\* report changes nothing.
LEMMA NextLeaves == IInv /\ LeftBehind /\ [Next]_vars => LeftBehind' /\ StaleStep
<1> SUFFICES ASSUME IInv, LeftBehind, [Next]_vars PROVE LeftBehind' /\ StaleStep
  OBVIOUS
<1>0. job \in [Jobs -> Row]
  BY DEF IInv, TypeOK
<1>1. ASSUME UNCHANGED worker_state, \A i \in Jobs : OnlyClears(i)
      PROVE  LeftBehind' /\ StaleStep
  BY <1>1, RowStepLeaves DEF StaleStep, worker_state
<1>2. ASSUME NEW j \in Jobs, NEW d \in Delays,
             EnqueueJob(j, d) \/ RescheduleJob(j, d) \/ BringForward(j, d)
      PROVE  LeftBehind' /\ StaleStep
  <2>1. UNCHANGED worker_state
    BY <1>2 DEF EnqueueJob, RescheduleJob, BringForward
  <2>2. \A i \in Jobs : OnlyClears(i)
    <3>1. CASE EnqueueJob(j, d)
      BY <1>0, <3>1 DEF EnqueueJob, OnlyClears, Unborn
    <3>2. CASE RescheduleJob(j, d) \/ BringForward(j, d)
      <4>1. PICK t : job' = [job EXCEPT ![j].wait = t]
        BY <3>2 DEF RescheduleJob, BringForward
      <4> QED BY <1>0, <4>1 DEF OnlyClears, Row
    <3> QED BY <1>2, <3>1, <3>2
  <2> QED BY <1>1, <2>1, <2>2
<1>3. ASSUME NEW j \in Jobs, CancelJob(j) \/ CancelAccountPurge(j)
      PROVE  LeftBehind' /\ StaleStep
  <2>1. UNCHANGED worker_state
    BY <1>3 DEF CancelJob, CancelAccountPurge
  <2>2. Completed(job[j]) \in Row /\ Completed(job[j]).claim = job[j].claim
    BY <1>0, RowUpdates
  <2>3. Released(Completed(job[j])).claim = NoClaim
    BY <2>2, RowUpdates
  <2>4. \A i \in Jobs : OnlyClears(i)
    BY <1>0, <1>3, <2>2, <2>3 DEF CancelJob, CancelAccountPurge, OnlyClears
  <2> QED BY <1>1, <2>1, <2>4
<1>4. ASSUME NEW w \in Workers, DatabaseError(w) \/ HandlerEscapes(w) \/ MediaOutcomeLost(w)
      PROVE  LeftBehind' /\ StaleStep
  BY <1>4, FailureLeaves DEF StaleStep
<1>5. ASSUME NEW p \in Procs, Shutdown(p) \/ Exit(p) \/ Crash(p) \/ Restart(p)
      PROVE  LeftBehind' /\ StaleStep
  BY <1>5, ProcessLeaves DEF StaleStep
<1>6. ASSUME NEW batch \in SUBSET Jobs, CleanupExpiredJobs(batch)
      PROVE  LeftBehind' /\ StaleStep
  <2>1. [Unborn EXCEPT !.st = "deleted"].claim = NoClaim
    BY DEF Unborn
  <2> QED BY <1>1, <1>6, <2>1 DEF CleanupExpiredJobs, OnlyClears
<1>7. CASE Tick
  BY <1>0, <1>1, <1>7, ElapseKeeps DEF Tick, OnlyClears
<1>8. CASE UNCHANGED vars
  BY <1>1, <1>8 DEF vars, worker_state, OnlyClears
<1> QED BY <1>2, <1>3, <1>4, <1>5, <1>6, <1>7, <1>8, WorkerLeaves DEF Next

LEMMA LeavesNothing == Spec => []LeftBehind
<1>1. Init => LeftBehind
  BY DEF Init, LeftBehind, NothingForgotten, NoLeakedClaim, FailuresRecorded, EndedIsStopped, Unborn
<1> QED BY <1>1, Invariance, NextLeaves, PTL DEF Spec

\* A lease without a live holder was lost to a crash, an aborted pool or a lost
\* outcome of a media task, and every failure that no row records is of a kind
\* whose errors end the pool: no other path of worker_iteration forgets one.
THEOREM NothingIsForgotten == Spec => []NothingForgotten
<1>1. LeftBehind => NothingForgotten
  BY DEF LeftBehind
<1> QED BY <1>1, LeavesNothing, PTL

\* WHERE id = $1 AND claim_id = $2: a worker whose lease was taken over, or whose
\* job was cancelled, reports its outcome to no row.
THEOREM StaleOutcomesAreDiscarded == Spec => StaleOutcomeDiscarded
<1>1. IInv /\ LeftBehind /\ [Next]_vars =>
        [\A w \in Workers :
           held[w] # NoHold /\ ~ Current(w) /\ held'[w] = NoHold => UNCHANGED job]_vars
  BY NextLeaves DEF StaleStep
<1> QED BY <1>1, Invariance, LeavesNothing, PTL DEF Spec, StaleOutcomeDiscarded

\* A process that ends without a fault has waited for its worker loops, and they
\* have recorded the outcome of what they held.
THEOREM ShutdownIsGraceful == Spec => GracefulShutdown
<1>1. IInv /\ [Next]_vars =>
        [\A w \in Slots :
           proc[ProcOf[w]] = "stopping" /\ proc'[ProcOf[w]] = "ended" /\ faults' = faults
           => held[w] = NoHold]_vars
  <2> SUFFICES ASSUME IInv, [Next]_vars, NEW w \in Slots,
                      proc[ProcOf[w]] = "stopping", proc'[ProcOf[w]] = "ended", faults' = faults
               PROVE  held[w] = NoHold
    OBVIOUS
  <2>0. /\ w \in Workers /\ faults \in Nat /\ ~ UNCHANGED proc
        /\ proc \in [Procs -> {"up", "stopping", "ended"}] /\ ProcOf[w] \in Procs
    BY DEF Workers, IInv, TypeOK
  <2>1. ASSUME NEW p \in Procs, Exit(p) PROVE held[w] = NoHold
    <3>1. ProcOf[w] = p /\ pc[w] = "stopped"
      BY <2>0, <2>1 DEF Exit, LoopsOf, TasksOf
    <3> QED BY <2>0, <3>1 DEF IInv, HoldingWhileBusy, Busy
  <2>2. ASSUME NEW p \in Procs, Shutdown(p) \/ Crash(p) \/ Restart(p) PROVE FALSE
    BY <2>0, <2>2 DEF Shutdown, Crash, Restart
  <2>3. ASSUME NEW v \in Workers, DatabaseError(v) \/ HandlerEscapes(v) \/ MediaOutcomeLost(v) PROVE FALSE
    BY <2>0, <2>3 DEF DatabaseError, HandlerEscapes, MediaOutcomeLost, PoolFails
  <2>4. ASSUME NEW v \in Workers, WorkerStep(v) PROVE FALSE
    BY <2>0, <2>4 DEF WorkerStep, ClaimDueJob, ClaimDueJobByKey, TakeClaim, HandlerReturns, StopLoop,
       MarkJobCompleted, MarkJobFailed, MarkJobPermanentlyFailed, Finish
  <2>5. CASE UNCHANGED worker_state
    BY <2>0, <2>5 DEF worker_state
  <2>6. CASE UNCHANGED vars
    BY <2>0, <2>6 DEF vars
  <2>7. ASSUME NEW j \in Jobs, NEW d \in Delays, EnqueueJob(j, d) \/ RescheduleJob(j, d) \/ BringForward(j, d)
        PROVE  UNCHANGED worker_state
    BY <2>7 DEF EnqueueJob, RescheduleJob, BringForward
  <2>8. ASSUME NEW j \in Jobs, CancelJob(j) \/ CancelAccountPurge(j) PROVE UNCHANGED worker_state
    BY <2>8 DEF CancelJob, CancelAccountPurge
  <2>9. ASSUME NEW batch \in SUBSET Jobs, CleanupExpiredJobs(batch) PROVE UNCHANGED worker_state
    BY <2>9 DEF CleanupExpiredJobs
  <2>10. Tick => UNCHANGED worker_state
    BY DEF Tick
  <2> QED BY <2>1, <2>2, <2>3, <2>4, <2>5, <2>6, <2>7, <2>8, <2>9, <2>10 DEF Next
<1> QED BY <1>1, Invariance, PTL DEF Spec, GracefulShutdown
=============================================================================
