----------------------------- MODULE SocialProofs -----------------------------
(***************************************************************************)
(* Proofs about the requests that hold notifications back and the policy    *)
(* that decides which are, for any notifications, senders, requests and     *)
(* number of faults; and about the relationships with remote actors: for    *)
(* any actors, activities, moves and number of transactions that are open   *)
(* at a time, both sides of a relationship agree about it.                  *)
(***************************************************************************)
EXTENDS NotificationRequests, NotificationPolicy, Relationships, FiniteSetTheorems, TLAPS

\* What a notification that names a request must agree with.
Held ==
    \A n \in Notes : Stored(n) /\ note[n].req # None =>
        /\ note[n].filtered
        /\ RequestSender[note[n].req] = SenderOf[n]
        /\ request[note[n].req] \in {"pending", "merging", "dismissed"}

\* The inductive part of RequestsSafe: all but the counts, which follow.
RequestsInv == TypeOK /\ OneActiveRequest /\ Held /\ LookedUpIsOfSender

\* The list of requests counts no more than the summary and what was dismissed: a
\* notification that is in a listed request is filtered.
LEMMA HeldIsCounted ==
    ASSUME RequestsInv
    PROVE  HeldByItsRequest
<1> DEFINE listed == {n \in UNION {HeldIn(r) : r \in ListedRequests} : note[n].st # "dismissed"}
           held == {n \in Notes : note[n].st = "stored" /\ note[n].filtered}
<1>1. listed \subseteq held
  <2> SUFFICES ASSUME NEW r \in Requests, request[r] = "pending", NEW n \in HeldIn(r),
                      note[n].st # "dismissed"
               PROVE  n \in held
    BY DEF ListedRequests
  <2>1. n \in Notes /\ Stored(n) /\ note[n].req # None
    BY RequestAssumption DEF HeldIn, Stored
  <2> QED
    BY <2>1 DEF RequestsInv, Held, Stored
<1>2. IsFiniteSet(held)
  BY RequestAssumption, FS_Subset
<1>3. Cardinality(listed) <= Cardinality(held)
  BY <1>1, <1>2, FS_Subset
<1>4. Summary.notifications >= Cardinality(listed)
  BY <1>1, <1>2, <1>3, FS_Subset, FS_CardinalityType DEF Summary
<1>5. RequestsMerged => \A n \in Notes : Stored(n) /\ note[n].req # None =>
                             request[note[n].req] \in {"pending", "dismissed"}
  BY DEF RequestsMerged, RequestsInv, Held, TypeOK
<1> QED
  BY <1>4, <1>5 DEF HeldByItsRequest, RequestsInv, Held
-----------------------------------------------------------------------------
(* One lemma per operation: it preserves the inductive part. *)

NoteStates == {"new", "decided", "looked", "stored", "dismissed", "dropped", "deleted"}

\* Keep writes one event and no other.
LEMMA Kept ==
    ASSUME TypeOK, NEW n \in Notes, NEW st \in NoteStates, NEW filtered \in BOOLEAN,
           NEW r \in Requests \cup {None}, Keep(n, st, filtered, r)
    PROVE  /\ note' \in [Notes -> [st : NoteStates, filtered : BOOLEAN, req : Requests \cup {None}]]
           /\ note'[n] = [st |-> st, filtered |-> filtered, req |-> r]
           /\ \A m \in Notes : m # n => note'[m] = note[m]
  BY DEF TypeOK, Keep, NoteStates

\* A new event is stored, dropped or left for its request.
LEMMA DecidePreserves ==
    ASSUME RequestsInv, NEW n \in Notes, NEW action \in Verdicts, DecideNotification(n, action)
    PROVE  RequestsInv'
<1> USE DEF RequestsInv
<1>1. PICK st \in {"stored", "dropped", "decided"}, filtered \in BOOLEAN :
           Keep(n, st, filtered, None) /\ (filtered => st = "decided")
  BY DEF DecideNotification, Verdicts
<1>2. /\ note' \in [Notes -> [st : NoteStates, filtered : BOOLEAN, req : Requests \cup {None}]]
      /\ note'[n] = [st |-> st, filtered |-> filtered, req |-> None]
      /\ \A m \in Notes : m # n => note'[m] = note[m]
  BY <1>1, Kept DEF NoteStates
<1>3. UNCHANGED <<request, permitted, job, faults>>
  BY DEF DecideNotification
<1>4. TypeOK'
  BY <1>2, <1>3 DEF TypeOK, NoteStates
<1>5. OneActiveRequest'
  BY <1>3 DEF OneActiveRequest, Open
<1>6. Held'
  BY <1>2, <1>3 DEF Held, Stored
<1>7. LookedUpIsOfSender'
  BY <1>2, <1>3 DEF LookedUpIsOfSender
<1> QED BY <1>4, <1>5, <1>6, <1>7

\* A mention opens a request only when its sender has none that is open, and
\* takes along what its sender has held without one.
LEMMA UpsertPreserves ==
    ASSUME RequestsInv, NEW n \in Notes, NEW r \in Requests, UpsertNotificationRequest(n, r)
    PROVE  RequestsInv'
<1> USE RequestAssumption DEF RequestsInv, UpsertNotificationRequest
<1>1. TypeOK'
  <2>1. note' \in [Notes -> [st : {"new", "decided", "looked", "stored", "dismissed", "dropped", "deleted"},
                             filtered : BOOLEAN, req : Requests \cup {None}]]
    BY DEF TypeOK
  <2> QED
    BY <2>1 DEF TypeOK
<1>2. OneActiveRequest'
  BY DEF OneActiveRequest, Open, ActiveOf, TypeOK
<1>3. Open(r)' /\ \A q \in Requests : q # r => request'[q] = request[q]
  BY DEF Open, TypeOK
<1>4. Held'
  BY <1>3 DEF Held, Stored, Open, TypeOK
<1>5. LookedUpIsOfSender'
  BY <1>3 DEF LookedUpIsOfSender, Open, TypeOK
<1> QED BY <1>1, <1>2, <1>4, <1>5

\* What the other kinds find is an open request of their sender.
LEMMA LookUpPreserves ==
    ASSUME RequestsInv, NEW n \in Notes, ActiveNotificationRequestId(n)
    PROVE  RequestsInv'
<1> USE RequestAssumption DEF RequestsInv, ActiveNotificationRequestId, Keep
<1>1. TypeOK'
  BY DEF TypeOK, ActiveOf
<1>2. OneActiveRequest'
  BY DEF OneActiveRequest, Open
<1>3. Held'
  BY DEF Held, Stored, TypeOK
<1>4. LookedUpIsOfSender'
  BY DEF LookedUpIsOfSender, ActiveOf, Open, TypeOK
<1> QED BY <1>1, <1>2, <1>3, <1>4

\* The foreign key: what is stored names a request that still exists.
LEMMA InsertPreserves ==
    ASSUME RequestsInv, NEW n \in Notes, InsertNotification(n)
    PROVE  RequestsInv'
<1> USE DEF RequestsInv
<1>1. PICK st \in {"new", "stored"}, filtered \in BOOLEAN, r \in Requests \cup {None} :
           /\ Keep(n, st, filtered, r)
           /\ r # None => st = "stored" /\ filtered /\ r = note[n].req /\ request[r] # "gone"
  BY DEF InsertNotification, TypeOK
<1>2. /\ note' \in [Notes -> [st : NoteStates, filtered : BOOLEAN, req : Requests \cup {None}]]
      /\ note'[n] = [st |-> st, filtered |-> filtered, req |-> r]
      /\ \A m \in Notes : m # n => note'[m] = note[m]
  BY <1>1, Kept DEF NoteStates
<1>3. note[n].st = "looked" /\ UNCHANGED <<request, permitted, job, faults>>
  BY DEF InsertNotification
<1>4. TypeOK'
  BY <1>2, <1>3 DEF TypeOK, NoteStates
<1>5. OneActiveRequest'
  BY <1>3 DEF OneActiveRequest, Open
<1>6. Held'
  BY <1>1, <1>2, <1>3 DEF Held, Stored, LookedUpIsOfSender, TypeOK
<1>7. LookedUpIsOfSender'
  BY <1>2, <1>3 DEF LookedUpIsOfSender
<1> QED BY <1>4, <1>5, <1>6, <1>7

\* Only what is visible is dismissed by itself.
LEMMA DismissNotePreserves ==
    ASSUME RequestsInv, NEW n \in Notes, DismissLocalNotification(n)
    PROVE  RequestsInv'
<1> USE RequestAssumption DEF RequestsInv, DismissLocalNotification
<1>1. TypeOK'
  BY DEF TypeOK
<1>2. OneActiveRequest'
  BY DEF OneActiveRequest, Open
<1>3. Held'
  BY DEF Held, Stored, TypeOK
<1>4. LookedUpIsOfSender'
  BY DEF LookedUpIsOfSender, TypeOK
<1> QED BY <1>1, <1>2, <1>3, <1>4

\* A block dismisses what its sender sent and leaves it with its request.
LEMMA DismissSenderPreserves ==
    ASSUME RequestsInv, NEW s \in Senders, DismissSender(s)
    PROVE  RequestsInv'
<1> USE RequestAssumption DEF RequestsInv, DismissSender
<1>1. TypeOK'
  BY DEF TypeOK
<1>2. OneActiveRequest'
  BY DEF OneActiveRequest, Open
<1>3. \A n \in Notes : /\ note'[n].req = note[n].req /\ note'[n].filtered = note[n].filtered
                       /\ Stored(n)' <=> Stored(n)
                       /\ note'[n].st = "looked" <=> note[n].st = "looked"
  BY DEF TypeOK, From, Stored
<1>4. Held' /\ LookedUpIsOfSender'
  BY <1>3 DEF Held, LookedUpIsOfSender
<1> QED BY <1>1, <1>2, <1>4

\* A Delete takes notifications out of their request.
LEMMA ReceiveDeletePreserves ==
    ASSUME RequestsInv, NEW ns \in SUBSET Notes, ReceiveDelete(ns)
    PROVE  RequestsInv'
<1> USE RequestAssumption DEF RequestsInv, ReceiveDelete
<1>1. TypeOK'
  BY DEF TypeOK
<1>2. OneActiveRequest'
  BY DEF OneActiveRequest, Open
<1>3. \A n \in Notes : note'[n] = note[n] \/ note'[n].req = None
  BY DEF TypeOK
<1>4. Held' /\ LookedUpIsOfSender'
  BY <1>3 DEF Held, Stored, LookedUpIsOfSender
<1> QED BY <1>1, <1>2, <1>4

\* Accepting moves pending requests on, and keeps them open.
LEMMA AcceptPreserves ==
    ASSUME RequestsInv, NEW rs \in SUBSET Requests, AcceptNotificationRequests(rs)
    PROVE  RequestsInv'
<1> USE RequestAssumption DEF RequestsInv, AcceptNotificationRequests, Enqueue
<1>1. TypeOK'
  BY DEF TypeOK, JobKinds
<1>2. OneActiveRequest'
  BY DEF OneActiveRequest, Open, TypeOK
<1>3. Held'
  BY DEF Held, Stored, TypeOK
<1>4. LookedUpIsOfSender'
  BY DEF LookedUpIsOfSender, TypeOK
<1> QED BY <1>1, <1>2, <1>3, <1>4

\* Dismissing closes pending requests, which keep what they hold until the cleanup.
LEMMA DismissPreserves ==
    ASSUME RequestsInv, NEW rs \in SUBSET Requests, DismissNotificationRequests(rs)
    PROVE  RequestsInv'
<1> USE RequestAssumption DEF RequestsInv, DismissNotificationRequests, Enqueue
<1>1. TypeOK'
  BY DEF TypeOK, JobKinds
<1>2. OneActiveRequest'
  BY DEF OneActiveRequest, Open, TypeOK
<1>3. Held'
  BY DEF Held, Stored, TypeOK
<1>4. LookedUpIsOfSender'
  BY DEF LookedUpIsOfSender, TypeOK
<1> QED BY <1>1, <1>2, <1>3, <1>4

\* The merge releases what the requests it deletes hold.
LEMMA MergePreserves ==
    ASSUME RequestsInv, MergeNotificationRequests
    PROVE  RequestsInv'
<1> USE RequestAssumption DEF RequestsInv, MergeNotificationRequests
<1>1. TypeOK'
  BY DEF TypeOK, JobKinds
<1>2. OneActiveRequest'
  BY DEF OneActiveRequest, Open, TypeOK
<1>3. \A n \in Notes : /\ In(n, "merging") => note'[n].req = None /\ ~ note'[n].filtered /\ note'[n].st = note[n].st
                       /\ ~ In(n, "merging") => note'[n] = note[n]
  BY DEF TypeOK
<1>4. \A r \in Requests : request'[r] = IF request[r] = "merging" THEN "gone" ELSE request[r]
  OBVIOUS
<1>5. ASSUME NEW n \in Notes
      PROVE  /\ Stored(n)' /\ note'[n].req # None =>
                /\ note'[n].filtered /\ RequestSender[note'[n].req] = SenderOf[n]
                /\ request'[note'[n].req] \in {"pending", "merging", "dismissed"}
             /\ note'[n].st = "looked" /\ note'[n].req # None =>
                RequestSender[note'[n].req] = SenderOf[n] /\ request'[note'[n].req] # "absent"
  <2>1. CASE In(n, "merging")
    <3>1. note'[n].req = None /\ ~ note'[n].filtered
      BY <2>1 DEF TypeOK
    <3> QED BY <3>1
  <2>2. CASE ~ In(n, "merging")
    <3>1. note'[n] = note[n] /\ (note[n].req # None => note[n].req \in Requests)
      BY <1>3, <2>2 DEF TypeOK
    <3> QED
      BY <1>4, <3>1, <2>2 DEF In, Stored, Held, LookedUpIsOfSender
  <2> QED BY <2>1, <2>2
<1>6. Held' /\ LookedUpIsOfSender'
  BY <1>5 DEF Held, LookedUpIsOfSender, Stored
<1> QED BY <1>1, <1>2, <1>5, <1>6

\* The cleanup deletes what the requests it deletes hold.
LEMMA CleanupPreserves ==
    ASSUME RequestsInv, CleanupNotificationRequests
    PROVE  RequestsInv'
<1> USE RequestAssumption DEF RequestsInv, CleanupNotificationRequests
<1>1. TypeOK'
  BY DEF TypeOK, JobKinds
<1>2. OneActiveRequest'
  BY DEF OneActiveRequest, Open, TypeOK
<1>3. \A n \in Notes : /\ In(n, "dismissed") => note'[n].req = None /\ note'[n].st = "deleted"
                       /\ ~ In(n, "dismissed") => note'[n] = note[n]
  BY DEF TypeOK
<1>4. \A r \in Requests : request'[r] = IF request[r] = "dismissed" THEN "gone" ELSE request[r]
  OBVIOUS
<1>5. ASSUME NEW n \in Notes
      PROVE  /\ Stored(n)' /\ note'[n].req # None =>
                /\ note'[n].filtered /\ RequestSender[note'[n].req] = SenderOf[n]
                /\ request'[note'[n].req] \in {"pending", "merging", "dismissed"}
             /\ note'[n].st = "looked" /\ note'[n].req # None =>
                RequestSender[note'[n].req] = SenderOf[n] /\ request'[note'[n].req] # "absent"
  <2>1. CASE In(n, "dismissed")
    <3>1. note'[n].req = None /\ note'[n].st = "deleted"
      BY <2>1 DEF TypeOK
    <3> QED BY <3>1
  <2>2. CASE ~ In(n, "dismissed")
    <3>1. note'[n] = note[n] /\ (note[n].req # None => note[n].req \in Requests)
      BY <1>3, <2>2 DEF TypeOK
    <3> QED
      BY <1>4, <3>1, <2>2 DEF In, Stored, Held, LookedUpIsOfSender
  <2> QED BY <2>1, <2>2
<1>6. Held' /\ LookedUpIsOfSender'
  BY <1>5 DEF Held, LookedUpIsOfSender, Stored
<1> QED BY <1>1, <1>2, <1>5, <1>6

\* Claiming, completing and retrying a job leave notifications and requests alone.
LEMMA JobPreserves ==
    ASSUME RequestsInv, NEW k \in JobKinds, ClaimJob(k) \/ CompleteJob(k) \/ RetryJob(k)
    PROVE  RequestsInv'
<1>1. note' = note /\ request' = request /\ permitted' = permitted
  BY DEF ClaimJob, CompleteJob, RetryJob
<1>2. TypeOK'
  BY RequestAssumption DEF RequestsInv, TypeOK, ClaimJob, CompleteJob, RetryJob
<1> QED
  BY <1>1, <1>2 DEF RequestsInv, OneActiveRequest, Open, Held, Stored, LookedUpIsOfSender

\* Every step of the requests preserves the inductive part.
LEMMA RequestsStep ==
    ASSUME RequestsInv, [Next]_vars
    PROVE  RequestsInv'
<1>1. CASE \E n \in Notes : \E action \in Verdicts : DecideNotification(n, action)
  BY <1>1, DecidePreserves
<1>2. CASE \E n \in Notes : \E r \in Requests : UpsertNotificationRequest(n, r)
  BY <1>2, UpsertPreserves
<1>3. CASE \E n \in Notes : ActiveNotificationRequestId(n)
  BY <1>3, LookUpPreserves
<1>4. CASE \E n \in Notes : InsertNotification(n)
  BY <1>4, InsertPreserves
<1>5. CASE \E n \in Notes : DismissLocalNotification(n)
  BY <1>5, DismissNotePreserves
<1>6. CASE \E rs \in SUBSET Requests : \E accept \in BOOLEAN : RequestAction(rs, accept)
  BY <1>6, AcceptPreserves, DismissPreserves DEF RequestAction
<1>7. CASE \E k \in JobKinds : JobStep(k) \/ RetryJob(k)
  BY <1>7, JobPreserves, MergePreserves, CleanupPreserves DEF JobStep
<1>8. CASE UNCHANGED vars
  BY <1>8 DEF vars, RequestsInv, TypeOK, OneActiveRequest, Open, Held, Stored, LookedUpIsOfSender
<1>9. CASE \E s \in Senders : DismissSender(s)
  BY <1>9, DismissSenderPreserves
<1>10. CASE \E ns \in SUBSET Notes : ReceiveDelete(ns)
  BY <1>10, ReceiveDeletePreserves
<1> QED
  BY <1>1, <1>2, <1>3, <1>4, <1>5, <1>6, <1>7, <1>8, <1>9, <1>10 DEF Next, RequestsNext, SenderNext

\* Initially no event has happened.
LEMMA RequestsStart == Init => RequestsInv
  BY RequestAssumption DEF Init, RequestsInv, TypeOK, OneActiveRequest, Open, Held, Stored, LookedUpIsOfSender

\* The inductive part holds in every state.
LEMMA RequestsInvariant == Spec => []RequestsInv
<1>1. RequestsInv /\ [Next]_vars => RequestsInv'
  BY RequestsStep
<1> QED
  BY RequestsStart, <1>1, PTL DEF Spec
-----------------------------------------------------------------------------
\* A sender never has two requests that are open, and every notification that names
\* a request is held and of the sender of a request that exists; what the list
\* counts and no block dismissed, the summary counts: create_local_notification,
\* accept, dismiss, merge, cleanup, blocks and Deletes in any order, with any
\* number of senders and faults.
THEOREM RequestsAreSafe == Spec => []RequestsSafe
<1>1. RequestsInv => RequestsSafe
  BY HeldIsCounted DEF RequestsSafe, RequestsInv
<1> QED
  BY RequestsInvariant, <1>1, PTL

\* A notification goes with the Note or the actor a Delete names, which takes
\* nothing of others, or with the request that holds it, when this was dismissed:
\* cleanup_notification_requests deletes nothing else, and no other job deletes.
THEOREM DeletionsHaveACause == Spec => DeletedForCause
<1> DEFINE P == \A n \in Notes : Stored(n) /\ note'[n].st = "deleted" =>
                   \/ /\ UNCHANGED <<request, permitted, job>>
                      /\ \A m \in Notes : note'[m] # note[m] => SenderOf[m] = SenderOf[n]
                   \/ note[n].filtered /\ note[n].req # None /\ request[note[n].req] = "dismissed"
<1>1. ASSUME RequestsInv, [Next]_vars
      PROVE  [P]_vars
  <2>1. CASE CleanupNotificationRequests
    BY <1>1, <2>1 DEF P, CleanupNotificationRequests, In, Stored, RequestsInv, Held, TypeOK
  <2>2. CASE UNCHANGED vars
    BY <2>2
  <2>4. CASE \E ns \in SUBSET Notes : ReceiveDelete(ns)
    <3>1. PICK ns \in SUBSET Notes : ReceiveDelete(ns)
      BY <2>4
    <3>2. \A m, n \in ns : SenderOf[m] = SenderOf[n]
      BY <3>1 DEF ReceiveDelete, From
    <3>3. \A n \in Notes : n \notin ns => note'[n] = note[n]
      BY <3>1 DEF ReceiveDelete
    <3>4. UNCHANGED <<request, permitted, job>>
      BY <3>1 DEF ReceiveDelete
    <3>5. \A n \in Notes : Stored(n) /\ note'[n].st = "deleted" => n \in ns
      BY <3>3 DEF Stored
    <3> QED BY <3>2, <3>3, <3>4, <3>5 DEF P
  <2>3. CASE Next /\ ~ CleanupNotificationRequests /\ ~ \E ns \in SUBSET Notes : ReceiveDelete(ns)
    <3> SUFFICES ASSUME NEW n \in Notes, Stored(n)
                 PROVE  note'[n].st # "deleted"
      BY DEF P
    <3> USE <1>1 DEF RequestsInv, TypeOK, Stored
    <3>1. CASE \E m \in Notes : \E action \in Verdicts : DecideNotification(m, action)
      BY <3>1 DEF DecideNotification, Keep, Verdicts
    <3>2. CASE \E m \in Notes : \E r \in Requests : UpsertNotificationRequest(m, r)
      BY <3>2 DEF UpsertNotificationRequest
    <3>3. CASE \E m \in Notes : ActiveNotificationRequestId(m) \/ InsertNotification(m)
      BY <3>3 DEF ActiveNotificationRequestId, InsertNotification, Keep
    <3>4. CASE \E m \in Notes : DismissLocalNotification(m)
      BY <3>4 DEF DismissLocalNotification
    <3>8. CASE \E s \in Senders : DismissSender(s)
      BY <3>8 DEF DismissSender
    <3>5. CASE \E rs \in SUBSET Requests : \E accept \in BOOLEAN : RequestAction(rs, accept)
      BY <3>5 DEF RequestAction, AcceptNotificationRequests, DismissNotificationRequests
    <3>6. CASE MergeNotificationRequests
      BY <3>6 DEF MergeNotificationRequests
    <3>7. CASE \E k \in JobKinds : ClaimJob(k) \/ CompleteJob(k) \/ RetryJob(k)
      BY <3>7 DEF ClaimJob, CompleteJob, RetryJob
    <3> QED
      BY <2>3, <3>1, <3>2, <3>3, <3>4, <3>5, <3>6, <3>7, <3>8 DEF Next, RequestsNext, SenderNext, JobStep
  <2> QED
    BY <1>1, <2>1, <2>2, <2>3, <2>4
<1>2. RequestsInv /\ [Next]_vars => [P]_vars
  BY <1>1
<1>3. Spec => [][P]_vars
  BY RequestsInvariant, <1>2, PTL DEF Spec
<1> QED
  BY <1>3 DEF DeletedForCause
-----------------------------------------------------------------------------
(* The policy *)

\* max_by_key finds an action among the collected ones that none exceeds.
LEMMA StrongestIsMaximal ==
    ASSUME NEW S \in SUBSET Actions, S # {}
    PROVE  strongest(S) \in S /\ \A b \in S : Rank(b) <= Rank(strongest(S))
<1>1. Rank("accept") = 0 /\ Rank("filter") = 1 /\ Rank("drop") = 2
  BY DEF Rank
<1>2. \E a \in S : \A b \in S : Rank(b) <= Rank(a)
  <2>1. CASE "drop" \in S
    <3>1. \A b \in S : Rank(b) <= Rank("drop")
      BY <1>1 DEF Actions
    <3> QED BY <2>1, <3>1
  <2>2. CASE "drop" \notin S /\ "filter" \in S
    <3>1. \A b \in S : Rank(b) <= Rank("filter")
      BY <1>1, <2>2 DEF Actions
    <3> QED BY <2>2, <3>1
  <2>3. CASE "drop" \notin S /\ "filter" \notin S
    <3>1. S = {"accept"}
      BY <2>3 DEF Actions
    <3> QED BY <1>1, <3>1
  <2> QED BY <2>1, <2>2, <2>3
<1> HIDE DEF Rank
<1> QED BY <1>2 DEF strongest

\* The action for a set of fields grows with the policy.
LEMMA AppliedIsMonotone ==
    ASSUME policy \in [Fields -> Actions], policy' \in [Fields -> Actions],
           \A field \in Fields : Rank(policy[field]) <= Rank(policy'[field]),
           NEW fields \in SUBSET Fields
    PROVE  Rank(strongest({policy[f] : f \in fields})) <= Rank(strongest({policy'[f] : f \in fields}))
<1>1. \A a \in Actions : Rank(a) \in Nat
  BY DEF Rank, Actions
<1>2. CASE fields = {}
  BY <1>1, <1>2 DEF strongest, Actions
<1>3. CASE fields # {}
  <2> DEFINE S == {policy[f] : f \in fields}
             T == {policy'[f] : f \in fields}
  <2>1. S \in SUBSET Actions /\ S # {} /\ T \in SUBSET Actions /\ T # {}
    BY <1>3
  <2>2. PICK f \in fields : strongest(S) = policy[f]
    BY <2>1, StrongestIsMaximal
  <2>3. Rank(policy'[f]) <= Rank(strongest(T))
    BY <2>1, StrongestIsMaximal
  <2>4. strongest(T) \in Actions /\ policy[f] \in Actions /\ policy'[f] \in Actions
    BY <2>1, StrongestIsMaximal
  <2> HIDE DEF S, T
  <2>5. Rank(strongest(S)) <= Rank(strongest(T))
    BY <1>1, <2>2, <2>3, <2>4
  <2> QED BY <2>5 DEF S, T
<1> QED BY <1>2, <1>3

\* The two implementations collect the same fields, of any sender.
LEMMA SameFields ==
    ASSUME NEW f
    PROVE  local_notification_policy_action(f) = remote_notification_policy_action(f)
<1> DEFINE A == IF f.follows THEN {} ELSE {"not_following"}
           B == UnlessFollowing(f)
<1>1. (A \cup (IF f.follower = "no" THEN {"not_followers"} ELSE {}) \cup B)
          \cup (IF f.follower = "recent" THEN {"not_followers"} ELSE {})
      = (A \cup (IF f.follower \in {"no", "recent"} THEN {"not_followers"} ELSE {})) \cup B
  BY DEF UnlessFollowing
<1> QED
  BY <1>1 DEF local_notification_policy_action, remote_notification_policy_action

\* Local and remote senders are treated alike before and after every edit of the
\* policy, and an edit that makes it stricter lets nothing more through.
THEOREM OnePolicy == PolicySpec => PolicyIsOne
<1> DEFINE TypeInv == policy \in [Fields -> Actions]
           P == LocalAndRemoteAgree /\ LocalAndRemoteAgree' /\ StricterIsStricter
<1>1. PolicyInit => TypeInv
  BY DEF PolicyInit, Defaults, Fields, Actions
<1>2. TypeInv /\ [PolicyNext]_policy_vars => TypeInv'
  BY DEF PolicyNext, update_notification_policy, policy_vars
<1>3. LocalAndRemoteAgree
  BY SameFields DEF LocalAndRemoteAgree
<1>4. LocalAndRemoteAgree'
  BY <1>3, PTL
<1>5. ASSUME TypeInv, TypeInv', PolicyNext
      PROVE  P
  <2>1. sender' = sender
    BY <1>5 DEF PolicyNext, update_notification_policy
  <2>2. ASSUME \A field \in Fields : Rank(policy[field]) <= Rank(policy'[field])
        PROVE  Rank(remote_notification_policy_action(sender)) <= Rank(remote_notification_policy_action(sender)')
    <3> DEFINE fields == (IF sender.follows THEN {} ELSE {"not_following"})
                 \cup (IF sender.follower \in {"no", "recent"} THEN {"not_followers"} ELSE {})
                 \cup UnlessFollowing(sender)
    <3>1. fields \in SUBSET Fields
      BY DEF Fields, UnlessFollowing
    <3>2. Rank(strongest({policy[f] : f \in fields})) <= Rank(strongest({policy'[f] : f \in fields}))
      BY <1>5, <2>2, <3>1, AppliedIsMonotone
    <3>3. remote_notification_policy_action(sender)
            = IF sender.permitted THEN "accept" ELSE strongest({policy[f] : f \in fields})
      BY DEF remote_notification_policy_action, Applied
    <3>4. remote_notification_policy_action(sender)'
            = IF sender.permitted THEN "accept" ELSE strongest({policy'[f] : f \in fields})
      BY <2>1 DEF remote_notification_policy_action, Applied, UnlessFollowing
    <3>5. CASE sender.permitted
      BY <3>3, <3>4, <3>5 DEF Rank
    <3>6. CASE ~ sender.permitted
      BY <3>2, <3>3, <3>4, <3>6
    <3> QED BY <3>5, <3>6
  <2> QED
    BY <1>3, <1>4, <2>2 DEF StricterIsStricter
<1>6. TypeInv /\ TypeInv' /\ [PolicyNext]_policy_vars => [P]_policy_vars
  BY <1>5
<1> HIDE DEF TypeInv, P
<1>7. PolicySpec => [][P]_policy_vars
  BY <1>1, <1>2, <1>6, PTL DEF PolicySpec
<1> QED
  BY <1>7 DEF PolicyIsOne, P
-----------------------------------------------------------------------------
(* Relationships with remote actors *)

FollowIds == UNION {PeerFollow[r] : r \in Actor}
BlockIds == UNION {PeerBlock[r] : r \in Actor}
States == {"pending", "accepted"}
Handlers == {"unfollow", "unblock", "accept", "reject", "migrate"}

Following == [activity : Nat \ {0}, active : BOOLEAN, state : States]
Follower == [activity : FollowIds, row : FollowIds, state : States]

\* The types of the rows and messages, without the bounds of the model.
RowsTyped ==
    /\ activities \in Nat
    /\ following \in [Actor -> {NoFollow} \cup Following]
    /\ follower \in [Actor -> {NoFollow} \cup Follower]
    /\ blocking \in [Actor -> Nat] /\ blockedBy \in [Actor -> {0} \cup BlockIds]
    /\ \A r \in Actor : /\ following[r] # NoFollow => following[r].activity <= activities
                        /\ follower[r] # NoFollow => {follower[r].activity, follower[r].row} \subseteq PeerFollow[r]
                        /\ blocking[r] <= activities /\ blockedBy[r] \in {0} \cup PeerBlock[r]
    /\ \A m \in outbox \cup processed : m.type \in Types /\ m.actor \in Actor
    /\ moved \subseteq Moves /\ migrations \subseteq Moves
    /\ \A t \in open : t.handler \in Handlers /\ t.actor \in Actor

\* What is answered has been received: by this server, by a transaction that is
\* about to answer, and what was undone. A Follow keeps the row it was given.
AnsweredWasReceived ==
    /\ \A r \in Actor : follower[r] # NoFollow => Activity("Follow", r, follower[r].activity) \in processed
    /\ \A m \in outbox : m.type \in {"Accept", "Reject"} => Activity("Follow", m.actor, m.object) \in processed
    /\ \A t \in open : t.handler \in {"accept", "reject"} =>
         /\ Activity("Follow", t.actor, t.object) \in processed
         /\ follower[t.actor] # NoFollow /\ follower[t.actor].activity = t.object => follower[t.actor].row = t.row
    /\ \A u \in undone : Activity("Follow", u[1], u[2]) \in processed

\* The ids of what this server sends grow, and a follow that a migration has
\* deactivated was undone.
SentInOrder ==
    /\ \A m \in outbox : m.type \in {"Follow", "Block"} => m.object \in 1..activities
    /\ \A r \in Actor : following[r] # NoFollow /\ ~ following[r].active =>
         Activity("Undo", r, following[r].activity) \in outbox

\* A migration that is open works for an unfinished job.
MigrationsKnown ==
    \A t \in open : t.handler = "migrate" => t.job \in Moves /\ t.actor = t.job[2]

\* The inductive invariant behind RelationshipsSafe, but for the bounds.
RelationshipsInv ==
    /\ RowsTyped /\ AnsweredWasReceived /\ SentInOrder /\ MigrationsKnown
    /\ BlockSevers /\ AcceptedByPeer /\ AnswersAgree /\ UndoneStaysUndone
    /\ NoFollowLeftBehind /\ NoBlockLeftBehind
-----------------------------------------------------------------------------
(* What every operation keeps: messages are only added. *)

Current(m) == following[m.actor] # NoFollow /\ following[m.actor].activity = m.object
Settled(m) ==
    \/ Activity("Undo", m.actor, m.object) \in outbox
    \/ Activity("Reject", m.actor, m.object) \in processed
    \/ \E b \in outbox : b.type = "Block" /\ b.actor = m.actor /\ b.object > m.object
    \/ \E b \in PeerBlock[m.actor] : Activity("Block", m.actor, b) \in processed
    \/ <<m.actor, m.object>> \in stale

\* A Follow stays accounted for when nothing is taken back from the outbox, the
\* replay markers and the races, and the present follows go on or are settled.
LEMMA FollowsStaySettled ==
    ASSUME NoFollowLeftBehind, outbox \subseteq outbox', processed \subseteq processed', stale \subseteq stale',
           \A m \in outbox : m.type = "Follow" /\ Current(m) => Current(m)' \/ Settled(m)',
           \A m \in outbox' : m.type = "Follow" => m \in outbox \/ Current(m)'
    PROVE  NoFollowLeftBehind'
<1> SUFFICES ASSUME NEW m \in outbox', m.type = "Follow"
             PROVE  Current(m)' \/ Settled(m)'
  BY DEF NoFollowLeftBehind, Current, Settled
<1>1. CASE m \in outbox
  <2>1. Current(m) \/ Settled(m)
    BY <1>1 DEF NoFollowLeftBehind, Current, Settled
  <2>2. Settled(m) => Settled(m)'
    BY DEF Settled, Activity
  <2> QED BY <1>1, <2>1, <2>2
<1> QED BY <1>1
-----------------------------------------------------------------------------
(* Requests and activities that take one step *)

\* A follow replaces none, or one that a migration has undone.
LEMMA FollowPreserves ==
    ASSUME RelationshipsInv, NEW r \in Actor, Follow(r)
    PROVE  RelationshipsInv'
<1> USE DEF RelationshipsInv, Follow, NewActivity, Send
<1>1. RowsTyped'
  BY DEF RowsTyped, NoFollow, Following, Follower, States, Types, Handlers, Activity, Active
<1>2. AnsweredWasReceived'
  BY DEF AnsweredWasReceived, Activity, RowsTyped, NoFollow, Following, Follower, States
<1>3. SentInOrder'
  BY DEF SentInOrder, Activity, RowsTyped, NoFollow, Following, Follower, States
<1>4. MigrationsKnown'
  BY DEF MigrationsKnown, RowsTyped, NoFollow, Following, Follower, States
<1>5. BlockSevers'
  BY DEF BlockSevers, Blocked, RowsTyped, NoFollow, Following, Follower, States, Active
<1>6. AcceptedByPeer'
  BY DEF AcceptedByPeer, Activity, RowsTyped, NoFollow, Following, Follower, States
<1>7. AnswersAgree'
  BY DEF AnswersAgree, Activity, RowsTyped, NoFollow, Following, Follower, States
<1>8. UndoneStaysUndone'
  BY DEF UndoneStaysUndone, RowsTyped, NoFollow, Following, Follower, States
<1>9. NoFollowLeftBehind'
  <2>1. \A m \in outbox : m.type = "Follow" /\ Current(m) => Current(m)' \/ Settled(m)'
    BY DEF Current, Settled, Activity, RowsTyped, NoFollow, Following, States, Active, SentInOrder
  <2>2. \A m \in outbox' : m.type = "Follow" => m \in outbox \/ Current(m)'
    BY DEF Current, Activity, RowsTyped, NoFollow, Following, States
  <2>3. outbox \subseteq outbox' /\ processed \subseteq processed' /\ stale \subseteq stale'
    OBVIOUS
  <2> QED BY <2>1, <2>2, <2>3, FollowsStaySettled
<1>10. NoBlockLeftBehind'
  BY DEF NoBlockLeftBehind, Activity, RowsTyped, NoFollow, Following, Follower, States
<1> QED BY <1>1, <1>2, <1>3, <1>4, <1>5, <1>6, <1>7, <1>8, <1>9, <1>10

\* A block severs both directions, and is newer than the follow it ends.
LEMMA BlockPreserves ==
    ASSUME RelationshipsInv, NEW r \in Actor, Block(r)
    PROVE  RelationshipsInv'
<1> USE DEF RelationshipsInv, Block, NewActivity, Send, Sever
<1>1. RowsTyped'
  BY DEF RowsTyped, NoFollow, Following, Follower, States, Types, Handlers, Activity
<1>2. AnsweredWasReceived'
  BY DEF AnsweredWasReceived, Activity, RowsTyped, NoFollow, Following, Follower, States
<1>3. SentInOrder'
  BY DEF SentInOrder, Activity, RowsTyped, NoFollow, Following, Follower, States
<1>4. MigrationsKnown'
  BY DEF MigrationsKnown, RowsTyped, NoFollow, Following, Follower, States
<1>5. BlockSevers'
  BY DEF BlockSevers, Blocked, RowsTyped, NoFollow, Following, Follower, States
<1>6. AcceptedByPeer'
  BY DEF AcceptedByPeer, Activity, RowsTyped, NoFollow, Following, Follower, States
<1>7. AnswersAgree'
  BY DEF AnswersAgree, Activity, RowsTyped, NoFollow, Following, Follower, States
<1>8. UndoneStaysUndone'
  BY DEF UndoneStaysUndone, RowsTyped, NoFollow, Following, Follower, States
<1>9. NoFollowLeftBehind'
  <2>1. ASSUME NEW m \in outbox, m.type = "Follow", Current(m)
        PROVE  Current(m)' \/ Settled(m)'
    <3>1. CASE m.actor # r
      BY <2>1, <3>1 DEF Current, RowsTyped
    <3>2. CASE m.actor = r /\ blocking[r] = 0
      <4>1. Activity("Block", m.actor, activities') \in outbox' /\ activities' > m.object
        BY <2>1, <3>2 DEF SentInOrder, RowsTyped
      <4> QED BY <4>1 DEF Settled, Activity
    <3>3. CASE m.actor = r /\ blocking[r] # 0
      <4>1. <<m.actor, m.object>> \in stale
        BY <2>1, <3>3 DEF BlockSevers, Blocked, Current
      <4> QED BY <4>1 DEF Settled
    <3> QED BY <3>1, <3>2, <3>3
  <2>2. \A m \in outbox' : m.type = "Follow" => m \in outbox \/ Current(m)'
    BY DEF Current, Activity, RowsTyped
  <2>3. outbox \subseteq outbox' /\ processed \subseteq processed' /\ stale \subseteq stale'
    OBVIOUS
  <2> QED BY <2>1, <2>2, <2>3, FollowsStaySettled
<1>10. NoBlockLeftBehind'
  BY DEF NoBlockLeftBehind, Activity, RowsTyped, NoFollow, Following, Follower, States, SentInOrder
<1> QED BY <1>1, <1>2, <1>3, <1>4, <1>5, <1>6, <1>7, <1>8, <1>9, <1>10

\* A Follow is taken in once, and not across a block: nothing was answered before it came.
LEMMA ReceiveFollowPreserves ==
    ASSUME RelationshipsInv, NEW r \in Actor, ReceiveFollow(r)
    PROVE  RelationshipsInv'
<1> USE DEF RelationshipsInv, ReceiveFollow, Receive, IsNew, FollowReceived, Send
<1>1. RowsTyped'
  BY DEF RowsTyped, NoFollow, Following, Follower, States, Types, Handlers, Activity, FollowIds
<1>2. AnsweredWasReceived'
  BY DEF AnsweredWasReceived, Activity, RowsTyped, NoFollow, Following, Follower, States
<1>3. SentInOrder'
  BY DEF SentInOrder, Activity, RowsTyped, NoFollow, Following, Follower, States
<1>4. MigrationsKnown'
  BY DEF MigrationsKnown, RowsTyped, NoFollow, Following, Follower, States
<1>5. BlockSevers'
  BY DEF BlockSevers, Blocked, RowsTyped, NoFollow, Following, Follower, States
<1>6. AcceptedByPeer'
  BY DEF AcceptedByPeer, Activity, RowsTyped, NoFollow, Following, Follower, States
<1>7. AnswersAgree'
  BY DEF AnswersAgree, Activity, RowsTyped, NoFollow, Following, Follower, States, AnsweredWasReceived
<1>8. UndoneStaysUndone'
  BY DEF UndoneStaysUndone, RowsTyped, NoFollow, Following, Follower, States, AnsweredWasReceived, Activity
<1>9. NoFollowLeftBehind'
  <2>1. \A m \in outbox : m.type = "Follow" /\ Current(m) => Current(m)' \/ Settled(m)'
    BY DEF Current, Settled, Activity, RowsTyped, NoFollow, Following, States
  <2>2. \A m \in outbox' : m.type = "Follow" => m \in outbox \/ Current(m)'
    BY DEF Current, Activity, RowsTyped, NoFollow, Following, States
  <2>3. outbox \subseteq outbox' /\ processed \subseteq processed' /\ stale \subseteq stale'
    OBVIOUS
  <2> QED BY <2>1, <2>2, <2>3, FollowsStaySettled
<1>10. NoBlockLeftBehind'
  BY DEF NoBlockLeftBehind, Activity, RowsTyped, NoFollow, Following, Follower, States
<1> QED BY <1>1, <1>2, <1>3, <1>4, <1>5, <1>6, <1>7, <1>8, <1>9, <1>10

\* An Undo removes the follower that it names.
LEMMA ReceiveUndoFollowPreserves ==
    ASSUME RelationshipsInv, NEW r \in Actor, ReceiveUndoFollow(r)
    PROVE  RelationshipsInv'
<1> USE DEF RelationshipsInv, ReceiveUndoFollow, Receive, IsNew, UndoFollowReceived
<1>1. RowsTyped'
  BY DEF RowsTyped, NoFollow, Following, Follower, States, Types, Handlers, Activity
<1>2. AnsweredWasReceived'
  BY DEF AnsweredWasReceived, Activity, RowsTyped, NoFollow, Following, Follower, States
<1>3. SentInOrder'
  BY DEF SentInOrder, Activity, RowsTyped, NoFollow, Following, Follower, States
<1>4. MigrationsKnown'
  BY DEF MigrationsKnown, RowsTyped, NoFollow, Following, Follower, States
<1>5. BlockSevers'
  BY DEF BlockSevers, Blocked, RowsTyped, NoFollow, Following, Follower, States
<1>6. AcceptedByPeer'
  BY DEF AcceptedByPeer, Activity, RowsTyped, NoFollow, Following, Follower, States
<1>7. AnswersAgree'
  BY DEF AnswersAgree, Activity, RowsTyped, NoFollow, Following, Follower, States
<1>8. UndoneStaysUndone'
  BY DEF UndoneStaysUndone, RowsTyped, NoFollow, Following, Follower, States
<1>9. NoFollowLeftBehind'
  BY DEF NoFollowLeftBehind, Activity, RowsTyped, NoFollow, Following, Follower, States
<1>10. NoBlockLeftBehind'
  BY DEF NoBlockLeftBehind, Activity, RowsTyped, NoFollow, Following, Follower, States
<1> QED BY <1>1, <1>2, <1>3, <1>4, <1>5, <1>6, <1>7, <1>8, <1>9, <1>10

\* An answer counts for the follow that it names.
LEMMA ReceiveAnswerPreserves ==
    ASSUME RelationshipsInv, NEW r \in Actor, ReceiveAnswer(r)
    PROVE  RelationshipsInv'
<1> USE DEF RelationshipsInv, ReceiveAnswer, Receive, IsNew, AcceptReceived, RejectReceived
<1>1. RowsTyped'
  BY DEF RowsTyped, NoFollow, Following, Follower, States, Types, Handlers, Activity
<1>2. AnsweredWasReceived'
  BY DEF AnsweredWasReceived, Activity, RowsTyped, NoFollow, Following, Follower, States
<1>3. SentInOrder'
  BY DEF SentInOrder, Activity, RowsTyped, NoFollow, Following, Follower, States
<1>4. MigrationsKnown'
  BY DEF MigrationsKnown, RowsTyped, NoFollow, Following, Follower, States
<1>5. BlockSevers'
  <2>1. \A q \in Actor : following'[q] = NoFollow \/ (following[q] # NoFollow /\ following'[q].activity = following[q].activity)
    BY DEF RowsTyped, NoFollow, Following, States
  <2> QED BY <2>1 DEF BlockSevers, Blocked
<1>6. AcceptedByPeer'
  BY DEF AcceptedByPeer, Activity, RowsTyped, NoFollow, Following, Follower, States
<1>7. AnswersAgree'
  BY DEF AnswersAgree, Activity, RowsTyped, NoFollow, Following, Follower, States
<1>8. UndoneStaysUndone'
  BY DEF UndoneStaysUndone, RowsTyped, NoFollow, Following, Follower, States
<1>9. NoFollowLeftBehind'
  <2>1. \A m \in outbox : m.type = "Follow" /\ Current(m) => Current(m)' \/ Settled(m)'
    BY DEF Current, Settled, Activity, RowsTyped, NoFollow, Following, States
  <2>2. \A m \in outbox' : m.type = "Follow" => m \in outbox \/ Current(m)'
    BY DEF Current, Activity, RowsTyped, NoFollow, Following, States
  <2>3. outbox \subseteq outbox' /\ processed \subseteq processed' /\ stale \subseteq stale'
    OBVIOUS
  <2> QED BY <2>1, <2>2, <2>3, FollowsStaySettled
<1>10. NoBlockLeftBehind'
  BY DEF NoBlockLeftBehind, Activity, RowsTyped, NoFollow, Following, Follower, States
<1> QED BY <1>1, <1>2, <1>3, <1>4, <1>5, <1>6, <1>7, <1>8, <1>9, <1>10

\* A Block of the peer severs both directions.
LEMMA ReceiveBlockPreserves ==
    ASSUME RelationshipsInv, NEW r \in Actor, ReceiveBlock(r)
    PROVE  RelationshipsInv'
<1> USE DEF RelationshipsInv, ReceiveBlock, Receive, IsNew, BlockReceived, Sever
<1>1. RowsTyped'
  BY DEF RowsTyped, NoFollow, Following, Follower, States, Types, Handlers, Activity, BlockIds
<1>2. AnsweredWasReceived'
  BY DEF AnsweredWasReceived, Activity, RowsTyped, NoFollow, Following, Follower, States
<1>3. SentInOrder'
  BY DEF SentInOrder, Activity, RowsTyped, NoFollow, Following, Follower, States
<1>4. MigrationsKnown'
  BY DEF MigrationsKnown, RowsTyped, NoFollow, Following, Follower, States
<1>5. BlockSevers'
  BY DEF BlockSevers, Blocked, RowsTyped, NoFollow, Following, Follower, States
<1>6. AcceptedByPeer'
  BY DEF AcceptedByPeer, Activity, RowsTyped, NoFollow, Following, Follower, States
<1>7. AnswersAgree'
  BY DEF AnswersAgree, Activity, RowsTyped, NoFollow, Following, Follower, States
<1>8. UndoneStaysUndone'
  BY DEF UndoneStaysUndone, RowsTyped, NoFollow, Following, Follower, States
<1>9. NoFollowLeftBehind'
  BY DEF NoFollowLeftBehind, Activity, RowsTyped, NoFollow, Following, Follower, States
<1>10. NoBlockLeftBehind'
  BY DEF NoBlockLeftBehind, Activity, RowsTyped, NoFollow, Following, Follower, States
<1> QED BY <1>1, <1>2, <1>3, <1>4, <1>5, <1>6, <1>7, <1>8, <1>9, <1>10

\* Lifting a block restores no relationship.
LEMMA ReceiveUndoBlockPreserves ==
    ASSUME RelationshipsInv, NEW r \in Actor, ReceiveUndoBlock(r)
    PROVE  RelationshipsInv'
<1> USE DEF RelationshipsInv, ReceiveUndoBlock, Receive, IsNew
<1>1. RowsTyped'
  BY DEF RowsTyped, NoFollow, Following, Follower, States, Types, Handlers, Activity
<1>2. AnsweredWasReceived'
  BY DEF AnsweredWasReceived, Activity, RowsTyped, NoFollow, Following, Follower, States
<1>3. SentInOrder'
  BY DEF SentInOrder, Activity, RowsTyped, NoFollow, Following, Follower, States
<1>4. MigrationsKnown'
  BY DEF MigrationsKnown, RowsTyped, NoFollow, Following, Follower, States
<1>5. BlockSevers'
  BY DEF BlockSevers, Blocked, RowsTyped, NoFollow, Following, Follower, States
<1>6. AcceptedByPeer'
  BY DEF AcceptedByPeer, Activity, RowsTyped, NoFollow, Following, Follower, States
<1>7. AnswersAgree'
  BY DEF AnswersAgree, Activity, RowsTyped, NoFollow, Following, Follower, States
<1>8. UndoneStaysUndone'
  BY DEF UndoneStaysUndone, RowsTyped, NoFollow, Following, Follower, States
<1>9. NoFollowLeftBehind'
  BY DEF NoFollowLeftBehind, Activity, RowsTyped, NoFollow, Following, Follower, States
<1>10. NoBlockLeftBehind'
  BY DEF NoBlockLeftBehind, Activity, RowsTyped, NoFollow, Following, Follower, States
<1> QED BY <1>1, <1>2, <1>3, <1>4, <1>5, <1>6, <1>7, <1>8, <1>9, <1>10

\* A Move is recorded and leaves the rows to its job.
LEMMA ReceiveMovePreserves ==
    ASSUME RelationshipsInv, NEW r \in Actor, ReceiveMove(r)
    PROVE  RelationshipsInv'
<1> USE DEF RelationshipsInv, ReceiveMove, Receive, IsNew, MoveReceived
<1>1. RowsTyped'
  <2>1. moved' \subseteq Moves /\ migrations' \subseteq Moves
    BY RelationshipsAssumption DEF RowsTyped
  <2> QED BY <2>1 DEF RowsTyped, Activity, Types
<1>2. AnsweredWasReceived'
  BY DEF AnsweredWasReceived, Activity, RowsTyped, NoFollow, Following, Follower, States
<1>3. SentInOrder'
  BY DEF SentInOrder, Activity, RowsTyped, NoFollow, Following, Follower, States
<1>4. MigrationsKnown'
  BY DEF MigrationsKnown, RowsTyped, NoFollow, Following, Follower, States
<1>5. BlockSevers'
  BY DEF BlockSevers, Blocked, RowsTyped, NoFollow, Following, Follower, States
<1>6. AcceptedByPeer'
  BY DEF AcceptedByPeer, Activity, RowsTyped, NoFollow, Following, Follower, States
<1>7. AnswersAgree'
  BY DEF AnswersAgree, Activity, RowsTyped, NoFollow, Following, Follower, States
<1>8. UndoneStaysUndone'
  BY DEF UndoneStaysUndone, RowsTyped, NoFollow, Following, Follower, States
<1>9. NoFollowLeftBehind'
  BY DEF NoFollowLeftBehind, Activity, RowsTyped, NoFollow, Following, Follower, States
<1>10. NoBlockLeftBehind'
  BY DEF NoBlockLeftBehind, Activity, RowsTyped, NoFollow, Following, Follower, States
<1> QED BY <1>1, <1>2, <1>3, <1>4, <1>5, <1>6, <1>7, <1>8, <1>9, <1>10

-----------------------------------------------------------------------------
(* Transactions that read before they lock *)

\* Reading a follow to undo changes nothing else.
LEMMA BeginUnfollowPreserves ==
    ASSUME RelationshipsInv, NEW r \in Actor, BeginUnfollow(r)
    PROVE  RelationshipsInv'
<1> USE DEF RelationshipsInv, BeginUnfollow, Begin
<1>1. RowsTyped'
  BY DEF RowsTyped, NoFollow, Following, Follower, States, Types, Handlers, Activity
<1>2. AnsweredWasReceived'
  BY DEF AnsweredWasReceived, Activity, RowsTyped, NoFollow, Following, Follower, States
<1>3. SentInOrder'
  BY DEF SentInOrder, Activity, RowsTyped, NoFollow, Following, Follower, States
<1>4. MigrationsKnown'
  BY DEF MigrationsKnown, RowsTyped, NoFollow, Following, Follower, States
<1>5. BlockSevers'
  BY DEF BlockSevers, Blocked, RowsTyped, NoFollow, Following, Follower, States
<1>6. AcceptedByPeer'
  BY DEF AcceptedByPeer, Activity, RowsTyped, NoFollow, Following, Follower, States
<1>7. AnswersAgree'
  BY DEF AnswersAgree, Activity, RowsTyped, NoFollow, Following, Follower, States
<1>8. UndoneStaysUndone'
  BY DEF UndoneStaysUndone, RowsTyped, NoFollow, Following, Follower, States
<1>9. NoFollowLeftBehind'
  BY DEF NoFollowLeftBehind, Activity, RowsTyped, NoFollow, Following, Follower, States
<1>10. NoBlockLeftBehind'
  BY DEF NoBlockLeftBehind, Activity, RowsTyped, NoFollow, Following, Follower, States
<1> QED BY <1>1, <1>2, <1>3, <1>4, <1>5, <1>6, <1>7, <1>8, <1>9, <1>10

\* Reading a block to lift changes nothing else.
LEMMA BeginUnblockPreserves ==
    ASSUME RelationshipsInv, NEW r \in Actor, BeginUnblock(r)
    PROVE  RelationshipsInv'
<1> USE DEF RelationshipsInv, BeginUnblock, Begin
<1>1. RowsTyped'
  BY DEF RowsTyped, NoFollow, Following, Follower, States, Types, Handlers, Activity
<1>2. AnsweredWasReceived'
  BY DEF AnsweredWasReceived, Activity, RowsTyped, NoFollow, Following, Follower, States
<1>3. SentInOrder'
  BY DEF SentInOrder, Activity, RowsTyped, NoFollow, Following, Follower, States
<1>4. MigrationsKnown'
  BY DEF MigrationsKnown, RowsTyped, NoFollow, Following, Follower, States
<1>5. BlockSevers'
  BY DEF BlockSevers, Blocked, RowsTyped, NoFollow, Following, Follower, States
<1>6. AcceptedByPeer'
  BY DEF AcceptedByPeer, Activity, RowsTyped, NoFollow, Following, Follower, States
<1>7. AnswersAgree'
  BY DEF AnswersAgree, Activity, RowsTyped, NoFollow, Following, Follower, States
<1>8. UndoneStaysUndone'
  BY DEF UndoneStaysUndone, RowsTyped, NoFollow, Following, Follower, States
<1>9. NoFollowLeftBehind'
  BY DEF NoFollowLeftBehind, Activity, RowsTyped, NoFollow, Following, Follower, States
<1>10. NoBlockLeftBehind'
  BY DEF NoBlockLeftBehind, Activity, RowsTyped, NoFollow, Following, Follower, States
<1> QED BY <1>1, <1>2, <1>3, <1>4, <1>5, <1>6, <1>7, <1>8, <1>9, <1>10

\* A request that is about to be answered was received, with the row it has.
LEMMA BeginAnswerPreserves ==
    ASSUME RelationshipsInv, NEW r \in Actor, NEW h \in {"accept", "reject"}, BeginAnswer(r, h)
    PROVE  RelationshipsInv'
<1> USE DEF RelationshipsInv, BeginAnswer, Begin
<1>1. RowsTyped'
  BY DEF RowsTyped, NoFollow, Following, Follower, States, Types, Handlers, Activity
<1>2. AnsweredWasReceived'
  BY DEF AnsweredWasReceived, Activity, RowsTyped, NoFollow, Following, Follower, States
<1>3. SentInOrder'
  BY DEF SentInOrder, Activity, RowsTyped, NoFollow, Following, Follower, States
<1>4. MigrationsKnown'
  BY DEF MigrationsKnown, RowsTyped, NoFollow, Following, Follower, States
<1>5. BlockSevers'
  BY DEF BlockSevers, Blocked, RowsTyped, NoFollow, Following, Follower, States
<1>6. AcceptedByPeer'
  BY DEF AcceptedByPeer, Activity, RowsTyped, NoFollow, Following, Follower, States
<1>7. AnswersAgree'
  BY DEF AnswersAgree, Activity, RowsTyped, NoFollow, Following, Follower, States
<1>8. UndoneStaysUndone'
  BY DEF UndoneStaysUndone, RowsTyped, NoFollow, Following, Follower, States
<1>9. NoFollowLeftBehind'
  BY DEF NoFollowLeftBehind, Activity, RowsTyped, NoFollow, Following, Follower, States
<1>10. NoBlockLeftBehind'
  BY DEF NoBlockLeftBehind, Activity, RowsTyped, NoFollow, Following, Follower, States
<1> QED BY <1>1, <1>2, <1>3, <1>4, <1>5, <1>6, <1>7, <1>8, <1>9, <1>10

\* A migration that begins works for its job.
LEMMA BeginMigrationPreserves ==
    ASSUME RelationshipsInv, NEW j \in migrations, BeginMigration(j)
    PROVE  RelationshipsInv'
<1> USE DEF RelationshipsInv, BeginMigration, Begin
<1>1. RowsTyped'
  BY RelationshipsAssumption DEF RowsTyped, Handlers
<1>2. AnsweredWasReceived'
  BY DEF AnsweredWasReceived, Activity, RowsTyped, NoFollow, Following, Follower, States
<1>3. SentInOrder'
  BY DEF SentInOrder, Activity, RowsTyped, NoFollow, Following, Follower, States
<1>4. MigrationsKnown'
  BY DEF MigrationsKnown, RowsTyped, NoFollow, Following, Follower, States
<1>5. BlockSevers'
  BY DEF BlockSevers, Blocked, RowsTyped, NoFollow, Following, Follower, States
<1>6. AcceptedByPeer'
  BY DEF AcceptedByPeer, Activity, RowsTyped, NoFollow, Following, Follower, States
<1>7. AnswersAgree'
  BY DEF AnswersAgree, Activity, RowsTyped, NoFollow, Following, Follower, States
<1>8. UndoneStaysUndone'
  BY DEF UndoneStaysUndone, RowsTyped, NoFollow, Following, Follower, States
<1>9. NoFollowLeftBehind'
  BY DEF NoFollowLeftBehind, Activity, RowsTyped, NoFollow, Following, Follower, States
<1>10. NoBlockLeftBehind'
  BY DEF NoBlockLeftBehind, Activity, RowsTyped, NoFollow, Following, Follower, States
<1> QED BY <1>1, <1>2, <1>3, <1>4, <1>5, <1>6, <1>7, <1>8, <1>9, <1>10

\* A job without followers to move ends.
LEMMA MigrationDonePreserves ==
    ASSUME RelationshipsInv, NEW j \in migrations, MigrationDone(j)
    PROVE  RelationshipsInv'
<1> USE DEF RelationshipsInv, MigrationDone
<1>1. RowsTyped'
  BY DEF RowsTyped, NoFollow, Following, Follower, States, Types, Handlers, Activity
<1>2. AnsweredWasReceived'
  BY DEF AnsweredWasReceived, Activity, RowsTyped, NoFollow, Following, Follower, States
<1>3. SentInOrder'
  BY DEF SentInOrder, Activity, RowsTyped, NoFollow, Following, Follower, States
<1>4. MigrationsKnown'
  BY DEF MigrationsKnown, RowsTyped, NoFollow, Following, Follower, States
<1>5. BlockSevers'
  BY DEF BlockSevers, Blocked, RowsTyped, NoFollow, Following, Follower, States
<1>6. AcceptedByPeer'
  BY DEF AcceptedByPeer, Activity, RowsTyped, NoFollow, Following, Follower, States
<1>7. AnswersAgree'
  BY DEF AnswersAgree, Activity, RowsTyped, NoFollow, Following, Follower, States
<1>8. UndoneStaysUndone'
  BY DEF UndoneStaysUndone, RowsTyped, NoFollow, Following, Follower, States
<1>9. NoFollowLeftBehind'
  BY DEF NoFollowLeftBehind, Activity, RowsTyped, NoFollow, Following, Follower, States
<1>10. NoBlockLeftBehind'
  BY DEF NoBlockLeftBehind, Activity, RowsTyped, NoFollow, Following, Follower, States
<1> QED BY <1>1, <1>2, <1>3, <1>4, <1>5, <1>6, <1>7, <1>8, <1>9, <1>10

\* An unfollow sends the Undo of what it read, and records the race when it removed something else.
LEMMA UnfollowPreserves ==
    ASSUME RelationshipsInv, NEW t \in open, Unfollow(t)
    PROVE  RelationshipsInv'
<1> USE DEF RelationshipsInv, Unfollow, Changed, Send
<1>1. RowsTyped'
  BY DEF RowsTyped, NoFollow, Following, Follower, States, Types, Handlers, Activity
<1>2. AnsweredWasReceived'
  BY DEF AnsweredWasReceived, Activity, RowsTyped, NoFollow, Following, Follower, States
<1>3. SentInOrder'
  BY DEF SentInOrder, Activity, RowsTyped, NoFollow, Following, Follower, States
<1>4. MigrationsKnown'
  BY DEF MigrationsKnown, RowsTyped, NoFollow, Following, Follower, States
<1>5. BlockSevers'
  BY DEF BlockSevers, Blocked, RowsTyped, NoFollow, Following, Follower, States
<1>6. AcceptedByPeer'
  BY DEF AcceptedByPeer, Activity, RowsTyped, NoFollow, Following, Follower, States
<1>7. AnswersAgree'
  BY DEF AnswersAgree, Activity, RowsTyped, NoFollow, Following, Follower, States
<1>8. UndoneStaysUndone'
  BY DEF UndoneStaysUndone, RowsTyped, NoFollow, Following, Follower, States
<1>9. NoFollowLeftBehind'
  <2>1. \A m \in outbox : m.type = "Follow" /\ Current(m) => Current(m)' \/ Settled(m)'
    BY DEF Current, Settled, Activity, RowsTyped, NoFollow, Following, States
  <2>2. \A m \in outbox' : m.type = "Follow" => m \in outbox \/ Current(m)'
    BY DEF Current, Activity, RowsTyped, NoFollow, Following, States
  <2>3. outbox \subseteq outbox' /\ processed \subseteq processed' /\ stale \subseteq stale'
    OBVIOUS
  <2> QED BY <2>1, <2>2, <2>3, FollowsStaySettled
<1>10. NoBlockLeftBehind'
  BY DEF NoBlockLeftBehind, Activity, RowsTyped, NoFollow, Following, Follower, States
<1> QED BY <1>1, <1>2, <1>3, <1>4, <1>5, <1>6, <1>7, <1>8, <1>9, <1>10

\* Lifting a block sends the Undo of what was read.
LEMMA UnblockPreserves ==
    ASSUME RelationshipsInv, NEW t \in open, Unblock(t)
    PROVE  RelationshipsInv'
<1> USE DEF RelationshipsInv, Unblock, Changed, Send
<1>1. RowsTyped'
  BY DEF RowsTyped, NoFollow, Following, Follower, States, Types, Handlers, Activity
<1>2. AnsweredWasReceived'
  BY DEF AnsweredWasReceived, Activity, RowsTyped, NoFollow, Following, Follower, States
<1>3. SentInOrder'
  BY DEF SentInOrder, Activity, RowsTyped, NoFollow, Following, Follower, States
<1>4. MigrationsKnown'
  BY DEF MigrationsKnown, RowsTyped, NoFollow, Following, Follower, States
<1>5. BlockSevers'
  BY DEF BlockSevers, Blocked, RowsTyped, NoFollow, Following, Follower, States
<1>6. AcceptedByPeer'
  BY DEF AcceptedByPeer, Activity, RowsTyped, NoFollow, Following, Follower, States
<1>7. AnswersAgree'
  BY DEF AnswersAgree, Activity, RowsTyped, NoFollow, Following, Follower, States
<1>8. UndoneStaysUndone'
  BY DEF UndoneStaysUndone, RowsTyped, NoFollow, Following, Follower, States
<1>9. NoFollowLeftBehind'
  <2>1. \A m \in outbox : m.type = "Follow" /\ Current(m) => Current(m)' \/ Settled(m)'
    BY DEF Current, Settled, Activity, RowsTyped, NoFollow, Following, States
  <2>2. \A m \in outbox' : m.type = "Follow" => m \in outbox \/ Current(m)'
    BY DEF Current, Activity, RowsTyped, NoFollow, Following, States
  <2>3. outbox \subseteq outbox' /\ processed \subseteq processed' /\ stale \subseteq stale'
    OBVIOUS
  <2> QED BY <2>1, <2>2, <2>3, FollowsStaySettled
<1>10. NoBlockLeftBehind'
  BY DEF NoBlockLeftBehind, Activity, RowsTyped, NoFollow, Following, Follower, States
<1> QED BY <1>1, <1>2, <1>3, <1>4, <1>5, <1>6, <1>7, <1>8, <1>9, <1>10

\* An Accept answers what was read, and the row is accepted.
LEMMA AcceptRequestPreserves ==
    ASSUME RelationshipsInv, NEW t \in open, AcceptRequest(t)
    PROVE  RelationshipsInv'
<1> USE DEF RelationshipsInv, AcceptRequest, RowRemains, Changed, Send
<1>1. RowsTyped'
  BY DEF RowsTyped, NoFollow, Following, Follower, States, Types, Handlers, Activity
<1>2. AnsweredWasReceived'
  BY DEF AnsweredWasReceived, Activity, RowsTyped, NoFollow, Following, Follower, States
<1>3. SentInOrder'
  BY DEF SentInOrder, Activity, RowsTyped, NoFollow, Following, Follower, States
<1>4. MigrationsKnown'
  BY DEF MigrationsKnown, RowsTyped, NoFollow, Following, Follower, States
<1>5. BlockSevers'
  BY DEF BlockSevers, Blocked, RowsTyped, NoFollow, Following, Follower, States
<1>6. AcceptedByPeer'
  BY DEF AcceptedByPeer, Activity, RowsTyped, NoFollow, Following, Follower, States
<1>7. AnswersAgree'
  BY DEF AnswersAgree, Activity, RowsTyped, NoFollow, Following, Follower, States, AnsweredWasReceived
<1>8. UndoneStaysUndone'
  BY DEF UndoneStaysUndone, RowsTyped, NoFollow, Following, Follower, States
<1>9. NoFollowLeftBehind'
  <2>1. \A m \in outbox : m.type = "Follow" /\ Current(m) => Current(m)' \/ Settled(m)'
    BY DEF Current, Settled, Activity, RowsTyped, NoFollow, Following, States
  <2>2. \A m \in outbox' : m.type = "Follow" => m \in outbox \/ Current(m)'
    BY DEF Current, Activity, RowsTyped, NoFollow, Following, States
  <2>3. outbox \subseteq outbox' /\ processed \subseteq processed' /\ stale \subseteq stale'
    OBVIOUS
  <2> QED BY <2>1, <2>2, <2>3, FollowsStaySettled
<1>10. NoBlockLeftBehind'
  BY DEF NoBlockLeftBehind, Activity, RowsTyped, NoFollow, Following, Follower, States
<1> QED BY <1>1, <1>2, <1>3, <1>4, <1>5, <1>6, <1>7, <1>8, <1>9, <1>10

\* A Reject answers what was read, even when the row is gone.
LEMMA RejectRequestPreserves ==
    ASSUME RelationshipsInv, NEW t \in open, RejectRequest(t)
    PROVE  RelationshipsInv'
<1> USE DEF RelationshipsInv, RejectRequest, RowRemains, Changed, Send
<1>1. RowsTyped'
  BY DEF RowsTyped, NoFollow, Following, Follower, States, Types, Handlers, Activity
<1>2. AnsweredWasReceived'
  BY DEF AnsweredWasReceived, Activity, RowsTyped, NoFollow, Following, Follower, States
<1>3. SentInOrder'
  BY DEF SentInOrder, Activity, RowsTyped, NoFollow, Following, Follower, States
<1>4. MigrationsKnown'
  BY DEF MigrationsKnown, RowsTyped, NoFollow, Following, Follower, States
<1>5. BlockSevers'
  BY DEF BlockSevers, Blocked, RowsTyped, NoFollow, Following, Follower, States
<1>6. AcceptedByPeer'
  BY DEF AcceptedByPeer, Activity, RowsTyped, NoFollow, Following, Follower, States
<1>7. AnswersAgree'
  BY DEF AnswersAgree, Activity, RowsTyped, NoFollow, Following, Follower, States, AnsweredWasReceived
<1>8. UndoneStaysUndone'
  BY DEF UndoneStaysUndone, RowsTyped, NoFollow, Following, Follower, States
<1>9. NoFollowLeftBehind'
  <2>1. \A m \in outbox : m.type = "Follow" /\ Current(m) => Current(m)' \/ Settled(m)'
    BY DEF Current, Settled, Activity, RowsTyped, NoFollow, Following, States
  <2>2. \A m \in outbox' : m.type = "Follow" => m \in outbox \/ Current(m)'
    BY DEF Current, Activity, RowsTyped, NoFollow, Following, States
  <2>3. outbox \subseteq outbox' /\ processed \subseteq processed' /\ stale \subseteq stale'
    OBVIOUS
  <2> QED BY <2>1, <2>2, <2>3, FollowsStaySettled
<1>10. NoBlockLeftBehind'
  BY DEF NoBlockLeftBehind, Activity, RowsTyped, NoFollow, Following, Follower, States
<1> QED BY <1>1, <1>2, <1>3, <1>4, <1>5, <1>6, <1>7, <1>8, <1>9, <1>10

\* A migration that is obstructed is rolled back.
LEMMA MigrationFailsPreserves ==
    ASSUME RelationshipsInv, NEW t \in open, MigrationFails(t)
    PROVE  RelationshipsInv'
<1> USE DEF RelationshipsInv, MigrationFails
<1>1. RowsTyped'
  BY DEF RowsTyped, NoFollow, Following, Follower, States, Types, Handlers, Activity
<1>2. AnsweredWasReceived'
  BY DEF AnsweredWasReceived, Activity, RowsTyped, NoFollow, Following, Follower, States
<1>3. SentInOrder'
  BY DEF SentInOrder, Activity, RowsTyped, NoFollow, Following, Follower, States
<1>4. MigrationsKnown'
  BY DEF MigrationsKnown, RowsTyped, NoFollow, Following, Follower, States
<1>5. BlockSevers'
  BY DEF BlockSevers, Blocked, RowsTyped, NoFollow, Following, Follower, States
<1>6. AcceptedByPeer'
  BY DEF AcceptedByPeer, Activity, RowsTyped, NoFollow, Following, Follower, States
<1>7. AnswersAgree'
  BY DEF AnswersAgree, Activity, RowsTyped, NoFollow, Following, Follower, States
<1>8. UndoneStaysUndone'
  BY DEF UndoneStaysUndone, RowsTyped, NoFollow, Following, Follower, States
<1>9. NoFollowLeftBehind'
  BY DEF NoFollowLeftBehind, Activity, RowsTyped, NoFollow, Following, Follower, States
<1>10. NoBlockLeftBehind'
  BY DEF NoBlockLeftBehind, Activity, RowsTyped, NoFollow, Following, Follower, States
<1> QED BY <1>1, <1>2, <1>3, <1>4, <1>5, <1>6, <1>7, <1>8, <1>9, <1>10

-----------------------------------------------------------------------------
(* A move of a followed account *)

\* The follow of the new account takes the place of the old one, which is undone; a
\* block that came after the check is recorded as a race.
LEMMA TransferPreserves ==
    ASSUME RelationshipsInv, NEW t \in open, t.handler = "migrate", Transfer(t),
           open' = open \ {t}, migrations' = migrations \ {t.job}, StillApplies(t),
           UNCHANGED <<follower, blocking, blockedBy, processed, moved, undone>>
    PROVE  RelationshipsInv'
<1> USE DEF RelationshipsInv
<1>1. PICK s \in Actor : /\ t.job = <<s, t.actor>> /\ s # t.actor /\ t.job[1] = s /\ t.actor \in Actor /\ t.job \in Moves
  BY RelationshipsAssumption DEF MigrationsKnown, RowsTyped
<1>2. following[s] # NoFollow /\ following[s].activity = t.object
  BY <1>1 DEF StillApplies, MigrationApplies, Active
<1>3. following[s] \in Following
  BY <1>1, <1>2 DEF RowsTyped
<1>4. following[t.actor] = NoFollow
  BY DEF Transfer, Obstructed
<1>5. /\ following' = [following EXCEPT ![s].active = FALSE,
                                       ![t.actor] = [activity |-> activities + 1, state |-> "pending", active |-> TRUE]]
      /\ outbox' = outbox \cup {Activity("Follow", t.actor, activities + 1), Activity("Undo", s, t.object)}
      /\ stale' = IF Blocked(t.actor) THEN stale \cup {<<t.actor, activities + 1>>} ELSE stale
      /\ activities' = activities + 1
  BY <1>1 DEF Transfer
<1>6. /\ following'[s] = [following[s] EXCEPT !.active = FALSE]
      /\ following'[t.actor] = [activity |-> activities + 1, state |-> "pending", active |-> TRUE]
      /\ \A r \in Actor \ {s, t.actor} : following'[r] = following[r]
      /\ following' = [r \in Actor |-> following'[r]]
  BY <1>1, <1>5 DEF RowsTyped
<1>7. following' \in [Actor -> {NoFollow} \cup Following]
  <2>1. following'[s] \in Following
    BY <1>3, <1>6 DEF Following
  <2>2. following'[t.actor] \in Following
    BY <1>6 DEF Following, States, RowsTyped
  <2>3. \A r \in Actor : following'[r] \in {NoFollow} \cup Following
    BY <1>6, <2>1, <2>2 DEF RowsTyped
  <2> QED BY <1>6, <2>3
<1>8. RowsTyped'
  <2>1. \A r \in Actor : following'[r] # NoFollow => following'[r].activity <= activities'
    BY <1>1, <1>2, <1>3, <1>5, <1>6 DEF RowsTyped, Following
  <2>2. \A m \in outbox' : m.type \in Types /\ m.actor \in Actor
    BY <1>1, <1>5 DEF RowsTyped, Activity, Types
  <2>3. activities' \in Nat /\ \A r \in Actor : blocking'[r] <= activities'
    BY <1>5 DEF RowsTyped
  <2> QED BY <1>5, <1>7, <2>1, <2>2, <2>3 DEF RowsTyped
<1>9. AnsweredWasReceived'
  BY <1>1, <1>2, <1>3, <1>4, <1>5, <1>6, <1>7 DEF AnsweredWasReceived, Activity, RowsTyped, NoFollow, Following, Follower, States
<1>10. SentInOrder'
  BY <1>1, <1>2, <1>3, <1>4, <1>5, <1>6, <1>7 DEF SentInOrder, Activity, RowsTyped, NoFollow, Following, Follower, States
<1>11. MigrationsKnown'
  BY <1>1, <1>2, <1>3, <1>4, <1>5, <1>6, <1>7 DEF MigrationsKnown, RowsTyped, NoFollow, Following, Follower, States
<1>12. BlockSevers'
  <2>1. \A r \in Actor : r # t.actor => following'[r] = NoFollow \/ (following[r] # NoFollow /\ following'[r].activity = following[r].activity)
    BY <1>1, <1>2, <1>3, <1>6 DEF Following
  <2>2. Blocked(t.actor) => <<t.actor, following'[t.actor].activity>> \in stale'
    <3>1. following'[t.actor].activity = activities + 1
      BY <1>6
    <3>2. Blocked(t.actor) => stale' = stale \cup {<<t.actor, activities + 1>>}
      BY <1>5
    <3> QED BY <3>1, <3>2
  <2>3. stale \subseteq stale' /\ \A r \in Actor : Blocked(r)' = Blocked(r)
    BY <1>5 DEF Blocked
  <2> QED BY <2>1, <2>2, <2>3 DEF BlockSevers
<1>13. AcceptedByPeer'
  BY <1>1, <1>2, <1>3, <1>4, <1>5, <1>6, <1>7 DEF AcceptedByPeer, Activity, RowsTyped, NoFollow, Following, Follower, States
<1>14. AnswersAgree'
  BY <1>1, <1>2, <1>3, <1>4, <1>5, <1>6, <1>7 DEF AnswersAgree, Activity, RowsTyped, NoFollow, Following, Follower, States
<1>15. UndoneStaysUndone'
  BY <1>1, <1>2, <1>3, <1>4, <1>5, <1>6, <1>7 DEF UndoneStaysUndone, RowsTyped, NoFollow, Following, Follower, States
<1>16. NoFollowLeftBehind'
  <2>1. \A m \in outbox : m.type = "Follow" /\ Current(m) => Current(m)'
    BY <1>1, <1>2, <1>3, <1>4, <1>5, <1>6, <1>7 DEF Current, RowsTyped, NoFollow, Following, States
  <2>2. \A m \in outbox' : m.type = "Follow" => m \in outbox \/ Current(m)'
    BY <1>1, <1>2, <1>3, <1>4, <1>5, <1>6, <1>7 DEF Current, Activity, RowsTyped, NoFollow, Following, States
  <2>3. outbox \subseteq outbox' /\ processed \subseteq processed' /\ stale \subseteq stale'
    BY <1>1, <1>2, <1>3, <1>4, <1>5, <1>6, <1>7
  <2> QED BY <2>1, <2>2, <2>3, FollowsStaySettled
<1>17. NoBlockLeftBehind'
  BY <1>1, <1>2, <1>3, <1>4, <1>5, <1>6, <1>7 DEF NoBlockLeftBehind, Activity, RowsTyped, NoFollow, Following, Follower, States
<1> QED BY <1>8, <1>9, <1>10, <1>11, <1>12, <1>13, <1>14, <1>15, <1>16, <1>17

\* The old follow is undone where the new account is followed already or must not be.
LEMMA DropPreserves ==
    ASSUME RelationshipsInv, NEW t \in open, t.handler = "migrate", Drop(t),
           open' = open \ {t}, migrations' = migrations \ {t.job}, StillApplies(t),
           UNCHANGED <<follower, blocking, blockedBy, processed, moved, undone>>
    PROVE  RelationshipsInv'
<1> USE DEF RelationshipsInv
<1>1. PICK s \in Actor : /\ t.job = <<s, t.actor>> /\ s # t.actor /\ t.job[1] = s /\ t.actor \in Actor /\ t.job \in Moves
  BY RelationshipsAssumption DEF MigrationsKnown, RowsTyped
<1>2. following[s] # NoFollow /\ following[s].activity = t.object
  BY <1>1 DEF StillApplies, MigrationApplies, Active
<1>3. following[s] \in Following
  BY <1>1, <1>2 DEF RowsTyped
<1>4. /\ following' = [following EXCEPT ![s].active = FALSE] /\ outbox' = outbox \cup {Activity("Undo", s, t.object)}
      /\ UNCHANGED <<activities, stale>>
  BY <1>1 DEF Drop, Send
<1>5. /\ following'[s] = [following[s] EXCEPT !.active = FALSE]
      /\ \A r \in Actor \ {s} : following'[r] = following[r]
      /\ following' \in [Actor -> {NoFollow} \cup Following]
  BY <1>1, <1>3, <1>4 DEF RowsTyped, Following, States
<1>6. RowsTyped'
  BY <1>1, <1>2, <1>3, <1>4, <1>5 DEF RowsTyped, NoFollow, Following, Follower, States, Types, Handlers, Activity
<1>7. AnsweredWasReceived'
  BY <1>1, <1>2, <1>3, <1>4, <1>5 DEF AnsweredWasReceived, Activity, RowsTyped, NoFollow, Following, Follower, States
<1>8. SentInOrder'
  BY <1>1, <1>2, <1>3, <1>4, <1>5 DEF SentInOrder, Activity, RowsTyped, NoFollow, Following, Follower, States
<1>9. MigrationsKnown'
  BY <1>1, <1>2, <1>3, <1>4, <1>5 DEF MigrationsKnown, RowsTyped, NoFollow, Following, Follower, States
<1>10. BlockSevers'
  BY <1>1, <1>2, <1>3, <1>4, <1>5 DEF BlockSevers, Blocked, RowsTyped, NoFollow, Following, Follower, States
<1>11. AcceptedByPeer'
  BY <1>1, <1>2, <1>3, <1>4, <1>5 DEF AcceptedByPeer, Activity, RowsTyped, NoFollow, Following, Follower, States
<1>12. AnswersAgree'
  BY <1>1, <1>2, <1>3, <1>4, <1>5 DEF AnswersAgree, Activity, RowsTyped, NoFollow, Following, Follower, States
<1>13. UndoneStaysUndone'
  BY <1>1, <1>2, <1>3, <1>4, <1>5 DEF UndoneStaysUndone, RowsTyped, NoFollow, Following, Follower, States
<1>14. NoFollowLeftBehind'
  <2>1. \A m \in outbox : m.type = "Follow" /\ Current(m) => Current(m)'
    BY <1>1, <1>2, <1>3, <1>4, <1>5 DEF Current, RowsTyped, NoFollow, Following, States
  <2>2. \A m \in outbox' : m.type = "Follow" => m \in outbox \/ Current(m)'
    BY <1>1, <1>2, <1>3, <1>4, <1>5 DEF Current, Activity, RowsTyped, NoFollow, Following, States
  <2>3. outbox \subseteq outbox' /\ processed \subseteq processed' /\ stale \subseteq stale'
    BY <1>1, <1>2, <1>3, <1>4, <1>5
  <2> QED BY <2>1, <2>2, <2>3, FollowsStaySettled
<1>15. NoBlockLeftBehind'
  BY <1>1, <1>2, <1>3, <1>4, <1>5 DEF NoBlockLeftBehind, Activity, RowsTyped, NoFollow, Following, Follower, States
<1> QED BY <1>6, <1>7, <1>8, <1>9, <1>10, <1>11, <1>12, <1>13, <1>14, <1>15
-----------------------------------------------------------------------------
(* Every step *)

\* One transaction of a migration
LEMMA MigratePreserves ==
    ASSUME RelationshipsInv, NEW t \in open, Migrate(t)
    PROVE  RelationshipsInv'
<1>1. CASE StillApplies(t)
  BY <1>1, TransferPreserves, DropPreserves DEF Migrate
<1>2. CASE ~ StillApplies(t)
  <2>1. /\ UNCHANGED <<following, follower, blocking, blockedBy, outbox, processed, moved, activities, stale, undone>>
        /\ open' \subseteq open /\ migrations' \subseteq migrations
    BY <1>2 DEF Migrate
  <2> QED
    BY <2>1 DEF RelationshipsInv, RowsTyped, AnsweredWasReceived, SentInOrder, MigrationsKnown, BlockSevers, Blocked,
                AcceptedByPeer, AnswersAgree, UndoneStaysUndone, NoFollowLeftBehind, NoBlockLeftBehind
<1> QED BY <1>1, <1>2

\* Every step preserves the inductive invariant.
LEMMA RelationshipsStep ==
    ASSUME RelationshipsInv, [RelationshipsNext]_relationship_vars
    PROVE  RelationshipsInv'
<1>1. CASE \E r \in Actor : Follow(r) \/ BeginUnfollow(r) \/ Block(r) \/ BeginUnblock(r)
  BY <1>1, FollowPreserves, BeginUnfollowPreserves, BlockPreserves, BeginUnblockPreserves
<1>2. CASE \E r \in Actor : BeginAnswer(r, "accept") \/ BeginAnswer(r, "reject")
  BY <1>2, BeginAnswerPreserves
<1>3. CASE \E r \in Actor : ReceiveFollow(r) \/ ReceiveUndoFollow(r) \/ ReceiveAnswer(r)
  BY <1>3, ReceiveFollowPreserves, ReceiveUndoFollowPreserves, ReceiveAnswerPreserves
<1>4. CASE \E r \in Actor : ReceiveBlock(r) \/ ReceiveUndoBlock(r) \/ ReceiveMove(r)
  BY <1>4, ReceiveBlockPreserves, ReceiveUndoBlockPreserves, ReceiveMovePreserves
<1>5. CASE \E t \in open : Finish(t)
  BY <1>5, UnfollowPreserves, UnblockPreserves, AcceptRequestPreserves, RejectRequestPreserves,
     MigratePreserves, MigrationFailsPreserves DEF Finish
<1>6. CASE \E j \in migrations : BeginMigration(j) \/ MigrationDone(j)
  BY <1>6, BeginMigrationPreserves, MigrationDonePreserves
<1>7. CASE UNCHANGED relationship_vars
  BY <1>7 DEF relationship_vars, RelationshipsInv, RowsTyped, AnsweredWasReceived, SentInOrder, MigrationsKnown, BlockSevers,
     Blocked, AcceptedByPeer, AnswersAgree, UndoneStaysUndone, NoFollowLeftBehind, NoBlockLeftBehind
<1> QED
  BY <1>1, <1>2, <1>3, <1>4, <1>5, <1>6, <1>7 DEF RelationshipsNext

\* Initially there are no relationships.
LEMMA RelationshipsStart == RelationshipsInit => RelationshipsInv
  BY DEF RelationshipsInit, RelationshipsInv, RowsTyped, NoFollow, AnsweredWasReceived, SentInOrder, MigrationsKnown,
         BlockSevers, Blocked, AcceptedByPeer, AnswersAgree, UndoneStaysUndone, NoFollowLeftBehind, NoBlockLeftBehind
-----------------------------------------------------------------------------
(* The bounds: at most MaxOpen transactions read at a time, and beyond the   *)
(* requests only a migration creates an activity, once per move.             *)

Transferred == {j \in Moves : Activity("Move", j[1], j[2]) \in processed /\ j \notin migrations}

\* Open migrations have a job of their own, and a job was asked for by its Move.
BoundsInv ==
    /\ IsFiniteSet(open) /\ Cardinality(open) <= MaxOpen
    /\ \A t \in open : t.handler = "migrate" =>
         t.job \in migrations /\ \A u \in open : u.handler = "migrate" /\ u.job = t.job => u = t
    /\ \A j \in migrations : Activity("Move", j[1], j[2]) \in processed
    /\ activities <= MaxActivity + Cardinality(Transferred)

\* The number of moves transferred
LEMMA TransfersAreFinite == IsFiniteSet(Transferred) /\ Cardinality(Transferred) \in Nat
  BY RelationshipsAssumption, FS_Subset, FS_CardinalityType DEF Transferred

\* Activities stay within the bound while no transfer is forgotten.
LEMMA ActivitiesStayBounded ==
    ASSUME RowsTyped, BoundsInv, Transferred \subseteq Transferred', activities' \in Nat,
           activities' = activities \/ activities' <= MaxActivity
    PROVE  activities' <= MaxActivity + Cardinality(Transferred')
<1>1. IsFiniteSet(Transferred') /\ Cardinality(Transferred') \in Nat
  BY RelationshipsAssumption, FS_Subset, FS_CardinalityType DEF Transferred
<1>2. Cardinality(Transferred) \in Nat /\ Cardinality(Transferred) <= Cardinality(Transferred')
  BY <1>1, FS_Subset, TransfersAreFinite
<1>3. CASE activities' = activities
  BY <1>1, <1>2, <1>3, RelationshipsAssumption DEF BoundsInv, RowsTyped
<1>4. CASE activities' <= MaxActivity
  BY <1>1, <1>4, RelationshipsAssumption
<1> QED BY <1>3, <1>4

\* A transaction begins only below the limit.
LEMMA BeginStaysBounded ==
    ASSUME BoundsInv, NEW t, Begin(t)
    PROVE  IsFiniteSet(open') /\ Cardinality(open') <= MaxOpen
<1>1. IsFiniteSet(open) /\ Cardinality(open) < MaxOpen /\ open' = open \cup {t}
  BY DEF BoundsInv, Begin
<1>2. Cardinality(open) \in Nat
  BY <1>1, FS_CardinalityType
<1>3. IsFiniteSet(open') /\ (Cardinality(open') = Cardinality(open) \/ Cardinality(open') = Cardinality(open) + 1)
  BY <1>1, FS_AddElement
<1> QED BY <1>1, <1>2, <1>3, RelationshipsAssumption

\* Steps that leave the jobs and the transactions alone
LEMMA QuietStaysBounded ==
    ASSUME RowsTyped, BoundsInv, activities' \in Nat, activities' = activities \/ activities' <= MaxActivity,
           processed \subseteq processed', migrations' = migrations, open' = open
    PROVE  BoundsInv'
<1>1. Transferred \subseteq Transferred'
  BY DEF Transferred
<1>2. activities' <= MaxActivity + Cardinality(Transferred')
  BY <1>1, ActivitiesStayBounded
<1> QED BY <1>2 DEF BoundsInv

\* The end of a transaction that is no migration, or of one that is obstructed
LEMMA EndStaysBounded ==
    ASSUME RowsTyped, BoundsInv, NEW t \in open, activities' = activities, processed' = processed, migrations' = migrations,
           open' = open \ {t}
    PROVE  BoundsInv'
<1>1. Transferred \subseteq Transferred' /\ activities' \in Nat
  BY DEF Transferred, RowsTyped
<1>2. activities' <= MaxActivity + Cardinality(Transferred')
  BY <1>1, ActivitiesStayBounded
<1>3. IsFiniteSet(open') /\ Cardinality(open') <= Cardinality(open)
  BY FS_Subset DEF BoundsInv
<1>4. Cardinality(open') \in Nat /\ Cardinality(open) \in Nat
  BY <1>3, FS_CardinalityType DEF BoundsInv
<1>5. Cardinality(open') <= MaxOpen
  BY <1>3, <1>4, RelationshipsAssumption DEF BoundsInv
<1> QED BY <1>2, <1>3, <1>5 DEF BoundsInv

\* A migration ends its job, and with it may create one activity.
LEMMA MigrateStaysBounded ==
    ASSUME RelationshipsInv, BoundsInv, NEW t \in open, Migrate(t)
    PROVE  BoundsInv'
<1> DEFINE j == t.job
<1>1. /\ t.handler = "migrate" /\ open' = open \ {t} /\ migrations' = migrations \ {j} /\ processed' = processed
      /\ activities' = activities \/ activities' = activities + 1
  BY DEF Migrate, Transfer, Drop
<1>2. j \in migrations /\ j \in Moves /\ j \notin Transferred /\ Activity("Move", j[1], j[2]) \in processed
  BY <1>1 DEF BoundsInv, RelationshipsInv, RowsTyped, Transferred
<1>3. Transferred' = Transferred \cup {j}
  BY <1>1, <1>2 DEF Transferred
<1>4. Cardinality(Transferred') = Cardinality(Transferred) + 1
  BY <1>2, <1>3, FS_AddElement, TransfersAreFinite
<1>5. activities' <= MaxActivity + Cardinality(Transferred')
  BY <1>1, <1>4, TransfersAreFinite, RelationshipsAssumption DEF BoundsInv, RelationshipsInv, RowsTyped
<1>6. IsFiniteSet(open') /\ Cardinality(open') <= Cardinality(open)
  BY <1>1, FS_Subset DEF BoundsInv
<1>7. Cardinality(open') \in Nat /\ Cardinality(open) \in Nat
  BY <1>6, FS_CardinalityType DEF BoundsInv
<1>8. Cardinality(open') <= MaxOpen
  BY <1>6, <1>7, RelationshipsAssumption DEF BoundsInv
<1> QED BY <1>1, <1>5, <1>6, <1>8 DEF BoundsInv

\* Every step stays within the bounds.
LEMMA BoundsStep ==
    ASSUME RelationshipsInv, RelationshipsInv', BoundsInv, [RelationshipsNext]_relationship_vars
    PROVE  BoundsInv'
<1> USE DEF RelationshipsInv
<1>0. activities \in Nat /\ activities' \in Nat
  BY DEF RowsTyped
<1>1. CASE \E r \in Actor : Follow(r) \/ Block(r)
  BY <1>0, <1>1, QuietStaysBounded, RelationshipsAssumption DEF Follow, Block, NewActivity
<1>2. CASE \E r \in Actor : ReceiveFollow(r) \/ ReceiveUndoFollow(r) \/ ReceiveAnswer(r) \/ ReceiveBlock(r) \/ ReceiveUndoBlock(r)
  BY <1>0, <1>2, QuietStaysBounded DEF ReceiveFollow, ReceiveUndoFollow, ReceiveAnswer, ReceiveBlock, ReceiveUndoBlock, Receive
<1>3. CASE \E r \in Actor : ReceiveMove(r)
  <2>1. PICK r, t : /\ <<r, t>> \in Moves /\ Activity("Move", r, t) \notin processed
                    /\ processed' = processed \cup {Activity("Move", r, t)} /\ migrations' = migrations \cup {<<r, t>>}
                    /\ open' = open /\ activities' = activities
    BY <1>3, RelationshipsAssumption DEF ReceiveMove, Receive, IsNew, MoveReceived
  <2>2. Transferred \subseteq Transferred'
    BY <2>1 DEF Transferred, Activity
  <2>3. activities' <= MaxActivity + Cardinality(Transferred')
    BY <1>0, <2>1, <2>2, ActivitiesStayBounded
  <2>4. \A j \in migrations' : Activity("Move", j[1], j[2]) \in processed'
    BY <2>1 DEF BoundsInv
  <2> QED BY <2>1, <2>3, <2>4 DEF BoundsInv
<1>4. CASE \E t : Begin(t) /\ t.handler # "migrate"
  <2>1. PICK t : Begin(t) /\ t.handler # "migrate"
    BY <1>4
  <2>2. IsFiniteSet(open') /\ Cardinality(open') <= MaxOpen
    BY <2>1, BeginStaysBounded
  <2>3. open' = open \cup {t} /\ activities' = activities /\ processed' = processed /\ migrations' = migrations
    BY <2>1 DEF Begin
  <2>4. Transferred' = Transferred
    BY <2>3 DEF Transferred
  <2> QED BY <2>1, <2>2, <2>3, <2>4 DEF BoundsInv
<1>5. CASE \E j \in migrations : BeginMigration(j)
  <2>1. PICK j, t : j \in migrations /\ Begin(t) /\ t.handler = "migrate" /\ t.job = j /\ ~ Running(j)
    BY <1>5 DEF BeginMigration
  <2>2. IsFiniteSet(open') /\ Cardinality(open') <= MaxOpen
    BY <2>1, BeginStaysBounded
  <2>3. open' = open \cup {t} /\ activities' = activities /\ processed' = processed /\ migrations' = migrations
    BY <2>1 DEF Begin
  <2>4. Transferred' = Transferred
    BY <2>3 DEF Transferred
  <2> QED BY <2>1, <2>2, <2>3, <2>4 DEF BoundsInv, Running
<1>6. CASE \E j \in migrations : MigrationDone(j)
  <2>1. PICK j \in migrations : /\ ~ Running(j) /\ migrations' = migrations \ {j} /\ open' = open
                                /\ activities' = activities /\ processed' = processed
    BY <1>6 DEF MigrationDone
  <2>2. Transferred \subseteq Transferred'
    BY <2>1 DEF Transferred
  <2>3. activities' <= MaxActivity + Cardinality(Transferred')
    BY <1>0, <2>1, <2>2, ActivitiesStayBounded
  <2> QED BY <2>1, <2>3 DEF BoundsInv, Running
<1>7. CASE \E t \in open : Migrate(t)
  BY <1>7, MigrateStaysBounded
<1>8. CASE \E t \in open : Unfollow(t) \/ Unblock(t) \/ AcceptRequest(t) \/ RejectRequest(t) \/ MigrationFails(t)
  BY <1>8, EndStaysBounded DEF Unfollow, Unblock, AcceptRequest, RejectRequest, MigrationFails
<1>9. CASE UNCHANGED relationship_vars
  BY <1>0, <1>9, QuietStaysBounded DEF relationship_vars
<1>10. (\E r \in Actor : BeginUnfollow(r) \/ BeginUnblock(r) \/ BeginAnswer(r, "accept") \/ BeginAnswer(r, "reject"))
         => \E t : Begin(t) /\ t.handler # "migrate"
  BY DEF BeginUnfollow, BeginUnblock, BeginAnswer
<1> QED
  BY <1>1, <1>2, <1>3, <1>4, <1>5, <1>6, <1>7, <1>8, <1>9, <1>10 DEF RelationshipsNext, Finish

\* Initially nothing is open.
LEMMA BoundsStart == RelationshipsInit => BoundsInv
<1> SUFFICES ASSUME RelationshipsInit PROVE BoundsInv
  OBVIOUS
<1>1. IsFiniteSet(open) /\ Cardinality(open) = 0
  BY FS_EmptySet DEF RelationshipsInit
<1> QED
  BY <1>1, TransfersAreFinite, RelationshipsAssumption DEF RelationshipsInit, BoundsInv
-----------------------------------------------------------------------------
\* While either side blocks the other neither follows the other; an accepted
\* follow was accepted under its present activity; followers were told what the
\* account decided; what was undone stays undone; and no Follow or Block that was
\* sent is forgotten: in whatever order requests, deliveries and redeliveries,
\* answers, moves and migrations interleave, up to the recorded races of
\* transactions that read before they lock.
THEOREM RelationshipsAreSafe == RelationshipsSpec => []RelationshipsSafe
<1>1. RelationshipsInit => RelationshipsInv /\ BoundsInv
  BY RelationshipsStart, BoundsStart
<1>2. RelationshipsInv /\ BoundsInv /\ [RelationshipsNext]_relationship_vars => (RelationshipsInv /\ BoundsInv)'
  BY RelationshipsStep, BoundsStep
<1>3. ASSUME RelationshipsInv, BoundsInv
      PROVE  RelationshipsSafe
  <2>1. Cardinality(Transferred) <= Cardinality(Moves) /\ Cardinality(Moves) \in Nat
    BY RelationshipsAssumption, FS_Subset, FS_CardinalityType DEF Transferred
  <2>2. activities \in 0..MaxActivity + Cardinality(Moves)
    BY <1>3, <2>1, TransfersAreFinite, RelationshipsAssumption DEF RelationshipsInv, RowsTyped, BoundsInv
  <2>3. \A r \in Actor : following[r] \in {NoFollow} \cup [activity : 1..activities, active : BOOLEAN, state : {"pending", "accepted"}]
    BY <1>3 DEF RelationshipsInv, RowsTyped, Following, States
  <2>4. \A r \in Actor : follower[r] \in {NoFollow} \cup [activity : PeerFollow[r], row : PeerFollow[r], state : {"pending", "accepted"}]
    BY <1>3 DEF RelationshipsInv, RowsTyped, Follower, States
  <2>5. RelationshipsTypeOK
    BY <1>3, <2>2, <2>3, <2>4 DEF RelationshipsTypeOK, RelationshipsInv, RowsTyped, BoundsInv
  <2> QED
    BY <1>3, <2>5 DEF RelationshipsSafe, RelationshipsInv
<1>4. RelationshipsInv /\ BoundsInv => RelationshipsSafe
  BY <1>3
<1> QED
  BY <1>1, <1>2, <1>4, PTL DEF RelationshipsSpec
=============================================================================
