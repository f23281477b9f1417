--------------------------- MODULE RemoteStatuses ---------------------------
(***************************************************************************)
(* Cached Notes of a remote actor.  Its server publishes, edits and deletes *)
(* Notes; the activities reach the inbox in any order and more than once.   *)
(* Several processes serve the inbox, and workers fetch the missing parents *)
(* of replies, so one Note is written from two sides.                       *)
(*                                                                          *)
(* A handler looks up the parent of the Note, writes in a transaction that  *)
(* stays open while the change is published on the streams, and commits.    *)
(* The row locks, the unique activitypub_id and the unique replay marker of *)
(* PostgreSQL are guards.  Versions stand for the updated timestamps, a     *)
(* later version may say what an earlier one said, and all Notes are public.*)
(***************************************************************************)
EXTENDS Integers, Sequences, FiniteSets

CONSTANTS
    Notes,       \* Notes of one remote actor
    ReplyTo,     \* [Notes -> Notes \cup {NoNote}], the inReplyTo of each Note
    NoNote,
    Handlers,    \* inbox requests and thread workers
    MaxVersion,  \* bound: versions of one Note
    TextOf       \* [Notes -> [1..MaxVersion -> texts]], what each version of a Note says

ASSUME RemoteStatusesAssumption ==
    /\ ReplyTo \in [Notes -> Notes \cup {NoNote}]
    /\ NoNote \notin Notes /\ MaxVersion \in Nat \ {0}
    /\ DOMAIN TextOf = Notes /\ \A n \in Notes : DOMAIN TextOf[n] = 1..MaxVersion

VARIABLES
    origin,     \* the actor's server: [version, gone] of each Note
    left,       \* the actor has sent Delete for itself
    note,       \* remote_status: [version, live, parent, edits]
    marker,     \* inbox_activity: the activities accepted so far
    handler,    \* [pc, act, parent, out] of each handler
    resolve,    \* the FederationThreadResolve job of each Note
    shown,      \* the Note and version published last on the streams, if it was one
    overtaken,  \* history: Notes whose Delete came before an older activity
    swallowed   \* history: Notes whose job was already running when it was queued

remote_vars == <<origin, left, note, marker, handler, resolve, shown, overtaken, swallowed>>

Activities == [kind : {"Upsert"}, note : Notes, version : 1..MaxVersion]
              \cup [kind : {"Delete"}, note : Notes, version : {0}]
              \cup {[kind |-> "Leave", note |-> NoNote, version |-> 0]}

NoCopy == [version |-> 0, live |-> FALSE, parent |-> FALSE, edits |-> <<>>]
Free == [pc |-> "idle", act |-> NoNote, parent |-> FALSE, out |-> NoNote]

RemoteStatusesInit ==
    /\ origin = [n \in Notes |-> [version |-> 0, gone |-> FALSE]]
    /\ left = FALSE
    /\ note = [n \in Notes |-> NoCopy]
    /\ marker = {}
    /\ handler = [h \in Handlers |-> Free]
    /\ resolve = [n \in Notes |-> "none"]
    /\ shown = {} /\ overtaken = {} /\ swallowed = {}

RemoteStatusesTypeOK ==
    /\ note \in [Notes -> [version : 0..MaxVersion, live : BOOLEAN, parent : BOOLEAN,
                           edits : Seq(1..MaxVersion)]]
    /\ marker \subseteq Activities
    /\ \A h \in Handlers : handler[h].pc \in {"idle", "looked", "open", "done"}
    /\ resolve \in [Notes -> {"none", "pending", "running", "failed"}]
    /\ \A n \in Notes : note[n].live => note[n].version > 0
    /\ \A n \in Notes : note[n].parent => ReplyTo[n] # NoNote
-----------------------------------------------------------------------------
\* The actor's server.
PublishNote(n) ==
    /\ ~ left /\ ~ origin[n].gone /\ origin[n].version < MaxVersion
    /\ ReplyTo[n] # NoNote => origin[ReplyTo[n]].version > 0
    /\ origin' = [origin EXCEPT ![n].version = @ + 1]
    /\ UNCHANGED <<left, note, marker, handler, resolve, shown, overtaken, swallowed>>

Retract(n) == /\ origin[n].version > 0
              /\ origin' = [origin EXCEPT ![n].gone = TRUE]
              /\ UNCHANGED <<left, note, marker, handler, resolve, shown, overtaken, swallowed>>

Leave == /\ left' = TRUE
         /\ UNCHANGED <<origin, note, marker, handler, resolve, shown, overtaken, swallowed>>

\* What its server has sent: every version, the deletions, its own deletion.
Sent == {a \in Activities :
           CASE a.kind = "Upsert" -> a.version <= origin[a.note].version
             [] a.kind = "Delete" -> origin[a.note].gone
             [] OTHER             -> left}
-----------------------------------------------------------------------------
\* find_remote_status_by_activitypub_id finds live rows only.
ParentIsKnown(n) == ReplyTo[n] # NoNote /\ note[ReplyTo[n]].live

\* The rows that another transaction has written and not yet committed.
Written(h) == IF handler[h].pc = "open" THEN handler[h].out.rows ELSE {}
WrittenByOthers(h) == UNION {Written(i) : i \in Handlers \ {h}}

\* Mutant: the row is read without FOR UPDATE.
MayWrite_Unlocked(h, ns) == TRUE

MayWrite(h, ns) == ns \cap WrittenByOthers(h) = {}

\* Another transaction is inserting the row of the same Note.
InsertedByOther(h, n) ==
    \E i \in Handlers \ {h} : n \in Written(i) /\ note[n].version = 0

\* link_unresolved_remote_replies_to_parent
Orphans(n) == {c \in Notes : ReplyTo[c] = n /\ note[c].live /\ ~ note[c].parent}
LinkedTo(ns) == {c \in Notes : ReplyTo[c] \in ns /\ note[c].parent}

\* process_remote_status_upsert: a Note that is not older than the row, but says
\* what the row says, changes nothing: the row keeps its updated_at.
IsNews(n, v) ==
    /\ v > note[n].version
    /\ note[n].version > 0 => TextOf[n][v] # TextOf[n][note[n].version]

\* remote_status_snapshot: the first edit also stores the content it replaces.
Snapshots(n, v) ==
    Append(IF note[n].edits = <<>> THEN <<note[n].version>> ELSE note[n].edits, v)

Revise(n, v, parent) ==
    [version |-> v, live |-> TRUE, parent |-> parent,
     edits |-> IF note[n].version = 0 THEN <<>> ELSE Snapshots(n, v)]

\* The changes of an open transaction: the Notes whose rows it wrote, the new
\* rows, and what it publishes and commits.
Upserted(n, v, parent) ==
    LET news == IsNews(n, v)
        links == Orphans(n)
        revised == IF news THEN Revise(n, v, parent) ELSE note[n]
    IN [rows |-> {n} \cup links,
        put |-> [m \in {n} \cup links |-> IF m = n THEN revised
                                          ELSE [note[m] EXCEPT !.parent = TRUE]],
        says |-> IF news THEN {<<n, v>>} ELSE {}]

\* repair_one_remote_status_delete: the row is hidden and its replies let go.
Repaired(ns) ==
    [rows |-> ns \cup LinkedTo(ns),
     put |-> [m \in ns \cup LinkedTo(ns) |->
                [note[m] EXCEPT !.live = @ /\ m \notin ns, !.parent = @ /\ ReplyTo[m] \notin ns]],
     says |-> ns \X {0}]
-----------------------------------------------------------------------------
\* process_inbox passes an activity on unless its marker is there;
\* process_remote_status_activity looks up the parent before it begins.
ReceiveActivity(h, a) ==
    /\ handler[h].pc = "idle" /\ a \in Sent \ marker
    /\ handler' = [handler EXCEPT ![h] =
                     [pc |-> "looked", act |-> a, out |-> NoNote,
                      parent |-> a.kind = "Upsert" /\ ParentIsKnown(a.note)]]
    /\ UNCHANGED <<origin, left, note, marker, resolve, shown, overtaken, swallowed>>

\* fetch_public_remote_status: the current document of a Note that is public.
Document(n, c) == [kind |-> "Fetch", note |-> n, version |-> origin[n].version, for |-> c]

\* resolve_remote_status_thread: the child must still miss its parent, whose
\* document is fetched.
FetchParent(h, c) ==
    LET p == ReplyTo[c]
    IN /\ handler[h].pc = "idle" /\ resolve[c] = "pending"
       /\ IF ~ note[c].live \/ note[c].parent
          THEN resolve' = [resolve EXCEPT ![c] = "none"] /\ UNCHANGED handler
          ELSE IF origin[p].gone \/ left
          THEN resolve' = [resolve EXCEPT ![c] = "failed"] /\ UNCHANGED handler
          ELSE /\ resolve' = [resolve EXCEPT ![c] = "running"]
               /\ handler' = [handler EXCEPT ![h] =
                    [pc |-> "looked", out |-> NoNote, parent |-> ParentIsKnown(p),
                     act |-> Document(p, c)]]
       /\ UNCHANGED <<origin, left, note, marker, shown, overtaken, swallowed>>

\* fetch_remote_status_replies lists the replies of a stored Note and
\* fetch_remote_status_reply fetches one that names it as its parent.
FetchReply(h, c) ==
    /\ handler[h].pc = "idle" /\ ParentIsKnown(c)
    /\ origin[c].version > 0 /\ ~ origin[c].gone /\ ~ left
    /\ handler' = [handler EXCEPT ![h] =
                     [pc |-> "looked", out |-> NoNote, parent |-> TRUE, act |-> Document(c, NoNote)]]
    /\ UNCHANGED <<origin, left, note, marker, resolve, shown, overtaken, swallowed>>

\* publish_remote_status_change: an upsert from the inbox is streamed.
Streamed(a, out) == IF a.kind = "Upsert" /\ out.says # {} THEN out.says ELSE shown

\* publish_delete_repair
StreamedDelete(out) == IF out.says # {} THEN {} ELSE shown

\* is_new_inbox_activity in the transaction: the marker is unique.
IsNew(h, a) == /\ a \notin marker
               /\ \A i \in Handlers \ {h} : handler[i].pc = "open" => handler[i].act # a

\* The transaction of one activity writes and publishes: the streams hear of a
\* change when the savepoint is released, before the request commits.
WriteUpsert(h) ==
    LET a == handler[h].act
        out == Upserted(a.note, a.version, handler[h].parent)
    IN /\ handler[h].pc = "looked" /\ a.kind \in {"Upsert", "Fetch"}
       /\ a.kind = "Upsert" => IsNew(h, a)
       /\ ~ InsertedByOther(h, a.note) /\ MayWrite(h, out.rows)
       /\ handler' = [handler EXCEPT ![h].pc = "open", ![h].out = out]
       /\ shown' = Streamed(a, out)
       /\ UNCHANGED <<origin, left, note, marker, resolve, overtaken, swallowed>>

\* process_remote_status_delete and process_remote_actor_delete: live rows only.
StatusToDelete(n) == {m \in {n} : note[m].live}
StatusesOfActor == {n \in Notes : note[n].live}

WriteDelete(h) ==
    LET a == handler[h].act
        out == Repaired(IF a.kind = "Leave" THEN StatusesOfActor ELSE StatusToDelete(a.note))
    IN /\ handler[h].pc = "looked" /\ a.kind \in {"Delete", "Leave"} /\ IsNew(h, a)
       /\ MayWrite(h, out.rows)
       /\ handler' = [handler EXCEPT ![h].pc = "open", ![h].out = out]
       /\ shown' = StreamedDelete(out)
       /\ UNCHANGED <<origin, left, note, marker, resolve, overtaken, swallowed>>

Requeued(c) == [n \in Notes |-> IF n = c THEN "pending" ELSE resolve[n]]

\* Two transactions insert the same Note: the unique activitypub_id refuses the
\* second.  The inbox answers 202 all the same; a fetch is tried again.
LoseInsert(h) ==
    LET a == handler[h].act
    IN /\ handler[h].pc = "looked" /\ a.kind \in {"Upsert", "Fetch"}
       /\ InsertedByOther(h, a.note)
       /\ handler' = [handler EXCEPT ![h] = Free]
       /\ resolve' = IF a.kind = "Fetch" THEN Requeued(a.for) ELSE resolve
       /\ UNCHANGED <<origin, left, note, marker, shown, overtaken, swallowed>>

\* A second delivery of an activity finds the marker of the first.
IgnoreReplay(h) ==
    /\ handler[h].pc = "looked" /\ handler[h].act \in marker
    /\ handler' = [handler EXCEPT ![h] = Free]
    /\ UNCHANGED <<origin, left, note, marker, resolve, shown, overtaken, swallowed>>

\* enqueue_remote_thread_jobs, after the links: a reply whose parent is missing.
\* A job that is queued or running takes the new one in.
NeedsParent(n, v) == ReplyTo[n] # NoNote /\ ~ v.parent
NewResolve(n, v) == IF NeedsParent(n, v) /\ resolve[n] # "running" THEN "pending" ELSE resolve[n]

\* Who is live although its deletion was accepted: the Notes an upsert brings
\* back or creates late, and the Delete that finds nothing.
DeletionAccepted(n) == \E a \in marker : a.kind = "Leave" \/ (a.kind = "Delete" /\ a.note = n)
Overtaking(a, out) ==
    IF a.kind \in {"Delete", "Leave"}
    THEN {n \in Notes : (a.kind = "Leave" \/ a.note = n) /\ <<n, 0>> \notin out.says}
    ELSE {n \in {a.note} : DeletionAccepted(n) /\ out.says # {} /\ a.version > note[n].version}

Commit(h) ==
    LET a == handler[h].act
        out == handler[h].out
    IN /\ handler[h].pc = "open"
       /\ note' = [n \in Notes |-> IF n \in DOMAIN out.put THEN out.put[n] ELSE note[n]]
       /\ marker' = IF a.kind = "Fetch" THEN marker ELSE marker \cup {a}
       /\ resolve' = IF a.kind \in {"Upsert", "Fetch"}
                     THEN [resolve EXCEPT ![a.note] = NewResolve(a.note, out.put[a.note])]
                     ELSE resolve
       /\ swallowed' = swallowed \cup {n \in Notes \cap {a.note} :
            /\ a.kind # "Delete" /\ NeedsParent(n, out.put[n]) /\ resolve[n] = "running"}
       /\ overtaken' = overtaken \cup Overtaking(a, out)
       /\ handler' = [handler EXCEPT ![h] = IF a.kind = "Fetch" THEN [@ EXCEPT !.pc = "done"]
                                           ELSE Free]
       /\ UNCHANGED <<origin, left, shown>>

\* The worker records that the job is over, in a transaction of its own.
FinishResolve(h) ==
    /\ handler[h].pc = "done"
    /\ resolve' = [n \in Notes |-> IF n = handler[h].act.for THEN "none" ELSE resolve[n]]
    /\ handler' = [handler EXCEPT ![h] = Free]
    /\ UNCHANGED <<origin, left, note, marker, shown, overtaken, swallowed>>

\* The process dies, or the commit fails; the sender or the queue tries again.
Abort(h) ==
    /\ handler[h].pc # "idle"
    /\ handler' = [handler EXCEPT ![h] = Free]
    /\ resolve' = IF handler[h].act.kind = "Fetch"
                  THEN Requeued(handler[h].act.for) ELSE resolve
    /\ UNCHANGED <<origin, left, note, marker, shown, overtaken, swallowed>>

RemoteStatusesNext ==
    \/ \E n \in Notes : PublishNote(n) \/ Retract(n)
    \/ Leave
    \/ \E h \in Handlers :
         \/ \E a \in Sent : ReceiveActivity(h, a)
         \/ \E c \in Notes : FetchParent(h, c) \/ FetchReply(h, c)
         \/ WriteUpsert(h) \/ WriteDelete(h) \/ LoseInsert(h)
         \/ IgnoreReplay(h) \/ Commit(h) \/ FinishResolve(h) \/ Abort(h)

RemoteStatusesSpec == RemoteStatusesInit /\ [][RemoteStatusesNext]_remote_vars
-----------------------------------------------------------------------------
\* What an accepted activity leaves behind: its version or a later one, or an
\* earlier one that said the same, or a later one than that.
IsKept(a) ==
    \E w \in 1..a.version : TextOf[a.note][w] = TextOf[a.note][a.version] /\ note[a.note].version >= w

\* Whatever order edits arrive in, from the inbox and from fetched threads, a
\* Note is never older than an accepted activity, and its history lists the
\* contents it has had, oldest first.  Only an edit that went back to a text the
\* row still had leaves the row at that earlier version: an edit in between that
\* arrives after it is taken for the newer one, and stays.
NewestVersionKept ==
    /\ \A a \in marker : a.kind = "Upsert" => IsKept(a)
    /\ \A n \in Notes : LET e == note[n].edits IN
         e # <<>> => /\ e[Len(e)] = note[n].version
                     /\ \A i \in 1..Len(e) - 1 : e[i] <= e[i + 1]

\* A Note whose deletion was accepted stays hidden: redelivered activities and
\* documents fetched earlier do not bring it back.  Only a Delete that arrives
\* before the Note, or before a newer edit, is undone.
DeletedStaysDeleted ==
    \A n \in Notes : note[n].live /\ DeletionAccepted(n) => n \in overtaken

\* A reply that arrives with its parent, each unseen by the other's transaction,
\* is linked in the end: while its parent is stored and it is not linked, a
\* FederationThreadResolve job is there to do it, unless it failed for good or
\* the request for it was taken in by a job that had done its work already.
OrphansHaveJobs ==
    \A n \in Notes :
       ReplyTo[n] # NoNote /\ note[n].live /\ ~ note[n].parent /\ note[ReplyTo[n]].live
         => resolve[n] \in {"pending", "running", "failed"} \/ n \in swallowed

\* A copy follows its original in whatever order its news arrive.
RemoteStatusesSafe ==
    /\ RemoteStatusesTypeOK
    /\ NewestVersionKept /\ DeletedStaysDeleted /\ OrphansHaveJobs
=============================================================================
