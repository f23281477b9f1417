-------------------------- MODULE FederationProofs --------------------------
(***************************************************************************)
(* Proofs about cached remote Notes, for any Notes and threads, any number  *)
(* of inbox requests and workers, and any number of versions.               *)
(***************************************************************************)
EXTENDS RemoteStatuses, Delivery, FiniteSetTheorems, TLAPS

Fetched == [kind : {"Fetch"}, note : Notes, version : 0..MaxVersion, for : Notes \cup {NoNote}]
NoteRecord == [version : 0..MaxVersion, live : BOOLEAN, parent : BOOLEAN, edits : Seq(1..MaxVersion)]
OriginRecord == [version : 0..MaxVersion, gone : BOOLEAN]

Busy(h) == handler[h].pc # "idle"
Upserting(h) == handler[h].pc = "open" /\ handler[h].act.kind \in {"Upsert", "Fetch"}
Deleting(h) == handler[h].pc = "open" /\ handler[h].act.kind \in {"Delete", "Leave"}
Rows(h) == handler[h].out.rows

\* What a handler holds; the changes of its transaction are described below.
HandlerTyped(h) ==
    /\ handler[h] \in [pc : {"idle", "looked", "open", "done"}, act : Activities \cup Fetched \cup {NoNote},
                       parent : BOOLEAN, out : {handler[h].out}]
    /\ Busy(h) => handler[h].act \in Activities \cup Fetched
    /\ Busy(h) /\ handler[h].parent => ReplyTo[handler[h].act.note] # NoNote
    /\ handler[h].pc = "done" => handler[h].act.kind = "Fetch"

NotesTyped ==
    /\ origin \in [Notes -> OriginRecord] /\ left \in BOOLEAN /\ note \in [Notes -> NoteRecord] /\ marker \subseteq Activities
    /\ resolve \in [Notes -> {"none", "pending", "running", "failed"}]
    /\ DOMAIN handler = Handlers /\ \A h \in Handlers : HandlerTyped(h)
    /\ \A n \in Notes : resolve[n] # "none" => ReplyTo[n] # NoNote

\* A row whose history lists the contents it has had, oldest first
SoundRow(n, r) ==
    /\ r \in NoteRecord /\ (r.live => r.version > 0) /\ (r.parent => ReplyTo[n] # NoNote)
    /\ r.edits # <<>> => /\ r.edits[Len(r.edits)] = r.version
                         /\ \A i \in 1..Len(r.edits) - 1 : r.edits[i] <= r.edits[i + 1]
SoundRows == \A n \in Notes : SoundRow(n, note[n])

\* What an open upsert is about to write still fits the rows it has locked.
UpsertFits(h) ==
    LET a == handler[h].act
        out == handler[h].out
    IN /\ out.rows \subseteq Notes /\ a.note \in out.rows /\ DOMAIN out.put = out.rows
       /\ \A m \in out.rows : SoundRow(m, out.put[m])
       /\ \A m \in out.rows \ {a.note} :
            ReplyTo[m] = a.note /\ note[m].live /\ out.put[m].parent /\ out.put[m].version = note[m].version
       /\ IF IsNews(a.note, a.version)
          THEN out.put[a.note].version = a.version /\ out.says # {}
          ELSE out.put[a.note] = note[a.note]

\* The same for a deletion
DeleteFits(h) ==
    LET out == handler[h].out
        Gone(n) == <<n, 0>> \in out.says
    IN /\ out.rows \subseteq Notes /\ DOMAIN out.put = out.rows
       /\ \A m \in out.rows : SoundRow(m, out.put[m])
       /\ \A n \in Notes : Gone(n) => n \in out.rows
       /\ ~ Gone(NoNote)
       /\ \A m \in out.rows :
            /\ out.put[m].version = note[m].version
            /\ out.put[m].live => note[m].live /\ ~ Gone(m)
            /\ note[m].parent /\ ~ out.put[m].parent => Gone(ReplyTo[m])

TransactionsFit ==
    /\ \A h \in Handlers : (Upserting(h) => UpsertFits(h)) /\ (Deleting(h) => DeleteFits(h))
    /\ \A h, i \in Handlers : h # i /\ handler[h].pc = "open" /\ handler[i].pc = "open" => Rows(h) \cap Rows(i) = {}

\* The worker that fetches the parent of c
Resolves(h, c) == Busy(h) /\ handler[h].act.kind = "Fetch" /\ handler[h].act.for = c

WorkersHoldJobs ==
    /\ \A h \in Handlers, c \in Notes : Resolves(h, c) => resolve[c] = "running" /\ ReplyTo[c] = handler[h].act.note
    /\ \A h, i \in Handlers, c \in Notes : Resolves(h, c) /\ Resolves(i, c) => h = i

Unlinked(c) == ReplyTo[c] # NoNote /\ note[c].live /\ ~ note[c].parent

\* A reply whose parent is there, or comes with a transaction that will not link it
Waiting(c) ==
    /\ Unlinked(c)
    /\ \/ note[ReplyTo[c]].live
       \/ \E h \in Handlers : Upserting(h) /\ handler[h].act.note = ReplyTo[c] /\ c \notin Rows(h)

WaitingHasJob == \A c \in Notes : Waiting(c) => resolve[c] # "none" \/ c \in swallowed

\* What is left unlinked by the worker sent to link it was written meanwhile.
MissedIsSwallowed ==
    \A h \in Handlers, c \in Notes : Resolves(h, c) /\ c \notin swallowed =>
        /\ handler[h].pc = "open" /\ c \notin Rows(h) => ~ Unlinked(c)
        /\ handler[h].pc = "done" => ~ Waiting(c)

AcceptedIsKept == \A a \in marker : a.kind = "Upsert" => IsKept(a)

RemoteStatusesInv ==
    /\ NotesTyped /\ TransactionsFit /\ WorkersHoldJobs /\ WaitingHasJob /\ MissedIsSwallowed
    /\ SoundRows /\ AcceptedIsKept /\ DeletedStaysDeleted
-----------------------------------------------------------------------------
LEMMA ActShape ==
    \A a \in Activities \cup Fetched :
        /\ a.kind \in {"Upsert", "Fetch", "Delete", "Leave"}
        /\ a.kind \in {"Upsert", "Fetch"} => a.note \in Notes /\ a.version \in 0..MaxVersion
        /\ a.kind = "Fetch" => a \in Fetched /\ a.for \in Notes \cup {NoNote}
        /\ a.kind # "Fetch" => a \in Activities
        /\ a.kind = "Delete" => a.note \in Notes
        /\ a.kind = "Leave" => a.note = NoNote
BY RemoteStatusesAssumption DEF Activities, Fetched

LEMMA Versions == MaxVersion \in Nat /\ 0 \in 0..MaxVersion /\ \A v \in 0..MaxVersion : v \in Nat /\ (v > 0 => v \in 1..MaxVersion)
BY RemoteStatusesAssumption

\* remote_status_snapshot keeps the history in order.
LEMMA SnapshotsInOrder ==
    ASSUME NEW e \in Seq(1..MaxVersion), NEW w \in 1..MaxVersion, NEW v \in 1..MaxVersion, v > w,
           e # <<>> => e[Len(e)] = w /\ \A i \in 1..Len(e) - 1 : e[i] <= e[i + 1]
    PROVE  LET f == Append(IF e = <<>> THEN <<w>> ELSE e, v) IN
             f \in Seq(1..MaxVersion) /\ f[Len(f)] = v /\ \A i \in 1..Len(f) - 1 : f[i] <= f[i + 1]
<1> DEFINE g == IF e = <<>> THEN <<w>> ELSE e
           f == Append(g, v)
<1>1. /\ g \in Seq(1..MaxVersion) /\ Len(g) \in Nat \ {0} /\ g[Len(g)] = w
      /\ \A i \in 1..Len(g) - 1 : g[i] <= g[i + 1]
  <2>1. CASE e = <<>>
    <3>1. g = <<w>>
      BY <2>1
    <3> HIDE DEF g
    <3>2. g \in Seq(1..MaxVersion) /\ Len(g) = 1 /\ g[1] = w
      BY <3>1
    <3> QED BY <3>2
  <2>2. CASE e # <<>>
    <3>1. g = e /\ Len(e) # 0 /\ Len(e) \in Nat
      BY <2>2
    <3> QED BY <2>2, <3>1
  <2> QED BY <2>1, <2>2
<1> HIDE DEF g
<1>3. f \in Seq(1..MaxVersion) /\ Len(f) = Len(g) + 1 /\ f[Len(f)] = v /\ \A i \in 1..Len(g) : f[i] = g[i]
  BY <1>1
<1> HIDE DEF f
<1>4. ASSUME NEW i \in 1..Len(f) - 1 PROVE f[i] <= f[i + 1]
  <2>1. CASE i = Len(g)
    BY <1>1, <1>3, <2>1, Versions
  <2>2. CASE i # Len(g)
    <3>1. i \in 1..Len(g) - 1 /\ i \in 1..Len(g) /\ i + 1 \in 1..Len(g)
      BY <1>1, <1>3, <2>2
    <3> QED BY <1>1, <1>3, <3>1
  <2> QED BY <2>1, <2>2
<1> QED BY <1>3, <1>4 DEF f, g

\* A transaction whose rows nobody writes still fits them.
LEMMA StillFits ==
    ASSUME NEW i \in Handlers, handler'[i] = handler[i], \A m \in Rows(i) : note'[m] = note[m],
           (Upserting(i) => UpsertFits(i)) /\ (Deleting(i) => DeleteFits(i))
    PROVE  (Upserting(i)' => UpsertFits(i)') /\ (Deleting(i)' => DeleteFits(i)')
<1>1. ASSUME Upserting(i)' PROVE UpsertFits(i)'
  <2>1. UpsertFits(i)
    BY <1>1 DEF Upserting
  <2>2. handler[i].act.note \in Rows(i)
    BY <2>1 DEF UpsertFits, Rows
  <2> QED BY <2>1, <2>2 DEF UpsertFits, Rows, IsNews
<1>2. ASSUME Deleting(i)' PROVE DeleteFits(i)'
  <2>1. DeleteFits(i)
    BY <1>2 DEF Deleting
  <2> QED BY <2>1 DEF DeleteFits, Rows
<1> QED BY <1>1, <1>2

\* Only the handler h moves, to the state r.
Moves(h, r) == DOMAIN handler' = Handlers /\ handler'[h] = r /\ \A i \in Handlers \ {h} : handler'[i] = handler[i]

LEMMA MovesByAssignment ==
    ASSUME RemoteStatusesInv, NEW h \in Handlers, NEW r, handler' = [handler EXCEPT ![h] = r]
    PROVE  Moves(h, r)
BY DEF Moves, RemoteStatusesInv, NotesTyped

\* A step of one handler that neither opens nor commits a transaction
LEMMA HandlerStep ==
    ASSUME RemoteStatusesInv, NEW h \in Handlers, NEW r, Moves(h, r),
           UNCHANGED <<origin, left, note, marker, overtaken, swallowed>>,
           handler[h].pc # "open" \/ r.pc = "idle",
           r.pc \in {"idle", "looked"},
           r \in [pc : {"idle", "looked"}, act : Activities \cup Fetched \cup {NoNote}, parent : BOOLEAN, out : {r.out}],
           r.pc = "looked" => r.act \in Activities \cup Fetched,
           r.pc = "looked" /\ r.parent => ReplyTo[r.act.note] # NoNote,
           resolve' \in [Notes -> {"none", "pending", "running", "failed"}],
           \A c \in Notes : resolve'[c] # "none" => ReplyTo[c] # NoNote,
           \A i \in Handlers \ {h}, c \in Notes : Resolves(i, c) => resolve'[c] = "running",
           \A c \in Notes : r.pc = "looked" /\ r.act.kind = "Fetch" /\ r.act.for = c =>
               resolve'[c] = "running" /\ ReplyTo[c] = r.act.note /\ \A i \in Handlers \ {h} : ~ Resolves(i, c),
           \A c \in Notes : Waiting(c) /\ c \notin swallowed => resolve'[c] # "none"
    PROVE  RemoteStatusesInv'
<1>1. DOMAIN handler' = Handlers /\ handler'[h] = r /\ \A i \in Handlers \ {h} : handler'[i] = handler[i]
  BY DEF Moves
<1>2. \A i \in Handlers : HandlerTyped(i)'
  <2>1. HandlerTyped(h)'
    BY <1>1 DEF HandlerTyped, Busy
  <2>2. \A i \in Handlers \ {h} : HandlerTyped(i)'
    BY <1>1 DEF RemoteStatusesInv, NotesTyped, HandlerTyped, Busy
  <2> QED BY <2>1, <2>2
<1>3. NotesTyped'
  BY <1>1, <1>2 DEF RemoteStatusesInv, NotesTyped
<1>4. /\ \A i \in Handlers : (handler'[i].pc = "open" => i # h /\ handler[i].pc = "open" /\ handler'[i] = handler[i])
      /\ \A i \in Handlers : (handler'[i].pc = "done" => i # h /\ handler[i].pc = "done" /\ handler'[i] = handler[i])
  BY <1>1
<1>5. TransactionsFit'
  <2>1. ASSUME NEW i \in Handlers, handler'[i].pc = "open"
        PROVE  (Upserting(i)' => UpsertFits(i)') /\ (Deleting(i)' => DeleteFits(i)')
    <3>1. handler'[i] = handler[i] /\ note' = note
      BY <1>4, <2>1
    <3>2. (Upserting(i) => UpsertFits(i)) /\ (Deleting(i) => DeleteFits(i))
      BY DEF RemoteStatusesInv, TransactionsFit
    <3> QED BY <3>1, <3>2, StillFits
  <2>2. \A i \in Handlers : (Upserting(i)' => UpsertFits(i)') /\ (Deleting(i)' => DeleteFits(i)')
    BY <2>1 DEF Upserting, Deleting
  <2>3. \A i, j \in Handlers : i # j /\ handler'[i].pc = "open" /\ handler'[j].pc = "open" => Rows(i)' \cap Rows(j)' = {}
    BY <1>4 DEF RemoteStatusesInv, TransactionsFit, Rows
  <2> QED BY <2>2, <2>3 DEF TransactionsFit
<1>6. \A i \in Handlers \ {h}, c \in Notes : Resolves(i, c)' => Resolves(i, c)
  BY <1>1 DEF Resolves, Busy
<1>7. \A c \in Notes : Resolves(h, c)' => r.pc = "looked" /\ r.act.kind = "Fetch" /\ r.act.for = c
  BY <1>1 DEF Resolves, Busy
<1>8. WorkersHoldJobs'
  <2>1. ASSUME NEW i \in Handlers, NEW c \in Notes, Resolves(i, c)'
        PROVE  resolve'[c] = "running" /\ ReplyTo[c] = handler'[i].act.note
    <3>1. CASE i = h
      BY <1>1, <1>7, <2>1, <3>1
    <3>2. CASE i # h
      BY <1>1, <1>6, <2>1, <3>2 DEF RemoteStatusesInv, WorkersHoldJobs
    <3> QED BY <3>1, <3>2
  <2>2. \A i, j \in Handlers, c \in Notes : Resolves(i, c)' /\ Resolves(j, c)' => i = j
    BY <1>6, <1>7 DEF RemoteStatusesInv, WorkersHoldJobs
  <2> QED BY <2>1, <2>2 DEF WorkersHoldJobs
<1>9. \A c \in Notes : (Unlinked(c)' <=> Unlinked(c)) /\ (Waiting(c)' => Waiting(c))
  BY <1>4 DEF Unlinked, Waiting, Upserting, Rows
<1>10. WaitingHasJob'
  BY <1>9 DEF WaitingHasJob
<1>11. MissedIsSwallowed'
  <2> SUFFICES ASSUME NEW i \in Handlers, NEW c \in Notes, Resolves(i, c)', c \notin swallowed'
               PROVE  /\ handler'[i].pc = "open" /\ c \notin Rows(i)' => ~ Unlinked(c)'
                      /\ handler'[i].pc = "done" => ~ Waiting(c)'
    BY DEF MissedIsSwallowed
  <2>1. CASE i = h
    BY <1>4, <2>1
  <2>2. CASE i # h
    <3>1. Resolves(i, c) /\ c \notin swallowed
      BY <1>6, <2>2
    <3>2. /\ handler[i].pc = "open" /\ c \notin Rows(i) => ~ Unlinked(c)
          /\ handler[i].pc = "done" => ~ Waiting(c)
      BY <3>1 DEF RemoteStatusesInv, MissedIsSwallowed
    <3> QED BY <1>1, <1>9, <2>2, <3>2 DEF Rows
  <2> QED BY <2>1, <2>2
<1>12. SoundRows' /\ AcceptedIsKept' /\ DeletedStaysDeleted'
  BY DEF RemoteStatusesInv, SoundRows, AcceptedIsKept, IsKept, DeletedStaysDeleted, DeletionAccepted
<1> QED BY <1>3, <1>5, <1>8, <1>10, <1>11, <1>12 DEF RemoteStatusesInv

\* process_remote_status_upsert makes a sound row of a sound row.
LEMMA ReviseIsSound ==
    ASSUME NEW n \in Notes, SoundRow(n, note[n]), NEW v \in 0..MaxVersion, v > note[n].version, NEW parent \in BOOLEAN,
           parent => ReplyTo[n] # NoNote
    PROVE  SoundRow(n, Revise(n, v, parent)) /\ Revise(n, v, parent).version = v
<1> DEFINE r == Revise(n, v, parent)
           e == IF note[n].version = 0 THEN <<>> ELSE Snapshots(n, v)
<1>1. r = [version |-> v, live |-> TRUE, parent |-> parent, edits |-> e]
  BY DEF Revise
<1>2. note[n] \in NoteRecord /\ note[n].version \in 0..MaxVersion /\ note[n].edits \in Seq(1..MaxVersion) /\ v > 0 /\ v \in 1..MaxVersion
  BY Versions DEF SoundRow, NoteRecord
<1>3. e \in Seq(1..MaxVersion) /\ (e # <<>> => e[Len(e)] = v /\ \A i \in 1..Len(e) - 1 : e[i] <= e[i + 1])
  <2>1. CASE note[n].version = 0
    <3>1. e = <<>>
      BY <2>1
    <3> HIDE DEF e
    <3> QED BY <3>1
  <2>2. CASE note[n].version # 0
    <3>1. note[n].version \in 1..MaxVersion
      BY <1>2, <2>2
    <3>2. e = Append(IF note[n].edits = <<>> THEN <<note[n].version>> ELSE note[n].edits, v)
      BY <2>2 DEF Snapshots
    <3> HIDE DEF e
    <3>3. PICK d \in Seq(1..MaxVersion), w \in 1..MaxVersion :
            d = note[n].edits /\ w = note[n].version /\ v > w /\ v \in 1..MaxVersion
      BY <1>2, <3>1
    <3>4. d # <<>> => d[Len(d)] = w /\ \A i \in 1..Len(d) - 1 : d[i] <= d[i + 1]
      BY <3>3 DEF SoundRow
    <3>5. e = Append(IF d = <<>> THEN <<w>> ELSE d, v)
      BY <3>2, <3>3
    <3>6. LET f == Append(IF d = <<>> THEN <<w>> ELSE d, v) IN
            f \in Seq(1..MaxVersion) /\ f[Len(f)] = v /\ \A i \in 1..Len(f) - 1 : f[i] <= f[i + 1]
      BY <3>3, <3>4, SnapshotsInOrder
    <3> QED BY <3>5, <3>6, Zenon
  <2> QED BY <2>1, <2>2
<1> HIDE DEF e, r
<1>4. r \in NoteRecord /\ r.version = v /\ r.live /\ (r.parent <=> parent) /\ r.edits = e
  BY <1>1, <1>2, <1>3 DEF NoteRecord
<1> QED BY <1>2, <1>3, <1>4 DEF SoundRow, r

\* A handler that opens a transaction
LEMMA OpenedHandler ==
    ASSUME RemoteStatusesInv, NEW h \in Handlers, handler[h].pc = "looked", NEW out,
           handler' = [handler EXCEPT ![h].pc = "open", ![h].out = out],
           UNCHANGED <<origin, left, note, marker, resolve, overtaken, swallowed>>,
           MayWrite(h, out.rows),
           Upserting(h)' => UpsertFits(h)', Deleting(h)' => DeleteFits(h)',
           \A c \in Notes : handler[h].act.kind \in {"Upsert", "Fetch"} /\ handler[h].act.note = ReplyTo[c] /\ Unlinked(c) => c \in out.rows
    PROVE  RemoteStatusesInv'
<1>1. HandlerTyped(h) /\ DOMAIN handler = Handlers
  BY DEF RemoteStatusesInv, NotesTyped
<1>2. /\ handler'[h].pc = "open" /\ handler'[h].act = handler[h].act /\ handler'[h].out = out
      /\ handler'[h].parent = handler[h].parent
      /\ handler'[h] \in [pc : {"open"}, act : Activities \cup Fetched, parent : BOOLEAN, out : {handler'[h].out}]
      /\ DOMAIN handler' = Handlers /\ \A i \in Handlers \ {h} : handler'[i] = handler[i]
  BY <1>1 DEF HandlerTyped, Busy
<1>3. NotesTyped'
  <2>1. HandlerTyped(h)'
    BY <1>1, <1>2 DEF HandlerTyped, Busy
  <2>2. \A i \in Handlers \ {h} : HandlerTyped(i)'
    BY <1>2 DEF RemoteStatusesInv, NotesTyped, HandlerTyped, Busy
  <2> QED BY <1>2, <2>1, <2>2 DEF RemoteStatusesInv, NotesTyped
<1>4. TransactionsFit'
  <2>1. ASSUME NEW i \in Handlers
        PROVE  (Upserting(i)' => UpsertFits(i)') /\ (Deleting(i)' => DeleteFits(i)')
    <3>1. CASE i = h
      BY <3>1
    <3>2. CASE i # h
      <4>1. handler'[i] = handler[i] /\ note' = note
        BY <1>2, <3>2
      <4>2. (Upserting(i) => UpsertFits(i)) /\ (Deleting(i) => DeleteFits(i))
        BY DEF RemoteStatusesInv, TransactionsFit
      <4> QED BY <4>1, <4>2, StillFits
    <3> QED BY <3>1, <3>2
  <2>2. \A i \in Handlers \ {h} : handler[i].pc = "open" => Rows(i) \cap out.rows = {}
    BY DEF MayWrite, WrittenByOthers, Written, Rows
  <2>3. \A i, j \in Handlers : i # j /\ handler'[i].pc = "open" /\ handler'[j].pc = "open" => Rows(i)' \cap Rows(j)' = {}
    BY <1>2, <2>2 DEF RemoteStatusesInv, TransactionsFit, Rows
  <2> QED BY <2>1, <2>3 DEF TransactionsFit
<1>5. \A i \in Handlers, c \in Notes : (Resolves(i, c)' <=> Resolves(i, c)) /\ handler'[i].act = handler[i].act
  BY <1>2 DEF Resolves, Busy
<1>6. WorkersHoldJobs'
  BY <1>5 DEF RemoteStatusesInv, WorkersHoldJobs
<1>7. \A c \in Notes : (Unlinked(c)' <=> Unlinked(c)) /\ (Waiting(c)' => Waiting(c))
  BY <1>2 DEF Unlinked, Waiting, Upserting, Rows
<1>8. WaitingHasJob'
  BY <1>7 DEF RemoteStatusesInv, WaitingHasJob
<1>9. MissedIsSwallowed'
  <2> SUFFICES ASSUME NEW i \in Handlers, NEW c \in Notes, Resolves(i, c)', c \notin swallowed'
               PROVE  /\ handler'[i].pc = "open" /\ c \notin Rows(i)' => ~ Unlinked(c)'
                      /\ handler'[i].pc = "done" => ~ Waiting(c)'
    BY DEF MissedIsSwallowed
  <2>1. Resolves(i, c) /\ c \notin swallowed
    BY <1>5
  <2>2. CASE i = h
    <3>1. handler[h].act.kind = "Fetch" /\ ReplyTo[c] = handler[h].act.note
      BY <2>1, <2>2 DEF Resolves, RemoteStatusesInv, WorkersHoldJobs
    <3> QED BY <1>2, <1>7, <2>2, <3>1 DEF Rows
  <2>3. CASE i # h
    <3>1. /\ handler[i].pc = "open" /\ c \notin Rows(i) => ~ Unlinked(c)
          /\ handler[i].pc = "done" => ~ Waiting(c)
      BY <2>1 DEF RemoteStatusesInv, MissedIsSwallowed
    <3> QED BY <1>2, <1>7, <2>3, <3>1 DEF Rows
  <2> QED BY <2>2, <2>3
<1>10. SoundRows' /\ AcceptedIsKept' /\ DeletedStaysDeleted'
  BY DEF RemoteStatusesInv, SoundRows, AcceptedIsKept, IsKept, DeletedStaysDeleted, DeletionAccepted
<1> QED BY <1>3, <1>4, <1>6, <1>8, <1>9, <1>10 DEF RemoteStatusesInv

LEMMA WriteUpsertPreserves ==
    ASSUME RemoteStatusesInv, NEW h \in Handlers, WriteUpsert(h)
    PROVE  RemoteStatusesInv'
<1> DEFINE a == handler[h].act
           n == a.note
           v == a.version
           parent == handler[h].parent
           out == Upserted(n, v, parent)
<1>1. /\ handler[h].pc = "looked" /\ a.kind \in {"Upsert", "Fetch"} /\ MayWrite(h, out.rows)
      /\ handler' = [handler EXCEPT ![h].pc = "open", ![h].out = out]
      /\ UNCHANGED <<origin, left, note, marker, resolve, overtaken, swallowed>>
  BY DEF WriteUpsert
<1>2. HandlerTyped(h) /\ DOMAIN handler = Handlers /\ note \in [Notes -> NoteRecord] /\ \A m \in Notes : SoundRow(m, note[m])
  BY DEF RemoteStatusesInv, NotesTyped, SoundRows
<1>3. n \in Notes /\ v \in 0..MaxVersion /\ parent \in BOOLEAN /\ (parent => ReplyTo[n] # NoNote)
  BY <1>1, <1>2, ActShape DEF HandlerTyped, Busy
<1>4. handler'[h].act = a /\ handler'[h].out = out /\ handler'[h].parent = parent
  BY <1>1, <1>2 DEF HandlerTyped
<1> HIDE DEF a
<1>5. out = [rows |-> {n} \cup Orphans(n),
             put |-> [m \in {n} \cup Orphans(n) |->
                        IF m = n THEN (IF IsNews(n, v) THEN Revise(n, v, parent) ELSE note[n]) ELSE [note[m] EXCEPT !.parent = TRUE]],
             says |-> IF IsNews(n, v) THEN {<<n, v>>} ELSE {}]
  BY DEF Upserted
<1> HIDE DEF out
<1>6. /\ out.rows = {n} \cup Orphans(n) /\ DOMAIN out.put = out.rows /\ Orphans(n) \subseteq Notes
      /\ out.put[n] = IF IsNews(n, v) THEN Revise(n, v, parent) ELSE note[n]
      /\ \A m \in out.rows \ {n} : out.put[m] = [note[m] EXCEPT !.parent = TRUE]
      /\ out.says = IF IsNews(n, v) THEN {<<n, v>>} ELSE {}
  BY <1>5 DEF Orphans
<1>7. SoundRow(n, out.put[n]) /\ (IsNews(n, v) => out.put[n].version = v /\ out.says # {})
      /\ (~ IsNews(n, v) => out.put[n] = note[n])
  <2>1. CASE IsNews(n, v)
    <3>1. v > note[n].version
      BY <2>1 DEF IsNews
    <3>2. out.put[n] = Revise(n, v, parent) /\ out.says # {}
      BY <1>6, <2>1
    <3>3. SoundRow(n, Revise(n, v, parent)) /\ Revise(n, v, parent).version = v
      BY <1>2, <1>3, <3>1, ReviseIsSound
    <3> QED BY <2>1, <3>2, <3>3
  <2>2. CASE ~ IsNews(n, v)
    BY <1>2, <1>3, <1>6, <2>2
  <2> QED BY <2>1, <2>2
<1>8. ASSUME NEW m \in out.rows \ {n}
      PROVE  /\ SoundRow(m, out.put[m]) /\ ReplyTo[m] = n /\ note[m].live /\ out.put[m].parent
             /\ out.put[m].version = note[m].version
  <2>1. m \in Orphans(n) /\ m \in Notes
    BY <1>6
  <2>2. ReplyTo[m] = n /\ note[m].live /\ n # NoNote
    BY <1>3, <2>1, RemoteStatusesAssumption DEF Orphans
  <2>3. out.put[m] = [note[m] EXCEPT !.parent = TRUE] /\ SoundRow(m, note[m])
    BY <1>2, <1>6, <2>1
  <2>4. /\ out.put[m] \in NoteRecord /\ out.put[m].parent /\ out.put[m].version = note[m].version /\ out.put[m].edits = note[m].edits
        /\ out.put[m].live = note[m].live
    BY <2>3 DEF SoundRow, NoteRecord
  <2> QED BY <2>2, <2>3, <2>4 DEF SoundRow
<1>9. UpsertFits(h)'
  <2>1. out.rows \subseteq Notes /\ n \in out.rows /\ \A m \in out.rows : SoundRow(m, out.put[m])
    BY <1>3, <1>6, <1>7, <1>8
  <2>2. IF IsNews(n, v) THEN out.put[n].version = v /\ out.says # {} ELSE out.put[n] = note[n]
    BY <1>7
  <2>3. DOMAIN out.put = out.rows /\ note' = note
    BY <1>1, <1>6
  <2> QED BY <1>4, <1>8, <2>1, <2>2, <2>3 DEF UpsertFits, IsNews
<1>10. ~ Deleting(h)'
  BY <1>1, <1>4 DEF Deleting
<1>11. \A c \in Notes : a.note = ReplyTo[c] /\ Unlinked(c) => c \in out.rows
  BY <1>6 DEF Unlinked, Orphans
<1> QED BY <1>1, <1>9, <1>10, <1>11, OpenedHandler DEF a

LEMMA WriteDeletePreserves ==
    ASSUME RemoteStatusesInv, NEW h \in Handlers, WriteDelete(h)
    PROVE  RemoteStatusesInv'
<1> DEFINE a == handler[h].act
           ns == IF a.kind = "Leave" THEN StatusesOfActor ELSE StatusToDelete(a.note)
           out == Repaired(ns)
<1>1. /\ handler[h].pc = "looked" /\ a.kind \in {"Delete", "Leave"} /\ MayWrite(h, out.rows)
      /\ handler' = [handler EXCEPT ![h].pc = "open", ![h].out = out]
      /\ UNCHANGED <<origin, left, note, marker, resolve, overtaken, swallowed>>
  BY DEF WriteDelete
<1>2. HandlerTyped(h) /\ DOMAIN handler = Handlers /\ note \in [Notes -> NoteRecord] /\ \A m \in Notes : SoundRow(m, note[m])
  BY DEF RemoteStatusesInv, NotesTyped, SoundRows
<1>3. ns \subseteq Notes
  BY <1>1, <1>2, ActShape DEF HandlerTyped, Busy, StatusesOfActor, StatusToDelete
<1>4. handler'[h].act = a /\ handler'[h].out = out
  BY <1>1, <1>2 DEF HandlerTyped
<1> HIDE DEF a, ns
<1>5. out = [rows |-> ns \cup LinkedTo(ns),
             put |-> [m \in ns \cup LinkedTo(ns) |-> [note[m] EXCEPT !.live = @ /\ m \notin ns, !.parent = @ /\ ReplyTo[m] \notin ns]],
             says |-> ns \X {0}]
  BY DEF Repaired
<1> HIDE DEF out
<1>6. /\ out.rows = ns \cup LinkedTo(ns) /\ DOMAIN out.put = out.rows /\ out.rows \subseteq Notes
      /\ \A m \in out.rows : out.put[m] = [note[m] EXCEPT !.live = @ /\ m \notin ns, !.parent = @ /\ ReplyTo[m] \notin ns]
      /\ out.says = ns \X {0}
  BY <1>3, <1>5 DEF LinkedTo
<1>7. \A n : <<n, 0>> \in out.says <=> n \in ns
  BY <1>6
<1>8. ASSUME NEW m \in out.rows
      PROVE  /\ SoundRow(m, out.put[m]) /\ out.put[m].version = note[m].version
             /\ out.put[m].live => note[m].live /\ m \notin ns
             /\ note[m].parent /\ ~ out.put[m].parent => ReplyTo[m] \in ns
  <2>1. out.put[m] = [note[m] EXCEPT !.live = @ /\ m \notin ns, !.parent = @ /\ ReplyTo[m] \notin ns] /\ SoundRow(m, note[m])
    BY <1>2, <1>6
  <2>2. /\ out.put[m] \in NoteRecord /\ out.put[m].version = note[m].version /\ out.put[m].edits = note[m].edits
        /\ out.put[m].live = (note[m].live /\ m \notin ns) /\ out.put[m].parent = (note[m].parent /\ ReplyTo[m] \notin ns)
    BY <2>1 DEF SoundRow, NoteRecord
  <2> QED BY <2>1, <2>2 DEF SoundRow
<1>9. DeleteFits(h)'
  <2>1. NoNote \notin ns /\ \A n \in ns : n \in out.rows
    BY <1>3, <1>6, RemoteStatusesAssumption
  <2>2. out.rows \subseteq Notes /\ DOMAIN out.put = out.rows /\ note' = note
    BY <1>1, <1>6
  <2>3. \A m \in out.rows : /\ SoundRow(m, out.put[m]) /\ out.put[m].version = note[m].version
                            /\ out.put[m].live => note[m].live /\ ~ <<m, 0>> \in out.says
                            /\ note[m].parent /\ ~ out.put[m].parent => <<ReplyTo[m], 0>> \in out.says
    BY <1>7, <1>8
  <2>4. ~ <<NoNote, 0>> \in out.says /\ \A n \in Notes : <<n, 0>> \in out.says => n \in out.rows
    BY <1>7, <2>1
  <2> QED BY <1>4, <2>2, <2>3, <2>4 DEF DeleteFits
<1>10. ~ Upserting(h)'
  BY <1>1, <1>4 DEF Upserting
<1> QED BY <1>1, <1>9, <1>10, OpenedHandler DEF a

\* What a commit does to the rows
LEMMA CommittedRows ==
    ASSUME RemoteStatusesInv, NEW h \in Handlers, Commit(h)
    PROVE  /\ handler[h].pc = "open" /\ handler[h].act \in Activities \cup Fetched
           /\ (Upserting(h) /\ UpsertFits(h)) \/ (Deleting(h) /\ DeleteFits(h))
           /\ note' \in [Notes -> NoteRecord] /\ SoundRows'
           /\ \A m \in Notes : note'[m] = IF m \in Rows(h) THEN handler[h].out.put[m] ELSE note[m]
           /\ \A m \in Notes : note'[m].version >= note[m].version
<1> DEFINE a == handler[h].act
           out == handler[h].out
<1>1. handler[h].pc = "open" /\ a \in Activities \cup Fetched
  BY DEF Commit, RemoteStatusesInv, NotesTyped, HandlerTyped, Busy
<1>2. (Upserting(h) /\ UpsertFits(h)) \/ (Deleting(h) /\ DeleteFits(h))
  <2>1. Upserting(h) \/ Deleting(h)
    BY <1>1, ActShape DEF Upserting, Deleting
  <2> QED BY <2>1 DEF RemoteStatusesInv, TransactionsFit
<1>3. DOMAIN out.put = out.rows /\ out.rows \subseteq Notes /\ \A m \in out.rows : SoundRow(m, out.put[m])
  BY <1>2 DEF UpsertFits, DeleteFits
<1>4. note' = [n \in Notes |-> IF n \in DOMAIN out.put THEN out.put[n] ELSE note[n]]
  BY DEF Commit
<1>5. \A m \in Notes : note'[m] = IF m \in Rows(h) THEN out.put[m] ELSE note[m]
  BY <1>3, <1>4 DEF Rows
<1>6. \A m \in Notes : SoundRow(m, note'[m]) /\ SoundRow(m, note[m])
  BY <1>3, <1>5 DEF Rows, RemoteStatusesInv, SoundRows
<1>7. note' \in [Notes -> NoteRecord]
  BY <1>4, <1>6 DEF SoundRow
<1>8. ASSUME NEW m \in Notes PROVE note'[m].version >= note[m].version
  <2>1. note[m].version \in Nat
    BY <1>6, Versions DEF SoundRow, NoteRecord
  <2>2. CASE m \notin Rows(h)
    BY <1>5, <2>1, <2>2
  <2>3. CASE m \in Rows(h) /\ Deleting(h) /\ DeleteFits(h)
    <3>1. note'[m] = out.put[m]
      BY <1>5, <2>3
    <3>2. out.put[m].version = note[m].version
      BY <2>3 DEF DeleteFits, Rows
    <3> QED BY <2>1, <3>1, <3>2
  <2>4. CASE m \in Rows(h) /\ UpsertFits(h) /\ m # a.note
    BY <1>5, <2>1, <2>4 DEF UpsertFits, Rows
  <2>5. CASE m \in Rows(h) /\ Upserting(h) /\ UpsertFits(h) /\ m = a.note
    <3>1. a.version \in Nat
      BY <1>1, <2>5, ActShape, Versions DEF Upserting
    <3>2. note'[m] = out.put[m]
      BY <1>5, <2>5
    <3> QED BY <2>1, <2>5, <3>1, <3>2 DEF UpsertFits, IsNews
  <2> QED BY <1>2, <2>2, <2>3, <2>4, <2>5
<1> QED BY <1>1, <1>2, <1>5, <1>6, <1>7, <1>8 DEF SoundRows

\* What a commit does to its handler and to the jobs
LEMMA CommittedJobs ==
    ASSUME RemoteStatusesInv, NEW h \in Handlers, Commit(h)
    PROVE  /\ DOMAIN handler' = Handlers /\ \A i \in Handlers \ {h} : handler'[i] = handler[i]
           /\ HandlerTyped(h)' /\ handler'[h].pc \in {"idle", "done"}
           /\ handler'[h].pc = "done" => handler'[h].act = handler[h].act /\ handler[h].act.kind = "Fetch"
           /\ resolve' \in [Notes -> {"none", "pending", "running", "failed"}]
           /\ \A c \in Notes : resolve'[c] # "none" => ReplyTo[c] # NoNote
           /\ \A c \in Notes : resolve[c] # "none" => resolve'[c] # "none"
           /\ \A c \in Notes : resolve[c] = "running" => resolve'[c] = "running"
           /\ \A c \in Notes : Upserting(h) /\ c = handler[h].act.note /\ NeedsParent(c, note'[c]) =>
                  resolve'[c] # "none" /\ (resolve[c] = "running" => c \in swallowed')
           /\ swallowed \subseteq swallowed'
<1> DEFINE a == handler[h].act
           out == handler[h].out
<1>1. /\ handler' = [handler EXCEPT ![h] = IF a.kind = "Fetch" THEN [@ EXCEPT !.pc = "done"] ELSE Free]
      /\ resolve' = IF a.kind \in {"Upsert", "Fetch"} THEN [resolve EXCEPT ![a.note] = NewResolve(a.note, out.put[a.note])] ELSE resolve
      /\ swallowed' = swallowed \cup {n \in Notes \cap {a.note} : a.kind # "Delete" /\ NeedsParent(n, out.put[n]) /\ resolve[n] = "running"}
  BY DEF Commit
<1>2. /\ HandlerTyped(h) /\ DOMAIN handler = Handlers /\ handler[h].pc = "open" /\ a \in Activities \cup Fetched
      /\ resolve \in [Notes -> {"none", "pending", "running", "failed"}]
      /\ \A c \in Notes : resolve[c] # "none" => ReplyTo[c] # NoNote
  BY CommittedRows DEF RemoteStatusesInv, NotesTyped
<1>3. /\ DOMAIN handler' = Handlers /\ \A i \in Handlers \ {h} : handler'[i] = handler[i]
      /\ handler'[h] = IF a.kind = "Fetch" THEN [handler[h] EXCEPT !.pc = "done"] ELSE Free
  BY <1>1, <1>2
<1>4. HandlerTyped(h)' /\ handler'[h].pc \in {"idle", "done"} /\ (handler'[h].pc = "done" => handler'[h].act = a /\ a.kind = "Fetch")
  <2>1. CASE a.kind = "Fetch"
    <3>1. handler'[h] = [handler[h] EXCEPT !.pc = "done"]
      BY <1>3, <2>1
    <3>2. /\ handler'[h].pc = "done" /\ handler'[h].act = a /\ handler'[h].parent = handler[h].parent
          /\ handler'[h] \in [pc : {"done"}, act : Activities \cup Fetched, parent : BOOLEAN, out : {handler'[h].out}]
      BY <1>2, <3>1 DEF HandlerTyped
    <3> QED BY <1>2, <2>1, <3>2 DEF HandlerTyped, Busy
  <2>2. CASE a.kind # "Fetch"
    <3>1. handler'[h] = Free
      BY <1>3, <2>2
    <3> QED BY <3>1 DEF Free, HandlerTyped, Busy
  <2> QED BY <2>1, <2>2
<1>5. swallowed \subseteq swallowed'
  BY <1>1
<1>6. CASE a.kind \in {"Upsert", "Fetch"}
  <2> DEFINE n == a.note
  <2>1. n \in Notes /\ Upserting(h) /\ a.kind # "Delete"
    BY <1>2, <1>6, ActShape DEF Upserting
  <2>2. note'[n] = out.put[n]
    <3>1. UpsertFits(h)
      BY <2>1 DEF RemoteStatusesInv, TransactionsFit
    <3>2. n \in Rows(h)
      BY <3>1 DEF UpsertFits, Rows
    <3> QED BY <2>1, <3>2, CommittedRows
  <2>3. resolve' = [resolve EXCEPT ![n] = NewResolve(n, note'[n])]
    BY <1>1, <1>6, <2>2
  <2>4. NeedsParent(n, note'[n]) => ReplyTo[n] # NoNote
    BY DEF NeedsParent
  <2>5. /\ NewResolve(n, note'[n]) \in {resolve[n], "pending"} /\ (resolve[n] = "running" => NewResolve(n, note'[n]) = "running")
        /\ (NewResolve(n, note'[n]) # resolve[n] => NeedsParent(n, note'[n]))
        /\ (NeedsParent(n, note'[n]) => NewResolve(n, note'[n]) \in {"pending", "running"})
    BY DEF NewResolve
  <2>6. NeedsParent(n, note'[n]) /\ resolve[n] = "running" => n \in swallowed'
    BY <1>1, <2>1, <2>2
  <2> HIDE DEF n, a
  <2>7. /\ resolve' \in [Notes -> {"none", "pending", "running", "failed"}] /\ resolve'[n] = NewResolve(n, note'[n])
        /\ \A c \in Notes \ {n} : resolve'[c] = resolve[c]
    BY <1>2, <2>1, <2>3, <2>5
  <2>8. /\ \A c \in Notes : resolve'[c] # "none" => ReplyTo[c] # NoNote
        /\ \A c \in Notes : resolve[c] # "none" => resolve'[c] # "none"
        /\ \A c \in Notes : resolve[c] = "running" => resolve'[c] = "running"
    BY <1>2, <2>4, <2>5, <2>7
  <2>9. \A c \in Notes : c = n /\ NeedsParent(c, note'[c]) => resolve'[c] # "none" /\ (resolve[c] = "running" => c \in swallowed')
    BY <2>5, <2>6, <2>7
  <2> QED BY <1>3, <1>4, <1>5, <2>7, <2>8, <2>9 DEF n, a
<1>7. CASE a.kind \notin {"Upsert", "Fetch"}
  <2>1. resolve' = resolve /\ ~ Upserting(h)
    BY <1>1, <1>7 DEF Upserting
  <2> QED BY <1>2, <1>3, <1>4, <1>5, <2>1
<1> QED BY <1>6, <1>7

LEMMA CommitPreserves ==
    ASSUME RemoteStatusesInv, NEW h \in Handlers, Commit(h)
    PROVE  RemoteStatusesInv'
<1> DEFINE a == handler[h].act
           out == handler[h].out
           n == a.note
<1>1. /\ UNCHANGED <<origin, left>> /\ marker' = (IF a.kind = "Fetch" THEN marker ELSE marker \cup {a})
      /\ overtaken' = overtaken \cup Overtaking(a, out)
  BY DEF Commit
<1>2. NotesTyped'
  <2>1. marker' \subseteq Activities
    BY <1>1, CommittedRows, ActShape DEF RemoteStatusesInv, NotesTyped
  <2>2. \A i \in Handlers \ {h} : HandlerTyped(i)'
    BY CommittedJobs DEF RemoteStatusesInv, NotesTyped, HandlerTyped, Busy
  <2> QED BY <1>1, <2>1, <2>2, CommittedRows, CommittedJobs DEF RemoteStatusesInv, NotesTyped
<1>3. \A i \in Handlers \ {h} : handler[i].pc = "open" => Rows(i) \cap Rows(h) = {}
  BY CommittedRows DEF RemoteStatusesInv, TransactionsFit
<1>4. TransactionsFit'
  <2>1. ASSUME NEW i \in Handlers PROVE (Upserting(i)' => UpsertFits(i)') /\ (Deleting(i)' => DeleteFits(i)')
    <3>1. CASE handler'[i].pc # "open"
      BY <3>1 DEF Upserting, Deleting
    <3>2. CASE handler'[i].pc = "open"
      <4>1. i # h /\ handler'[i] = handler[i]
        BY <3>2, CommittedJobs
      <4>2. (Upserting(i) => UpsertFits(i)) /\ (Deleting(i) => DeleteFits(i))
        BY DEF RemoteStatusesInv, TransactionsFit
      <4>3. Upserting(i) \/ Deleting(i)
        BY <3>2, <4>1, ActShape DEF Upserting, Deleting, RemoteStatusesInv, NotesTyped, HandlerTyped, Busy
      <4>4. Rows(i) \subseteq Notes
        BY <4>2, <4>3 DEF UpsertFits, DeleteFits, Rows
      <4>5. \A m \in Rows(i) : note'[m] = note[m]
        BY <1>3, <3>2, <4>1, <4>4, CommittedRows
      <4> QED BY <4>1, <4>2, <4>5, StillFits
    <3> QED BY <3>1, <3>2
  <2>2. \A i, j \in Handlers : i # j /\ handler'[i].pc = "open" /\ handler'[j].pc = "open" => Rows(i)' \cap Rows(j)' = {}
    BY CommittedJobs DEF RemoteStatusesInv, TransactionsFit, Rows
  <2> QED BY <2>1, <2>2 DEF TransactionsFit
<1>5. \A i \in Handlers, c \in Notes : Resolves(i, c)' => Resolves(i, c) /\ handler'[i].act = handler[i].act
  BY CommittedJobs, CommittedRows DEF Resolves, Busy
<1>6. WorkersHoldJobs'
  BY <1>5, CommittedJobs DEF RemoteStatusesInv, WorkersHoldJobs
\* A reply is unlinked by its own upsert or by the deletion of its parent only.
<1>7. ASSUME NEW c \in Notes, Unlinked(c)'
      PROVE  \/ Upserting(h) /\ c = n /\ NeedsParent(c, note'[c])
             \/ Unlinked(c) /\ (Upserting(h) => c \notin Rows(h))
             \/ Deleting(h) /\ ReplyTo[c] \in Rows(h) /\ ~ note'[ReplyTo[c]].live
  <2>1. ReplyTo[c] # NoNote /\ note'[c].live /\ ~ note'[c].parent
    BY <1>7 DEF Unlinked
  <2>2. CASE c \notin Rows(h)
    BY <2>1, <2>2, CommittedRows DEF Unlinked
  <2>3. CASE c \in Rows(h) /\ Upserting(h) /\ UpsertFits(h)
    <3>1. note'[c] = out.put[c]
      BY <2>3, CommittedRows
    <3>2. c = n
      BY <2>1, <2>3, <3>1 DEF UpsertFits, Rows
    <3> QED BY <2>1, <2>3, <3>2 DEF NeedsParent
  <2>4. CASE c \in Rows(h) /\ Deleting(h) /\ DeleteFits(h)
    <3>1. note'[c] = out.put[c]
      BY <2>4, CommittedRows
    <3>2. note[c].live /\ (note[c].parent => <<ReplyTo[c], 0>> \in out.says)
      BY <2>1, <2>4, <3>1 DEF DeleteFits, Rows
    <3>3. ~ Upserting(h)
      BY <2>4 DEF Upserting, Deleting
    <3>4. CASE ~ note[c].parent
      BY <2>1, <3>2, <3>3, <3>4 DEF Unlinked
    <3>5. CASE note[c].parent
      <4>1. ReplyTo[c] \in Notes /\ <<ReplyTo[c], 0>> \in out.says
        BY <2>1, <3>2, <3>5, RemoteStatusesAssumption
      <4>2. ReplyTo[c] \in Rows(h)
        BY <2>4, <4>1 DEF DeleteFits, Rows
      <4>3. note'[ReplyTo[c]] = out.put[ReplyTo[c]]
        BY <4>1, <4>2, CommittedRows
      <4>4. ~ out.put[ReplyTo[c]].live
        BY <2>4, <4>1, <4>2 DEF DeleteFits, Rows
      <4> QED BY <2>4, <4>2, <4>3, <4>4
    <3> QED BY <3>4, <3>5
  <2> QED BY <2>2, <2>3, <2>4, CommittedRows
\* No transaction that brings the parent of c is open beside one that has locked it.
<1>8. ASSUME NEW i \in Handlers \ {h}, Upserting(i)
      PROVE  Upserting(i)' /\ handler'[i] = handler[i] /\ handler[i].act.note \in Rows(i) /\ handler[i].act.note \notin Rows(h)
  <2>1. UpsertFits(i) /\ handler[i].pc = "open"
    BY <1>8 DEF RemoteStatusesInv, TransactionsFit, Upserting
  <2>2. handler[i].act.note \in Rows(i)
    BY <2>1 DEF UpsertFits, Rows
  <2> QED BY <1>3, <1>8, <2>1, <2>2, CommittedJobs DEF Upserting
<1>9. ASSUME NEW c \in Notes, Waiting(c)'
      PROVE  \/ Upserting(h) /\ c = n /\ NeedsParent(c, note'[c])
             \/ Waiting(c) /\ (Upserting(h) => c \notin Rows(h))
  <2> DEFINE p == ReplyTo[c]
  <2>1. Unlinked(c)' /\ p \in Notes
    BY <1>9, RemoteStatusesAssumption DEF Waiting, Unlinked
  <2>2. CASE \E i \in Handlers : Upserting(i)' /\ handler'[i].act.note = p /\ c \notin Rows(i)'
    <3>1. PICK i \in Handlers : Upserting(i)' /\ handler'[i].act.note = p /\ c \notin Rows(i)'
      BY <2>2
    <3>2. i # h /\ handler'[i] = handler[i] /\ Upserting(i) /\ handler[i].act.note = p /\ c \notin Rows(i)
      BY <3>1, CommittedJobs DEF Upserting, Rows
    <3>3. p \notin Rows(h)
      BY <1>8, <3>2
    <3> QED BY <1>7, <2>1, <3>2, <3>3 DEF Waiting
  <2>3. CASE note'[p].live
    <3>1. CASE note[p].live
      BY <1>7, <2>1, <2>3, <3>1 DEF Waiting
    <3>2. CASE ~ note[p].live
      <4>1. p \in Rows(h) /\ Upserting(h) /\ p = n
        <5>1. p \in Rows(h) /\ note'[p] = out.put[p]
          BY <2>1, <2>3, <3>2, CommittedRows
        <5>2. ~ (Deleting(h) /\ DeleteFits(h))
          BY <2>3, <3>2, <5>1 DEF DeleteFits, Rows
        <5>3. Upserting(h) /\ UpsertFits(h)
          BY <5>2, CommittedRows
        <5> QED BY <3>2, <5>1, <5>3 DEF UpsertFits, Rows
      <4>2. ~ Deleting(h)
        BY <4>1 DEF Upserting, Deleting
      <4> QED BY <1>7, <2>1, <4>1, <4>2 DEF Waiting
    <3> QED BY <3>1, <3>2
  <2> QED BY <1>9, <2>2, <2>3 DEF Waiting
<1>10. WaitingHasJob'
  BY <1>9, CommittedJobs DEF RemoteStatusesInv, WaitingHasJob
<1>11. MissedIsSwallowed'
  <2> SUFFICES ASSUME NEW i \in Handlers, NEW c \in Notes, Resolves(i, c)', c \notin swallowed'
               PROVE  /\ handler'[i].pc = "open" /\ c \notin Rows(i)' => ~ Unlinked(c)'
                      /\ handler'[i].pc = "done" => ~ Waiting(c)'
    BY DEF MissedIsSwallowed
  <2>1. Resolves(i, c) /\ c \notin swallowed /\ resolve[c] = "running" /\ ReplyTo[c] = handler[i].act.note
    BY <1>5, CommittedJobs DEF RemoteStatusesInv, WorkersHoldJobs
  <2>2. ~ (Upserting(h) /\ c = n /\ NeedsParent(c, note'[c]))
    BY <2>1, CommittedJobs
  <2>3. /\ handler[i].pc = "open" /\ c \notin Rows(i) => ~ Unlinked(c)
        /\ handler[i].pc = "done" => ~ Waiting(c)
    BY <2>1 DEF RemoteStatusesInv, MissedIsSwallowed
  <2>4. CASE i # h
    <3>1. handler'[i] = handler[i]
      BY <2>4, CommittedJobs
    <3>2. ASSUME handler'[i].pc = "open", c \notin Rows(i)', Unlinked(c)' PROVE FALSE
      <4>1. Upserting(i) /\ ~ Unlinked(c)
        BY <2>1, <2>3, <3>1, <3>2 DEF Upserting, Resolves, Rows
      <4> QED BY <1>7, <1>8, <2>1, <2>2, <2>4, <3>2, <4>1
    <3>3. ASSUME handler'[i].pc = "done", Waiting(c)' PROVE FALSE
      BY <1>9, <2>2, <2>3, <3>1, <3>3
    <3> QED BY <3>2, <3>3
  <2>5. CASE i = h
    <3>1. handler'[i].pc # "open" /\ handler[i].pc = "open" /\ Upserting(h)
      BY <2>1, <2>5, CommittedJobs, CommittedRows DEF Upserting, Resolves
    <3>2. ASSUME Waiting(c)' PROVE FALSE
      BY <1>9, <2>2, <2>3, <2>5, <3>1, <3>2 DEF Waiting
    <3> QED BY <3>1, <3>2
  <2> QED BY <2>4, <2>5
<1>12. AcceptedIsKept'
  <2> SUFFICES ASSUME NEW b \in marker', b.kind = "Upsert" PROVE IsKept(b)'
    BY DEF AcceptedIsKept
  <2>0. b \in Activities /\ b.version \in 1..MaxVersion
    BY <1>2 DEF NotesTyped, Activities
  <2>1. b \in Activities /\ b.note \in Notes /\ b.version \in Nat /\ b.version \in 1..b.version
    BY <2>0, ActShape, Versions
  <2>2. note[b.note].version \in Nat /\ note'[b.note].version \in Nat
    BY <2>1, CommittedRows, Versions DEF RemoteStatusesInv, NotesTyped, NoteRecord
  <2>3. CASE b \in marker
    <3>1. PICK w \in 1..b.version : TextOf[b.note][w] = TextOf[b.note][b.version] /\ note[b.note].version >= w
      BY <2>3 DEF RemoteStatusesInv, AcceptedIsKept, IsKept
    <3>2. note'[b.note].version >= w
      BY <2>1, <2>2, <3>1, CommittedRows
    <3> QED BY <3>1, <3>2 DEF IsKept
  <2>4. CASE b \notin marker
    <3>1. b = a
      BY <1>1, <2>4
    <3>2. Upserting(h) /\ UpsertFits(h)
      BY <3>1, CommittedRows DEF Upserting, Deleting
    <3>3. note'[n] = out.put[n]
      BY <2>1, <3>1, <3>2, CommittedRows DEF UpsertFits, Rows
    <3>4. CASE IsNews(n, a.version)
      <4>1. note'[b.note].version = b.version
        BY <3>1, <3>2, <3>3, <3>4 DEF UpsertFits
      <4> QED BY <2>1, <4>1 DEF IsKept
    <3>5. CASE ~ IsNews(n, a.version) /\ note[n].version < b.version
      <4>1. note'[n] = note[n] /\ note[n].version > 0
        BY <2>1, <2>2, <3>1, <3>2, <3>3, <3>5 DEF UpsertFits, IsNews
      <4>2. note[n].version \in 1..b.version /\ TextOf[n][note[n].version] = TextOf[n][b.version]
        BY <2>1, <2>2, <3>1, <3>5, <4>1 DEF IsNews
      <4> QED BY <2>2, <3>1, <4>1, <4>2 DEF IsKept
    <3>6. CASE ~ IsNews(n, a.version) /\ ~ note[n].version < b.version
      <4>1. note'[b.note].version >= b.version
        BY <2>1, <2>2, <3>1, <3>2, <3>3, <3>6 DEF UpsertFits
      <4> QED BY <2>1, <4>1 DEF IsKept
    <3> QED BY <3>4, <3>5, <3>6
  <2> QED BY <2>3, <2>4
<1>13. DeletedStaysDeleted'
  <2> SUFFICES ASSUME NEW m \in Notes, note'[m].live, DeletionAccepted(m)' PROVE m \in overtaken'
    BY DEF DeletedStaysDeleted
  <2>1. CASE Deleting(h) /\ DeleteFits(h)
    <3>1. note[m].live /\ <<m, 0>> \notin out.says
      BY <2>1, CommittedRows DEF DeleteFits, Rows
    <3>2. CASE DeletionAccepted(m)
      BY <1>1, <3>1, <3>2 DEF RemoteStatusesInv, DeletedStaysDeleted
    <3>3. CASE ~ DeletionAccepted(m)
      <4>1. a.kind = "Leave" \/ (a.kind = "Delete" /\ a.note = m)
        BY <1>1, <3>3 DEF DeletionAccepted
      <4>2. m \in Overtaking(a, out)
        BY <2>1, <3>1, <4>1 DEF Overtaking, Deleting
      <4> QED BY <1>1, <4>2
    <3> QED BY <3>2, <3>3
  <2>2. CASE Upserting(h) /\ UpsertFits(h)
    <3>1. DeletionAccepted(m)
      BY <1>1, <2>2 DEF DeletionAccepted, Upserting
    <3>2. CASE note[m].live
      BY <1>1, <3>1, <3>2 DEF RemoteStatusesInv, DeletedStaysDeleted
    <3>3. CASE ~ note[m].live
      <4>1. m \in Rows(h) /\ m = n
        BY <2>2, <3>3, CommittedRows DEF UpsertFits, Rows
      <4>2. a.version > note[m].version /\ out.says # {}
        BY <2>2, <3>3, <4>1, CommittedRows DEF UpsertFits, IsNews
      <4>3. m \in Overtaking(a, out)
        BY <2>2, <3>1, <4>1, <4>2 DEF Overtaking, Upserting
      <4> QED BY <1>1, <4>3
    <3> QED BY <3>2, <3>3
  <2> QED BY <2>1, <2>2, CommittedRows
<1> QED BY <1>2, <1>4, <1>6, <1>10, <1>11, <1>12, <1>13, CommittedRows DEF RemoteStatusesInv

\* The handler gives up: another transaction inserts the row, the activity is a
\* replay, or the process dies.  A job goes back to the queue.
LEMMA GiveUpPreserves ==
    ASSUME RemoteStatusesInv, NEW h \in Handlers, Busy(h), handler' = [handler EXCEPT ![h] = Free],
           resolve' = IF handler[h].act.kind = "Fetch" THEN Requeued(handler[h].act.for) ELSE resolve,
           UNCHANGED <<origin, left, note, marker, overtaken, swallowed>>
    PROVE  RemoteStatusesInv'
<1>1. /\ resolve \in [Notes -> {"none", "pending", "running", "failed"}] /\ \A c \in Notes : resolve[c] # "none" => ReplyTo[c] # NoNote
      /\ HandlerTyped(h) /\ handler[h].act \in Activities \cup Fetched
  BY DEF RemoteStatusesInv, NotesTyped, HandlerTyped
<1>2. \A c \in Notes : resolve'[c] = IF Resolves(h, c) THEN "pending" ELSE resolve[c]
  BY <1>1 DEF Requeued, Resolves
<1>3. resolve' \in [Notes -> {"none", "pending", "running", "failed"}]
  BY <1>1 DEF Requeued
<1>4. \A c \in Notes : Resolves(h, c) => resolve[c] = "running"
  BY DEF RemoteStatusesInv, WorkersHoldJobs
<1>5. \A c \in Notes : resolve'[c] # "none" <=> resolve[c] # "none"
  BY <1>2, <1>4
<1>6. \A i \in Handlers \ {h}, c \in Notes : Resolves(i, c) => resolve'[c] = "running"
  BY <1>2 DEF RemoteStatusesInv, WorkersHoldJobs
<1>7. Free \in [pc : {"idle", "looked"}, act : Activities \cup Fetched \cup {NoNote}, parent : BOOLEAN, out : {Free.out}] /\ Free.pc = "idle"
  BY DEF Free
<1>8. \A c \in Notes : Waiting(c) /\ c \notin swallowed => resolve'[c] # "none"
  BY <1>5 DEF RemoteStatusesInv, WaitingHasJob
<1>9. Moves(h, Free)
  BY MovesByAssignment
<1> QED BY <1>1, <1>3, <1>5, <1>6, <1>7, <1>8, <1>9, HandlerStep

LEMMA FinishPreserves ==
    ASSUME RemoteStatusesInv, NEW h \in Handlers, FinishResolve(h)
    PROVE  RemoteStatusesInv'
<1> DEFINE c0 == handler[h].act.for
<1>1. /\ handler[h].pc = "done" /\ resolve' = [m \in Notes |-> IF m = c0 THEN "none" ELSE resolve[m]]
      /\ handler' = [handler EXCEPT ![h] = Free] /\ UNCHANGED <<origin, left, note, marker, overtaken, swallowed>>
  BY DEF FinishResolve
<1>2. /\ resolve \in [Notes -> {"none", "pending", "running", "failed"}] /\ \A c \in Notes : resolve[c] # "none" => ReplyTo[c] # NoNote
      /\ HandlerTyped(h) /\ handler[h].act.kind = "Fetch"
  BY <1>1 DEF RemoteStatusesInv, NotesTyped, HandlerTyped
<1>3. \A c \in Notes : resolve'[c] = IF Resolves(h, c) THEN "none" ELSE resolve[c]
  BY <1>1, <1>2 DEF Resolves, Busy
<1>4. resolve' \in [Notes -> {"none", "pending", "running", "failed"}]
  BY <1>1, <1>2
<1>5. \A i \in Handlers \ {h}, c \in Notes : Resolves(i, c) => resolve'[c] = "running"
  BY <1>3 DEF RemoteStatusesInv, WorkersHoldJobs
<1>6. Free \in [pc : {"idle", "looked"}, act : Activities \cup Fetched \cup {NoNote}, parent : BOOLEAN, out : {Free.out}] /\ Free.pc = "idle"
  BY DEF Free
<1>7. \A c \in Notes : Waiting(c) /\ c \notin swallowed => resolve'[c] # "none"
  BY <1>1, <1>3 DEF RemoteStatusesInv, WaitingHasJob, MissedIsSwallowed
<1>8. \A c \in Notes : resolve'[c] # "none" => ReplyTo[c] # NoNote
  BY <1>2, <1>3
<1>9. Moves(h, Free)
  BY <1>1, MovesByAssignment
<1> QED BY <1>1, <1>4, <1>5, <1>6, <1>7, <1>8, <1>9, HandlerStep

\* An activity from the inbox, or a reply that is fetched, is looked at.
LEMMA LookPreserves ==
    ASSUME RemoteStatusesInv, NEW h \in Handlers, handler[h].pc = "idle", NEW a \in Activities \cup Fetched, NEW parent \in BOOLEAN,
           a.kind = "Fetch" => a.for \notin Notes,
           parent => ReplyTo[a.note] # NoNote,
           handler' = [handler EXCEPT ![h] = [pc |-> "looked", act |-> a, out |-> NoNote, parent |-> parent]],
           UNCHANGED <<origin, left, note, marker, resolve, overtaken, swallowed>>
    PROVE  RemoteStatusesInv'
<1> DEFINE r == [pc |-> "looked", act |-> a, out |-> NoNote, parent |-> parent]
<1>1. /\ r \in [pc : {"idle", "looked"}, act : Activities \cup Fetched \cup {NoNote}, parent : BOOLEAN, out : {r.out}]
      /\ r.pc = "looked" /\ r.act = a /\ (r.parent <=> parent)
  OBVIOUS
<1> HIDE DEF r
<1>2. /\ resolve' \in [Notes -> {"none", "pending", "running", "failed"}] /\ \A c \in Notes : resolve'[c] # "none" => ReplyTo[c] # NoNote
  BY DEF RemoteStatusesInv, NotesTyped
<1>3. \A i \in Handlers \ {h}, c \in Notes : Resolves(i, c) => resolve'[c] = "running"
  BY DEF RemoteStatusesInv, WorkersHoldJobs
<1>4. \A c \in Notes : Waiting(c) /\ c \notin swallowed => resolve'[c] # "none"
  BY DEF RemoteStatusesInv, WaitingHasJob
<1>5. Moves(h, r)
  BY MovesByAssignment DEF r
<1>6. r.act \in Activities \cup Fetched /\ (r.parent => ReplyTo[r.act.note] # NoNote)
  BY <1>1
<1>7. \A c \in Notes : ~ (r.act.kind = "Fetch" /\ r.act.for = c)
  BY <1>1
<1> QED BY <1>1, <1>2, <1>3, <1>4, <1>5, <1>6, <1>7, HandlerStep

LEMMA FetchParentPreserves ==
    ASSUME RemoteStatusesInv, NEW h \in Handlers, NEW c \in Notes, FetchParent(h, c)
    PROVE  RemoteStatusesInv'
<1> DEFINE p == ReplyTo[c]
           a == Document(p, c)
<1>1. handler[h].pc = "idle" /\ resolve[c] = "pending" /\ UNCHANGED <<origin, left, note, marker, overtaken, swallowed>>
  BY DEF FetchParent
<1>2. /\ resolve \in [Notes -> {"none", "pending", "running", "failed"}] /\ \A m \in Notes : resolve[m] # "none" => ReplyTo[m] # NoNote
      /\ DOMAIN handler = Handlers /\ HandlerTyped(h) /\ origin \in [Notes -> OriginRecord]
  BY DEF RemoteStatusesInv, NotesTyped
<1>3. p \in Notes /\ p # NoNote
  BY <1>1, <1>2, RemoteStatusesAssumption
<1>4. \A i \in Handlers : ~ Resolves(i, c)
  BY <1>1 DEF RemoteStatusesInv, WorkersHoldJobs
<1>5. \A i \in Handlers \ {h}, m \in Notes : Resolves(i, m) => resolve[m] = "running" /\ m # c
  BY <1>4 DEF RemoteStatusesInv, WorkersHoldJobs
<1>6. \A m \in Notes : Waiting(m) /\ m \notin swallowed => resolve[m] # "none"
  BY DEF RemoteStatusesInv, WaitingHasJob
\* The job ends without a fetch.
<1>7. ASSUME NEW state \in {"none", "failed"}, resolve' = [resolve EXCEPT ![c] = state], UNCHANGED handler,
             state = "none" => ~ Waiting(c)
      PROVE  RemoteStatusesInv'
  <2> DEFINE r == handler[h]
  <2>1. Moves(h, r)
    BY <1>2, <1>7 DEF Moves
  <2>2. r \in [pc : {"idle", "looked"}, act : Activities \cup Fetched \cup {NoNote}, parent : BOOLEAN, out : {r.out}] /\ r.pc = "idle"
    BY <1>1, <1>2 DEF HandlerTyped
  <2>3. /\ resolve' \in [Notes -> {"none", "pending", "running", "failed"}] /\ resolve'[c] = state
        /\ \A m \in Notes \ {c} : resolve'[m] = resolve[m]
    BY <1>2, <1>7
  <2>4. /\ \A m \in Notes : resolve'[m] # "none" => ReplyTo[m] # NoNote
        /\ \A i \in Handlers \ {h}, m \in Notes : Resolves(i, m) => resolve'[m] = "running"
        /\ \A m \in Notes : Waiting(m) /\ m \notin swallowed => resolve'[m] # "none"
    BY <1>2, <1>3, <1>5, <1>6, <1>7, <2>3
  <2> HIDE DEF r
  <2> QED BY <1>1, <2>1, <2>2, <2>3, <2>4, HandlerStep
<1>8. CASE ~ note[c].live \/ note[c].parent
  <2>1. resolve' = [resolve EXCEPT ![c] = "none"] /\ UNCHANGED handler
    BY <1>8 DEF FetchParent
  <2>2. ~ Waiting(c)
    BY <1>8 DEF Waiting, Unlinked
  <2> QED BY <1>7, <2>1, <2>2
<1>9. CASE note[c].live /\ ~ note[c].parent /\ (origin[p].gone \/ left)
  <2>1. resolve' = [resolve EXCEPT ![c] = "failed"] /\ UNCHANGED handler
    BY <1>9 DEF FetchParent
  <2> QED BY <1>7, <2>1
<1>10. CASE note[c].live /\ ~ note[c].parent /\ ~ origin[p].gone /\ ~ left
  <2> DEFINE r == [pc |-> "looked", out |-> NoNote, parent |-> ParentIsKnown(p), act |-> a]
  <2>1. resolve' = [resolve EXCEPT ![c] = "running"] /\ handler' = [handler EXCEPT ![h] = r]
    BY <1>10 DEF FetchParent
  <2>2. a \in Fetched /\ a.kind = "Fetch" /\ a.note = p /\ a.for = c
    BY <1>2, <1>3 DEF Document, Fetched, OriginRecord
  <2>3. ParentIsKnown(p) \in BOOLEAN /\ (ParentIsKnown(p) => ReplyTo[p] # NoNote)
    BY DEF ParentIsKnown
  <2> HIDE DEF a
  <2>4. /\ r \in [pc : {"idle", "looked"}, act : Activities \cup Fetched \cup {NoNote}, parent : BOOLEAN, out : {r.out}]
        /\ r.pc = "looked" /\ r.act = a /\ (r.parent <=> ParentIsKnown(p))
    BY <2>2, <2>3
  <2>5. /\ resolve' \in [Notes -> {"none", "pending", "running", "failed"}] /\ resolve'[c] = "running"
        /\ \A m \in Notes \ {c} : resolve'[m] = resolve[m]
    BY <1>2, <2>1
  <2>6. /\ \A m \in Notes : resolve'[m] # "none" => ReplyTo[m] # NoNote
        /\ \A i \in Handlers \ {h}, m \in Notes : Resolves(i, m) => resolve'[m] = "running"
        /\ \A m \in Notes : Waiting(m) /\ m \notin swallowed => resolve'[m] # "none"
    BY <1>2, <1>3, <1>5, <1>6, <2>5
  <2> HIDE DEF r, p
  <2>7. \A m \in Notes : r.act.for = m => resolve'[m] = "running" /\ ReplyTo[m] = r.act.note /\ \A i \in Handlers \ {h} : ~ Resolves(i, m)
    BY <1>4, <2>2, <2>4, <2>5 DEF p
  <2>8. r.act \in Activities \cup Fetched /\ (r.parent => ReplyTo[r.act.note] # NoNote)
    BY <2>2, <2>3, <2>4
  <2>9. Moves(h, r)
    BY <2>1, MovesByAssignment
  <2> QED BY <1>1, <2>4, <2>5, <2>6, <2>7, <2>8, <2>9, HandlerStep
<1> QED BY <1>8, <1>9, <1>10

\* The actor's own server
LEMMA OriginPreserves ==
    ASSUME RemoteStatusesInv, origin' \in [Notes -> OriginRecord], left' \in BOOLEAN,
           UNCHANGED <<note, marker, handler, resolve, overtaken, swallowed>>
    PROVE  RemoteStatusesInv'
<1>1. NotesTyped'
  BY DEF RemoteStatusesInv, NotesTyped, HandlerTyped, Busy
<1>2. TransactionsFit'
  <2>1. \A i \in Handlers : (Upserting(i)' => UpsertFits(i)') /\ (Deleting(i)' => DeleteFits(i)')
    BY StillFits DEF RemoteStatusesInv, TransactionsFit
  <2> QED BY <2>1 DEF RemoteStatusesInv, TransactionsFit, Rows
<1>3. WorkersHoldJobs'
  BY DEF RemoteStatusesInv, WorkersHoldJobs, Resolves, Busy
<1>4. \A c \in Notes : (Unlinked(c)' <=> Unlinked(c)) /\ (Waiting(c)' <=> Waiting(c))
  BY DEF Unlinked, Waiting, Upserting, Rows
<1>5. WaitingHasJob' /\ MissedIsSwallowed'
  BY <1>4 DEF RemoteStatusesInv, WaitingHasJob, MissedIsSwallowed, Resolves, Busy, Rows
<1>6. SoundRows' /\ AcceptedIsKept' /\ DeletedStaysDeleted'
  BY DEF RemoteStatusesInv, SoundRows, AcceptedIsKept, IsKept, DeletedStaysDeleted, DeletionAccepted
<1> QED BY <1>1, <1>2, <1>3, <1>5, <1>6 DEF RemoteStatusesInv

\* For any threads, handlers and versions, in any order of activities: a Note is
\* never older than an accepted activity, what was deleted stays deleted unless
\* its Delete was overtaken, and a reply beside its parent is linked or has a job.
THEOREM RemoteStatusesAreSafe == RemoteStatusesSpec => []RemoteStatusesSafe
<1>1. RemoteStatusesInit => RemoteStatusesInv
  <2> SUFFICES ASSUME RemoteStatusesInit PROVE RemoteStatusesInv
    OBVIOUS
  <2>1. /\ DOMAIN handler = Handlers /\ \A h \in Handlers : handler[h] = Free
        /\ note \in [Notes -> NoteRecord] /\ \A n \in Notes : note[n] = NoCopy
    BY Versions DEF RemoteStatusesInit, NoCopy, NoteRecord
  <2>2. \A h \in Handlers : HandlerTyped(h) /\ handler[h].pc = "idle"
    <3>1. /\ Free \in [pc : {"idle", "looked", "open", "done"}, act : Activities \cup Fetched \cup {NoNote}, parent : BOOLEAN, out : {Free.out}]
          /\ Free.pc = "idle"
      BY DEF Free
    <3> QED BY <2>1, <3>1 DEF HandlerTyped, Busy
  <2>3. NotesTyped
    BY <2>1, <2>2, Versions DEF RemoteStatusesInit, NotesTyped, OriginRecord
  <2>4. \A n \in Notes : ~ note[n].live /\ SoundRow(n, note[n])
    <3>1. ~ NoCopy.live /\ ~ NoCopy.parent /\ NoCopy.edits = <<>> /\ NoCopy \in NoteRecord
      BY Versions DEF NoCopy, NoteRecord
    <3> QED BY <2>1, <3>1 DEF SoundRow
  <2>5. TransactionsFit /\ WorkersHoldJobs /\ WaitingHasJob /\ MissedIsSwallowed
    BY <2>2, <2>4 DEF TransactionsFit, WorkersHoldJobs, WaitingHasJob, MissedIsSwallowed, Upserting, Deleting, Resolves, Busy,
       Waiting, Unlinked
  <2>6. SoundRows /\ AcceptedIsKept /\ DeletedStaysDeleted
    BY <2>4 DEF RemoteStatusesInit, SoundRows, AcceptedIsKept, DeletedStaysDeleted
  <2> QED BY <2>3, <2>5, <2>6 DEF RemoteStatusesInv
<1>2. ASSUME RemoteStatusesInv, [RemoteStatusesNext]_remote_vars
      PROVE  RemoteStatusesInv'
  <2> USE <1>2
  <2>1. origin \in [Notes -> OriginRecord] /\ left \in BOOLEAN /\ marker \subseteq Activities
    BY DEF RemoteStatusesInv, NotesTyped
  <2>2. ASSUME NEW n \in Notes, PublishNote(n) PROVE RemoteStatusesInv'
    <3>1. origin' \in [Notes -> OriginRecord]
      BY <2>1, <2>2, Versions DEF PublishNote, OriginRecord
    <3> QED BY <2>1, <2>2, <3>1, OriginPreserves DEF PublishNote
  <2>3. ASSUME NEW n \in Notes, Retract(n) PROVE RemoteStatusesInv'
    <3>1. origin' \in [Notes -> OriginRecord]
      BY <2>1, <2>3 DEF Retract, OriginRecord
    <3> QED BY <2>1, <2>3, <3>1, OriginPreserves DEF Retract
  <2>4. CASE Leave
    BY <2>1, <2>4, OriginPreserves DEF Leave
  <2>5. ASSUME NEW h \in Handlers, NEW a \in Sent, ReceiveActivity(h, a) PROVE RemoteStatusesInv'
    <3> DEFINE parent == a.kind = "Upsert" /\ ParentIsKnown(a.note)
    <3>1. a \in Activities /\ a.kind # "Fetch"
      BY <2>5 DEF Sent, Activities
    <3>2. parent \in BOOLEAN /\ (parent => ReplyTo[a.note] # NoNote)
      BY DEF ParentIsKnown
    <3>3. /\ handler' = [handler EXCEPT ![h] = [pc |-> "looked", act |-> a, out |-> NoNote, parent |-> parent]] /\ handler[h].pc = "idle"
          /\ UNCHANGED <<origin, left, note, marker, resolve, overtaken, swallowed>>
      BY <2>5 DEF ReceiveActivity
    <3> HIDE DEF parent
    <3> QED BY <3>1, <3>2, <3>3, LookPreserves
  <2>6. ASSUME NEW h \in Handlers, NEW c \in Notes, FetchReply(h, c) PROVE RemoteStatusesInv'
    <3> DEFINE a == Document(c, NoNote)
    <3>1. a \in Fetched /\ a.for \notin Notes /\ a.note = c /\ ReplyTo[c] # NoNote
      BY <2>1, <2>6, RemoteStatusesAssumption DEF Document, Fetched, OriginRecord, FetchReply, ParentIsKnown
    <3>2. /\ handler' = [handler EXCEPT ![h] = [pc |-> "looked", act |-> a, out |-> NoNote, parent |-> TRUE]] /\ handler[h].pc = "idle"
          /\ UNCHANGED <<origin, left, note, marker, resolve, overtaken, swallowed>>
      BY <2>6 DEF FetchReply
    <3> HIDE DEF a
    <3> QED BY <3>1, <3>2, LookPreserves
  <2>7. ASSUME NEW h \in Handlers, LoseInsert(h) \/ Abort(h) PROVE RemoteStatusesInv'
    BY <2>7, GiveUpPreserves DEF LoseInsert, Abort, Busy
  <2>8. ASSUME NEW h \in Handlers, IgnoreReplay(h) PROVE RemoteStatusesInv'
    <3>1. handler[h].act.kind # "Fetch" /\ Busy(h)
      BY <2>1, <2>8 DEF IgnoreReplay, Activities, Busy
    <3> QED BY <2>8, <3>1, GiveUpPreserves DEF IgnoreReplay
  <2>9. CASE UNCHANGED remote_vars
    BY <2>1, <2>9, OriginPreserves DEF remote_vars
  <2> QED
    BY <2>2, <2>3, <2>4, <2>5, <2>6, <2>7, <2>8, <2>9, FetchParentPreserves, WriteUpsertPreserves, WriteDeletePreserves,
       CommitPreserves, FinishPreserves DEF RemoteStatusesNext
<1>3. RemoteStatusesInv => RemoteStatusesSafe
  <2> SUFFICES ASSUME RemoteStatusesInv PROVE RemoteStatusesSafe
    OBVIOUS
  <2>1. \A n \in Notes : SoundRow(n, note[n])
    BY DEF RemoteStatusesInv, SoundRows
  <2>2. RemoteStatusesTypeOK
    BY <2>1 DEF RemoteStatusesInv, NotesTyped, HandlerTyped, RemoteStatusesTypeOK, SoundRow, NoteRecord
  <2>3. NewestVersionKept
    BY <2>1 DEF RemoteStatusesInv, AcceptedIsKept, NewestVersionKept, SoundRow
  <2>4. OrphansHaveJobs
    <3> SUFFICES ASSUME NEW n \in Notes, ReplyTo[n] # NoNote, note[n].live, ~ note[n].parent, note[ReplyTo[n]].live
                 PROVE  resolve[n] \in {"pending", "running", "failed"} \/ n \in swallowed
      BY DEF OrphansHaveJobs
    <3>1. Waiting(n)
      BY DEF Waiting, Unlinked
    <3> QED BY <3>1 DEF RemoteStatusesInv, NotesTyped, WaitingHasJob
  <2> QED BY <2>2, <2>3, <2>4 DEF RemoteStatusesInv, RemoteStatusesSafe
<1>4. RemoteStatusesInv /\ [RemoteStatusesNext]_remote_vars => RemoteStatusesInv'
  BY <1>2
<1> QED
  BY <1>1, <1>3, <1>4, PTL DEF RemoteStatusesSpec
-----------------------------------------------------------------------------
(* Outgoing activities *)

Named(p) == status.alive /\ p \in status.names

\* A delivery that is still to come tells the server of p what the status says,
\* after everything up to version v.
Corrected(p, v) ==
    p \in missed \cup unseen \/ \E g \in groups : p \in g.actors /\ g.version > v /\ (p \in g.names <=> Named(p))

StatusRow == [version : 0..MaxRevision, alive : BOOLEAN, direct : BOOLEAN, names : SUBSET Peers]
Receipt == [version : 0..MaxRevision, named : BOOLEAN]

GroupTyped(g) ==
    /\ g.version \in 0..MaxRevision /\ g.version <= status.version /\ g.names \subseteq Peers
    /\ g.actors \subseteq Peers /\ g.actors # {} /\ (g.personal => Cardinality(g.actors) = 1)

DeliveryTyped ==
    /\ status \in StatusRow /\ (status.version = 0 => ~ status.alive)
    /\ fans \cup barred \cup movedInbox \cup missed \cup unseen \subseteq Peers /\ reads \subseteq SUBSET Peers
    /\ \A g \in groups : GroupTyped(g)
    /\ \A j \in singles : j.to \in Peers
    /\ seen \in [Peers -> Receipt] /\ \A p \in Peers : seen[p].version <= status.version

\* What a server was told wrong, or may still be told wrong, is corrected later.
WrongIsCorrected ==
    /\ \A p \in Peers : (seen[p].named <=> Named(p)) \/ Corrected(p, seen[p].version)
    /\ \A p \in Peers : \A g \in groups :
         (p \in g.names <=> Named(p)) \/ seen[p].version > g.version \/ Corrected(p, g.version)

DeliveryInv == DeliveryTyped /\ WrongIsCorrected

\* enqueue_status_delivery_groups: everyone in the audience is in a group.
LEMMA GroupsReach ==
    ASSUME NEW recipients, NEW personal, NEW activity, NEW p \in recipients
    PROVE  \E g \in GroupJobs(recipients, personal, activity) : p \in g.actors
<1> DEFINE d == [inbox |-> Inbox(p, personal), actors |-> {q \in recipients : Inbox(q, personal) = Inbox(p, personal)}]
           g == [version |-> activity.version, names |-> activity.names, inbox |-> d.inbox, actors |-> d.actors, personal |-> personal]
<1>1. d \in DeliveryGroups(recipients, personal)
  BY DEF DeliveryGroups
<1>2. g \in GroupJobs(recipients, personal, activity)
  BY <1>1 DEF GroupJobs
<1>3. p \in g.actors
  OBVIOUS
<1> QED BY <1>2, <1>3

\* A group of the activity; a personal inbox is of one actor.
GroupOf(g, activity) ==
    /\ g.version = activity.version /\ g.names = activity.names
    /\ g.actors \subseteq Peers /\ g.actors # {} /\ (g.personal => Cardinality(g.actors) = 1)

LEMMA GroupsFit ==
    ASSUME NEW recipients \in SUBSET Peers, NEW personal, NEW activity, NEW g \in GroupJobs(recipients, personal, activity)
    PROVE  GroupOf(g, activity)
<1>1. PICK d \in DeliveryGroups(recipients, personal) :
        g = [version |-> activity.version, names |-> activity.names, inbox |-> d.inbox, actors |-> d.actors, personal |-> personal]
  BY DEF GroupJobs
<1>2. PICK p \in recipients : d = [inbox |-> Inbox(p, personal), actors |-> {q \in recipients : Inbox(q, personal) = Inbox(p, personal)}]
  BY DEF DeliveryGroups
<1>3. /\ g.version = activity.version /\ g.names = activity.names /\ g.personal = personal
      /\ g.actors = {q \in recipients : Inbox(q, personal) = Inbox(p, personal)}
  BY <1>1, <1>2
<1>4. p \in g.actors /\ g.actors \subseteq Peers
  BY <1>3
<1>5. ASSUME g.personal PROVE g.actors = {p}
  BY <1>3, <1>5 DEF Inbox
<1> QED BY <1>3, <1>4, <1>5, FS_Singleton DEF GroupOf

\* A status is written, edited or deleted: who it names now, and whom it named
\* when the writer looked, is told.
LEMMA EnqueuePreserves ==
    ASSUME DeliveryInv, NEW s \in StatusRow, NEW previous \in SUBSET Peers, EnqueueStatus(s, previous),
           s.version = status.version + 1
    PROVE  DeliveryInv'
<1> DEFINE recipients == Recipients(s, previous)
           new == GroupJobs(recipients, s.direct, Activity(s))
<1>1. /\ status \in StatusRow /\ status.version \in Nat /\ fans \subseteq Peers /\ seen \in [Peers -> Receipt]
      /\ \A p \in Peers : seen[p].version <= status.version
      /\ \A g \in groups : GroupTyped(g)
  BY DEF DeliveryInv, DeliveryTyped, StatusRow
<1>2. /\ status' = s /\ groups' = groups \cup new /\ unseen' = (unseen \cup status.names) \ (s.names \cup previous)
      /\ UNCHANGED <<reads, fans, barred, movedInbox, singles, seen, arrived, missed>>
  BY DEF EnqueueStatus
<1>3. recipients \subseteq Peers /\ s.names \cup previous \subseteq recipients /\ s.direct \in BOOLEAN /\ s.names \subseteq Peers
  BY <1>1 DEF Recipients, StatusRow
<1>4. Activity(s).version = s.version /\ Activity(s).names = IF s.alive THEN s.names ELSE {}
  BY DEF Activity
<1> HIDE DEF recipients
<1>5. /\ \A p \in recipients : \E g \in new : p \in g.actors
      /\ \A g \in new : GroupOf(g, Activity(s))
  BY <1>3, GroupsReach, GroupsFit
<1> HIDE DEF new
<1>6. \A p \in Peers : Named(p)' <=> s.alive /\ p \in s.names
  BY <1>2 DEF Named
<1>7. \A g \in new, p \in Peers : g.version = s.version /\ (p \in g.names <=> Named(p)')
  BY <1>4, <1>5, <1>6 DEF GroupOf
<1>8. \A p \in Peers : (Named(p)' <=> Named(p)) \/ p \in recipients \/ p \in unseen'
  BY <1>2, <1>3, <1>6 DEF Named
<1>9. DeliveryTyped'
  <2>1. \A g \in groups : GroupTyped(g)'
    BY <1>1, <1>2 DEF GroupTyped, StatusRow
  <2>2. \A g \in new : GroupTyped(g)'
    BY <1>2, <1>3, <1>4, <1>5 DEF GroupTyped, GroupOf, StatusRow
  <2>3. \A p \in Peers : seen'[p].version <= status'.version
    BY <1>1, <1>2 DEF Receipt, StatusRow
  <2>4. status.names \subseteq Peers
    BY <1>1 DEF StatusRow
  <2> QED BY <1>1, <1>2, <2>1, <2>2, <2>3, <2>4 DEF DeliveryInv, DeliveryTyped, StatusRow
<1>10. ASSUME NEW p \in Peers, NEW v \in Nat, v <= status.version, p \in recipients
       PROVE  Corrected(p, v)'
  <2>1. PICK g \in new : p \in g.actors
    BY <1>5, <1>10
  <2>2. g.version > v /\ (p \in g.names <=> Named(p)') /\ g \in groups'
    BY <1>1, <1>2, <1>5, <1>7, <1>10
  <2> QED BY <2>1, <2>2 DEF Corrected
<1>11. ASSUME NEW p \in Peers, NEW v, Corrected(p, v), Named(p)' <=> Named(p), p \notin recipients
       PROVE  Corrected(p, v)'
  BY <1>2, <1>3, <1>11 DEF Corrected
<1>12. ASSUME NEW p \in Peers, NEW v, v = seen[p].version
       PROVE  (seen[p].named <=> Named(p)') \/ Corrected(p, v)'
  <2>1. v \in Nat /\ v <= status.version
    BY <1>1, <1>12 DEF Receipt
  <2>2. (seen[p].named <=> Named(p)) \/ Corrected(p, v)
    BY <1>12 DEF DeliveryInv, WrongIsCorrected
  <2>3. CASE p \in recipients
    BY <1>10, <2>1, <2>3
  <2>4. CASE p \in unseen'
    BY <2>4 DEF Corrected
  <2>5. CASE p \notin recipients /\ p \notin unseen'
    BY <1>8, <1>11, <2>2, <2>5
  <2> QED BY <2>3, <2>4, <2>5
<1>13. \A p \in Peers : \A g \in groups' : (p \in g.names <=> Named(p)') \/ seen'[p].version > g.version \/ Corrected(p, g.version)'
  <2> SUFFICES ASSUME NEW p \in Peers, NEW g \in groups PROVE (p \in g.names <=> Named(p)') \/ seen[p].version > g.version \/ Corrected(p, g.version)'
    BY <1>2, <1>7
  <2>1. g.version \in Nat /\ g.version <= status.version
    BY <1>1 DEF GroupTyped
  <2>2. (p \in g.names <=> Named(p)) \/ seen[p].version > g.version \/ Corrected(p, g.version)
    BY DEF DeliveryInv, WrongIsCorrected
  <2>3. CASE p \in recipients
    BY <1>10, <2>1, <2>3
  <2>4. CASE p \in unseen'
    BY <2>4 DEF Corrected
  <2>5. CASE p \notin recipients /\ p \notin unseen'
    BY <1>8, <1>11, <2>2, <2>5
  <2> QED BY <2>3, <2>4, <2>5
<1>14. \A p \in Peers : (seen'[p].named <=> Named(p)') \/ Corrected(p, seen[p].version)'
  BY <1>2, <1>12 DEF Corrected
<1> QED BY <1>9, <1>13, <1>14 DEF DeliveryInv, WrongIsCorrected

\* The steps that leave the status, its deliveries and what arrived alone
LEMMA SameGroupsPreserve ==
    ASSUME DeliveryInv, UNCHANGED <<status, groups, seen, missed, unseen>>, reads' \subseteq SUBSET Peers, fans' \cup barred' \cup movedInbox' \subseteq Peers,
           \A j \in singles' : j.to \in Peers
    PROVE  DeliveryInv'
<1>1. \A p \in Peers : Named(p)' <=> Named(p)
  BY DEF Named
<1>2. DeliveryTyped'
  BY DEF DeliveryInv, DeliveryTyped, GroupTyped
<1>3. WrongIsCorrected'
  BY <1>1 DEF DeliveryInv, WrongIsCorrected, Corrected
<1> QED BY <1>2, <1>3 DEF DeliveryInv

LEMMA UpdateActorPreserves ==
    ASSUME DeliveryInv, UpdateActor
    PROVE  DeliveryInv'
<1> DEFINE activity == [version |-> 0, names |-> {}]
           new == GroupJobs(fans, FALSE, activity)
<1>1. /\ status.version = 0 /\ ~ status.alive /\ fans \subseteq Peers /\ groups' = groups \cup new
      /\ UNCHANGED <<status, reads, unseen, fans, barred, movedInbox, singles, seen, arrived, missed>>
  BY DEF UpdateActor, DeliveryInv, DeliveryTyped
<1>2. activity.version = 0 /\ activity.names = {}
  OBVIOUS
<1> HIDE DEF activity
<1>3. \A g \in new : GroupOf(g, activity)
  BY <1>1, GroupsFit
<1> HIDE DEF new
<1>4. \A g \in new : GroupTyped(g)'
  BY <1>1, <1>2, <1>3, DeliveryAssumption DEF GroupTyped, GroupOf
<1>5. DeliveryTyped'
  BY <1>1, <1>4 DEF DeliveryInv, DeliveryTyped, GroupTyped
<1>6. \A p \in Peers : ~ Named(p) /\ ~ Named(p)' /\ \A g \in new : p \notin g.names
  BY <1>1, <1>2, <1>3 DEF Named, GroupOf
<1>7. ASSUME NEW p \in Peers, NEW v, Corrected(p, v) PROVE Corrected(p, v)'
  BY <1>1, <1>6, <1>7 DEF Corrected
<1>8. \A p \in Peers : (seen'[p].named <=> Named(p)') \/ Corrected(p, seen[p].version)'
  <2> SUFFICES ASSUME NEW p \in Peers, NEW v, v = seen[p].version PROVE (seen[p].named <=> Named(p)') \/ Corrected(p, v)'
    BY <1>1 DEF Corrected
  <2> QED BY <1>6, <1>7 DEF DeliveryInv, WrongIsCorrected
<1>9. \A p \in Peers : \A g \in groups' : (p \in g.names <=> Named(p)') \/ seen'[p].version > g.version \/ Corrected(p, g.version)'
  BY <1>1, <1>6, <1>7 DEF DeliveryInv, WrongIsCorrected
<1> QED BY <1>5, <1>8, <1>9 DEF DeliveryInv, WrongIsCorrected

\* A delivery that is given up, or tried again
LEMMA GivenUpPreserves ==
    ASSUME DeliveryInv, NEW g \in groups, UNCHANGED <<status, reads, unseen, fans, barred, movedInbox, singles, seen>>,
           \/ groups' = groups \ {g} /\ missed' = missed \cup g.actors
           \/ groups' = groups /\ missed' = missed \cup (g.actors \ Behind(g.inbox))
    PROVE  DeliveryInv'
<1>1. groups' \subseteq groups /\ missed \subseteq missed' /\ missed' \subseteq Peers /\ g.actors \subseteq Peers
  BY DEF DeliveryInv, DeliveryTyped, GroupTyped
<1>2. \A p \in Peers : Named(p)' <=> Named(p)
  BY DEF Named
<1>3. ASSUME NEW p \in Peers, NEW v, Corrected(p, v) PROVE Corrected(p, v)'
  BY <1>1, <1>2, <1>3 DEF Corrected
<1>4. DeliveryTyped'
  BY <1>1 DEF DeliveryInv, DeliveryTyped, GroupTyped
<1>5. \A p \in Peers : (seen'[p].named <=> Named(p)') \/ Corrected(p, seen[p].version)'
  <2> SUFFICES ASSUME NEW p \in Peers, NEW v, v = seen[p].version PROVE (seen[p].named <=> Named(p)') \/ Corrected(p, v)'
    BY DEF Corrected
  <2> QED BY <1>2, <1>3 DEF DeliveryInv, WrongIsCorrected
<1>6. \A p \in Peers : \A d \in groups' : (p \in d.names <=> Named(p)') \/ seen'[p].version > d.version \/ Corrected(p, d.version)'
  BY <1>1, <1>2, <1>3 DEF DeliveryInv, WrongIsCorrected
<1> QED BY <1>4, <1>5, <1>6 DEF DeliveryInv, WrongIsCorrected

\* A delivery that arrives: the server keeps the newest version it was sent.
LEMMA ReceivedPreserves ==
    ASSUME DeliveryInv, NEW g \in groups, UNCHANGED <<status, reads, unseen, fans, barred, movedInbox, singles>>,
           groups' = groups \ {g}, missed' = missed \cup (g.actors \ Behind(g.inbox)), Receives(g)
    PROVE  DeliveryInv'
<1> DEFINE Updated(p) == p \in Behind(g.inbox) /\ g.version > seen[p].version
<1>1. /\ seen \in [Peers -> Receipt] /\ GroupTyped(g) /\ missed' \subseteq Peers /\ status \in StatusRow
      /\ g.version \in 0..MaxRevision /\ g.version <= status.version /\ \A p \in Peers : seen[p].version \in 0..MaxRevision
  BY DEF DeliveryInv, DeliveryTyped, GroupTyped, Receipt
<1>2. \A p \in Peers : Named(p)' <=> Named(p)
  BY DEF Named
<1>3. ASSUME NEW p \in Peers
      PROVE  /\ Updated(p) => seen'[p].version = g.version /\ (seen'[p].named <=> p \in g.names) /\ seen'[p] \in Receipt
             /\ ~ Updated(p) => seen'[p] = seen[p] /\ seen'[p] \in Receipt
  <2>1. CASE Updated(p)
    <3> DEFINE named == p \in g.names
    <3>1. seen'[p] = [version |-> g.version, named |-> named]
      BY <2>1 DEF Receives
    <3>2. named \in BOOLEAN /\ (named <=> p \in g.names)
      OBVIOUS
    <3> HIDE DEF named
    <3>3. seen'[p].version = g.version /\ seen'[p].named = named
      BY <3>1
    <3>4. seen'[p] \in Receipt
      BY <1>1, <3>1, <3>2 DEF Receipt
    <3> QED BY <2>1, <3>2, <3>3, <3>4
  <2>2. CASE ~ Updated(p)
    BY <1>1, <2>2 DEF Receives
  <2> QED BY <2>1, <2>2
<1>4. \A p \in Peers : seen'[p].version \in Nat /\ seen'[p].version >= seen[p].version /\ (p \in Behind(g.inbox) => seen'[p].version >= g.version)
  BY <1>1, <1>3 DEF Receipt
<1>5. DeliveryTyped'
  <2>1. seen' \in [Peers -> Receipt]
    BY <1>3 DEF Receives
  <2>2. \A p \in Peers : seen'[p].version <= status'.version
    BY <1>1, <1>3 DEF DeliveryInv, DeliveryTyped
  <2> QED BY <1>1, <2>1, <2>2 DEF DeliveryInv, DeliveryTyped, GroupTyped
\* A correction is still to come, or it has just come.
<1>6. ASSUME NEW p \in Peers, NEW v \in Nat, Corrected(p, v)
      PROVE  Corrected(p, v)' \/ (p \in Behind(g.inbox) /\ g.version > v /\ (p \in g.names <=> Named(p)))
  <2>1. CASE p \in missed \cup unseen
    BY <2>1 DEF Corrected
  <2>2. CASE p \notin missed \cup unseen
    <3>1. PICK d \in groups : p \in d.actors /\ d.version > v /\ (p \in d.names <=> Named(p))
      BY <1>6, <2>2 DEF Corrected
    <3>2. CASE d # g
      BY <1>2, <3>1, <3>2 DEF Corrected
    <3>3. CASE d = g
      BY <3>1, <3>3 DEF Corrected
    <3> QED BY <3>2, <3>3
  <2> QED BY <2>1, <2>2
<1>7. ASSUME NEW p \in Peers, NEW v, v = seen'[p].version
      PROVE  (seen'[p].named <=> Named(p)') \/ Corrected(p, v)'
  <2>1. CASE Updated(p)
    <3>1. (p \in g.names <=> Named(p)) \/ Corrected(p, g.version)
      BY <1>1, <2>1 DEF DeliveryInv, WrongIsCorrected, Receipt
    <3>2. v = g.version /\ v \in Nat /\ ~ (g.version > v)
      BY <1>1, <1>3, <1>7, <2>1
    <3> QED BY <1>2, <1>3, <1>6, <2>1, <3>1, <3>2
  <2>2. CASE ~ Updated(p)
    <3>1. v = seen[p].version /\ v \in Nat /\ seen'[p] = seen[p]
      BY <1>3, <1>4, <1>7, <2>2
    <3>2. (seen[p].named <=> Named(p)) \/ Corrected(p, v)
      BY <3>1 DEF DeliveryInv, WrongIsCorrected
    <3>3. ~ (p \in Behind(g.inbox) /\ g.version > v)
      BY <2>2, <3>1
    <3> QED BY <1>2, <1>6, <3>1, <3>2, <3>3
  <2> QED BY <2>1, <2>2
<1>8. ASSUME NEW p \in Peers, NEW d \in groups'
      PROVE  (p \in d.names <=> Named(p)') \/ seen'[p].version > d.version \/ Corrected(p, d.version)'
  <2>1. d \in groups /\ d.version \in Nat
    BY DEF DeliveryInv, DeliveryTyped, GroupTyped
  <2>2. (p \in d.names <=> Named(p)) \/ seen[p].version > d.version \/ Corrected(p, d.version)
    BY <2>1 DEF DeliveryInv, WrongIsCorrected
  <2>3. CASE seen[p].version > d.version
    BY <1>1, <1>4, <2>1, <2>3
  <2>4. CASE Corrected(p, d.version)
    <3>1. CASE p \in Behind(g.inbox) /\ g.version > d.version
      BY <1>1, <1>4, <2>1, <3>1
    <3> QED BY <1>6, <2>1, <2>4, <3>1
  <2> QED BY <1>2, <2>2, <2>3, <2>4
<1>9. \A p \in Peers : (seen'[p].named <=> Named(p)') \/ Corrected(p, seen[p].version)'
  BY <1>7 DEF Corrected
<1> QED BY <1>5, <1>8, <1>9 DEF DeliveryInv, WrongIsCorrected

LEMMA DeliverPreserves ==
    ASSUME DeliveryInv, NEW g \in groups, NEW answer, DeliverGroup(g, answer)
    PROVE  DeliveryInv'
<1>1. UNCHANGED <<status, reads, unseen, fans, barred, movedInbox, singles, arrived>>
  BY DEF DeliverGroup
<1>2. CASE Eligible(g) = {}
  BY <1>1, <1>2, GivenUpPreserves DEF DeliverGroup
<1>3. CASE Eligible(g) # {} /\ answer = "ok"
  BY <1>1, <1>3, ReceivedPreserves DEF DeliverGroup, Permanent
<1>4. CASE Eligible(g) # {} /\ answer # "ok"
  BY <1>1, <1>4, GivenUpPreserves DEF DeliverGroup
<1> QED BY <1>2, <1>3, <1>4

LEMMA NewStatus ==
    ASSUME DeliveryInv
    PROVE  /\ \A names \in SUBSET Peers : Publish(names) => DeliveryInv'
           /\ \A names \in SUBSET Peers, previous \in reads : EditStatus(previous, names) => DeliveryInv'
           /\ DeleteStatus => DeliveryInv'
<1>1. status \in StatusRow /\ (status.version = 0 => ~ status.alive) /\ status.version \in 0..MaxRevision /\ status.names \subseteq Peers
  BY DEF DeliveryInv, DeliveryTyped, StatusRow
<1>2. ASSUME NEW names \in SUBSET Peers, Publish(names) PROVE DeliveryInv'
  <2> DEFINE s == [status EXCEPT !.version = 1, !.alive = TRUE, !.names = names]
  <2>1. s \in StatusRow /\ s.version = status.version + 1
    <3>1. status.version = 0 /\ 1 \in 0..MaxRevision
      BY <1>2, DeliveryAssumption DEF Publish
    <3>2. s \in StatusRow
      BY <1>1, <3>1 DEF StatusRow
    <3>3. s.version = 1
      BY <1>1 DEF StatusRow
    <3> QED BY <3>1, <3>2, <3>3
  <2>2. EnqueueStatus(s, {})
    BY <1>2 DEF Publish
  <2> HIDE DEF s
  <2> QED BY <2>1, <2>2, EnqueuePreserves
<1>3. ASSUME NEW names \in SUBSET Peers, NEW previous \in reads, EditStatus(previous, names) PROVE DeliveryInv'
  <2> DEFINE s == [status EXCEPT !.version = @ + 1, !.names = names]
  <2>1. s \in StatusRow /\ s.version = status.version + 1
    <3>1. status.version + 1 \in 0..MaxRevision
      BY <1>1, <1>3, DeliveryAssumption DEF EditStatus
    <3> QED BY <1>1, <3>1 DEF StatusRow
  <2>2. EnqueueStatus(s, previous) /\ previous \in SUBSET Peers
    BY <1>3 DEF EditStatus, DeliveryInv, DeliveryTyped
  <2> HIDE DEF s
  <2> QED BY <2>1, <2>2, EnqueuePreserves
<1>4. ASSUME DeleteStatus PROVE DeliveryInv'
  <2> DEFINE s == [status EXCEPT !.version = @ + 1, !.alive = FALSE]
  <2>1. s \in StatusRow /\ s.version = status.version + 1 /\ s.names = status.names
    <3>1. status.version + 1 \in 0..MaxRevision
      BY <1>1, <1>4, DeliveryAssumption DEF DeleteStatus
    <3> QED BY <1>1, <3>1 DEF StatusRow
  <2>2. EnqueueStatus(s, {})
    BY <1>4 DEF DeleteStatus
  <2> HIDE DEF s
  <2> QED BY <1>1, <2>1, <2>2, EnqueuePreserves
<1> QED BY <1>2, <1>3, <1>4

\* For any peers, shared inboxes, signature formats and edits, and in any order
\* of deliveries and retries: who is not waiting for a delivery, was not given up
\* and not removed unseen, knows whether the status names them.
THEOREM DeliveriesTell == DeliverySpec => []DeliverySafe
<1>1. DeliveryInit => DeliveryInv
  <2> SUFFICES ASSUME DeliveryInit PROVE DeliveryInv
    OBVIOUS
  <2>1. 0 \in 0..MaxRevision
    BY DeliveryAssumption
  <2>2. status \in StatusRow /\ status.version = 0 /\ ~ status.alive
    BY <2>1 DEF DeliveryInit, StatusRow
  <2>3. seen \in [Peers -> Receipt] /\ \A p \in Peers : seen[p].version = 0 /\ ~ seen[p].named
    BY <2>1 DEF DeliveryInit, Receipt
  <2>4. groups = {} /\ singles = {} /\ fans \subseteq Peers /\ barred = {} /\ movedInbox = {} /\ missed = {} /\ unseen = {} /\ reads = {}
    BY DEF DeliveryInit
  <2> QED BY <2>2, <2>3, <2>4 DEF DeliveryInv, DeliveryTyped, WrongIsCorrected, Named
<1>2. ASSUME DeliveryInv, [StatusDeliveryNext \/ SingleDeliveryNext]_delivery_vars
      PROVE  DeliveryInv'
  <2> USE <1>2
  <2>1. fans \cup barred \cup movedInbox \cup missed \subseteq Peers /\ reads \subseteq SUBSET Peers /\ \A j \in singles : j.to \in Peers
    BY DEF DeliveryInv, DeliveryTyped
  <2>2. ASSUME NEW p \in Peers, Bar(p) \/ Unbar(p) \/ MoveInbox(p)
        PROVE  DeliveryInv'
    BY <2>1, <2>2, SameGroupsPreserve DEF Bar, Unbar, MoveInbox
  <2>3. ASSUME NEW p \in Peers, NEW j \in SingleJobs(p), EnqueueSingle(j)
        PROVE  DeliveryInv'
    <3>1. j.to = p
      <4>1. FollowJob(p).to = p /\ UnfollowJob(p).to = p /\ BlockJob(p).to = p /\ UnblockJob(p).to = p
        BY DEF SingleJob, FollowJob, UnfollowJob, BlockJob, UnblockJob
      <4>2. FlagJob(p).to = p /\ LikeJob(p).to = p /\ AnnounceJob(p).to = p /\ QuoteRequestJob(p).to = p
        BY DEF SingleJob, FlagJob, LikeJob, AnnounceJob, QuoteRequestJob
      <4>3. RevocationJob(p).to = p /\ VoteJob(p).to = p /\ ResponseJob(p).to = p
        BY DEF SingleJob, RevocationJob, VoteJob, ResponseJob
      <4> QED BY <4>1, <4>2, <4>3 DEF SingleJobs
    <3> QED BY <2>1, <2>3, <3>1, SameGroupsPreserve DEF EnqueueSingle
  <2>4. ASSUME NEW j \in singles, NEW answer, NEW sent, DeliverSingle(j, answer, sent)
        PROVE  DeliveryInv'
    <3>1. singles' \subseteq singles
      BY <2>4 DEF DeliverSingle
    <3> QED BY <2>1, <2>4, <3>1, SameGroupsPreserve DEF DeliverSingle
  <2>5. CASE UNCHANGED delivery_vars
    BY <2>1, <2>5, SameGroupsPreserve DEF delivery_vars
  <2>6. CASE StatusDeliveryNext
    <3>1. CASE ReadRecipients
      <4>1. reads' \subseteq SUBSET Peers
        BY <2>1, <3>1 DEF ReadRecipients, DeliveryInv, DeliveryTyped, StatusRow
      <4> QED BY <2>1, <3>1, <4>1, SameGroupsPreserve DEF ReadRecipients
    <3> QED BY <2>2, <2>6, <3>1, NewStatus, UpdateActorPreserves, DeliverPreserves DEF StatusDeliveryNext
  <2>7. CASE SingleDeliveryNext
    BY <2>2, <2>3, <2>4, <2>7 DEF SingleDeliveryNext
  <2> QED BY <2>5, <2>6, <2>7
<1>3. DeliveryInv => DeliverySafe
  <2> SUFFICES ASSUME DeliveryInv PROVE DeliverySafe
    OBVIOUS
  <2>1. DeliveryTypeOK
    BY DEF DeliveryInv, DeliveryTyped, StatusRow, GroupTyped, DeliveryTypeOK
  <2>2. RemovedAreTold
    BY DEF DeliveryInv, WrongIsCorrected, Corrected, Named, RemovedAreTold
  <2> QED BY <2>1, <2>2 DEF DeliverySafe
<1> QED BY <1>1, <1>2, <1>3, PTL DEF DeliverySpec
=============================================================================
