--------------------------- MODULE StreamingFanout ---------------------------
(***************************************************************************)
(* Streaming events between processes. publish sends an event to the       *)
(* process' own bus and queues it for one publication task, which inserts  *)
(* it into the streaming_event log and notifies. The sequence number is    *)
(* drawn by the INSERT and becomes visible with the COMMIT, so processes   *)
(* commit out of sequence order. Every server process listens, keeps a     *)
(* cursor into the log and copies foreign rows after it to its bus. The    *)
(* log is recovery metadata: rows expire, and processes restart under a    *)
(* new origin id.                                                          *)
(*                                                                         *)
(* Events are numbered in the order they are published.                    *)
(***************************************************************************)
EXTENDS Naturals, FiniteSets, Sequences

CONSTANTS
    Server,         \* processes of `roosty serve`
    Worker,         \* processes of `roosty worker`
    QueueCapacity,  \* of the publication channel (1024)
    MaxEvents,      \* bound: events published
    MaxFaults,      \* bound: failed queries, disconnects, expiries and exits
    MayFail         \* the faults of this instance

ASSUME FanoutAssumption ==
    /\ Server \cap Worker = {}
    /\ QueueCapacity \in Nat \ {0}
    /\ MaxEvents \in Nat /\ MaxFaults \in Nat
    /\ MayFail \subseteq {"publication", "recovery", "connection", "driver", "retention",
                   "exit"}

Process == Server \cup Worker
NoTx == [seq |-> 0, event |-> 0]

VARIABLES
    listener,   \* [phase, cursor, pending, behind, past] of every process
    queue,      \* events waiting for the publication task
    tx,         \* the uncommitted row of the publication task
    bus,        \* what went to the process' broadcast channel
    epoch,      \* origin_process_id is <<process, epoch>>
    log,        \* committed streaming_event rows
    sequence,   \* the identity column's last value
    history,    \* every row ever committed
    published,  \* events published
    failed,     \* events counted in publication_failures or lost with a process
    faults

vars == <<listener, queue, tx, bus, epoch, log, sequence, history, published,
          failed, faults>>

Row == [seq : Nat \ {0}, origin : Process \X Nat, event : Nat \ {0}, overtaken : BOOLEAN]
Entry == [seq : Nat, event : Nat \ {0}]
Down == [phase |-> "down", cursor |-> 0, pending |-> 0, behind |-> FALSE, past |-> {}]

TypeOK ==
    /\ listener \in [Process -> [phase : {"down", "listening", "ready", "lost", "relistening"},
                                 cursor : Nat, pending : Nat, behind : BOOLEAN,
                                 past : SUBSET Nat]]
    /\ queue \in [Process -> Seq(Nat \ {0})]
    /\ tx \in [Process -> [seq : Nat, event : Nat]]
    /\ bus \in [Process -> Seq(Entry)]
    /\ epoch \in [Process -> Nat]
    /\ log \subseteq history /\ history \in SUBSET Row
    /\ {sequence, published, faults} \subseteq Nat
    /\ failed \subseteq Nat

Init ==
    /\ listener = [p \in Process |-> Down]
    /\ queue = [p \in Process |-> << >>]
    /\ tx = [p \in Process |-> NoTx]
    /\ bus = [p \in Process |-> << >>]
    /\ epoch = [p \in Process |-> 0]
    /\ log = {} /\ history = {}
    /\ sequence = 0 /\ published = 0 /\ faults = 0
    /\ failed = {}
-----------------------------------------------------------------------------
Origin(p) == <<p, epoch[p]>>
Running(p) == IF p \in Worker THEN TRUE
              ELSE listener[p].phase \in {"ready", "lost", "relistening"}
Hears(l) == l.phase \in {"listening", "ready", "relistening"}
Newest(rows) == CHOOSE s \in {r.seq : r \in rows} : \A r \in rows : r.seq <= s
Latest == IF log = {} THEN 0 ELSE Newest(log)

Fault(kind) == kind \in MayFail /\ faults < MaxFaults /\ faults' = faults + 1

\* PostgreSQL hands a committed notification to every session that listens.
Notify == [p \in Process |->
              IF Hears(listener[p]) THEN [listener[p] EXCEPT !.pending = @ + 1]
              ELSE listener[p]]

\* publication_tx exists once initialize_listener has run, which worker() never does.
HasPublicationQueue(p) == p \in Server

Publish(p) ==
    /\ Running(p) /\ published < MaxEvents
    /\ published' = published + 1
    /\ bus' = [bus EXCEPT ![p] = Append(@, [seq |-> 0, event |-> published'])]
    /\ IF ~HasPublicationQueue(p) THEN UNCHANGED <<queue, failed>>
       ELSE IF Len(queue[p]) < QueueCapacity
       THEN queue' = [queue EXCEPT ![p] = Append(@, published')] /\ UNCHANGED failed
       ELSE failed' = failed \cup {published'} /\ UNCHANGED queue
    /\ UNCHANGED <<listener, tx, epoch, log, sequence, history, faults>>

\* The publication task takes the next event and inserts its row.
InsertStreamingEvent(p) ==
    /\ tx[p] = NoTx /\ queue[p] # << >>
    /\ queue' = [queue EXCEPT ![p] = Tail(@)]
    /\ sequence' = sequence + 1
    /\ tx' = [tx EXCEPT ![p] = [seq |-> sequence', event |-> Head(queue[p])]]
    /\ UNCHANGED <<listener, bus, epoch, log, history, published, failed, faults>>

\* The row and its notification become visible together.
CommitStreamingEvent(p) ==
    /\ tx[p] # NoTx
    /\ LET row == [seq |-> tx[p].seq, origin |-> Origin(p), event |-> tx[p].event,
                   overtaken |-> \E r \in history : r.seq > tx[p].seq]
       IN log' = log \cup {row} /\ history' = history \cup {row}
    /\ listener' = Notify
    /\ tx' = [tx EXCEPT ![p] = NoTx]
    /\ UNCHANGED <<queue, bus, epoch, sequence, published, failed, faults>>

\* The transaction fails: the event is counted and its sequence number is a gap.
PublicationFails(p) ==
    /\ tx[p] # NoTx /\ Fault("publication")
    /\ failed' = failed \cup {tx[p].event}
    /\ tx' = [tx EXCEPT ![p] = NoTx]
    /\ UNCHANGED <<listener, queue, bus, epoch, log, sequence, history, published>>
-----------------------------------------------------------------------------
\* initialize_listener: LISTEN first, the cursor second.
Listen(p) ==
    /\ p \in Server /\ listener[p].phase = "down"
    /\ listener' = [listener EXCEPT ![p] = [Down EXCEPT !.phase = "listening"]]
    /\ UNCHANGED <<queue, tx, bus, epoch, log, sequence, history, published, failed, faults>>

InitializeListener(p) ==
    /\ listener[p].phase = "listening"
    /\ listener' = [listener EXCEPT ![p].phase = "ready", ![p].cursor = Latest,
                                    ![p].past = {r.seq : r \in log}]
    /\ UNCHANGED <<queue, tx, bus, epoch, log, sequence, history, published, failed, faults>>

RowsAfter(cursor) == {r \in log : r.seq > cursor}

\* order_by_asc: the i-th row is the one with i rows up to it.
InOrder(rows) == [i \in 1..Cardinality(rows) |->
    CHOOSE r \in rows : Cardinality({s \in rows : s.seq <= r.seq}) = i]

\* mutant: the rows are delivered but the cursor stays where it was
Recovered_KeepsCursor(p) ==
    LET rows == RowsAfter(listener[p].cursor)
        foreign == InOrder({r \in rows : r.origin # Origin(p)})
    IN /\ bus' = [bus EXCEPT ![p] = @ \o [i \in DOMAIN foreign |->
                    [seq |-> foreign[i].seq, event |-> foreign[i].event]]]
       /\ listener' = [listener EXCEPT
            ![p].behind = FALSE,
            ![p].phase = "ready",
            ![p].pending = IF listener[p].phase = "ready" THEN @ - 1 ELSE @]

\* deliver_after: every row after the cursor moves it, foreign ones go to the bus.
Recovered(p) ==
    LET rows == RowsAfter(listener[p].cursor)
        foreign == InOrder({r \in rows : r.origin # Origin(p)})
    IN /\ bus' = [bus EXCEPT ![p] = @ \o [i \in DOMAIN foreign |->
                    [seq |-> foreign[i].seq, event |-> foreign[i].event]]]
       /\ listener' = [listener EXCEPT
            ![p].cursor = IF rows = {} THEN @ ELSE Newest(rows),
            ![p].behind = FALSE,
            ![p].phase = "ready",
            ![p].pending = IF listener[p].phase = "ready" THEN @ - 1 ELSE @]

\* mutant: the cursor moves to the newest row although the query failed
RecoveryFails_Skips(p) ==
    /\ Fault("recovery")
    /\ listener' = [listener EXCEPT
            ![p].behind = TRUE, ![p].phase = "ready", ![p].cursor = Latest,
            ![p].pending = IF listener[p].phase = "ready" THEN @ - 1 ELSE @]
    /\ UNCHANGED bus

\* A failed query is logged, and the loop goes back to waiting.
RecoveryFails(p) ==
    /\ Fault("recovery")
    /\ listener' = [listener EXCEPT
            ![p].behind = TRUE, ![p].phase = "ready",
            ![p].pending = IF listener[p].phase = "ready" THEN @ - 1 ELSE @]
    /\ UNCHANGED bus

DeliverAfter(p) ==
    /\ (Recovered(p) /\ UNCHANGED faults) \/ RecoveryFails(p)
    /\ UNCHANGED <<queue, tx, epoch, log, sequence, history, published, failed>>

ReceiveNotification(p) ==
    listener[p].phase = "ready" /\ listener[p].pending > 0 /\ DeliverAfter(p)

\* recv returns an error: notifications are lost until the next LISTEN.
Disconnect(p) ==
    /\ listener[p].phase = "ready" /\ Fault("connection")
    /\ listener' = [listener EXCEPT ![p].phase = "lost", ![p].pending = 0]
    /\ UNCHANGED <<queue, tx, bus, epoch, log, sequence, history, published, failed>>

\* A connection the server closes is replaced inside recv, which returns no error:
\* what was notified meanwhile is lost, and nothing tells the loop to recover.
DriverReconnects(p) ==
    /\ listener[p].phase = "ready" /\ Fault("driver")
    /\ \E heard \in 0..listener[p].pending :
          listener' = [listener EXCEPT ![p].pending = heard, ![p].behind = TRUE]
    /\ UNCHANGED <<queue, tx, bus, epoch, log, sequence, history, published, failed>>

Relisten(p) ==
    /\ listener[p].phase = "lost"
    /\ listener' = [listener EXCEPT ![p].phase = "relistening"]
    /\ UNCHANGED <<queue, tx, bus, epoch, log, sequence, history, published, failed, faults>>

\* mutant: the reconnected listener goes back to waiting without recovery
RecoverAfterReconnect_Waits(p) ==
    /\ listener[p].phase = "relistening"
    /\ listener' = [listener EXCEPT ![p].phase = "ready"]
    /\ UNCHANGED <<queue, tx, bus, epoch, log, sequence, history, published, failed, faults>>

RecoverAfterReconnect(p) == listener[p].phase = "relistening" /\ DeliverAfter(p)

\* cleanup_loop: rows older than the cutoff are deleted, delivered or not.
DeleteStreamingEventsBefore(p) ==
    /\ p \in Server /\ Running(p) /\ log # {} /\ Fault("retention")
    /\ \E cutoff \in {r.seq + 1 : r \in log} : log' = {r \in log : r.seq >= cutoff}
    /\ UNCHANGED <<listener, queue, tx, bus, epoch, sequence, history, published, failed>>

\* What only this process has: the queue, the row it is inserting, and everything
\* that a process without a queue has published.
Unshared(p) ==
    {queue[p][i] : i \in DOMAIN queue[p]} \cup ({tx[p].event} \ {0})
    \cup {bus[p][i].event : i \in {j \in DOMAIN bus[p] : ~HasPublicationQueue(p)}}

\* A crash or a shutdown: what was queued is gone, and the next start is a new origin.
Exit(p) ==
    /\ Running(p) /\ Fault("exit")
    /\ failed' = failed \cup Unshared(p)
    /\ queue' = [queue EXCEPT ![p] = << >>]
    /\ tx' = [tx EXCEPT ![p] = NoTx]
    /\ bus' = [bus EXCEPT ![p] = << >>]
    /\ epoch' = [epoch EXCEPT ![p] = @ + 1]
    /\ listener' = [listener EXCEPT ![p] = Down]
    /\ UNCHANGED <<log, sequence, history, published>>

Next == \E p \in Process :
    \/ Publish(p) \/ InsertStreamingEvent(p) \/ CommitStreamingEvent(p) \/ PublicationFails(p)
    \/ Listen(p) \/ InitializeListener(p) \/ ReceiveNotification(p)
    \/ Disconnect(p) \/ DriverReconnects(p) \/ Relisten(p) \/ RecoverAfterReconnect(p)
    \/ DeleteStreamingEventsBefore(p) \/ Exit(p)

Spec == Init /\ [][Next]_vars

-----------------------------------------------------------------------------
OnBus(p, e) == \E i \in DOMAIN bus[p] : bus[p][i].event = e
Started(p) == listener[p].phase \in {"ready", "lost", "relistening"}

\* A retained foreign row committed since p read its cursor.
Owed(p, r) == r \in log /\ r.origin # Origin(p) /\ r.seq \notin listener[p].past

\* The local send, the log and every recovery together put an event on a bus at
\* most once: deliver_after skips the process' own rows and never goes back.
AtMostOnce == \A p \in Process : \A i, j \in DOMAIN bus[p] :
    bus[p][i].event = bus[p][j].event => i = j

\* What one process published, every other process sees in that order: the queue
\* is first in first out, one task drains it, and deliver_after sorts.
OriginOrder == \A p \in Process : \A i, j \in DOMAIN bus[p] :
    i < j /\ bus[p][i].seq # 0 /\ bus[p][j].seq # 0 =>
        /\ bus[p][i].seq < bus[p][j].seq
        /\ \A r, s \in history : r.origin = s.origin /\ r.event = bus[p][i].event
                              /\ s.event = bus[p][j].event => r.event < s.event

\* A listener with no notification outstanding, no failed query and no silently
\* replaced connection behind it has read the log to its end, whatever happened while it started or was away.
NothingUnnoticed == \A p \in Server :
    listener[p].phase = "ready" /\ listener[p].pending = 0 /\ ~listener[p].behind =>
        \A r \in log : r.seq <= listener[p].cursor

\* The only retained rows a listener passes over without sending them are those
\* that committed after a row with a higher sequence number.
OnlyOvertakenRowsAreSkipped == \A p \in Server : Started(p) =>
    \A r \in log : Owed(p, r) /\ r.seq <= listener[p].cursor
        => OnBus(p, r.event) \/ r.overtaken

\* "commits racing with startup are either included in the cursor or queued as
\* notifications" (streaming.rs:149) and fan-out is "ordered, best-effort"
\* (development.adoc:75): with no fault at all, what was committed since the
\* cursor was read is on the bus once the notifications are worked off.
CommitsReachListeners == \A p \in Server :
    listener[p].phase = "ready" /\ listener[p].pending = 0 =>
        \A r \in log : Owed(p, r) => OnBus(p, r.event)

\* A published event waits in the queue, was committed to the log, or is counted in
\* publication_failures (or left with its process): publish loses none silently
\* but those of a worker, which has no queue and keeps them to itself.
AccountedFor == \A e \in 1..published :
    \/ e \in failed
    \/ \E p \in Process : e \in Unshared(p)
    \/ \E r \in history : r.event = e

\* A retained row that was not overtaken reaches every listener that owes it, or
\* expires, or the process exits: disconnects only delay it. A failed query
\* and a connection replaced inside the driver are excused: no timer repeats the query.
EventuallyDelivered == \A p \in Server : \A e \in 1..MaxEvents :
    LET Waiting == Started(p) /\ ~listener[p].behind /\ \E r \in log :
                      r.event = e /\ Owed(p, r) /\ ~r.overtaken /\ ~OnBus(p, e)
    IN Waiting ~> ~Waiting

\* The fan-out seen from the sockets of the processes.
Promise == INSTANCE OrderedBroadcast WITH
    sent <- published, life <- epoch,
    offered <- {[from |-> r.origin, event |-> r.event] : r \in history},
    heard <- [p \in Process |-> [i \in 1..Len(bus[p]) |-> bus[p][i].event]]

\* Queues, transactions, cursors, notifications and their loss are invisible to
\* them: publish, insert_streaming_event and deliver_after implement an ordered
\* broadcast that may lose events and neither repeats nor reorders them.
ImplementsBroadcast == Promise!Spec

\* The fan-out repeats nothing, keeps the order of an origin and loses nothing
\* that it does not count, across restarts, reconnects and failed queries.
FanoutSafe ==
    /\ TypeOK /\ AtMostOnce /\ OriginOrder
    /\ NothingUnnoticed /\ OnlyOvertakenRowsAreSkipped /\ AccountedFor
=============================================================================
