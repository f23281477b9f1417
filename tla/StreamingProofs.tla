--------------------------- MODULE StreamingProofs ---------------------------
(***************************************************************************)
(* Proofs about the streaming API: its sockets, for any number of them,    *)
(* any connection limit and any timer intervals with a ping interval below *)
(* the idle timeout; the routing of events, for any accounts, authors and  *)
(* neighbourhoods; and the fan-out between any servers and workers.        *)
(***************************************************************************)
EXTENDS StreamingSocket, StreamingRouting, StreamingFanout, FiniteSetTheorems,
        WellFoundedInduction, TLAPS

(* Sockets *)

SocketRecord == [st : {"closed", "upgrading", "open"}, client : {"live", "silent", "stuck"}, streams : SUBSET Stream,
                 next : Nat, ping : 0..PingInterval, idle : 0..IdleTimeout, due : BOOLEAN]

\* The full types
SocketsTyped ==
    /\ permits \in Nat /\ sent \in 0..Len(EventStreams) /\ connects \in Nat
    /\ sock \in [Socket -> SocketRecord]
    /\ \A s \in Socket : sock[s].st = "open" => sock[s].streams # {}
    /\ left \in [Socket -> {"none", "rejected", "handshake", "send", "idle", "client"} \X {"live", "silent", "stuck"}]

\* The idle timer of a client that answers runs no longer than its ping timer,
\* and no longer than one interval while an answer is due.
AnsweredInTime ==
    \A s \in Socket : sock[s].client = "live" =>
        IF sock[s].due THEN sock[s].idle <= PingInterval ELSE sock[s].idle <= sock[s].ping

\* A socket that is being opened is as new.
NewIsBlank == \A s \in Socket : sock[s].st # "open" => sock[s].client = "live"

Held == {s \in Socket : sock[s].st # "closed"}

SocketsInv == SocketsTyped /\ AnsweredInTime /\ NewIsBlank /\ PermitsConserved /\ LiveClientsStay

LEMMA Numbers ==
    /\ MaxConnections \in Nat /\ PingInterval \in Nat /\ IdleTimeout \in Nat /\ BroadcastCapacity \in Nat /\ MaxConnects \in Nat
    /\ PingInterval < IdleTimeout /\ 0 < PingInterval /\ 0 < BroadcastCapacity /\ 0 \in 0..PingInterval /\ 0 \in 0..IdleTimeout
BY SocketAssumption

LEMMA HeldIsFinite == IsFiniteSet(Held) /\ Cardinality(Held) \in Nat
<1>1. IsFiniteSet(Held)
  BY SocketAssumption, FS_Subset DEF Held
<1> QED BY <1>1, FS_CardinalityType

LEMMA ClosedIsTyped == Closed \in SocketRecord /\ Closed.st = "closed" /\ Closed.client = "live" /\ ~ Closed.due /\ Closed.idle = 0 /\ Closed.ping = 0
BY SocketAssumption DEF Closed, SocketRecord

\* However a socket ends, its permit comes back.
LEMMA ClosePreserves ==
    ASSUME SocketsInv, NEW s \in Socket, NEW why \in {"handshake", "send", "idle", "client"}, Close(s, why), sock[s].st # "closed",
           why = "idle" => sock[s].client # "live"
    PROVE  SocketsInv'
<1>1. sock' = [sock EXCEPT ![s] = Closed] /\ left' = [left EXCEPT ![s] = <<why, sock[s].client>>] /\ permits' = permits + 1
      /\ UNCHANGED <<sent, connects>>
  BY DEF Close
<1>2. sock \in [Socket -> SocketRecord] /\ sock[s].client \in {"live", "silent", "stuck"} /\ permits \in Nat
  BY DEF SocketsInv, SocketsTyped, SocketRecord
<1>3. sock' \in [Socket -> SocketRecord] /\ sock'[s] = Closed /\ \A t \in Socket \ {s} : sock'[t] = sock[t]
  BY <1>1, <1>2, ClosedIsTyped
<1>4. SocketsTyped'
  BY <1>1, <1>2, <1>3, ClosedIsTyped DEF SocketsInv, SocketsTyped
<1>5. AnsweredInTime' /\ NewIsBlank'
  BY <1>3, ClosedIsTyped DEF SocketsInv, AnsweredInTime, NewIsBlank
<1>6. PermitsConserved'
  <2>1. Held' = Held \ {s} /\ s \in Held
    BY <1>3, ClosedIsTyped DEF Held
  <2>2. Cardinality(Held') = Cardinality(Held) - 1
    BY <2>1, HeldIsFinite, FS_RemoveElement
  <2>3. permits + Cardinality(Held) = MaxConnections
    BY DEF SocketsInv, PermitsConserved, Held
  <2>4. permits' + Cardinality(Held') = MaxConnections
    BY <1>1, <1>2, <2>2, <2>3, HeldIsFinite
  <2> QED BY <2>4 DEF PermitsConserved, Held
<1>7. LiveClientsStay'
  BY <1>1, <1>2 DEF SocketsInv, SocketsTyped, LiveClientsStay
<1> QED BY <1>4, <1>5, <1>6, <1>7 DEF SocketsInv

\* A step of an open socket that leaves it open
LEMMA StaysOpenPreserves ==
    ASSUME SocketsInv, NEW s \in Socket, Open(s), NEW r \in SocketRecord, sock' = [sock EXCEPT ![s] = r],
           UNCHANGED <<permits, sent, left, connects>>,
           r.st = "open", r.streams # {},
           r.client = "live" => IF r.due THEN r.idle <= PingInterval ELSE r.idle <= r.ping
    PROVE  SocketsInv'
<1>1. sock' \in [Socket -> SocketRecord] /\ sock'[s] = r /\ \A t \in Socket \ {s} : sock'[t] = sock[t]
  BY DEF SocketsInv, SocketsTyped
<1>2. SocketsTyped'
  BY <1>1 DEF SocketsInv, SocketsTyped
<1>3. AnsweredInTime' /\ NewIsBlank'
  BY <1>1 DEF SocketsInv, AnsweredInTime, NewIsBlank
<1>4. Held' = Held
  BY <1>1 DEF Held, Open
<1>5. PermitsConserved'
  BY <1>4 DEF SocketsInv, PermitsConserved, Held
<1> QED BY <1>2, <1>3, <1>5 DEF SocketsInv, LiveClientsStay

LEMMA ConnectPreserves ==
    ASSUME SocketsInv, NEW s \in Socket, Connect(s)
    PROVE  SocketsInv'
<1> DEFINE r == [sock[s] EXCEPT !.st = "upgrading"]
<1>1. sock \in [Socket -> SocketRecord] /\ permits \in Nat /\ connects \in Nat /\ connects' = connects + 1 /\ sent' = sent /\ sock[s].st = "closed"
  BY DEF Connect, SocketsInv, SocketsTyped
<1>2. CASE permits = 0
  <2>1. left' = [left EXCEPT ![s] = <<"rejected", "live">>] /\ UNCHANGED <<permits, sock>>
    BY <1>2 DEF Connect
  <2>2. SocketsTyped' /\ LiveClientsStay'
    BY <1>1, <2>1 DEF SocketsInv, SocketsTyped, LiveClientsStay
  <2> QED BY <2>1, <2>2 DEF SocketsInv, AnsweredInTime, NewIsBlank, PermitsConserved
<1>3. CASE permits # 0
  <2>1. sock' = [sock EXCEPT ![s] = r] /\ permits' = permits - 1 /\ left' = left
    BY <1>1, <1>3 DEF Connect
  <2>2. r \in SocketRecord /\ r.st = "upgrading" /\ r.client = sock[s].client /\ r.due = sock[s].due /\ r.idle = sock[s].idle
        /\ r.ping = sock[s].ping
    BY <1>1 DEF SocketRecord
  <2> HIDE DEF r
  <2>3. sock' \in [Socket -> SocketRecord] /\ sock'[s] = r /\ \A t \in Socket \ {s} : sock'[t] = sock[t]
    BY <1>1, <2>1, <2>2
  <2>4. SocketsTyped'
    BY <1>1, <1>3, <2>1, <2>2, <2>3 DEF SocketsInv, SocketsTyped
  <2>5. AnsweredInTime' /\ NewIsBlank' /\ LiveClientsStay'
    BY <1>1, <2>1, <2>2, <2>3 DEF SocketsInv, AnsweredInTime, NewIsBlank, LiveClientsStay
  <2>6. Held' = Held \cup {s} /\ s \notin Held
    BY <1>1, <2>2, <2>3 DEF Held
  <2>7. Cardinality(Held') = Cardinality(Held) + 1
    BY <2>6, HeldIsFinite, FS_AddElement
  <2>8. PermitsConserved'
    BY <1>1, <1>3, <2>1, <2>7, HeldIsFinite DEF SocketsInv, PermitsConserved, Held
  <2> QED BY <2>4, <2>5, <2>8 DEF SocketsInv
<1> QED BY <1>2, <1>3

\* The time that passes for all sockets at once
LEMMA TickPreserves ==
    ASSUME SocketsInv, Tick
    PROVE  SocketsInv'
<1>1. sock \in [Socket -> SocketRecord] /\ UNCHANGED <<permits, sent, left, connects>>
  BY DEF Tick, SocketsInv, SocketsTyped
<1>2. ASSUME NEW s \in Socket
      PROVE  /\ sock'[s] \in SocketRecord /\ sock'[s].st = sock[s].st /\ sock'[s].client = sock[s].client /\ sock'[s].streams = sock[s].streams
             /\ sock'[s].due = sock[s].due
             /\ sock[s].client = "live" => IF sock'[s].due THEN sock'[s].idle <= PingInterval ELSE sock'[s].idle <= sock'[s].ping
  <2>1. CASE ~ Open(s)
    BY <1>1, <2>1 DEF Tick, SocketsInv, AnsweredInTime
  <2>2. CASE Open(s)
    <3> DEFINE o == sock[s]
               r == [o EXCEPT !.ping = @ + 1, !.idle = @ + 1]
    <3>1. sock'[s] = r /\ o.ping < PingInterval /\ o.idle < IdleTimeout /\ ~ (o.due /\ o.client = "live")
      BY <2>2 DEF Tick
    <3>2. o \in SocketRecord /\ (o.client = "live" => IF o.due THEN o.idle <= PingInterval ELSE o.idle <= o.ping)
      BY <1>1 DEF SocketsInv, AnsweredInTime
    <3>3. /\ r.st = o.st /\ r.client = o.client /\ r.streams = o.streams /\ r.due = o.due /\ r.next = o.next
          /\ r.ping = o.ping + 1 /\ r.idle = o.idle + 1
      BY <3>2 DEF SocketRecord
    <3>4. o.ping \in Nat /\ o.idle \in Nat /\ o.due \in BOOLEAN /\ o.ping + 1 \in 0..PingInterval /\ o.idle + 1 \in 0..IdleTimeout
      BY <3>1, <3>2, Numbers DEF SocketRecord
    <3>5. r \in SocketRecord
      BY <3>2, <3>4 DEF SocketRecord
    <3>6. o.client = "live" => ~ o.due /\ o.idle <= o.ping
      BY <3>1, <3>2, <3>4
    <3> HIDE DEF o, r
    <3>7. r.client = "live" => ~ r.due /\ r.idle <= r.ping
      BY <3>3, <3>4, <3>6
    <3> QED BY <3>1, <3>3, <3>5, <3>7 DEF o
  <2> QED BY <2>1, <2>2
<1>3. sock' \in [Socket -> SocketRecord]
  <2>1. sock' = [s \in Socket |-> sock'[s]]
    BY DEF Tick
  <2> QED BY <1>2, <2>1
<1>4. SocketsTyped' /\ AnsweredInTime' /\ NewIsBlank'
  BY <1>1, <1>2, <1>3 DEF SocketsInv, SocketsTyped, AnsweredInTime, NewIsBlank
<1>5. Held' = Held
  BY <1>2 DEF Held
<1> QED BY <1>1, <1>4, <1>5 DEF SocketsInv, PermitsConserved, LiveClientsStay, Held

\* The steps of one open socket
LEMMA OpenPreserves ==
    ASSUME SocketsInv, NEW s \in Socket,
           \/ ReceiveEvent(s) \/ Control(s) \/ SendPing(s) \/ Pong(s) \/ IdleTimerFires(s) \/ ClientCloses(s) \/ ClientStops(s)
    PROVE  SocketsInv'
<1> DEFINE o == sock[s]
<1>1. /\ o \in SocketRecord /\ o.st = "open" /\ o.streams # {} /\ Open(s) /\ sent \in Nat /\ sock = [t \in Socket |-> sock[t]]
      /\ o.client = "live" => IF o.due THEN o.idle <= PingInterval ELSE o.idle <= o.ping
  BY SocketAssumption DEF SocketsInv, SocketsTyped, AnsweredInTime, ReceiveEvent, Control, SendPing, Pong, IdleTimerFires,
     ClientCloses, ClientStops, Open
<1>2. ASSUME NEW why \in {"handshake", "send", "idle", "client"}, Close(s, why), why = "idle" => o.client # "live"
      PROVE  SocketsInv'
  BY <1>1, <1>2, ClosePreserves
<1>3. CASE ReceiveEvent(s)
  <2>1. CASE Close(s, "send")
    BY <1>2, <2>1
  <2>2. CASE ~ Close(s, "send")
    <3> DEFINE n == IF sent - o.next >= BroadcastCapacity THEN sent - BroadcastCapacity + 1 ELSE o.next + 1
               r == [o EXCEPT !.next = n]
    <3>1. sock' = [sock EXCEPT ![s] = r] /\ UNCHANGED <<permits, sent, left, connects>>
      BY <1>1, <1>3, <2>2 DEF ReceiveEvent
    <3>2. o.next \in Nat /\ o.next <= sent
      BY <1>1, <1>3 DEF ReceiveEvent, SocketRecord
    <3>3. n \in Nat
      BY <1>1, <3>2, Numbers
    <3> HIDE DEF n
    <3>4. r \in SocketRecord /\ r.st = "open" /\ r.streams # {} /\ r.client = o.client /\ r.due = o.due /\ r.idle = o.idle /\ r.ping = o.ping
      BY <1>1, <3>3 DEF SocketRecord
    <3> HIDE DEF r
    <3> QED BY <1>1, <3>1, <3>4, StaysOpenPreserves
  <2> QED BY <2>1, <2>2
<1>4. CASE Control(s)
  <2>1. PICK action \in {"subscribe", "unsubscribe"}, stream \in Stream :
            sock' = [sock EXCEPT ![s].idle = 0, ![s].streams = update_stream_subscription(action, stream, @)]
    BY <1>4 DEF Control
  <2> DEFINE u == update_stream_subscription(action, stream, o.streams)
             r == [o EXCEPT !.idle = 0, !.streams = u]
  <2>2. u \subseteq Stream /\ u # {}
    BY <1>1, SocketAssumption DEF update_stream_subscription, SocketRecord
  <2>3. sock' = [sock EXCEPT ![s] = r]
    BY <1>1, <2>1
  <2>4. UNCHANGED <<permits, sent, left, connects>>
    BY <1>4 DEF Control
  <2> HIDE DEF u
  <2>5. r \in SocketRecord
    BY <1>1, <2>2, Numbers DEF SocketRecord
  <2>6. r.st = "open" /\ r.streams # {} /\ r.idle = 0 /\ r.ping = o.ping /\ r.due = o.due
    BY <1>1, <2>2 DEF SocketRecord
  <2>7. 0 <= o.ping
    BY <1>1, Numbers DEF SocketRecord
  <2>8. r.client = "live" => IF r.due THEN r.idle <= PingInterval ELSE r.idle <= r.ping
    BY <2>6, <2>7, Numbers
  <2> HIDE DEF r
  <2> QED BY <1>1, <2>3, <2>4, <2>5, <2>6, <2>8, StaysOpenPreserves
<1>5. CASE SendPing(s)
  <2>1. CASE o.client = "stuck"
    BY <1>2, <1>5, <2>1 DEF SendPing
  <2>2. CASE o.client # "stuck"
    <3> DEFINE r == [o EXCEPT !.ping = 0, !.due = TRUE]
    <3>1. sock' = [sock EXCEPT ![s] = r] /\ UNCHANGED <<permits, sent, left, connects>> /\ o.ping = PingInterval
      BY <1>1, <1>5, <2>2 DEF SendPing
    <3>2. r \in SocketRecord /\ r.st = "open" /\ r.streams # {} /\ r.due /\ (r.client = "live" => r.idle <= PingInterval)
      BY <1>1, <3>1, Numbers DEF SocketRecord
    <3> HIDE DEF r
    <3> QED BY <1>1, <3>1, <3>2, StaysOpenPreserves
  <2> QED BY <2>1, <2>2
<1>6. CASE Pong(s)
  <2> DEFINE r == [o EXCEPT !.due = FALSE, !.idle = 0]
  <2>1. sock' = [sock EXCEPT ![s] = r] /\ UNCHANGED <<permits, sent, left, connects>>
    BY <1>1, <1>6 DEF Pong
  <2>2. r \in SocketRecord
    BY <1>1, Numbers DEF SocketRecord
  <2>3. r.st = "open" /\ r.streams # {} /\ r.due = FALSE /\ r.idle = 0 /\ r.ping = o.ping
    BY <1>1 DEF SocketRecord
  <2>4. 0 <= o.ping
    BY <1>1, Numbers DEF SocketRecord
  <2> HIDE DEF r
  <2> QED BY <1>1, <2>1, <2>2, <2>3, <2>4, StaysOpenPreserves
<1>7. CASE IdleTimerFires(s)
  <2>1. o.idle = IdleTimeout /\ Close(s, "idle")
    BY <1>7 DEF IdleTimerFires
  <2>2. o.idle \in Nat /\ o.ping \in 0..PingInterval
    BY <1>1, Numbers DEF SocketRecord
  <2>3. o.client # "live"
    BY <1>1, <2>1, <2>2, Numbers
  <2> QED BY <1>2, <2>1, <2>3
<1>8. CASE ClientCloses(s)
  BY <1>2, <1>8 DEF ClientCloses
<1>9. CASE ClientStops(s)
  <2>1. PICK client \in {"silent", "stuck"} : sock' = [sock EXCEPT ![s] = [o EXCEPT !.client = client]]
    BY <1>1, <1>9 DEF ClientStops
  <2> DEFINE r == [o EXCEPT !.client = client]
  <2>2. r \in SocketRecord /\ r.st = "open" /\ r.streams # {} /\ r.client # "live"
    BY <1>1 DEF SocketRecord
  <2>3. sock' = [sock EXCEPT ![s] = r] /\ UNCHANGED <<permits, sent, left, connects>>
    BY <1>9, <2>1 DEF ClientStops
  <2> HIDE DEF r
  <2> QED BY <1>1, <2>2, <2>3, StaysOpenPreserves
<1> QED BY <1>3, <1>4, <1>5, <1>6, <1>7, <1>8, <1>9

LEMMA UpgradedPreserves ==
    ASSUME SocketsInv, NEW s \in Socket, Upgraded(s)
    PROVE  SocketsInv'
<1>1. PICK stream \in Stream : sock' = [sock EXCEPT ![s] = [Closed EXCEPT !.st = "open", !.streams = {stream}, !.next = sent + 1]]
  BY DEF Upgraded
<1> DEFINE r == [Closed EXCEPT !.st = "open", !.streams = {stream}, !.next = sent + 1]
<1>2. sock \in [Socket -> SocketRecord] /\ sent \in Nat /\ UNCHANGED <<permits, sent, left, connects>> /\ sock[s].st = "upgrading"
  BY SocketAssumption DEF SocketsInv, SocketsTyped, Upgraded
<1>3. r \in SocketRecord /\ r.st = "open" /\ r.streams # {} /\ ~ r.due /\ r.idle <= r.ping
  <2>1. Closed \in SocketRecord /\ sent + 1 \in Nat /\ {stream} \in SUBSET Stream
    BY <1>2, ClosedIsTyped
  <2>2. r \in SocketRecord /\ r.st = "open" /\ r.streams = {stream} /\ r.due = Closed.due /\ r.idle = Closed.idle /\ r.ping = Closed.ping
    BY <2>1 DEF SocketRecord
  <2> HIDE DEF r
  <2> QED BY <2>2, ClosedIsTyped
<1>4. sock' \in [Socket -> SocketRecord] /\ sock'[s] = r /\ \A t \in Socket \ {s} : sock'[t] = sock[t]
  BY <1>1, <1>2, <1>3
<1> HIDE DEF r
<1>5. SocketsTyped' /\ AnsweredInTime' /\ NewIsBlank'
  BY <1>2, <1>3, <1>4 DEF SocketsInv, SocketsTyped, AnsweredInTime, NewIsBlank
<1>6. Held' = Held
  BY <1>2, <1>3, <1>4 DEF Held
<1> QED BY <1>2, <1>5, <1>6 DEF SocketsInv, PermitsConserved, LiveClientsStay, Held

\* Whatever ends a socket (a failed handshake, a close frame, a send deadline or
\* the idle timer) returns its permit, and the idle timer never ends the socket
\* of a client that answers pings.
THEOREM SocketsAreSafe == SocketSpec => []SocketsSafe
<1>1. SocketInit => SocketsInv
  <2> SUFFICES ASSUME SocketInit PROVE SocketsInv
    OBVIOUS
  <2>1. sock \in [Socket -> SocketRecord] /\ \A s \in Socket : sock[s] = Closed
    BY ClosedIsTyped DEF SocketInit
  <2>2. SocketsTyped /\ AnsweredInTime /\ NewIsBlank /\ LiveClientsStay
    BY <2>1, ClosedIsTyped, SocketAssumption DEF SocketInit, SocketsTyped, AnsweredInTime, NewIsBlank, LiveClientsStay
  <2>3. Held = {}
    BY <2>1, ClosedIsTyped DEF Held
  <2>4. PermitsConserved
    BY <2>3, FS_EmptySet, Numbers DEF SocketInit, PermitsConserved, Held
  <2> QED BY <2>2, <2>4 DEF SocketsInv
<1>2. ASSUME SocketsInv, [SocketNext]_socket_vars
      PROVE  SocketsInv'
  <2> USE <1>2
  <2>1. CASE Broadcast
    <3>1. sent' = sent + 1 /\ sent < Len(EventStreams) /\ UNCHANGED <<permits, sock, left, connects>>
      BY <2>1 DEF Broadcast
    <3>2. SocketsTyped'
      BY <3>1, SocketAssumption DEF SocketsInv, SocketsTyped
    <3> QED BY <3>1, <3>2 DEF SocketsInv, AnsweredInTime, NewIsBlank, PermitsConserved, LiveClientsStay
  <2>2. CASE Tick
    BY <2>2, TickPreserves
  <2>3. ASSUME NEW s \in Socket, UpgradeFails(s)
        PROVE  SocketsInv'
    BY <2>3, ClosePreserves DEF UpgradeFails
  <2>4. CASE UNCHANGED socket_vars
    BY <2>4 DEF socket_vars, SocketsInv, SocketsTyped, AnsweredInTime, NewIsBlank, PermitsConserved, LiveClientsStay
  <2> QED BY <2>1, <2>2, <2>3, <2>4, ConnectPreserves, UpgradedPreserves, OpenPreserves DEF SocketNext
<1>3. SocketsInv => SocketsSafe
  <2> SUFFICES ASSUME SocketsInv PROVE SocketsSafe
    OBVIOUS
  <2>1. permits \in 0..MaxConnections
    BY HeldIsFinite, SocketAssumption DEF SocketsInv, SocketsTyped, PermitsConserved, Held
  <2>2. SocketTypeOK
    BY <2>1 DEF SocketsInv, SocketsTyped, SocketTypeOK, SocketRecord
  <2> QED BY <2>2 DEF SocketsInv, SocketsSafe
<1>4. SocketsInv /\ [SocketNext]_socket_vars => SocketsInv'
  BY <1>2
<1> QED
  BY <1>1, <1>3, <1>4, PTL DEF SocketSpec
-----------------------------------------------------------------------------
(* Routing *)

\* A handler that has run published what it publishes for this entry.
RoutingInv ==
    /\ entry \in Entries /\ near \in Neighbourhoods /\ stage \in {"new", "shown", "removed", "withdrawn"}
    /\ IF stage = "new" THEN shown = {} ELSE shown \in Shows(entry, near)
    /\ stage \in {"new", "shown"} => removal = {}
    /\ stage = "removed" => removal \in Removals(entry, near)
    /\ stage = "withdrawn" => removal = BoostedRemoteDeleted(entry) /\ entry.kind = "boost_of_remote"

\* Who an event reaches on its home stream
Told(m) == {m.account} \cup m.users \cup m.mentions

\* The fields of an entry and of its neighbourhood
EntryFields(e) ==
    /\ e.author \in Author /\ e.media \in BOOLEAN /\ e.reply \in BOOLEAN /\ e.visibility \in Visibilities
    /\ IF e.author = Remote THEN e.kind \in {"remote_status", "remote_boost"}
                            ELSE e.kind \in {"local_status", "boost_of_local", "boost_of_remote"}

LEMMA EntriesHaveFields == \A e \in Entries : EntryFields(e)
BY DEF Entries, KindsOf, EntryFields

LEMMA NeighboursAreLocal ==
    \A n \in Neighbourhoods :
        /\ n.followers \cup n.hides \cup n.blocks \cup n.tagged \cup n.mentioned \subseteq Account \ Author
        /\ n.boosted \subseteq n.followers /\ n.blocks \subseteq n.hides
BY DEF Neighbourhoods

LEMMA MessageFields ==
    ASSUME NEW event, NEW account, NEW users, NEW mentions, NEW visibility, NEW origin, NEW media
    PROVE  LET m == Message(event, account, users, mentions, visibility, origin, media) IN
             /\ m.event = event /\ m.account = account /\ m.users = users /\ m.mentions = mentions
             /\ m.visibility = visibility /\ m.origin = origin /\ m.media = media
BY DEF Message

\* is_visible_to_stream, stream by stream
LEMMA HomeStream == ASSUME NEW m, NEW me PROVE is_visible_to_stream(m, me, "user") <=> me \in Told(m)
BY DEF is_visible_to_stream, Told

LEMMA PublicStream ==
    ASSUME NEW m, NEW me, NEW stream \in PublicStreams, is_visible_to_stream(m, me, stream)
    PROVE  /\ m.visibility = "public"
           /\ \A d : d.visibility = "public" /\ d.origin = m.origin /\ d.media = m.media => is_visible_to_stream(d, me, stream)
BY DEF is_visible_to_stream, PublicStreams

LEMMA DirectStream == ASSUME NEW m, NEW me PROVE ~ is_visible_to_stream(m, me, "direct")
BY DEF is_visible_to_stream

\* A removal that is as public, and tells whom the entry was shown to, reaches
\* every stream that shows it.
LEMMA CoveredIsUndone ==
    ASSUME NEW S, NEW R,
           \A m \in S : m.visibility = "public" => \E d \in R : d.visibility = "public" /\ d.origin = m.origin /\ d.media = m.media,
           \A m \in S : \A me \in Told(m) \cap Account : \E d \in R : me \in Told(d)
    PROVE  \A me \in Account : Reached(S, me) \ {"user:notification"} \subseteq Reached(R, me)
<1> SUFFICES ASSUME NEW me \in Account, NEW stream \in Reached(S, me), stream # "user:notification"
             PROVE  stream \in Reached(R, me)
  OBVIOUS
<1>1. PICK m \in S : is_visible_to_stream(m, me, stream)
  BY DEF Reached
<1>2. stream \in Streams
  BY DEF Reached
<1>3. CASE stream = "user"
  BY <1>1, <1>2, <1>3, HomeStream DEF Reached
<1>4. CASE stream \in PublicStreams
  BY <1>1, <1>2, <1>4, PublicStream DEF Reached
<1>5. CASE stream = "direct"
  BY <1>1, <1>5, DirectStream
<1> QED BY <1>2, <1>3, <1>4, <1>5 DEF Streams

\* What shows an entry, kind by kind
LEMMA ShowsByKind ==
    ASSUME NEW e, EntryFields(e), NEW n, NEW S \in Shows(e, n)
    PROVE  \/ e.kind = "local_status"  /\ S \in {CreateStatus(e, n), UpdateStatus(e, n)}
           \/ e.kind = "remote_status" /\ S \in {RemoteUpdate(e, n, "update"), RemoteUpdate(e, n, "status.update")}
           \/ e.kind = "remote_boost"  /\ S = Announce(e, n)
           \/ e.kind \in {"boost_of_local", "boost_of_remote"} /\ S = Reblog(e, n)
BY DEF EntryFields, Shows

LEMMA RemovalsByKind ==
    ASSUME NEW e, EntryFields(e), NEW n, NEW R \in Removals(e, n)
    PROVE  \/ e.kind = "local_status"    /\ R = PublishStatusDelete(e, n)
           \/ e.kind = "remote_status"   /\ R = RemoteDelete(e, n)
           \/ e.kind = "remote_boost"    /\ R \in {UndoAnnounce(e, n), AnnouncedDeleted(e, n)}
           \/ e.kind = "boost_of_local"  /\ R \in {Unreblog(e, n), BoostedLocalDeleted(e, n)}
           \/ e.kind = "boost_of_remote" /\ R = Unreblog(e, n)
BY DEF EntryFields, Removals

\* Every removal covers what was shown.
LEMMA RemovalsCover ==
    ASSUME NEW e, EntryFields(e), NEW n \in Neighbourhoods, NEW S \in Shows(e, n), NEW R \in Removals(e, n)
    PROVE  /\ \A m \in S : m.visibility = "public" => \E d \in R : d.visibility = "public" /\ d.origin = m.origin /\ d.media = m.media
           /\ \A m \in S : \A me \in Told(m) \cap Account : \E d \in R : me \in Told(d)
<1>1. CASE e.kind = "local_status"
  <2> DEFINE d == Message("delete", e.author, LocalRecipients(e, n) \cup n.mentioned, {}, StreamVisibility(e), "local", e.media)
  <2>1. d \in R
    BY <1>1, RemovalsByKind DEF PublishStatusDelete
  <2>2. /\ d.account = e.author /\ d.users = LocalRecipients(e, n) \cup n.mentioned
        /\ d.visibility = StreamVisibility(e) /\ d.origin = "local" /\ d.media = e.media
    BY MessageFields
  <2>3. ASSUME NEW m \in S
        PROVE  /\ m.account = e.author /\ m.users = LocalRecipients(e, n) /\ m.mentions \subseteq n.mentioned
               /\ m.visibility = StreamVisibility(e) /\ m.origin = "local" /\ m.media = e.media
    BY <1>1, <2>3, ShowsByKind DEF CreateStatus, UpdateStatus, Message
  <2> HIDE DEF d
  <2> QED BY <2>1, <2>2, <2>3 DEF Told
<1>2. CASE e.kind = "remote_status"
  <2> DEFINE home == RemoteFollowers(n) \cup Tagged(e, n) \cup n.mentioned
  <2>1. e.author \notin Account
    BY <1>2, RoutingAssumption DEF EntryFields
  <2>2. ASSUME NEW m \in S
        PROVE  /\ m.account = e.author /\ m.users = RemoteRecipients(e, n) /\ m.mentions \subseteq n.mentioned
               /\ m.visibility = StreamVisibility(e) /\ m.origin = "remote" /\ m.media = e.media
    BY <1>2, <2>2, ShowsByKind DEF RemoteUpdate, Message
  <2>3. R = RemoteDelete(e, n)
    BY <1>2, RemovalsByKind
  <2>4. CASE e.visibility = "direct"
    <3>1. RemoteRecipients(e, n) \subseteq n.mentioned /\ StreamVisibility(e) # "public" /\ Explicit(e, n) = n.mentioned
      BY <2>4 DEF RemoteRecipients, Visible, Tagged, Explicit, StreamVisibility
    <3> DEFINE d == Message("delete", e.author, n.mentioned, {}, "direct", "local", FALSE)
    <3>2. n.mentioned # {} => d \in R
      BY <2>3, <2>4, <3>1 DEF RemoteDelete
    <3>3. d.users = n.mentioned
      BY DEF Message
    <3> HIDE DEF d
    <3> QED BY <2>1, <2>2, <3>1, <3>2, <3>3 DEF Told
  <2>5. CASE e.visibility # "direct"
    <3>1. RemoteRecipients(e, n) \subseteq home
      BY <2>5 DEF RemoteRecipients, Visible, Explicit
    <3> DEFINE d == Message("delete", e.author, home, {}, StreamVisibility(e), "remote", e.media)
    <3>2. StreamVisibility(e) = "public" \/ home # {} => d \in R
      BY <2>3, <2>5 DEF RemoteDelete
    <3>3. n.mentioned \subseteq home
      OBVIOUS
    <3> HIDE DEF home
    <3>4. d.users = home /\ d.visibility = StreamVisibility(e) /\ d.origin = "remote" /\ d.media = e.media
      BY MessageFields
    <3> HIDE DEF d
    <3> QED BY <2>1, <2>2, <3>1, <3>2, <3>3, <3>4 DEF Told
  <2> QED BY <2>4, <2>5
<1>3. CASE e.kind = "remote_boost"
  <2>1. e.author \notin Account
    BY <1>3, RoutingAssumption DEF EntryFields
  <2>2. ASSUME NEW m \in S
        PROVE  m.account = e.author /\ m.users = RemoteBoostRecipients(n) /\ m.mentions = {} /\ m.visibility = "unlisted"
    BY <1>3, <2>2, ShowsByKind DEF Announce, Message
  <2>3. RemoteBoostRecipients(n) \subseteq RemoteFollowers(n)
    BY NeighboursAreLocal DEF RemoteBoostRecipients, RemoteFollowers, Visible
  <2>4. RemoteBoostRecipients(n) # {} => \E d \in R : RemoteBoostRecipients(n) \subseteq Told(d)
    <3>1. CASE R = UndoAnnounce(e, n)
      <4> DEFINE d == Message("delete", e.author, RemoteBoostRecipients(n), {}, "unlisted", "local", FALSE)
      <4>1. d \in R
        BY <3>1 DEF UndoAnnounce
      <4>2. d.users = RemoteBoostRecipients(n)
        BY DEF Message
      <4> HIDE DEF d
      <4> QED BY <4>1, <4>2 DEF Told
    <3>2. CASE R = AnnouncedDeleted(e, n)
      <4> DEFINE d == Message("delete", e.author, RemoteFollowers(n), {}, "direct", "remote", FALSE)
      <4>1. RemoteFollowers(n) # {} => d \in R
        BY <3>2 DEF AnnouncedDeleted
      <4>2. d.users = RemoteFollowers(n)
        BY DEF Message
      <4> HIDE DEF d
      <4> QED BY <2>3, <4>1, <4>2 DEF Told
    <3> QED BY <1>3, <3>1, <3>2, RemovalsByKind
  <2> QED BY <2>1, <2>2, <2>4 DEF Told
<1>4. CASE e.kind \in {"boost_of_local", "boost_of_remote"}
  <2>1. ASSUME NEW m \in S
        PROVE  m.account = e.author /\ m.users = LocalBoostRecipients(n) /\ m.mentions = {} /\ m.visibility = "unlisted"
    BY <1>4, <2>1, ShowsByKind DEF Reblog, Message
  <2>2. R # {}
    <3>1. Unreblog(e, n) # {} /\ BoostedLocalDeleted(e, n) # {}
      BY DEF Unreblog, BoostedLocalDeleted
    <3> QED BY <1>4, <3>1, RemovalsByKind
  <2>3. ASSUME NEW d \in R
        PROVE  d.account = e.author /\ d.users = LocalBoostRecipients(n)
    BY <1>4, <2>3, RemovalsByKind DEF Unreblog, BoostedLocalDeleted, Message
  <2> QED BY <2>1, <2>2, <2>3 DEF Told
<1> QED BY <1>1, <1>2, <1>3, <1>4, ShowsByKind

\* Whom an entry that is not public is shown to, or removed from
LEMMA LimitedIsAddressed ==
    ASSUME NEW e, EntryFields(e), NEW n \in Neighbourhoods, NEW M,
           M \in Shows(e, n) \/ M \in Removals(e, n) \/ M = BoostedRemoteDeleted(e),
           e.kind \notin {"local_status", "remote_status"} \/ e.reply \/ e.visibility # "public",
           NEW m \in M
    PROVE  m.visibility # "public" /\ Told(m) \subseteq {e.author} \cup n.followers \cup n.tagged \cup n.mentioned
<1> DEFINE addressed == {e.author} \cup n.followers \cup n.tagged \cup n.mentioned
<1>1. e.kind \in {"local_status", "remote_status"} => StreamVisibility(e) # "public"
  BY DEF StreamVisibility
<1>2. /\ LocalRecipients(e, n) \subseteq addressed /\ RemoteRecipients(e, n) \subseteq addressed
      /\ RemoteFollowers(n) \subseteq addressed /\ Tagged(e, n) \subseteq addressed /\ Explicit(e, n) \subseteq addressed
      /\ LocalBoostRecipients(n) \subseteq addressed /\ RemoteBoostRecipients(n) \subseteq addressed
  BY NeighboursAreLocal DEF LocalRecipients, RemoteRecipients, RemoteFollowers, Tagged, Explicit, LocalBoostRecipients,
     RemoteBoostRecipients, Visible
<1>3. n.mentioned \subseteq addressed /\ e.author \in addressed
  OBVIOUS
<1> HIDE DEF addressed
<1>4. CASE M \in Shows(e, n)
  <2>1. CASE e.kind = "local_status"
    <3>1. m.account = e.author /\ m.users = LocalRecipients(e, n) /\ m.mentions \subseteq n.mentioned /\ m.visibility = StreamVisibility(e)
      BY <1>4, <2>1, ShowsByKind DEF CreateStatus, UpdateStatus, Message
    <3> QED BY <1>1, <1>2, <1>3, <2>1, <3>1 DEF Told, addressed
  <2>2. CASE e.kind = "remote_status"
    <3>1. m.account = e.author /\ m.users = RemoteRecipients(e, n) /\ m.mentions \subseteq n.mentioned /\ m.visibility = StreamVisibility(e)
      BY <1>4, <2>2, ShowsByKind DEF RemoteUpdate, Message
    <3> QED BY <1>1, <1>2, <1>3, <2>2, <3>1 DEF Told, addressed
  <2>3. CASE e.kind \notin {"local_status", "remote_status"}
    <3>1. /\ m.account = e.author /\ m.users \in {RemoteBoostRecipients(n), LocalBoostRecipients(n)}
          /\ m.mentions = {} /\ m.visibility = "unlisted"
      BY <1>4, <2>3, ShowsByKind DEF Announce, Reblog, Message
    <3> QED BY <1>2, <1>3, <3>1 DEF Told, addressed
  <2> QED BY <2>1, <2>2, <2>3
<1>5. CASE M \in Removals(e, n)
  <2>1. CASE e.kind = "local_status"
    <3>1. m.account = e.author /\ m.users = LocalRecipients(e, n) \cup n.mentioned /\ m.mentions = {} /\ m.visibility = StreamVisibility(e)
      BY <1>5, <2>1, RemovalsByKind DEF PublishStatusDelete, Message
    <3> QED BY <1>1, <1>2, <1>3, <2>1, <3>1 DEF Told, addressed
  <2>2. CASE e.kind = "remote_status"
    <3>1. /\ m.account = e.author /\ m.mentions = {} /\ m.visibility \in {StreamVisibility(e), "direct"}
          /\ m.users \subseteq RemoteFollowers(n) \cup Tagged(e, n) \cup n.mentioned \cup Explicit(e, n)
      BY <1>5, <2>2, RemovalsByKind DEF RemoteDelete, Message
    <3> QED BY <1>1, <1>2, <1>3, <2>2, <3>1 DEF Told, addressed
  <2>3. CASE e.kind \notin {"local_status", "remote_status"}
    <3>1. /\ m.account = e.author /\ m.users \in {RemoteBoostRecipients(n), LocalBoostRecipients(n), RemoteFollowers(n)}
          /\ m.mentions = {} /\ m.visibility \in {"unlisted", "direct"}
      BY <1>5, <2>3, RemovalsByKind DEF UndoAnnounce, AnnouncedDeleted, Unreblog, BoostedLocalDeleted, Message
    <3> QED BY <1>2, <1>3, <3>1 DEF Told, addressed
  <2> QED BY <2>1, <2>2, <2>3
<1>6. CASE M = BoostedRemoteDeleted(e)
  <2>1. m.account = e.author /\ m.users = {e.author} /\ m.mentions = {} /\ m.visibility = "direct"
    BY <1>6 DEF BoostedRemoteDeleted, Message
  <2> QED BY <1>3, <2>1 DEF Told, addressed
<1> QED BY <1>4, <1>5, <1>6

\* A new entry is not pushed to those who mute or block its author.
LEMMA HiddenIsNotTold ==
    ASSUME NEW e, EntryFields(e), NEW n \in Neighbourhoods, NEW S \in Shows(e, n), NEW m \in S, m.event = "update", NEW me \in n.hides
    PROVE  me \notin Told(m)
<1>1. me # e.author
  BY NeighboursAreLocal DEF EntryFields
<1>2. m.account = e.author /\ m.mentions = {}
      /\ m.users \in {LocalRecipients(e, n), RemoteRecipients(e, n), RemoteBoostRecipients(n), LocalBoostRecipients(n)}
  BY ShowsByKind DEF CreateStatus, UpdateStatus, RemoteUpdate, Announce, Reblog, Message
<1>3. /\ me \notin LocalRecipients(e, n) /\ me \notin RemoteRecipients(e, n)
      /\ me \notin RemoteBoostRecipients(n) /\ me \notin LocalBoostRecipients(n)
  BY DEF LocalRecipients, RemoteRecipients, RemoteBoostRecipients, LocalBoostRecipients, Visible
<1> QED BY <1>1, <1>2, <1>3 DEF Told

\* For any accounts and any neighbourhood of the author: a removal reaches the
\* streams that show the entry, what is not public reaches no public stream and
\* no stranger, and nobody is pushed what they have hidden.
THEOREM RoutingIsSafe == RoutingSpec => []RoutingSafe
<1>1. RoutingInit => RoutingInv
  BY DEF RoutingInit, RoutingInv
<1>2. RoutingInv /\ [RoutingNext]_routing_vars => RoutingInv'
  <2> SUFFICES ASSUME RoutingInv, [RoutingNext]_routing_vars PROVE RoutingInv'
    OBVIOUS
  <2>1. CASE ShowEntry
    BY <2>1 DEF ShowEntry, RoutingInv
  <2>2. CASE RemoveEntry
    BY <2>2 DEF RemoveEntry, RoutingInv
  <2>3. CASE WithdrawEntry
    BY <2>3 DEF WithdrawEntry, RoutingInv
  <2>4. CASE UNCHANGED routing_vars
    BY <2>4 DEF routing_vars, RoutingInv
  <2> QED BY <2>1, <2>2, <2>3, <2>4 DEF RoutingNext
<1>3. RoutingInv => RoutingSafe
  <2> SUFFICES ASSUME RoutingInv PROVE RoutingSafe
    OBVIOUS
  <2>1. EntryFields(entry) /\ near \in Neighbourhoods
    BY EntriesHaveFields DEF RoutingInv
  <2>2. RemovalReachesShown
    <3> SUFFICES ASSUME stage = "removed" PROVE Undone
      BY DEF RemovalReachesShown
    <3>1. shown \in Shows(entry, near) /\ removal \in Removals(entry, near)
      BY DEF RoutingInv
    <3> QED BY <2>1, <3>1, RemovalsCover, CoveredIsUndone DEF Undone
  <2>3. HiddenAuthorsAreNotPushed
    <3> SUFFICES ASSUME stage = "shown", NEW m \in shown, NEW me \in near.hides, m.event = "update"
                 PROVE  ~ is_visible_to_stream(m, me, "user")
      BY DEF HiddenAuthorsAreNotPushed
    <3>1. shown \in Shows(entry, near)
      BY DEF RoutingInv
    <3> QED BY <2>1, <3>1, HiddenIsNotTold, HomeStream
  <2>4. OnlyPublicIsPublic
    <3> SUFFICES ASSUME stage \in {"shown", "removed", "withdrawn"}, Limited, NEW me \in Account
                 PROVE  /\ Reached(shown \cup removal, me) \cap PublicStreams = {}
                        /\ "user" \in Reached(shown \cup removal, me) =>
                              me \in {entry.author} \cup near.followers \cup near.tagged \cup near.mentioned
      BY DEF OnlyPublicIsPublic
    <3>1. ASSUME NEW m \in shown \cup removal
          PROVE  m.visibility # "public" /\ Told(m) \subseteq {entry.author} \cup near.followers \cup near.tagged \cup near.mentioned
      <4>1. PICK M : m \in M /\ (M \in Shows(entry, near) \/ M \in Removals(entry, near) \/ M = BoostedRemoteDeleted(entry))
        BY <3>1 DEF RoutingInv
      <4> QED BY <2>1, <4>1, LimitedIsAddressed DEF Limited
    <3>2. Reached(shown \cup removal, me) \cap PublicStreams = {}
      BY <3>1, PublicStream DEF Reached
    <3>3. ASSUME "user" \in Reached(shown \cup removal, me)
          PROVE  me \in {entry.author} \cup near.followers \cup near.tagged \cup near.mentioned
      BY <3>1, <3>3, HomeStream DEF Reached
    <3> QED BY <3>2, <3>3
  <2> QED BY <2>2, <2>3, <2>4 DEF RoutingSafe
<1> QED
  BY <1>1, <1>2, <1>3, PTL DEF RoutingSpec

-----------------------------------------------------------------------------
(* Fan-out *)

\* The newest of some rows, which are not newer than the last number drawn.
LEMMA NewestIsLast ==
    ASSUME NEW rows \in SUBSET Row, rows # {}, NEW last \in Nat, \A r \in rows : r.seq <= last
    PROVE  /\ \E r \in rows : r.seq = Newest(rows)
           /\ \A r \in rows : r.seq <= Newest(rows)
<1>0. \A r \in rows : r.seq \in Nat
  BY DEF Row
<1>1. PICK T \in SUBSET Nat : T = {last - r.seq : r \in rows} /\ T # {}
  <2>1. {last - r.seq : r \in rows} \in SUBSET Nat /\ {last - r.seq : r \in rows} # {}
    BY <1>0
  <2> QED BY <2>1
<1>2. \E x \in T : \A y \in T : x <= y
  <2>1. \E R : IsWellFoundedOn(R, Nat) /\ \A x, y \in Nat : x < y => <<x, y>> \in R
    <3>1. \A x, y \in Nat : x < y => <<x, y>> \in OpToRel(<, Nat)
      BY DEF OpToRel
    <3> WITNESS OpToRel(<, Nat)
    <3> QED BY <3>1, NatLessThanWellFounded
  <2>2. PICK R : IsWellFoundedOn(R, Nat) /\ \A x, y \in Nat : x < y => <<x, y>> \in R
    BY <2>1
  <2>3. \E x \in T : \A y \in T : ~ (<<y, x>> \in R)
    <3>1. T \subseteq Nat /\ IsWellFoundedOn(R, Nat) /\ T # {}
      BY <1>1, <2>2
    <3> QED BY <3>1, WFMin, Zenon
  <2>4. PICK x \in T : \A y \in T : ~ (<<y, x>> \in R)
    BY <2>3
  <2>5. x \in Nat /\ \A y \in T : y \in Nat /\ ~ (y < x)
    BY <2>2, <2>4
  <2> QED BY <2>5
<1>3. PICK r \in rows : \A s \in rows : last - r.seq <= last - s.seq
  BY <1>1, <1>2
<1>4. r.seq \in {s.seq : s \in rows} /\ \A s \in rows : s.seq <= r.seq
  BY <1>0, <1>3
<1>5. Newest(rows) \in {s.seq : s \in rows} /\ \A s \in rows : s.seq <= Newest(rows)
  BY <1>4 DEF Newest
<1> QED BY <1>5

\* order_by_asc lists every row once, by its sequence number.
LEMMA InOrderIsSorted ==
    ASSUME NEW rows \in SUBSET Row, IsFiniteSet(rows), \A r, s \in rows : r.seq = s.seq => r = s
    PROVE  /\ Cardinality(rows) \in Nat
           /\ InOrder(rows) \in [1..Cardinality(rows) -> rows]
           /\ \A r \in rows : \E i \in 1..Cardinality(rows) : InOrder(rows)[i] = r
           /\ \A i, j \in 1..Cardinality(rows) : i < j => InOrder(rows)[i].seq < InOrder(rows)[j].seq
<1> DEFINE UpTo(r) == {s \in rows : s.seq <= r.seq}
           rank == [r \in rows |-> Cardinality(UpTo(r))]
<1>0. \A r \in rows : r.seq \in Nat
  BY DEF Row
<1>1. PICK n \in Nat : n = Cardinality(rows)
  BY FS_CardinalityType
<1>2. \A r \in rows : /\ UpTo(r) \in SUBSET rows /\ IsFiniteSet(UpTo(r)) /\ Cardinality(UpTo(r)) \in Nat
                      /\ Cardinality(UpTo(r)) <= n /\ Cardinality(UpTo(r)) # 0
  <2> TAKE r \in rows
  <2>1. UpTo(r) \in SUBSET rows /\ r \in UpTo(r)
    BY <1>0
  <2> HIDE DEF UpTo
  <2>2. IsFiniteSet(UpTo(r)) /\ Cardinality(UpTo(r)) <= n
    BY <1>1, <2>1, FS_Subset
  <2>3. Cardinality(UpTo(r)) \in Nat /\ Cardinality(UpTo(r)) # 0
    BY <2>1, <2>2, FS_CardinalityType, FS_EmptySet
  <2> QED BY <2>1, <2>2, <2>3
<1>3. ASSUME NEW r \in rows, NEW s \in rows, r.seq < s.seq
      PROVE  Cardinality(UpTo(r)) < Cardinality(UpTo(s))
  <2>1. UpTo(r) \in SUBSET UpTo(s) /\ UpTo(r) # UpTo(s)
    <3>1. UpTo(r) \in SUBSET UpTo(s)
      BY <1>0, <1>3
    <3>2. s \in UpTo(s) /\ s \notin UpTo(r)
      BY <1>0, <1>3
    <3> QED BY <3>1, <3>2
  <2> HIDE DEF UpTo
  <2>2. Cardinality(UpTo(r)) <= Cardinality(UpTo(s)) /\ Cardinality(UpTo(r)) # Cardinality(UpTo(s))
    BY <1>2, <2>1, FS_Subset
  <2> QED BY <1>2, <2>2
<1>4. \A r \in rows : rank[r] = Cardinality(UpTo(r)) /\ rank[r] \in 1..n
  BY <1>2
<1>5. rank \in Injection(rows, 1..n)
  <2>1. rank \in [rows -> 1..n]
    BY <1>4
  <2>2. \A r, s \in rows : rank[r] = rank[s] => r = s
    <3> TAKE r, s \in rows
    <3> HAVE rank[r] = rank[s]
    <3>1. ~ (r.seq < s.seq) /\ ~ (s.seq < r.seq)
      <4> HIDE DEF UpTo, rank
      <4> QED BY <1>2, <1>3, <1>4
    <3>2. r.seq = s.seq
      BY <1>0, <3>1
    <3> QED BY <3>2
  <2> HIDE DEF rank
  <2> QED BY <2>1, <2>2 DEF Injection, IsInjective
<1>6. IsFiniteSet(1..n) /\ Cardinality(1..n) = n
  BY FS_Interval
<1>7. rank \in Surjection(rows, 1..n)
  <2> HIDE DEF rank
  <2> QED BY <1>1, <1>5, <1>6, FS_Injection
<1>8. \A i \in 1..n : \E r \in rows : Cardinality(UpTo(r)) = i
  <2>1. \A i \in 1..n : \E r \in rows : rank[r] = i
    <3> HIDE DEF rank
    <3> QED BY <1>7 DEF Surjection
  <2> QED BY <1>4, <2>1
<1>9. \A i \in 1..n : InOrder(rows)[i] \in rows /\ Cardinality(UpTo(InOrder(rows)[i])) = i
  BY <1>1, <1>8 DEF InOrder
<1>10. InOrder(rows) \in [1..n -> rows]
  BY <1>1, <1>9 DEF InOrder
<1> HIDE DEF UpTo, rank
<1>11. \A r \in rows : \E i \in 1..n : InOrder(rows)[i] = r
  <2> TAKE r \in rows
  <2>1. rank[r] \in 1..n /\ Cardinality(UpTo(InOrder(rows)[rank[r]])) = rank[r] /\ InOrder(rows)[rank[r]] \in rows
    BY <1>4, <1>9
  <2>2. InOrder(rows)[rank[r]].seq = r.seq
    BY <1>0, <1>2, <1>3, <1>4, <2>1
  <2> QED BY <2>1, <2>2
<1>12. \A i, j \in 1..n : i < j => InOrder(rows)[i].seq < InOrder(rows)[j].seq
  <2> TAKE i, j \in 1..n
  <2> HAVE i < j
  <2>1. PICK r \in rows, s \in rows : r = InOrder(rows)[i] /\ s = InOrder(rows)[j]
    BY <1>9
  <2>2. Cardinality(UpTo(r)) = i /\ Cardinality(UpTo(s)) = j
    BY <1>9, <2>1
  <2>3. r.seq # s.seq
    BY <2>2
  <2>4. ~ (s.seq < r.seq)
    BY <1>3, <2>2
  <2> QED BY <1>0, <2>1, <2>3, <2>4
<1> QED BY <1>1, <1>10, <1>11, <1>12

\* The events that only the publication task of p has.
InFlight(p) == {queue[p][i] : i \in DOMAIN queue[p]} \cup ({tx[p].event} \ {0})

\* An event is on its way in one process, and its row is not committed yet.
FlightsFit ==
    /\ \A p \in Process : \A e \in InFlight(p) : e <= published
    /\ \A p, q \in Process : p # q => InFlight(p) \cap InFlight(q) = {}
    /\ \A p \in Process : \A r \in history : r.event \notin InFlight(p)

\* The queue of a process is in the order of publication, behind the row of its
\* transaction, and that behind what it has committed since it started.
QueuesFit ==
    \A p \in Process :
        /\ \A i, j \in DOMAIN queue[p] : i < j => queue[p][i] < queue[p][j]
        /\ \A i \in DOMAIN queue[p] : tx[p].event < queue[p][i]
        /\ \A r \in history : r.origin = Origin(p) =>
              /\ \A e \in InFlight(p) : r.event < e
              /\ tx[p] # NoTx => r.seq < tx[p].seq

\* Sequence numbers are drawn once.
NumbersFit ==
    /\ \A p \in Process : tx[p] # NoTx => tx[p].seq \in 1..sequence /\ tx[p].event # 0
    /\ \A p, q \in Process : p # q /\ tx[p] # NoTx => tx[p].seq # tx[q].seq
    /\ \A p \in Process : \A r \in history : r.seq # tx[p].seq
    /\ \A r \in history : r.seq <= sequence /\ r.event <= published

\* Rows differ in number and event, and those of one origin are in its order.
HistoryFits ==
    /\ IsFiniteSet(log)
    /\ \A r, s \in history : r.seq = s.seq \/ r.event = s.event => r = s
    /\ \A r, s \in history : r.origin = s.origin /\ r.seq < s.seq => r.event < s.event

\* An entry of the bus is the process' own event, or a foreign row up to the cursor.
EntryFits(p, b) ==
    /\ b.event <= published
    /\ b.seq = 0 => /\ \A r \in history : r.event = b.event => r.origin = Origin(p)
                    /\ \A q \in Process \ {p} : b.event \notin InFlight(q)
    /\ b.seq # 0 => \E r \in history : /\ r.seq = b.seq /\ r.event = b.event
                                       /\ r.origin # Origin(p) /\ r.seq <= listener[p].cursor

BusesFit ==
    \A p \in Process :
        /\ \A i \in DOMAIN bus[p] : EntryFits(p, bus[p][i])
        /\ \A i, j \in DOMAIN bus[p] : i < j /\ bus[p][i].seq # 0 /\ bus[p][j].seq # 0 => bus[p][i].seq < bus[p][j].seq

\* A worker never listens, and a server is not asked for anything before it does.
PhasesFit ==
    /\ \A p \in Worker : listener[p].phase = "down"
    /\ \A p \in Server : listener[p].phase \in {"down", "listening"} => bus[p] = <<>>
    /\ \A p \in Process : listener[p].cursor = 0 \/ \E r \in history : r.seq = listener[p].cursor

FanoutInv ==
    /\ TypeOK /\ FlightsFit /\ QueuesFit /\ NumbersFit /\ HistoryFits
    /\ BusesFit /\ AtMostOnce /\ PhasesFit
    /\ NothingUnnoticed /\ OnlyOvertakenRowsAreSkipped /\ AccountedFor

ListenerRow == [phase : {"down", "listening", "ready", "lost", "relistening"},
                cursor : Nat, pending : Nat, behind : BOOLEAN, past : SUBSET Nat]

\* The order on the buses is that of the rows behind their entries.
LEMMA OrderOfOrigins == ASSUME FanoutInv PROVE OriginOrder
<1> SUFFICES ASSUME NEW p \in Process, NEW i \in DOMAIN bus[p], NEW j \in DOMAIN bus[p],
                    i < j, bus[p][i].seq # 0, bus[p][j].seq # 0
             PROVE  /\ bus[p][i].seq < bus[p][j].seq
                    /\ \A r, s \in history :
                          r.origin = s.origin /\ r.event = bus[p][i].event /\ s.event = bus[p][j].event
                          => r.event < s.event
  BY DEF OriginOrder
<1>1. bus[p][i].seq < bus[p][j].seq
  BY DEF FanoutInv, BusesFit
<1>2. PICK a \in history : a.seq = bus[p][i].seq /\ a.event = bus[p][i].event
  BY DEF FanoutInv, BusesFit, EntryFits
<1>3. PICK b \in history : b.seq = bus[p][j].seq /\ b.event = bus[p][j].event
  BY DEF FanoutInv, BusesFit, EntryFits
<1>4. ASSUME NEW r \in history, NEW s \in history, r.origin = s.origin, r.event = bus[p][i].event, s.event = bus[p][j].event
      PROVE  r.event < s.event
  <2>1. r = a /\ s = b
    BY <1>2, <1>3, <1>4 DEF FanoutInv, HistoryFits
  <2>2. r.seq < s.seq
    BY <1>1, <1>2, <1>3, <2>1
  <2>3. r.origin = s.origin /\ r.seq < s.seq => r.event < s.event
    BY DEF FanoutInv, HistoryFits
  <2> QED BY <1>4, <2>2, <2>3
<1> QED BY <1>1, <1>4

LEMMA FanoutBegins == ASSUME Init PROVE FanoutInv
<1>1. TypeOK
  <2>1. Down \in ListenerRow
    BY DEF Down, ListenerRow
  <2>2. listener \in [Process -> ListenerRow]
    BY <2>1 DEF Init
  <2>3. NoTx \in [seq : Nat, event : Nat]
    BY DEF NoTx
  <2> QED BY <2>2, <2>3 DEF Init, TypeOK, ListenerRow
<1>2. \A p \in Process : InFlight(p) = {}
  BY DEF Init, InFlight, NoTx
<1>3. IsFiniteSet(log)
  BY FS_EmptySet DEF Init
<1>4. FlightsFit /\ QueuesFit /\ NumbersFit /\ HistoryFits
  BY <1>2, <1>3 DEF Init, FlightsFit, QueuesFit, NumbersFit, HistoryFits
<1>5. BusesFit /\ AtMostOnce /\ PhasesFit
  BY DEF Init, BusesFit, AtMostOnce, PhasesFit, Down, Process
<1>6. NothingUnnoticed /\ OnlyOvertakenRowsAreSkipped /\ AccountedFor
  BY DEF Init, NothingUnnoticed, OnlyOvertakenRowsAreSkipped, AccountedFor
<1> QED BY <1>1, <1>4, <1>5, <1>6 DEF FanoutInv

\* A step of the listener of p alone: its cursor stays or its bus is empty, and
\* what it claims about the log is shown for it.
LEMMA ListenerKeeps ==
    ASSUME FanoutInv, NEW p \in Process, NEW x \in ListenerRow, listener' = [listener EXCEPT ![p] = x],
           faults' \in Nat, UNCHANGED <<queue, tx, bus, epoch, log, sequence, history, published, failed>>,
           x.cursor = listener[p].cursor \/ bus[p] = <<>>,
           x.cursor = 0 \/ \E r \in history : r.seq = x.cursor,
           p \in Worker => x.phase = "down",
           p \in Server /\ x.phase \in {"down", "listening"} => bus[p] = <<>>,
           x.phase = "ready" /\ x.pending = 0 /\ ~ x.behind => \A r \in log : r.seq <= x.cursor,
           x.phase \in {"ready", "lost", "relistening"} =>
              \/ x.cursor = listener[p].cursor /\ x.past = listener[p].past /\ Started(p)
              \/ \A r \in log : r.seq \in x.past
    PROVE  FanoutInv'
<1>0. listener \in [Process -> ListenerRow]
  BY DEF FanoutInv, TypeOK, ListenerRow
<1>1. listener' \in [Process -> ListenerRow] /\ listener'[p] = x /\ \A q \in Process \ {p} : listener'[q] = listener[q]
  BY <1>0
<1>2. TypeOK'
  BY <1>1 DEF FanoutInv, TypeOK, ListenerRow
<1>3. \A q \in Process : InFlight(q)' = InFlight(q) /\ Origin(q)' = Origin(q) /\ Unshared(q)' = Unshared(q)
  BY DEF InFlight, Origin, Unshared
<1>4. FlightsFit' /\ QueuesFit' /\ NumbersFit' /\ HistoryFits' /\ AtMostOnce' /\ AccountedFor'
  BY <1>3 DEF FanoutInv, FlightsFit, QueuesFit, NumbersFit, HistoryFits, AtMostOnce, AccountedFor
<1>5. \A q \in Process : bus[q] = <<>> \/ listener'[q].cursor = listener[q].cursor
  BY <1>1
<1>6. ASSUME NEW q \in Process, NEW i \in DOMAIN bus[q]
      PROVE  EntryFits(q, bus[q][i])'
  <2>1. EntryFits(q, bus[q][i]) /\ listener'[q].cursor = listener[q].cursor
    BY <1>5, <1>6 DEF FanoutInv, BusesFit
  <2> QED BY <1>3, <2>1 DEF EntryFits
<1>7. BusesFit'
  BY <1>6 DEF FanoutInv, BusesFit
<1>8. PhasesFit'
  BY <1>1 DEF FanoutInv, PhasesFit, Process
<1>9. NothingUnnoticed'
  BY <1>1 DEF FanoutInv, NothingUnnoticed, Process
<1>10. OnlyOvertakenRowsAreSkipped'
  <2> SUFFICES ASSUME NEW q \in Server, Started(q)', NEW r \in log, Owed(q, r)', r.seq <= listener'[q].cursor
               PROVE  OnBus(q, r.event) \/ r.overtaken
    BY DEF OnlyOvertakenRowsAreSkipped, OnBus
  <2>0. q \in Process
    BY DEF Process
  <2>1. CASE listener'[q].cursor = listener[q].cursor /\ listener'[q].past = listener[q].past /\ Started(q)
    BY <1>3, <2>0, <2>1 DEF FanoutInv, OnlyOvertakenRowsAreSkipped, Owed
  <2>2. CASE \A s \in log : s.seq \in listener'[q].past
    BY <2>2 DEF Owed
  <2>3. CASE q # p
    <3>1. listener'[q] = listener[q]
      BY <1>1, <2>0, <2>3
    <3> QED BY <2>1, <3>1 DEF Started
  <2> QED BY <1>1, <2>1, <2>2, <2>3 DEF Started
<1> QED BY <1>2, <1>4, <1>7, <1>8, <1>9, <1>10 DEF FanoutInv

\* Connections come and go, and a failed query leaves the cursor where it was.
LEMMA ConnectionsKeep ==
    ASSUME FanoutInv, NEW p \in Process,
           \/ Listen(p) \/ InitializeListener(p) \/ Disconnect(p) \/ DriverReconnects(p) \/ Relisten(p)
           \/ /\ listener[p].phase \in {"ready", "relistening"} /\ (listener[p].phase = "ready" => listener[p].pending > 0)
              /\ RecoveryFails(p) /\ UNCHANGED <<queue, tx, epoch, log, sequence, history, published, failed>>
    PROVE  FanoutInv'
<1>0. /\ listener \in [Process -> ListenerRow] /\ listener[p] \in ListenerRow /\ faults \in Nat
      /\ log \subseteq history /\ history \subseteq Row /\ IsFiniteSet(log)
      /\ listener[p].pending \in Nat /\ sequence \in Nat /\ \A r \in history : r.seq <= sequence /\ r.seq \in Nat
  <2>1. listener \in [Process -> ListenerRow]
    BY DEF FanoutInv, TypeOK, ListenerRow
  <2> QED BY <2>1 DEF FanoutInv, TypeOK, HistoryFits, NumbersFit, ListenerRow, Row
<1>1. p \in Worker => listener[p].phase = "down"
  BY DEF FanoutInv, PhasesFit
<1>2. listener[p].cursor = 0 \/ \E r \in history : r.seq = listener[p].cursor
  BY DEF FanoutInv, PhasesFit
<1>a. Server \cap Worker = {}
  BY FanoutAssumption
<1>3. CASE Listen(p)
  <2>1. PICK x \in ListenerRow : x = [Down EXCEPT !.phase = "listening"] /\ x.phase = "listening" /\ x.cursor = 0
    <3>1. [Down EXCEPT !.phase = "listening"] \in ListenerRow
      BY DEF Down, ListenerRow
    <3> QED BY <3>1 DEF Down
  <2>2. p \in Server /\ listener[p].phase = "down" /\ listener' = [listener EXCEPT ![p] = x]
        /\ UNCHANGED <<queue, tx, bus, epoch, log, sequence, history, published, failed, faults>>
    BY <1>3, <2>1 DEF Listen
  <2>3. bus[p] = <<>>
    BY <2>2 DEF FanoutInv, PhasesFit
  <2> QED BY <1>0, <1>a, <2>1, <2>2, <2>3, ListenerKeeps
<1>4. CASE InitializeListener(p)
  <2>1. Latest \in Nat /\ (Latest = 0 \/ \E r \in history : r.seq = Latest) /\ \A r \in log : r.seq <= Latest
    <3>1. CASE log = {}
      BY <3>1 DEF Latest
    <3>2. CASE log # {}
      <4>1. log \in SUBSET Row /\ \A r \in log : r.seq <= sequence
        BY <1>0
      <4>2. (\E r \in log : r.seq = Newest(log)) /\ \A r \in log : r.seq <= Newest(log)
        BY <1>0, <3>2, <4>1, NewestIsLast
      <4> QED BY <1>0, <3>2, <4>2 DEF Latest
    <3> QED BY <3>1, <3>2
  <2>2. PICK x \in ListenerRow : /\ x = [listener[p] EXCEPT !.phase = "ready", !.cursor = Latest, !.past = {r.seq : r \in log}]
                                 /\ x.phase = "ready" /\ x.cursor = Latest /\ \A r \in log : r.seq \in x.past
    <3>1. {r.seq : r \in log} \in SUBSET Nat
      BY <1>0
    <3>2. [listener[p] EXCEPT !.phase = "ready", !.cursor = Latest, !.past = {r.seq : r \in log}] \in ListenerRow
      BY <1>0, <2>1, <3>1 DEF ListenerRow
    <3> QED BY <1>0, <3>2 DEF ListenerRow
  <2>3. /\ listener[p].phase = "listening" /\ listener' = [listener EXCEPT ![p] = x]
        /\ UNCHANGED <<queue, tx, bus, epoch, log, sequence, history, published, failed, faults>>
    BY <1>0, <1>4, <2>2 DEF InitializeListener
  <2>4. bus[p] = <<>> /\ p \notin Worker
    BY <1>1, <2>3 DEF FanoutInv, PhasesFit, Process
  <2>5. x.cursor = 0 \/ \E r \in history : r.seq = x.cursor
    BY <2>1, <2>2
  <2>6. \A r \in log : r.seq <= x.cursor
    BY <2>1, <2>2
  <2>7. faults' \in Nat /\ x.phase = "ready" /\ \A r \in log : r.seq \in x.past
    BY <1>0, <2>2, <2>3
  <2> QED BY <2>3, <2>4, <2>5, <2>6, <2>7, ListenerKeeps
<1>5. CASE Disconnect(p)
  <2>1. PICK x \in ListenerRow : /\ x = [listener[p] EXCEPT !.phase = "lost", !.pending = 0] /\ x.phase = "lost"
                                 /\ x.cursor = listener[p].cursor /\ x.past = listener[p].past
    <3>1. [listener[p] EXCEPT !.phase = "lost", !.pending = 0] \in ListenerRow
      BY <1>0 DEF ListenerRow
    <3> QED BY <1>0, <3>1 DEF ListenerRow
  <2>2. /\ listener[p].phase = "ready" /\ listener' = [listener EXCEPT ![p] = x] /\ faults' \in Nat
        /\ UNCHANGED <<queue, tx, bus, epoch, log, sequence, history, published, failed>>
    <3>1. faults' \in Nat
      BY <1>0, <1>5 DEF Disconnect, Fault
    <3>2. [listener EXCEPT ![p].phase = "lost", ![p].pending = 0] = [listener EXCEPT ![p] = x]
      BY <1>0, <2>1
    <3> QED BY <1>5, <3>1, <3>2 DEF Disconnect
  <2>3. Started(p) /\ p \notin Worker
    BY <1>1, <2>2 DEF Started
  <2> QED BY <1>0, <1>2, <2>1, <2>2, <2>3, ListenerKeeps
<1>6. CASE DriverReconnects(p)
  <2>1. PICK heard \in Nat : listener' = [listener EXCEPT ![p].pending = heard, ![p].behind = TRUE]
    <3>1. \A heard \in 0..listener[p].pending : heard \in Nat
      BY <1>0
    <3> QED BY <1>6, <3>1 DEF DriverReconnects
  <2>2. PICK x \in ListenerRow : /\ x = [listener[p] EXCEPT !.pending = heard, !.behind = TRUE] /\ x.phase = listener[p].phase
                                 /\ x.cursor = listener[p].cursor /\ x.past = listener[p].past /\ x.behind
    <3>1. [listener[p] EXCEPT !.pending = heard, !.behind = TRUE] \in ListenerRow
      BY <1>0 DEF ListenerRow
    <3> QED BY <1>0, <3>1 DEF ListenerRow
  <2>3. /\ listener[p].phase = "ready" /\ listener' = [listener EXCEPT ![p] = x] /\ faults' \in Nat
        /\ UNCHANGED <<queue, tx, bus, epoch, log, sequence, history, published, failed>>
    <3>1. faults' \in Nat
      <4>1. faults' = faults + 1
        BY <1>6, Zenon DEF DriverReconnects, Fault
      <4> QED BY <1>0, <4>1
    <3>2. [listener EXCEPT ![p].pending = heard, ![p].behind = TRUE] = [listener EXCEPT ![p] = x]
      BY <1>0, <2>2
    <3> QED BY <1>6, <2>1, <3>1, <3>2 DEF DriverReconnects
  <2>4. Started(p) /\ p \notin Worker
    BY <1>1, <2>3 DEF Started
  <2> QED BY <1>0, <1>2, <2>2, <2>3, <2>4, ListenerKeeps
<1>7. CASE Relisten(p)
  <2>1. PICK x \in ListenerRow : /\ x = [listener[p] EXCEPT !.phase = "relistening"] /\ x.phase = "relistening"
                                 /\ x.cursor = listener[p].cursor /\ x.past = listener[p].past
    <3>1. [listener[p] EXCEPT !.phase = "relistening"] \in ListenerRow
      BY <1>0 DEF ListenerRow
    <3> QED BY <1>0, <3>1 DEF ListenerRow
  <2>2. /\ listener[p].phase = "lost" /\ listener' = [listener EXCEPT ![p] = x]
        /\ UNCHANGED <<queue, tx, bus, epoch, log, sequence, history, published, failed, faults>>
    BY <1>0, <1>7, <2>1 DEF Relisten
  <2>3. Started(p) /\ p \notin Worker
    BY <1>1, <2>2 DEF Started
  <2> QED BY <1>0, <1>2, <2>1, <2>2, <2>3, ListenerKeeps
<1>8. CASE /\ listener[p].phase \in {"ready", "relistening"} /\ (listener[p].phase = "ready" => listener[p].pending > 0)
           /\ RecoveryFails(p) /\ UNCHANGED <<queue, tx, epoch, log, sequence, history, published, failed>>
  <2>1. PICK n \in Nat : n = IF listener[p].phase = "ready" THEN listener[p].pending - 1 ELSE listener[p].pending
    BY <1>0, <1>8
  <2>2. PICK x \in ListenerRow : /\ x = [listener[p] EXCEPT !.behind = TRUE, !.phase = "ready", !.pending = n] /\ x.phase = "ready"
                                 /\ x.cursor = listener[p].cursor /\ x.past = listener[p].past /\ x.behind
    <3>1. [listener[p] EXCEPT !.behind = TRUE, !.phase = "ready", !.pending = n] \in ListenerRow
      BY <1>0 DEF ListenerRow
    <3> QED BY <1>0, <3>1 DEF ListenerRow
  <2>3. listener' = [listener EXCEPT ![p] = x] /\ faults' \in Nat /\ UNCHANGED bus
    <3>1. faults' \in Nat
      BY <1>0, <1>8 DEF RecoveryFails, Fault
    <3>2. listener' = [listener EXCEPT ![p].behind = TRUE, ![p].phase = "ready", ![p].pending = n]
      BY <1>8, <2>1 DEF RecoveryFails
    <3>3. [listener EXCEPT ![p].behind = TRUE, ![p].phase = "ready", ![p].pending = n] = [listener EXCEPT ![p] = x]
      BY <1>0, <2>2
    <3> QED BY <1>8, <3>1, <3>2, <3>3 DEF RecoveryFails
  <2>4. Started(p) /\ p \notin Worker
    BY <1>1, <1>8 DEF Started
  <2> QED BY <1>0, <1>2, <1>8, <2>2, <2>3, <2>4, ListenerKeeps
<1> QED BY <1>3, <1>4, <1>5, <1>6, <1>7, <1>8

LEMMA PublishKeeps == ASSUME FanoutInv, NEW p \in Process, Publish(p) PROVE FanoutInv'
<1>a. published \in Nat /\ failed \subseteq Nat
  BY DEF FanoutInv, TypeOK
<1>b. PICK e \in Nat \ {0} : e = published + 1
  BY <1>a
<1>c. PICK mine \in Entry : mine = [seq |-> 0, event |-> e]
  BY DEF Entry
<1>d. mine.seq = 0 /\ mine.event = e
  BY <1>c
<1>e. /\ queue \in [Process -> Seq(Nat \ {0})] /\ queue[p] \in Seq(Nat \ {0})
      /\ bus \in [Process -> Seq(Entry)] /\ bus[p] \in Seq(Entry)
  BY DEF FanoutInv, TypeOK
<1>f. \A q \in Process : tx[q].event \in Nat
  BY DEF FanoutInv, TypeOK
<1>g. \A q \in Process : \A i \in DOMAIN queue[q] : queue[q][i] \in Nat
  BY <1>e
<1>h. \A r \in history : r.event \in Nat
  BY DEF FanoutInv, TypeOK, Row
<1>0. published \in Nat /\ e = published + 1 /\ mine \in Entry /\ mine.seq = 0 /\ mine.event = e /\ failed \subseteq Nat
  BY <1>a, <1>b, <1>d
<1>1. /\ UNCHANGED <<listener, tx, epoch, log, sequence, history, faults>> /\ published' = e
      /\ bus' = [bus EXCEPT ![p] = Append(bus[p], mine)]
      /\ \/ p \notin Server /\ UNCHANGED <<queue, failed>>
         \/ queue' = [queue EXCEPT ![p] = Append(queue[p], e)] /\ failed' = failed /\ p \in Server
         \/ failed' = failed \cup {e} /\ UNCHANGED queue
  BY <1>b, <1>c DEF Publish, HasPublicationQueue
<1>2. /\ bus' \in [Process -> Seq(Entry)] /\ \A q \in Process \ {p} : bus'[q] = bus[q]
      /\ DOMAIN bus'[p] = 1..(Len(bus[p]) + 1) /\ DOMAIN bus[p] = 1..Len(bus[p]) /\ Len(bus[p]) \in Nat
      /\ bus'[p][Len(bus[p]) + 1] = mine /\ \A i \in DOMAIN bus[p] : bus'[p][i] = bus[p][i]
  BY <1>0, <1>e, <1>1
<1>3. /\ queue' \in [Process -> Seq(Nat \ {0})] /\ \A q \in Process \ {p} : queue'[q] = queue[q]
      /\ \A i \in DOMAIN queue'[p] : \/ i \in DOMAIN queue[p] /\ queue'[p][i] = queue[p][i]
                                     \/ i = Len(queue[p]) + 1 /\ queue'[p][i] = e
      /\ DOMAIN queue[p] = 1..Len(queue[p]) /\ Len(queue[p]) \in Nat
      /\ \A i \in DOMAIN queue[p] : i \in DOMAIN queue'[p] /\ queue'[p][i] = queue[p][i]
  <2>1. CASE queue' = [queue EXCEPT ![p] = Append(queue[p], e)]
    BY <1>e, <2>1
  <2>2. CASE queue' = queue
    BY <1>e, <2>2
  <2> QED BY <1>1, <2>1, <2>2
<1>4. /\ \A q \in Process \ {p} : InFlight(q)' = InFlight(q)
      /\ InFlight(p) \subseteq InFlight(p)' /\ InFlight(p)' \subseteq InFlight(p) \cup {e}
  <2> QED BY <1>1, <1>3 DEF InFlight
<1>5. \A q \in Process : \A f \in InFlight(q) : f <= published /\ f \in Nat
  BY <1>f, <1>g DEF FanoutInv, FlightsFit, InFlight
<1>6. \A r \in history : r.event <= published
  BY DEF FanoutInv, NumbersFit
<1>t. TypeOK'
  <2>1. failed' \subseteq Nat /\ published' \in Nat
    BY <1>0, <1>1
  <2> QED BY <1>1, <1>2, <1>3, <2>1 DEF FanoutInv, TypeOK
<1>7. FlightsFit'
  <2>1. \A q \in Process : \A f \in InFlight(q)' : f <= published'
    BY <1>0, <1>1, <1>4, <1>5
  <2>2. ASSUME NEW q \in Process, NEW s \in Process, q # s PROVE InFlight(q)' \cap InFlight(s)' = {}
    <3>1. InFlight(q) \cap InFlight(s) = {} /\ e \notin InFlight(q) /\ e \notin InFlight(s)
      BY <1>0, <1>5, <2>2 DEF FanoutInv, FlightsFit
    <3> QED BY <1>4, <2>2, <3>1
  <2>3. ASSUME NEW q \in Process, NEW r \in history PROVE r.event \notin InFlight(q)'
    <3>1. r.event \notin InFlight(q) /\ r.event # e
      BY <1>0, <1>h, <1>6 DEF FanoutInv, FlightsFit
    <3> QED BY <1>4, <3>1
  <2> QED BY <1>1, <2>1, <2>2, <2>3 DEF FlightsFit
<1>8. QueuesFit'
  <2> SUFFICES ASSUME NEW q \in Process
               PROVE  /\ \A i, j \in DOMAIN queue'[q] : i < j => queue'[q][i] < queue'[q][j]
                      /\ \A i \in DOMAIN queue'[q] : tx[q].event < queue'[q][i]
                      /\ \A r \in history : r.origin = Origin(q) =>
                            /\ \A f \in InFlight(q)' : r.event < f
                            /\ tx[q] # NoTx => r.seq < tx[q].seq
    BY <1>1 DEF QueuesFit, Origin
  <2>1. /\ \A i, j \in DOMAIN queue[q] : i < j => queue[q][i] < queue[q][j]
        /\ \A i \in DOMAIN queue[q] : tx[q].event < queue[q][i]
        /\ \A r \in history : r.origin = Origin(q) =>
              /\ \A f \in InFlight(q) : r.event < f
              /\ tx[q] # NoTx => r.seq < tx[q].seq
    BY DEF FanoutInv, QueuesFit
  <2>2. CASE q # p
    BY <1>3, <1>4, <2>1, <2>2
  <2>3. CASE q = p
    <3>1. \A i \in DOMAIN queue[p] : queue[p][i] < e
      <4>1. \A i \in DOMAIN queue[p] : queue[p][i] \in InFlight(p)
        BY DEF InFlight
      <4> QED BY <1>0, <1>g, <1>5, <4>1
    <3>2. tx[p].event < e
      <4>1. tx[p].event = 0 \/ tx[p].event \in InFlight(p)
        BY DEF InFlight
      <4> QED BY <1>0, <1>f, <1>5, <4>1
    <3>3. \A r \in history : r.event < e
      BY <1>0, <1>h, <1>6
    <3>4. ASSUME NEW i \in DOMAIN queue'[p], NEW j \in DOMAIN queue'[p], i < j PROVE queue'[p][i] < queue'[p][j]
      <4>1. i \in DOMAIN queue[p] /\ queue'[p][i] = queue[p][i]
        <5>1. j \in 1..(Len(queue[p]) + 1)
          BY <1>3
        <5>2. i # Len(queue[p]) + 1
          BY <1>3, <3>4, <5>1
        <5> QED BY <1>3, <5>2
      <4>2. CASE j \in DOMAIN queue[p] /\ queue'[p][j] = queue[p][j]
        BY <2>1, <2>3, <3>4, <4>1, <4>2
      <4>3. CASE queue'[p][j] = e
        BY <3>1, <4>1, <4>3
      <4> QED BY <1>3, <4>2, <4>3
    <3>5. \A i \in DOMAIN queue'[p] : tx[p].event < queue'[p][i]
      BY <1>3, <2>1, <2>3, <3>2
    <3>6. \A r \in history : r.origin = Origin(p) => \A f \in InFlight(p)' : r.event < f
      BY <1>4, <2>1, <2>3, <3>3
    <3> QED BY <2>1, <2>3, <3>4, <3>5, <3>6
  <2> QED BY <2>2, <2>3
<1>9. NumbersFit' /\ HistoryFits'
  <2>1. \A r \in history : r.event <= published'
    BY <1>0, <1>h, <1>1, <1>6
  <2> QED BY <1>1, <2>1 DEF FanoutInv, NumbersFit, HistoryFits
<1>10. ASSUME NEW q \in Process, NEW b, EntryFits(q, b), b.event \in Nat
       PROVE  EntryFits(q, b)'
  <2>1. b.event <= published' /\ b.event # e
    BY <1>0, <1>1, <1>10 DEF EntryFits
  <2> QED BY <1>1, <1>4, <1>10, <2>1 DEF EntryFits, Origin
<1>11. EntryFits(p, mine)'
  <2>1. \A r \in history : r.event # e
    BY <1>0, <1>h, <1>6
  <2>2. \A q \in Process \ {p} : e \notin InFlight(q)
    BY <1>0, <1>5
  <2> QED BY <1>0, <1>1, <1>4, <2>1, <2>2 DEF EntryFits
<1>12. \A q \in Process : \A i \in DOMAIN bus[q] : EntryFits(q, bus[q][i]) /\ bus[q][i].event \in Nat /\ bus[q][i].event # e
  <2>1. \A q \in Process : \A i \in DOMAIN bus[q] : bus[q][i].event \in Nat /\ EntryFits(q, bus[q][i])
    <3>1. \A q \in Process : \A i \in DOMAIN bus[q] : bus[q][i] \in Entry
      BY <1>e
    <3>2. \A b \in Entry : b.event \in Nat
      BY DEF Entry
    <3> QED BY <3>1, <3>2 DEF FanoutInv, BusesFit
  <2>2. \A q \in Process : \A i \in DOMAIN bus[q] : bus[q][i].event <= published
    BY <2>1 DEF EntryFits
  <2> QED BY <1>0, <2>1, <2>2
<1>13. BusesFit'
  <2>1. ASSUME NEW q \in Process, NEW i \in DOMAIN bus'[q] PROVE EntryFits(q, bus[q][i])'
    <3>1. PICK b : b = bus'[q][i]
      OBVIOUS
    <3>2. EntryFits(q, b)'
      <4>1. CASE i \in DOMAIN bus[q] /\ b = bus[q][i]
        <5>1. EntryFits(q, b) /\ b.event \in Nat
          BY <1>12, <4>1
        <5> QED BY <1>10, <5>1
      <4>2. CASE q = p /\ b = mine
        BY <1>11, <4>2
      <4> QED BY <1>2, <3>1, <4>1, <4>2
    <3> QED BY <3>1, <3>2 DEF EntryFits
  <2>2. ASSUME NEW q \in Process, NEW i \in DOMAIN bus'[q], NEW j \in DOMAIN bus'[q], i < j, bus'[q][i].seq # 0, bus'[q][j].seq # 0
        PROVE  bus'[q][i].seq < bus'[q][j].seq
    <3>1. i \in DOMAIN bus[q] /\ j \in DOMAIN bus[q] /\ bus'[q][i] = bus[q][i] /\ bus'[q][j] = bus[q][j]
      <4>1. CASE q = p
        <5>1. \A k \in DOMAIN bus'[p] : k \in DOMAIN bus[p] \/ bus'[p][k] = mine
          BY <1>2
        <5> QED BY <1>0, <1>2, <2>2, <4>1, <5>1
      <4> QED BY <1>2, <2>2, <4>1
    <3> QED BY <2>2, <3>1 DEF FanoutInv, BusesFit
  <2> QED BY <2>1, <2>2 DEF BusesFit
<1>14. AtMostOnce'
  <2> SUFFICES ASSUME NEW q \in Process, NEW i \in DOMAIN bus'[q], NEW j \in DOMAIN bus'[q], bus'[q][i].event = bus'[q][j].event
               PROVE  i = j
    BY DEF AtMostOnce
  <2>1. CASE q # p
    BY <1>2, <2>1 DEF FanoutInv, AtMostOnce
  <2>2. CASE q = p
    <3>1. \A k \in DOMAIN bus'[p] : \/ k = Len(bus[p]) + 1 /\ bus'[p][k].event = e
                                    \/ k \in DOMAIN bus[p] /\ bus'[p][k].event = bus[p][k].event /\ bus[p][k].event # e
      BY <1>0, <1>2, <1>12
    <3> QED BY <2>2, <3>1 DEF FanoutInv, AtMostOnce
  <2> QED BY <2>1, <2>2
<1>15. PhasesFit'
  <2>1. p \in Server => listener[p].phase \notin {"down", "listening"}
    BY FanoutAssumption DEF Publish, Running
  <2> QED BY <1>1, <1>2, <2>1 DEF FanoutInv, PhasesFit, Process
<1>16. NothingUnnoticed'
  BY <1>1 DEF FanoutInv, NothingUnnoticed
<1>17. OnlyOvertakenRowsAreSkipped'
  <2>1. \A q \in Process, f \in Nat : OnBus(q, f) => OnBus(q, f)'
    <3>1. \A q \in Process : \A i \in DOMAIN bus[q] : i \in DOMAIN bus'[q] /\ bus'[q][i] = bus[q][i]
      BY <1>2
    <3> QED BY <3>1 DEF OnBus
  <2>2. \A q \in Server : q \in Process
    BY DEF Process
  <2>3. log \subseteq history
    BY DEF FanoutInv, TypeOK
  <2> QED BY <1>h, <1>1, <2>1, <2>2, <2>3 DEF FanoutInv, OnlyOvertakenRowsAreSkipped, Started, Owed, Origin
<1>18. AccountedFor'
  <2>1. \A q \in Process : Unshared(q) \subseteq Unshared(q)'
    <3>1. \A q \in Process : \A i \in DOMAIN bus[q] : i \in DOMAIN bus'[q] /\ bus'[q][i] = bus[q][i]
      BY <1>2
    <3>2. \A q \in Process : \A i \in DOMAIN queue[q] : i \in DOMAIN queue'[q] /\ queue'[q][i] = queue[q][i]
      BY <1>3
    <3> QED BY <1>1, <3>1, <3>2 DEF Unshared, HasPublicationQueue
  <2>2. e \in failed' \/ e \in Unshared(p)'
    <3>1. CASE p \notin Server
      <4>1. Len(bus[p]) + 1 \in DOMAIN bus'[p] /\ bus'[p][Len(bus[p]) + 1].event = e
        BY <1>0, <1>2
      <4> QED BY <3>1, <4>1 DEF Unshared, HasPublicationQueue
    <3>2. CASE queue' = [queue EXCEPT ![p] = Append(queue[p], e)]
      <4>1. Len(queue[p]) + 1 \in DOMAIN queue'[p] /\ queue'[p][Len(queue[p]) + 1] = e
        BY <1>0, <1>e, <3>2
      <4> QED BY <4>1 DEF Unshared
    <3> QED BY <1>1, <3>1, <3>2
  <2>3. \A f \in 1..published' : f = e \/ f \in 1..published
    BY <1>0, <1>1
  <2>4. \A f \in 1..published : f \in failed \/ (\E q \in Process : f \in Unshared(q)) \/ \E r \in history : r.event = f
    BY DEF FanoutInv, AccountedFor
  <2>5. failed \subseteq failed' /\ history' = history
    BY <1>1
  <2> QED BY <2>1, <2>2, <2>3, <2>4, <2>5 DEF AccountedFor
<1> QED BY <1>t, <1>7, <1>8, <1>9, <1>13, <1>14, <1>15, <1>16, <1>17, <1>18 DEF FanoutInv

\* The event moves from the queue into the transaction.
LEMMA InsertKeeps == ASSUME FanoutInv, NEW p \in Process, InsertStreamingEvent(p) PROVE FanoutInv'
<1>a. /\ queue \in [Process -> Seq(Nat \ {0})] /\ queue[p] \in Seq(Nat \ {0}) /\ queue[p] # <<>>
      /\ tx \in [Process -> [seq : Nat, event : Nat]] /\ sequence \in Nat /\ tx[p] = NoTx
  BY DEF FanoutInv, TypeOK, InsertStreamingEvent
<1>b. PICK n \in Nat \ {0} : n = sequence + 1
  BY <1>a
<1>c. PICK h \in Nat \ {0} : h = Head(queue[p])
  BY <1>a
<1>1. /\ UNCHANGED <<listener, bus, epoch, log, history, published, failed, faults>> /\ sequence' = n
      /\ queue' = [queue EXCEPT ![p] = Tail(queue[p])] /\ tx' = [tx EXCEPT ![p] = [seq |-> n, event |-> h]]
  BY <1>b, <1>c DEF InsertStreamingEvent
<1>2. /\ tx' \in [Process -> [seq : Nat, event : Nat]] /\ tx'[p].seq = n /\ tx'[p].event = h
      /\ \A q \in Process \ {p} : tx'[q] = tx[q] /\ queue'[q] = queue[q]
  BY <1>a, <1>1
<1>3. /\ queue' \in [Process -> Seq(Nat \ {0})] /\ h = queue[p][1] /\ 1 \in DOMAIN queue[p]
      /\ \A i \in DOMAIN queue'[p] : i \in Nat /\ i + 1 \in DOMAIN queue[p] /\ queue'[p][i] = queue[p][i + 1] /\ i > 0
      /\ \A i \in DOMAIN queue[p] : i = 1 \/ (i - 1 \in DOMAIN queue'[p] /\ queue'[p][i - 1] = queue[p][i])
  <2>1. /\ Tail(queue[p]) \in Seq(Nat \ {0}) /\ Len(Tail(queue[p])) = Len(queue[p]) - 1
        /\ \A i \in 1..(Len(queue[p]) - 1) : Tail(queue[p])[i] = queue[p][i + 1]
        /\ Len(queue[p]) \in Nat \ {0} /\ DOMAIN queue[p] = 1..Len(queue[p]) /\ Head(queue[p]) = queue[p][1]
    BY <1>a
  <2>2. queue' \in [Process -> Seq(Nat \ {0})] /\ queue'[p] = Tail(queue[p])
    BY <1>a, <1>1, <2>1
  <2>3. DOMAIN queue'[p] = 1..(Len(queue[p]) - 1)
    BY <2>1, <2>2
  <2>4. PICK m \in Nat : m = Len(queue[p]) - 1
    <3>1. Len(queue[p]) \in Nat \ {0}
      BY <2>1
    <3>2. Len(queue[p]) - 1 \in Nat
      BY <3>1
    <3> QED BY <3>2
  <2>5. \A i \in 1..m : i \in Nat /\ i > 0 /\ i + 1 \in 1..(m + 1) /\ queue'[p][i] = queue[p][i + 1]
    <3>1. \A i \in 1..m : i \in Nat /\ i > 0 /\ i + 1 \in 1..(m + 1)
      OBVIOUS
    <3>2. \A i \in 1..m : queue'[p][i] = queue[p][i + 1]
      BY <2>1, <2>2, <2>4
    <3> QED BY <3>1, <3>2
  <2>6. \A i \in 1..(m + 1) : i = 1 \/ (i - 1 \in 1..m /\ (i - 1) + 1 = i)
    OBVIOUS
  <2>7. DOMAIN queue[p] = 1..(m + 1) /\ DOMAIN queue'[p] = 1..m /\ 1 \in 1..(m + 1)
    BY <2>1, <2>3, <2>4
  <2>8. \A i \in DOMAIN queue[p] : i = 1 \/ (i - 1 \in DOMAIN queue'[p] /\ queue'[p][i - 1] = queue[p][i])
    BY <2>5, <2>6, <2>7
  <2> QED BY <1>c, <2>1, <2>2, <2>5, <2>7, <2>8
<1>4. InFlight(p)' = InFlight(p)
  <2>1. tx[p].event = 0
    BY <1>a DEF NoTx
  <2>2. InFlight(p) = {queue[p][i] : i \in DOMAIN queue[p]}
    BY <2>1 DEF InFlight
  <2>3. InFlight(p)' = {queue'[p][i] : i \in DOMAIN queue'[p]} \cup {h}
    BY <1>2 DEF InFlight
  <2>4. ASSUME NEW f \in InFlight(p)' PROVE f \in InFlight(p)
    BY <1>3, <2>2, <2>3
  <2>5. ASSUME NEW f \in InFlight(p) PROVE f \in InFlight(p)'
    BY <1>3, <2>2, <2>3
  <2> QED BY <2>4, <2>5
<1>5. \A q \in Process : InFlight(q)' = InFlight(q) /\ Origin(q)' = Origin(q) /\ Unshared(q)' = Unshared(q)
  <2>1. \A q \in Process : InFlight(q)' = InFlight(q)
    BY <1>2, <1>4 DEF InFlight
  <2>2. \A q \in Process : Origin(q)' = Origin(q)
    BY <1>1 DEF Origin
  <2>3. \A q \in Process : Unshared(q) = InFlight(q) \cup {bus[q][i].event : i \in {j \in DOMAIN bus[q] : ~HasPublicationQueue(q)}}
    BY DEF Unshared, InFlight
  <2>4. \A q \in Process : Unshared(q)' = InFlight(q)' \cup {bus[q][i].event : i \in {j \in DOMAIN bus[q] : ~HasPublicationQueue(q)}}
    BY <1>1 DEF Unshared, InFlight, HasPublicationQueue
  <2> QED BY <2>1, <2>2, <2>3, <2>4
<1>t. TypeOK'
  <2>1. sequence' \in Nat
    BY <1>1
  <2> QED BY <1>1, <1>2, <1>3, <2>1 DEF FanoutInv, TypeOK
<1>6. FlightsFit' /\ AtMostOnce' /\ AccountedFor' /\ PhasesFit' /\ NothingUnnoticed'
  BY <1>1, <1>5 DEF FanoutInv, FlightsFit, AtMostOnce, AccountedFor, PhasesFit, NothingUnnoticed
<1>7. OnlyOvertakenRowsAreSkipped'
  BY <1>1 DEF FanoutInv, OnlyOvertakenRowsAreSkipped, Started, Owed, Origin, OnBus
<1>8. BusesFit'
  BY <1>1, <1>5 DEF FanoutInv, BusesFit, EntryFits
<1>9. \A r \in history : r.seq <= sequence /\ r.seq \in Nat
  BY DEF FanoutInv, NumbersFit, TypeOK, Row
<1>10. QueuesFit'
  <2> SUFFICES ASSUME NEW q \in Process
               PROVE  /\ \A i, j \in DOMAIN queue'[q] : i < j => queue'[q][i] < queue'[q][j]
                      /\ \A i \in DOMAIN queue'[q] : tx'[q].event < queue'[q][i]
                      /\ \A r \in history : r.origin = Origin(q) =>
                            /\ \A f \in InFlight(q) : r.event < f
                            /\ tx'[q] # NoTx => r.seq < tx'[q].seq
    BY <1>1, <1>5 DEF QueuesFit, NoTx
  <2>1. /\ \A i, j \in DOMAIN queue[q] : i < j => queue[q][i] < queue[q][j]
        /\ \A i \in DOMAIN queue[q] : tx[q].event < queue[q][i]
        /\ \A r \in history : r.origin = Origin(q) =>
              /\ \A f \in InFlight(q) : r.event < f
              /\ tx[q] # NoTx => r.seq < tx[q].seq
    BY DEF FanoutInv, QueuesFit
  <2>2. CASE q # p
    BY <1>2, <2>1, <2>2
  <2>3. CASE q = p
    <3>1. \A i, j \in DOMAIN queue'[p] : i < j => queue'[p][i] < queue'[p][j]
      <4> TAKE i, j \in DOMAIN queue'[p]
      <4>1. i < j => i + 1 < j + 1
        BY <1>3
      <4> QED BY <1>3, <2>1, <2>3, <4>1
    <3>2. \A i \in DOMAIN queue'[p] : h < queue'[p][i]
      <4> TAKE i \in DOMAIN queue'[p]
      <4>1. 1 < i + 1
        BY <1>3
      <4> QED BY <1>3, <2>1, <2>3, <4>1
    <3>3. \A r \in history : r.seq < n
      BY <1>a, <1>b, <1>9
    <3> QED BY <1>2, <2>1, <2>3, <3>1, <3>2, <3>3
  <2> QED BY <2>2, <2>3
<1>11. NumbersFit'
  <2>0. \A q \in Process : tx[q] # NoTx => tx[q].seq \in 1..sequence
    BY DEF FanoutInv, NumbersFit
  <2>z. \A q \in Process : tx[q] = NoTx => tx[q].seq = 0
    BY DEF NoTx
  <2>1. \A q \in Process : tx'[q] # NoTx => tx'[q].seq \in 1..sequence' /\ tx'[q].event # 0
    <3> TAKE q \in Process
    <3>1. CASE q # p
      <4>1. tx[q] # NoTx => tx[q].seq \in 1..sequence /\ tx[q].event # 0
        BY DEF FanoutInv, NumbersFit
      <4>2. 1..sequence \subseteq 1..n
        BY <1>a, <1>b
      <4> QED BY <1>1, <1>2, <3>1, <4>1, <4>2
    <3>2. CASE q = p
      BY <1>1, <1>2, <3>2
    <3> QED BY <3>1, <3>2
  <2>2. \A q \in Process : tx[q].seq < n
    BY <1>a, <1>b, <2>0, <2>z
  <2>3. \A q, s \in Process : q # s /\ tx'[q] # NoTx => tx'[q].seq # tx'[s].seq
    <3> SUFFICES ASSUME NEW q \in Process, NEW s \in Process, q # s, tx'[q] # NoTx PROVE tx'[q].seq # tx'[s].seq
      OBVIOUS
    <3>1. \A o \in Process : tx[o].seq # n
      BY <1>a, <2>2
    <3>2. CASE q = p \/ s = p
      BY <1>2, <3>1, <3>2
    <3>3. CASE q # p /\ s # p
      BY <1>2, <3>3 DEF FanoutInv, NumbersFit
    <3> QED BY <3>2, <3>3
  <2>4. \A q \in Process : \A r \in history : r.seq # tx'[q].seq
    <3>1. \A r \in history : r.seq # n
      BY <1>a, <1>b, <1>9
    <3>2. \A q \in Process : \A r \in history : r.seq # tx[q].seq
      BY DEF FanoutInv, NumbersFit
    <3> QED BY <1>2, <3>1, <3>2
  <2>5. \A r \in history : r.seq <= sequence' /\ r.event <= published
    <3>1. \A r \in history : r.event <= published
      BY DEF FanoutInv, NumbersFit
    <3> QED BY <1>a, <1>b, <1>1, <1>9, <3>1
  <2> QED BY <1>1, <2>1, <2>3, <2>4, <2>5 DEF NumbersFit, NoTx
<1>12. HistoryFits'
  BY <1>1 DEF FanoutInv, HistoryFits
<1> QED BY <1>t, <1>6, <1>7, <1>8, <1>10, <1>11, <1>12 DEF FanoutInv

\* The transaction of p ends: nothing else of the process changes.
LEMMA TransactionEnds ==
    ASSUME FanoutInv, NEW p \in Process, tx[p] # NoTx, tx' = [tx EXCEPT ![p] = NoTx],
           UNCHANGED <<queue, bus, epoch, sequence, published>>
    PROVE  /\ tx \in [Process -> [seq : Nat, event : Nat]] /\ tx' \in [Process -> [seq : Nat, event : Nat]]
           /\ tx'[p] = NoTx /\ \A q \in Process \ {p} : tx'[q] = tx[q]
           /\ tx[p].event \in InFlight(p) /\ tx[p].event \notin InFlight(p)'
           /\ InFlight(p) = InFlight(p)' \cup {tx[p].event} /\ \A q \in Process \ {p} : InFlight(q)' = InFlight(q)
           /\ \A q \in Process : Unshared(q) \subseteq Unshared(q)' \cup (IF q = p THEN {tx[p].event} ELSE {})
           /\ \A q \in Process : Origin(q)' = Origin(q)
           /\ tx[p].event \in Nat \ {0} /\ tx[p].seq \in 1..sequence
           /\ QueuesFit => \A q \in Process : \A i \in DOMAIN queue[q] : tx'[q].event < queue[q][i]
<1>1. tx \in [Process -> [seq : Nat, event : Nat]] /\ NoTx \in [seq : Nat, event : Nat] /\ NoTx.event = 0
  BY DEF FanoutInv, TypeOK, NoTx
<1>2. tx' \in [Process -> [seq : Nat, event : Nat]] /\ tx'[p] = NoTx /\ \A q \in Process \ {p} : tx'[q] = tx[q]
  BY <1>1
<1>3. tx[p].event \in Nat \ {0} /\ tx[p].seq \in 1..sequence
  BY <1>1 DEF FanoutInv, NumbersFit
<1>4. \A i \in DOMAIN queue[p] : queue[p][i] # tx[p].event
  <2>1. \A i \in DOMAIN queue[p] : tx[p].event < queue[p][i]
    BY DEF FanoutInv, QueuesFit
  <2>2. \A i \in DOMAIN queue[p] : queue[p][i] \in Nat
    BY DEF FanoutInv, TypeOK
  <2> QED BY <1>3, <2>1, <2>2
<1>5. /\ InFlight(p) = {queue[p][i] : i \in DOMAIN queue[p]} \cup {tx[p].event}
      /\ InFlight(p)' = {queue[p][i] : i \in DOMAIN queue[p]}
  BY <1>1, <1>2, <1>3 DEF InFlight
<1>6. tx[p].event \notin InFlight(p)'
  BY <1>4, <1>5
<1>7. \A q \in Process \ {p} : InFlight(q)' = InFlight(q) /\ Unshared(q)' = Unshared(q)
  BY <1>2 DEF InFlight, Unshared, HasPublicationQueue
<1>8. Unshared(p) \subseteq Unshared(p)' \cup {tx[p].event}
  BY DEF Unshared, HasPublicationQueue
<1>9. \A q \in Process : Unshared(q) \subseteq Unshared(q)' \cup (IF q = p THEN {tx[p].event} ELSE {})
  BY <1>7, <1>8
<1>10. QueuesFit => \A q \in Process : \A i \in DOMAIN queue[q] : tx'[q].event < queue[q][i]
  <2>1. \A i \in DOMAIN queue[p] : 0 < queue[p][i]
    BY DEF FanoutInv, TypeOK
  <2> QED BY <1>1, <1>2, <2>1 DEF QueuesFit
<1> QED BY <1>1, <1>2, <1>3, <1>5, <1>6, <1>7, <1>9, <1>10 DEF Origin

LEMMA PublicationFailsKeeps == ASSUME FanoutInv, NEW p \in Process, PublicationFails(p) PROVE FanoutInv'
<1>1. /\ tx[p] # NoTx /\ tx' = [tx EXCEPT ![p] = NoTx] /\ failed' = failed \cup {tx[p].event}
      /\ UNCHANGED <<listener, queue, bus, epoch, log, sequence, history, published>>
  BY DEF PublicationFails
<1>2. /\ tx' \in [Process -> [seq : Nat, event : Nat]] /\ tx[p].event \in Nat
      /\ tx'[p] = NoTx /\ \A q \in Process \ {p} : tx'[q] = tx[q]
  BY <1>1, TransactionEnds
<1>3. \A q \in Process : InFlight(q)' \subseteq InFlight(q) /\ Origin(q)' = Origin(q)
  BY <1>1, TransactionEnds
<1>4. \A q \in Process : Unshared(q) \subseteq Unshared(q)' \cup failed'
  BY <1>1, TransactionEnds
<1>t. TypeOK'
  <2>1. faults' = faults + 1
    BY DEF PublicationFails, Fault
  <2>2. faults' \in Nat /\ failed' \subseteq Nat
    <3>1. faults \in Nat /\ failed \subseteq Nat
      BY DEF FanoutInv, TypeOK
    <3>2. failed' \subseteq Nat
      <4>1. failed' = failed \cup {tx[p].event} /\ tx[p].event \in Nat
        BY <1>1, <1>2
      <4> QED BY <3>1, <4>1
    <3> QED BY <2>1, <3>1, <3>2
  <2> QED BY <1>1, <1>2, <2>2 DEF FanoutInv, TypeOK
<1>5. FlightsFit'
  BY <1>1, <1>3 DEF FanoutInv, FlightsFit
<1>6. QueuesFit'
  <2>1. QueuesFit
    BY DEF FanoutInv
  <2>2. \A q \in Process : \A i \in DOMAIN queue[q] : tx'[q].event < queue[q][i]
    BY <1>1, <2>1, TransactionEnds
  <2>3. \A q \in Process : tx'[q] # NoTx => tx'[q] = tx[q]
    BY <1>2
  <2> QED BY <1>1, <1>3, <2>1, <2>2, <2>3 DEF QueuesFit, NoTx
<1>7. NumbersFit'
  <2>1. \A q \in Process : tx'[q] # NoTx => tx'[q] = tx[q]
    BY <1>2
  <2>2. \A r \in history : r.seq # 0
    BY DEF FanoutInv, TypeOK, Row
  <2>3. \A q \in Process : tx'[q] = tx[q] \/ tx'[q].seq = 0
    BY <1>2 DEF NoTx
  <2>4. \A q \in Process : tx[q] # NoTx => tx[q].seq # 0
    BY DEF FanoutInv, NumbersFit, TypeOK
  <2>5. \A q, s \in Process : q # s /\ tx'[q] # NoTx => tx'[q].seq # tx'[s].seq
    BY <2>1, <2>3, <2>4 DEF FanoutInv, NumbersFit
  <2>6. \A q \in Process : \A r \in history : r.seq # tx'[q].seq
    BY <2>2, <2>3 DEF FanoutInv, NumbersFit
  <2> QED BY <1>1, <2>1, <2>5, <2>6 DEF FanoutInv, NumbersFit, NoTx
<1>8. HistoryFits' /\ AtMostOnce' /\ PhasesFit' /\ NothingUnnoticed'
  BY <1>1 DEF FanoutInv, HistoryFits, AtMostOnce, PhasesFit, NothingUnnoticed
<1>9. OnlyOvertakenRowsAreSkipped'
  BY <1>1 DEF FanoutInv, OnlyOvertakenRowsAreSkipped, Started, Owed, Origin, OnBus
<1>10. BusesFit'
  BY <1>1, <1>3 DEF FanoutInv, BusesFit, EntryFits
<1>11. AccountedFor'
  <2>1. \A f \in 1..published : f \in failed \/ (\E q \in Process : f \in Unshared(q)) \/ \E r \in history : r.event = f
    BY DEF FanoutInv, AccountedFor
  <2> QED BY <1>1, <1>4, <2>1 DEF AccountedFor
<1> QED BY <1>t, <1>5, <1>6, <1>7, <1>8, <1>9, <1>10, <1>11 DEF FanoutInv

\* A commit asks every listener to look, and passes none that had not passed a
\* higher number before.
LEMMA CommitKeeps == ASSUME FanoutInv, NEW p \in Process, CommitStreamingEvent(p) PROVE FanoutInv'
<1>a. /\ listener \in [Process -> ListenerRow] /\ history \subseteq Row /\ log \subseteq history /\ IsFiniteSet(log)
      /\ Origin(p) \in Process \X Nat /\ tx[p] # NoTx
  BY DEF FanoutInv, TypeOK, ListenerRow, HistoryFits, Origin, CommitStreamingEvent
<1>b. tx[p].seq \in Nat \ {0} /\ tx[p].event \in Nat \ {0} /\ sequence \in Nat /\ tx[p].seq <= sequence
  <2>1. tx[p] \in [seq : Nat, event : Nat] /\ sequence \in Nat
    BY DEF FanoutInv, TypeOK
  <2>2. tx[p].seq \in 1..sequence /\ tx[p].event # 0
    BY <1>a DEF FanoutInv, NumbersFit
  <2> QED BY <2>1, <2>2
<1>1. PICK row \in Row : row = [seq |-> tx[p].seq, origin |-> Origin(p), event |-> tx[p].event,
                                overtaken |-> \E r \in history : r.seq > tx[p].seq]
  <2>1. [seq |-> tx[p].seq, origin |-> Origin(p), event |-> tx[p].event,
         overtaken |-> \E r \in history : r.seq > tx[p].seq] \in Row
    BY <1>a, <1>b DEF Row
  <2> QED BY <2>1
<1>2. /\ row.seq = tx[p].seq /\ row.event = tx[p].event /\ row.origin = Origin(p)
      /\ row.overtaken <=> \E r \in history : r.seq > tx[p].seq
  BY <1>1
<1>3. /\ log' = log \cup {row} /\ history' = history \cup {row} /\ listener' = Notify
      /\ tx' = [tx EXCEPT ![p] = NoTx] /\ UNCHANGED <<queue, bus, epoch, sequence, published, failed, faults>>
  BY <1>1 DEF CommitStreamingEvent
<1>4. /\ tx' \in [Process -> [seq : Nat, event : Nat]]
      /\ tx'[p] = NoTx /\ \A q \in Process \ {p} : tx'[q] = tx[q]
  BY <1>a, <1>3, TransactionEnds
<1>5. /\ row.event \in InFlight(p) /\ row.event \notin InFlight(p)' /\ InFlight(p)' \subseteq InFlight(p)
      /\ \A q \in Process \ {p} : InFlight(q)' = InFlight(q)
      /\ \A q \in Process : Origin(q)' = Origin(q)
  <2>1. /\ tx[p].event \in InFlight(p) /\ tx[p].event \notin InFlight(p)' /\ InFlight(p) = InFlight(p)' \cup {tx[p].event}
        /\ \A q \in Process \ {p} : InFlight(q)' = InFlight(q)
        /\ \A q \in Process : Origin(q)' = Origin(q)
    BY <1>a, <1>3, TransactionEnds
  <2> QED BY <1>2, <2>1
<1>6. \A q \in Process : Unshared(q) \subseteq Unshared(q)' \cup {row.event}
  BY <1>a, <1>2, <1>3, TransactionEnds
<1>7. ASSUME NEW q \in Process
      PROVE  /\ listener'[q] \in ListenerRow /\ listener'[q].phase = listener[q].phase /\ listener'[q].cursor = listener[q].cursor
             /\ listener'[q].past = listener[q].past /\ listener'[q].behind = listener[q].behind
             /\ listener[q].phase = "ready" => listener'[q].pending # 0
  <2>1. listener[q] \in ListenerRow /\ listener[q].pending \in Nat
    BY <1>a DEF ListenerRow
  <2>2. listener'[q] = IF Hears(listener[q]) THEN [listener[q] EXCEPT !.pending = @ + 1] ELSE listener[q]
    BY <1>3 DEF Notify
  <2>3. CASE Hears(listener[q])
    <3>1. listener'[q] = [listener[q] EXCEPT !.pending = listener[q].pending + 1]
      BY <2>2, <2>3
    <3> QED BY <2>1, <3>1 DEF ListenerRow
  <2>4. CASE ~ Hears(listener[q])
    BY <2>1, <2>2, <2>4 DEF Hears
  <2> QED BY <2>3, <2>4
<1>t. TypeOK'
  <2>1. listener' \in [Process -> ListenerRow]
    <3>1. listener' = [q \in Process |-> listener'[q]]
      BY <1>3 DEF Notify
    <3> QED BY <1>7, <3>1
  <2>2. log' \subseteq history' /\ history' \in SUBSET Row
    BY <1>a, <1>3
  <2> QED BY <1>3, <1>4, <2>1, <2>2 DEF FanoutInv, TypeOK, ListenerRow
<1>8. \A r \in history : r.seq \in Nat \ {0} /\ r.event \in Nat \ {0}
  BY <1>a DEF Row
<1>9. \A r \in history : r.seq # row.seq /\ r.event # row.event
  <2>1. \A r \in history : r.seq # row.seq
    BY <1>2 DEF FanoutInv, NumbersFit
  <2>2. \A r \in history : r.event # row.event
    BY <1>5 DEF FanoutInv, FlightsFit
  <2> QED BY <2>1, <2>2
<1>10. FlightsFit'
  <2>1. \A q \in Process : row.event \notin InFlight(q)'
    BY <1>5 DEF FanoutInv, FlightsFit
  <2>2. \A q \in Process : InFlight(q)' \subseteq InFlight(q)
    BY <1>5
  <2> QED BY <1>3, <2>1, <2>2 DEF FanoutInv, FlightsFit
<1>11. QueuesFit'
  <2>1. QueuesFit
    BY DEF FanoutInv
  <2>2. \A q \in Process : \A i \in DOMAIN queue[q] : tx'[q].event < queue[q][i]
    BY <1>a, <1>3, <2>1, TransactionEnds
  <2>3. \A q \in Process : tx'[q] # NoTx => tx'[q] = tx[q] /\ q # p
    BY <1>4
  <2>4. \A q \in Process : row.origin = Origin(q) => q = p
    BY <1>2 DEF Origin
  <2>5. \A f \in InFlight(p)' : row.event < f
    <3>1. InFlight(p)' = {queue[p][i] : i \in DOMAIN queue[p]}
      BY <1>3, <1>4 DEF InFlight, NoTx
    <3> QED BY <1>2, <2>1, <3>1 DEF QueuesFit
  <2>6. ASSUME NEW q \in Process, NEW r \in history', r.origin = Origin(q)
        PROVE  (\A f \in InFlight(q)' : r.event < f) /\ (tx'[q] # NoTx => r.seq < tx'[q].seq)
    <3>1. CASE r = row
      BY <2>3, <2>4, <2>5, <2>6, <3>1
    <3>2. CASE r \in history
      BY <1>5, <2>1, <2>3, <2>6, <3>2 DEF QueuesFit
    <3> QED BY <1>3, <2>6, <3>1, <3>2
  <2> QED BY <1>3, <1>5, <2>1, <2>2, <2>6 DEF QueuesFit, NoTx
<1>12. NumbersFit'
  <2>1. \A q \in Process : tx'[q] # NoTx => tx'[q] = tx[q] /\ q # p
    BY <1>4
  <2>2. \A q \in Process : (tx'[q] = tx[q] /\ q # p) \/ tx'[q].seq = 0
    BY <1>4 DEF NoTx
  <2>3. \A q \in Process : tx[q] # NoTx => tx[q].seq # 0
    BY DEF FanoutInv, NumbersFit, TypeOK
  <2>4. \A q, s \in Process : q # s /\ tx'[q] # NoTx => tx'[q].seq # tx'[s].seq
    BY <2>1, <2>2, <2>3 DEF FanoutInv, NumbersFit
  <2>5. \A q \in Process : \A r \in history : r.seq # tx'[q].seq
    BY <1>8, <2>2 DEF FanoutInv, NumbersFit
  <2>6. \A q \in Process : row.seq # tx'[q].seq
    BY <1>a, <1>b, <1>2, <2>2 DEF FanoutInv, NumbersFit
  <2>7. row.seq <= sequence /\ row.event <= published
    BY <1>b, <1>2, <1>5 DEF FanoutInv, FlightsFit
  <2> QED BY <1>3, <2>1, <2>4, <2>5, <2>6, <2>7 DEF FanoutInv, NumbersFit, NoTx
<1>13. HistoryFits'
  <2>1. IsFiniteSet(log')
    BY <1>a, <1>3, FS_AddElement
  <2>2. \A r, s \in history' : r.seq = s.seq \/ r.event = s.event => r = s
    BY <1>3, <1>9 DEF FanoutInv, HistoryFits
  <2>3. \A r \in history : r.origin = row.origin => r.event < row.event /\ r.seq < row.seq
    BY <1>a, <1>2, <1>5 DEF FanoutInv, QueuesFit
  <2>4. ASSUME NEW r \in history', NEW s \in history', r.origin = s.origin, r.seq < s.seq PROVE r.event < s.event
    <3>1. CASE r \in history /\ s \in history
      BY <2>4, <3>1 DEF FanoutInv, HistoryFits
    <3>2. CASE s = row /\ r \in history
      BY <2>3, <2>4, <3>2
    <3>3. CASE r = row
      <4>1. s = row \/ s.seq < row.seq
        BY <1>3, <2>3, <2>4, <3>3
      <4>2. row.seq \in Nat /\ s.seq \in Nat
        BY <1>b, <1>2, <1>3, <1>8, <2>4
      <4> QED BY <2>4, <3>3, <4>1, <4>2
    <3> QED BY <1>3, <2>4, <3>1, <3>2, <3>3
  <2> QED BY <2>1, <2>2, <2>4 DEF HistoryFits
<1>14. BusesFit'
  <2>1. ASSUME NEW q \in Process, NEW i \in DOMAIN bus[q] PROVE EntryFits(q, bus[q][i])'
    <3>1. EntryFits(q, bus[q][i])
      BY <2>1 DEF FanoutInv, BusesFit
    <3>2. \A s \in Process : InFlight(s)' \subseteq InFlight(s)
      BY <1>5
    <3>3. bus[q][i].seq = 0 /\ row.event = bus[q][i].event => row.origin = Origin(q)
      BY <1>2, <1>5, <3>1 DEF EntryFits
    <3> QED BY <1>3, <1>5, <1>7, <3>1, <3>2, <3>3 DEF EntryFits
  <2> QED BY <1>3, <2>1 DEF FanoutInv, BusesFit
<1>15. AtMostOnce'
  BY <1>3 DEF FanoutInv, AtMostOnce
<1>16. PhasesFit'
  <2>1. \A q \in Process : listener'[q].cursor = 0 \/ \E r \in history' : r.seq = listener'[q].cursor
    BY <1>3, <1>7 DEF FanoutInv, PhasesFit
  <2>2. (\A q \in Worker : q \in Process) /\ (\A q \in Server : q \in Process)
    BY DEF Process
  <2> QED BY <1>3, <1>7, <2>1, <2>2 DEF FanoutInv, PhasesFit
<1>17. NothingUnnoticed'
  <2>1. \A q \in Server : q \in Process
    BY DEF Process
  <2> QED BY <1>7, <2>1 DEF NothingUnnoticed
<1>18. OnlyOvertakenRowsAreSkipped'
  <2> SUFFICES ASSUME NEW q \in Server, Started(q)', NEW r \in log', Owed(q, r)', r.seq <= listener'[q].cursor
               PROVE  OnBus(q, r.event) \/ r.overtaken
    BY <1>3 DEF OnlyOvertakenRowsAreSkipped, OnBus
  <2>0. q \in Process
    BY DEF Process
  <2>1. CASE r \in log
    BY <1>5, <1>7, <2>0, <2>1 DEF FanoutInv, OnlyOvertakenRowsAreSkipped, Owed, Started
  <2>2. CASE r = row
    <3>1. row.seq <= listener[q].cursor
      BY <1>7, <2>0, <2>2
    <3>2. PICK s \in history : s.seq = listener[q].cursor
      BY <1>b, <1>2, <2>0, <3>1 DEF FanoutInv, PhasesFit
    <3>3. s.seq > row.seq
      BY <1>b, <1>2, <1>8, <1>9, <3>1, <3>2
    <3> QED BY <1>2, <2>2, <3>3
  <2> QED BY <1>3, <2>1, <2>2
<1>19. AccountedFor'
  <2>1. \A f \in 1..published : f \in failed \/ (\E q \in Process : f \in Unshared(q)) \/ \E r \in history : r.event = f
    BY DEF FanoutInv, AccountedFor
  <2>2. row \in history' /\ history \subseteq history'
    BY <1>3
  <2> QED BY <1>3, <1>6, <2>1, <2>2 DEF AccountedFor
<1> QED BY <1>t, <1>10, <1>11, <1>12, <1>13, <1>14, <1>15, <1>16, <1>17, <1>18, <1>19 DEF FanoutInv

\* deliver_after reads to the end of the log: it repeats nothing, since what it
\* sends is foreign and newer than the cursor.
LEMMA RecoveryKeeps ==
    ASSUME FanoutInv, NEW p \in Process, listener[p].phase \in {"ready", "relistening"},
           listener[p].phase = "ready" => listener[p].pending > 0,
           Recovered(p), UNCHANGED <<queue, tx, epoch, log, sequence, history, published, failed, faults>>
    PROVE  FanoutInv'
<1> DEFINE rows == RowsAfter(listener[p].cursor)
           news == {r \in rows : r.origin # Origin(p)}
<1>a. /\ listener \in [Process -> ListenerRow] /\ listener[p] \in ListenerRow /\ listener[p].cursor \in Nat /\ listener[p].pending \in Nat
      /\ history \subseteq Row /\ log \subseteq history /\ IsFiniteSet(log) /\ sequence \in Nat
      /\ bus \in [Process -> Seq(Entry)] /\ bus[p] \in Seq(Entry)
  <2>1. listener \in [Process -> ListenerRow]
    BY DEF FanoutInv, TypeOK, ListenerRow
  <2>2. listener[p] \in ListenerRow
    BY <2>1
  <2> QED BY <2>1, <2>2 DEF FanoutInv, TypeOK, HistoryFits, ListenerRow
<1>b. \A r \in history : r.seq \in Nat \ {0} /\ r.event \in Nat \ {0} /\ r.seq <= sequence
  BY <1>a DEF FanoutInv, NumbersFit, Row
<1>c. rows \subseteq log /\ \A r \in log : r \in rows <=> r.seq > listener[p].cursor
  BY DEF RowsAfter
<1> HIDE DEF rows
<1>1. PICK c \in Nat : /\ c = IF rows = {} THEN listener[p].cursor ELSE Newest(rows)
                       /\ \A r \in log : r.seq <= c
                       /\ c >= listener[p].cursor /\ (c = listener[p].cursor \/ \E r \in history : r.seq = c)
  <2>1. CASE rows = {}
    <3>1. \A r \in log : r.seq \in Nat /\ ~ (r.seq > listener[p].cursor)
      BY <1>a, <1>b, <1>c, <2>1
    <3>2. \A r \in log : r.seq <= listener[p].cursor
      BY <1>a, <3>1
    <3> QED BY <1>a, <2>1, <3>2
  <2>2. CASE rows # {}
    <3>1. rows \in SUBSET Row /\ \A r \in rows : r.seq <= sequence
      BY <1>a, <1>b, <1>c
    <3>2. PICK r \in rows : r.seq = Newest(rows) /\ \A s \in rows : s.seq <= Newest(rows)
      BY <1>a, <2>2, <3>1, NewestIsLast
    <3>3. r \in history /\ r.seq \in Nat /\ r.seq > listener[p].cursor
      BY <1>a, <1>b, <1>c
    <3>4. \A s \in log : s.seq <= Newest(rows)
      BY <1>a, <1>b, <1>c, <3>2, <3>3
    <3> QED BY <1>a, <2>2, <3>2, <3>3, <3>4
  <2> QED BY <2>1, <2>2
<1>2. PICK n \in Nat : n = IF listener[p].phase = "ready" THEN listener[p].pending - 1 ELSE listener[p].pending
  BY <1>a
<1>3. PICK x \in ListenerRow : /\ x = [listener[p] EXCEPT !.cursor = c, !.behind = FALSE, !.phase = "ready", !.pending = n]
                               /\ x.cursor = c /\ x.phase = "ready" /\ x.past = listener[p].past
  <2>1. [listener[p] EXCEPT !.cursor = c, !.behind = FALSE, !.phase = "ready", !.pending = n] \in ListenerRow
    BY <1>a DEF ListenerRow
  <2> QED BY <1>a, <2>1 DEF ListenerRow
<1>4. listener' = [listener EXCEPT ![p] = x]
  <2>1. listener' = [listener EXCEPT ![p].cursor = c, ![p].behind = FALSE, ![p].phase = "ready", ![p].pending = n]
    BY <1>1, <1>2 DEF Recovered, rows
  <2> QED BY <1>a, <1>3, <2>1
<1>5. listener' \in [Process -> ListenerRow] /\ listener'[p] = x /\ \A q \in Process \ {p} : listener'[q] = listener[q]
  BY <1>a, <1>4
<1>6. /\ news \subseteq history /\ news \in SUBSET Row /\ IsFiniteSet(news) /\ \A r, s \in news : r.seq = s.seq => r = s
      /\ \A r \in news : r \in log /\ r.origin # Origin(p) /\ r.seq > listener[p].cursor
      /\ \A r \in log : r.origin # Origin(p) /\ r.seq > listener[p].cursor => r \in news
  <2>1. news \subseteq log
    BY <1>c
  <2>2. IsFiniteSet(news)
    BY <1>a, <2>1, FS_Subset
  <2> QED BY <1>a, <1>c, <2>1, <2>2 DEF FanoutInv, HistoryFits
<1>d. PICK m \in Nat : m = Cardinality(news)
  <2> HIDE DEF news
  <2> QED BY <1>6, InOrderIsSorted
<1>7. PICK rank \in [1..m -> news] :
         /\ rank = InOrder(news) /\ \A r \in news : \E i \in 1..m : rank[i] = r
         /\ \A i, j \in 1..m : i < j => rank[i].seq < rank[j].seq
  <2> HIDE DEF news
  <2> QED BY <1>d, <1>6, InOrderIsSorted
<1>8. bus' = [bus EXCEPT ![p] = bus[p] \o [i \in DOMAIN rank |-> [seq |-> rank[i].seq, event |-> rank[i].event]]]
  BY <1>7 DEF Recovered, rows
<1> HIDE DEF news
<1>9. PICK l \in Nat : l = Len(bus[p])
  BY <1>a
<1>10. /\ bus' \in [Process -> Seq(Entry)] /\ \A q \in Process \ {p} : bus'[q] = bus[q]
       /\ DOMAIN bus'[p] = 1..(l + m) /\ DOMAIN bus[p] = 1..l
       /\ \A i \in 1..l : bus'[p][i] = bus[p][i]
       /\ \A i \in 1..m : bus'[p][l + i] = [seq |-> rank[i].seq, event |-> rank[i].event]
  <2>1. PICK new \in Seq(Entry) : /\ new = [i \in 1..m |-> [seq |-> rank[i].seq, event |-> rank[i].event]] /\ Len(new) = m
                                  /\ \A i \in 1..m : new[i] = [seq |-> rank[i].seq, event |-> rank[i].event]
    <3>1. \A i \in 1..m : [seq |-> rank[i].seq, event |-> rank[i].event] \in Entry
      <4>1. \A i \in 1..m : rank[i] \in news
        BY <1>7
      <4>2. \A r \in news : r.seq \in Nat /\ r.event \in Nat \ {0}
        BY <1>b, <1>6
      <4> QED BY <4>1, <4>2 DEF Entry
    <3>2. [i \in 1..m |-> [seq |-> rank[i].seq, event |-> rank[i].event]] \in Seq(Entry)
      BY <3>1
    <3>3. PICK new : new = [i \in 1..m |-> [seq |-> rank[i].seq, event |-> rank[i].event]]
      OBVIOUS
    <3>4. new \in Seq(Entry) /\ DOMAIN new = 1..m
      BY <3>2, <3>3
    <3>5. Len(new) = m
      BY <3>4
    <3>6. \A i \in 1..m : new[i] = [seq |-> rank[i].seq, event |-> rank[i].event]
      BY <3>3
    <3> QED BY <3>3, <3>4, <3>5, <3>6
  <2>2. bus' = [bus EXCEPT ![p] = bus[p] \o new]
    <3>1. DOMAIN rank = 1..m
      BY <1>7
    <3> QED BY <1>8, <2>1, <3>1
  <2>3. bus'[p] = bus[p] \o new /\ bus' \in [Process -> Seq(Entry)] /\ \A q \in Process \ {p} : bus'[q] = bus[q]
    <3>1. bus[p] \o new \in Seq(Entry)
      BY <1>a
    <3> QED BY <1>a, <2>2, <3>1
  <2>4. DOMAIN bus[p] = 1..l /\ Len(bus[p] \o new) = l + m /\ DOMAIN (bus[p] \o new) = 1..(l + m)
    BY <1>a, <1>9, <2>1
  <2>5. \A i \in 1..l : (bus[p] \o new)[i] = bus[p][i]
    BY <1>a, <1>9, <2>1
  <2>6. \A i \in 1..m : (bus[p] \o new)[l + i] = new[i]
    BY <1>a, <1>9, <2>1
  <2> QED BY <2>1, <2>3, <2>4, <2>5, <2>6
<1>11. \A k \in DOMAIN bus'[p] : \/ k \in DOMAIN bus[p] /\ bus'[p][k] = bus[p][k]
                                 \/ \E i \in 1..m : k = l + i /\ rank[i] \in news /\ bus'[p][k].seq = rank[i].seq /\ bus'[p][k].event = rank[i].event
  <2> TAKE k \in DOMAIN bus'[p]
  <2>1. k \in 1..l \/ k - l \in 1..m
    BY <1>10
  <2>2. CASE k \in 1..l
    BY <1>10, <2>2
  <2>3. CASE k - l \in 1..m
    <3>1. k = l + (k - l)
      BY <1>10
    <3>2. rank[k - l] \in news
      BY <1>7, <2>3
    <3>3. bus'[p][l + (k - l)] = [seq |-> rank[k - l].seq, event |-> rank[k - l].event]
      BY <1>10, <2>3
    <3> QED BY <2>3, <3>1, <3>2, <3>3
  <2> QED BY <2>1, <2>2, <2>3
<1>12. \A q \in Process : InFlight(q)' = InFlight(q) /\ Origin(q)' = Origin(q)
  BY DEF InFlight, Origin
<1>t. TypeOK'
  BY <1>5, <1>10 DEF FanoutInv, TypeOK, ListenerRow
<1>13. FlightsFit' /\ QueuesFit' /\ NumbersFit' /\ HistoryFits'
  BY <1>12 DEF FanoutInv, FlightsFit, QueuesFit, NumbersFit, HistoryFits
<1>14. \A i \in DOMAIN bus[p] : EntryFits(p, bus[p][i]) /\ bus[p][i].event \in Nat /\ bus[p][i].seq \in Nat
  <2>1. \A i \in DOMAIN bus[p] : bus[p][i] \in Entry
    BY <1>a
  <2>2. \A b \in Entry : b.event \in Nat /\ b.seq \in Nat
    BY DEF Entry
  <2> QED BY <2>1, <2>2 DEF FanoutInv, BusesFit
<1>15. \A i \in DOMAIN bus[p] : bus[p][i].seq <= listener[p].cursor
  <2> TAKE i \in DOMAIN bus[p]
  <2>1. CASE bus[p][i].seq = 0
    BY <1>a, <2>1
  <2>2. CASE bus[p][i].seq # 0
    BY <1>14, <2>2 DEF EntryFits
  <2> QED BY <2>1, <2>2
<1>16. \A i \in DOMAIN bus[p], r \in news : bus[p][i].event # r.event
  <2> TAKE i \in DOMAIN bus[p], r \in news
  <2>1. r \in history /\ r.origin # Origin(p) /\ r.seq > listener[p].cursor /\ r.seq \in Nat
    BY <1>b, <1>6
  <2>2. CASE bus[p][i].seq = 0
    BY <1>14, <2>1, <2>2 DEF EntryFits
  <2>3. CASE bus[p][i].seq # 0
    <3>1. PICK s \in history : s.event = bus[p][i].event /\ s.seq <= listener[p].cursor
      BY <1>14, <2>3 DEF EntryFits
    <3>2. s # r
      BY <1>a, <1>b, <2>1, <3>1
    <3> QED BY <2>1, <3>1, <3>2 DEF FanoutInv, HistoryFits
  <2> QED BY <2>2, <2>3
<1>17. ASSUME NEW q \in Process, NEW i \in DOMAIN bus'[q] PROVE EntryFits(q, bus[q][i])'
  <2>1. PICK b : b = bus'[q][i]
    OBVIOUS
  <2>2. CASE q # p
    <3>1. EntryFits(q, b) /\ listener'[q].cursor = listener[q].cursor
      BY <1>5, <1>10, <1>17, <2>1, <2>2 DEF FanoutInv, BusesFit
    <3> QED BY <1>12, <2>1, <3>1 DEF EntryFits
  <2>3. CASE q = p /\ i \in DOMAIN bus[p] /\ b = bus[p][i]
    <3>1. EntryFits(p, b)
      BY <1>14, <2>3
    <3>2. \A r \in history : r.seq <= listener[p].cursor => r.seq <= listener'[p].cursor
      BY <1>a, <1>b, <1>1, <1>3, <1>5
    <3> QED BY <1>12, <2>1, <2>3, <3>1, <3>2 DEF EntryFits
  <2>4. CASE q = p /\ \E k \in 1..m : rank[k] \in news /\ b.seq = rank[k].seq /\ b.event = rank[k].event
    <3>1. PICK r \in news : b.seq = r.seq /\ b.event = r.event
      BY <2>4
    <3>2. r \in history /\ r.origin # Origin(p) /\ r.seq <= listener'[p].cursor /\ r.seq # 0 /\ r.event <= published
      BY <1>b, <1>1, <1>3, <1>5, <1>6 DEF FanoutInv, NumbersFit
    <3> QED BY <1>12, <2>1, <2>4, <3>1, <3>2 DEF EntryFits
  <2> QED BY <1>11, <1>17, <2>1, <2>2, <2>3, <2>4
<1>18. BusesFit'
  <2>1. ASSUME NEW q \in Process, NEW i \in DOMAIN bus'[q], NEW j \in DOMAIN bus'[q], i < j, bus'[q][i].seq # 0, bus'[q][j].seq # 0
        PROVE  bus'[q][i].seq < bus'[q][j].seq
    <3>1. CASE q # p
      BY <1>10, <2>1, <3>1 DEF FanoutInv, BusesFit
    <3>2. CASE q = p /\ i \in DOMAIN bus[p] /\ j \in DOMAIN bus[p]
      BY <1>10, <2>1, <3>2 DEF FanoutInv, BusesFit
    <3>3. CASE q = p /\ i \in DOMAIN bus[p] /\ j \notin DOMAIN bus[p]
      <4>1. PICK r \in news : bus'[p][j].seq = r.seq
        BY <1>11, <2>1, <3>3
      <4>2. r.seq > listener[p].cursor /\ r.seq \in Nat
        BY <1>b, <1>6
      <4>3. bus'[p][i].seq = bus[p][i].seq /\ bus[p][i].seq \in Nat /\ bus[p][i].seq <= listener[p].cursor
        BY <1>10, <1>14, <1>15, <3>3
      <4> QED BY <1>a, <3>3, <4>1, <4>2, <4>3
    <3>4. CASE q = p /\ i \notin DOMAIN bus[p]
      <4>1. PICK k \in 1..m : i = l + k /\ bus'[p][i].seq = rank[k].seq
        BY <1>11, <2>1, <3>4
      <4>2. j \notin DOMAIN bus[p]
        BY <1>10, <2>1, <3>4, <4>1
      <4>3. PICK k2 \in 1..m : j = l + k2 /\ bus'[p][j].seq = rank[k2].seq
        BY <1>11, <2>1, <3>4, <4>2
      <4>4. k < k2
        BY <2>1, <4>1, <4>3
      <4> QED BY <1>7, <3>4, <4>1, <4>3, <4>4
    <3> QED BY <3>1, <3>2, <3>3, <3>4
  <2> QED BY <1>17, <2>1 DEF BusesFit
<1>19. AtMostOnce'
  <2> SUFFICES ASSUME NEW q \in Process, NEW i \in DOMAIN bus'[q], NEW j \in DOMAIN bus'[q], bus'[q][i].event = bus'[q][j].event
               PROVE  i = j
    BY DEF AtMostOnce
  <2>1. CASE q # p
    BY <1>10, <2>1 DEF FanoutInv, AtMostOnce
  <2>2. CASE q = p /\ i \in DOMAIN bus[p] /\ j \in DOMAIN bus[p]
    BY <1>10, <2>2 DEF FanoutInv, AtMostOnce
  <2>a. \A k \in DOMAIN bus'[p] : \/ k \in DOMAIN bus[p] /\ bus'[p][k] = bus[p][k]
                                  \/ k \notin DOMAIN bus[p] /\ \E r \in news : bus'[p][k].event = r.event
    <3> TAKE k \in DOMAIN bus'[p]
    <3>1. CASE \E o \in 1..m : k = l + o /\ rank[o] \in news /\ bus'[p][k].event = rank[o].event
      BY <1>10, <3>1
    <3> QED BY <1>11, <3>1
  <2>3. CASE q = p /\ (i \in DOMAIN bus[p] <=> j \notin DOMAIN bus[p])
    <3>1. CASE i \in DOMAIN bus[p]
      BY <1>16, <2>a, <2>3, <3>1
    <3>2. CASE j \in DOMAIN bus[p]
      BY <1>16, <2>a, <2>3, <3>2
    <3> QED BY <2>3, <3>1, <3>2
  <2>4. CASE q = p /\ i \notin DOMAIN bus[p] /\ j \notin DOMAIN bus[p]
    <3>1. PICK k \in 1..m : i = l + k /\ bus'[p][i].event = rank[k].event /\ rank[k] \in news
      BY <1>11, <2>4
    <3>2. PICK k2 \in 1..m : j = l + k2 /\ bus'[p][j].event = rank[k2].event /\ rank[k2] \in news
      BY <1>11, <2>4
    <3>3. rank[k] = rank[k2]
      <4>1. rank[k] \in history /\ rank[k2] \in history /\ rank[k].event = rank[k2].event
        BY <1>6, <2>4, <3>1, <3>2
      <4> QED BY <4>1 DEF FanoutInv, HistoryFits
    <3>4. ~ (k < k2) /\ ~ (k2 < k)
      <4>1. rank[k].seq \in Nat
        BY <1>b, <1>6, <3>1
      <4> QED BY <1>7, <3>3, <4>1
    <3> QED BY <3>1, <3>2, <3>4
  <2> QED BY <2>1, <2>2, <2>3, <2>4
<1>20. p \in Server
  <2>1. p \notin Worker
    BY DEF FanoutInv, PhasesFit
  <2> QED BY <2>1 DEF Process
<1>21. PhasesFit'
  <2>1. \A q \in Process : listener'[q].cursor = 0 \/ \E r \in history : r.seq = listener'[q].cursor
    <3>1. \A q \in Process : listener[q].cursor = 0 \/ \E r \in history : r.seq = listener[q].cursor
      BY DEF FanoutInv, PhasesFit
    <3>2. listener'[p].cursor = c
      BY <1>3, <1>5
    <3> QED BY <1>1, <1>5, <3>1, <3>2
  <2>2. p \notin Worker
    BY <1>20, FanoutAssumption
  <2>3. \A q \in Worker : listener'[q].phase = "down"
    <3>1. \A q \in Worker : listener'[q] = listener[q]
      BY <1>5, <2>2 DEF Process
    <3> QED BY <3>1 DEF FanoutInv, PhasesFit
  <2>4. \A q \in Server : listener'[q].phase \in {"down", "listening"} => bus'[q] = <<>>
    <3>1. \A q \in Server \ {p} : listener'[q] = listener[q] /\ bus'[q] = bus[q]
      BY <1>5, <1>10 DEF Process
    <3>2. listener'[p].phase = "ready"
      BY <1>3, <1>5
    <3> QED BY <3>1, <3>2 DEF FanoutInv, PhasesFit
  <2> QED BY <2>1, <2>3, <2>4 DEF PhasesFit
<1>22. NothingUnnoticed'
  <2>1. \A q \in Server \ {p} : listener'[q] = listener[q]
    BY <1>5 DEF Process
  <2>2. listener'[p].cursor = c /\ \A r \in log : r.seq <= c
    BY <1>1, <1>3, <1>5
  <2> QED BY <2>1, <2>2 DEF FanoutInv, NothingUnnoticed
<1>23. OnlyOvertakenRowsAreSkipped'
  <2> SUFFICES ASSUME NEW q \in Server, Started(q)', NEW r \in log, Owed(q, r)', r.seq <= listener'[q].cursor
               PROVE  OnBus(q, r.event)' \/ r.overtaken
    BY DEF OnlyOvertakenRowsAreSkipped, OnBus
  <2>0. q \in Process
    BY DEF Process
  <2>1. CASE q # p
    <3>1. listener'[q] = listener[q] /\ bus'[q] = bus[q]
      BY <1>5, <1>10, <2>0, <2>1
    <3> QED BY <1>12, <2>0, <3>1 DEF FanoutInv, OnlyOvertakenRowsAreSkipped, Started, Owed, OnBus
  <2>2. CASE q = p
    <3>1. r.origin # Origin(p) /\ r.seq \notin listener[p].past
      BY <1>3, <1>5, <1>12, <2>2 DEF Owed
    <3>2. CASE r.seq <= listener[p].cursor
      <4>1. OnBus(p, r.event) \/ r.overtaken
        BY <2>2, <3>1, <3>2 DEF FanoutInv, OnlyOvertakenRowsAreSkipped, Started, Owed
      <4>2. OnBus(p, r.event) => OnBus(p, r.event)'
        <5>1. \A i \in DOMAIN bus[p] : i \in DOMAIN bus'[p] /\ bus'[p][i] = bus[p][i]
          BY <1>10
        <5> QED BY <5>1 DEF OnBus
      <4> QED BY <2>2, <4>1, <4>2
    <3>3. CASE r.seq > listener[p].cursor
      <4>1. PICK i \in 1..m : rank[i] = r
        BY <1>6, <1>7, <3>1, <3>3
      <4>2. l + i \in DOMAIN bus'[p] /\ bus'[p][l + i].event = r.event
        <5>1. l + i \in 1..(l + m)
          OBVIOUS
        <5>2. bus'[p][l + i] = [seq |-> r.seq, event |-> r.event]
          BY <1>10, <4>1
        <5> QED BY <1>10, <5>1, <5>2
      <4> QED BY <2>2, <4>2 DEF OnBus
    <3>4. r.seq \in Nat
      BY <1>a, <1>b
    <3> QED BY <1>a, <3>2, <3>3, <3>4
  <2> QED BY <2>1, <2>2
<1>24. AccountedFor'
  <2>1. \A q \in Process : Unshared(q) \subseteq Unshared(q)'
    <3>1. \A q \in Process : \A i \in DOMAIN bus[q] : i \in DOMAIN bus'[q] /\ bus'[q][i] = bus[q][i]
      <4>1. 1..l \subseteq 1..(l + m)
        OBVIOUS
      <4> QED BY <1>10, <4>1
    <3> QED BY <3>1 DEF Unshared, HasPublicationQueue
  <2> QED BY <2>1 DEF FanoutInv, AccountedFor
<1> QED BY <1>t, <1>13, <1>18, <1>19, <1>21, <1>22, <1>23, <1>24 DEF FanoutInv

\* Expired rows leave the log, not its history.
LEMMA RetentionKeeps == ASSUME FanoutInv, NEW p \in Process, DeleteStreamingEventsBefore(p) PROVE FanoutInv'
<1>1. /\ log' \subseteq log /\ faults' = faults + 1
      /\ UNCHANGED <<listener, queue, tx, bus, epoch, sequence, history, published, failed>>
  BY DEF DeleteStreamingEventsBefore, Fault
<1>2. faults' \in Nat
  BY <1>1 DEF FanoutInv, TypeOK
<1>3. TypeOK'
  BY <1>1, <1>2 DEF FanoutInv, TypeOK
<1>4. \A q \in Process : InFlight(q)' = InFlight(q) /\ Origin(q)' = Origin(q) /\ Unshared(q)' = Unshared(q)
  BY <1>1 DEF InFlight, Origin, Unshared
<1>5. IsFiniteSet(log')
  BY <1>1, FS_Subset DEF FanoutInv, HistoryFits
<1>6. FlightsFit' /\ QueuesFit' /\ NumbersFit' /\ HistoryFits' /\ AtMostOnce' /\ AccountedFor' /\ PhasesFit'
  BY <1>1, <1>4, <1>5 DEF FanoutInv, FlightsFit, QueuesFit, NumbersFit, HistoryFits, AtMostOnce, AccountedFor, PhasesFit
<1>7. BusesFit'
  BY <1>1, <1>4 DEF FanoutInv, BusesFit, EntryFits
<1>8. NothingUnnoticed'
  BY <1>1 DEF FanoutInv, NothingUnnoticed
<1>9. OnlyOvertakenRowsAreSkipped'
  BY <1>1 DEF FanoutInv, OnlyOvertakenRowsAreSkipped, Started, Owed, Origin, OnBus
<1> QED BY <1>3, <1>6, <1>7, <1>8, <1>9 DEF FanoutInv

\* A process takes with it what only it had, and starts again as another origin.
LEMMA ExitKeeps == ASSUME FanoutInv, NEW p \in Process, Exit(p) PROVE FanoutInv'
<1>a. /\ listener \in [Process -> ListenerRow] /\ queue \in [Process -> Seq(Nat \ {0})] /\ epoch \in [Process -> Nat]
      /\ tx \in [Process -> [seq : Nat, event : Nat]] /\ bus \in [Process -> Seq(Entry)] /\ failed \subseteq Nat /\ faults \in Nat
  BY DEF FanoutInv, TypeOK, ListenerRow
<1>1. /\ failed' = failed \cup Unshared(p) /\ queue' = [queue EXCEPT ![p] = <<>>] /\ tx' = [tx EXCEPT ![p] = NoTx]
      /\ bus' = [bus EXCEPT ![p] = <<>>] /\ epoch' = [epoch EXCEPT ![p] = epoch[p] + 1] /\ listener' = [listener EXCEPT ![p] = Down]
      /\ UNCHANGED <<log, sequence, history, published>> /\ faults' = faults + 1
  BY DEF Exit, Fault
<1>b. Down \in ListenerRow /\ Down.phase = "down" /\ Down.cursor = 0 /\ NoTx \in [seq : Nat, event : Nat] /\ NoTx.event = 0 /\ NoTx.seq = 0
  BY DEF Down, ListenerRow, NoTx
<1>2. /\ queue'[p] = <<>> /\ tx'[p] = NoTx /\ bus'[p] = <<>> /\ listener'[p] = Down
      /\ \A q \in Process \ {p} : /\ queue'[q] = queue[q] /\ tx'[q] = tx[q] /\ bus'[q] = bus[q]
                                  /\ epoch'[q] = epoch[q] /\ listener'[q] = listener[q]
  BY <1>a, <1>1
<1>3. /\ InFlight(p)' = {} /\ \A q \in Process \ {p} : InFlight(q)' = InFlight(q) /\ Origin(q)' = Origin(q) /\ Unshared(q)' = Unshared(q)
      /\ Unshared(p) \subseteq failed'
  BY <1>b, <1>1, <1>2 DEF InFlight, Origin, Unshared, HasPublicationQueue
<1>t. TypeOK'
  <2>1. /\ listener' \in [Process -> ListenerRow] /\ queue' \in [Process -> Seq(Nat \ {0})] /\ epoch' \in [Process -> Nat]
        /\ tx' \in [Process -> [seq : Nat, event : Nat]] /\ bus' \in [Process -> Seq(Entry)] /\ faults' \in Nat
    <3>1. <<>> \in Seq(Nat \ {0}) /\ <<>> \in Seq(Entry)
      OBVIOUS
    <3>2. epoch[p] + 1 \in Nat /\ faults' \in Nat
      BY <1>a, <1>1
    <3> QED BY <1>a, <1>b, <1>1, <3>1, <3>2
  <2>2. failed' \subseteq Nat
    <3>1. \A i \in DOMAIN queue[p] : queue[p][i] \in Nat
      BY <1>a
    <3>2. \A i \in DOMAIN bus[p] : bus[p][i].event \in Nat
      <4>1. \A i \in DOMAIN bus[p] : bus[p][i] \in Entry
        BY <1>a
      <4> QED BY <4>1 DEF Entry
    <3>3. Unshared(p) \subseteq Nat
      BY <1>a, <3>1, <3>2 DEF Unshared
    <3> QED BY <1>a, <1>1, <3>3
  <2>3. log' \subseteq history' /\ history' \in SUBSET Row /\ {sequence', published'} \subseteq Nat
    BY <1>1 DEF FanoutInv, TypeOK
  <2> QED BY <2>1, <2>2, <2>3 DEF TypeOK, ListenerRow
<1>4. FlightsFit'
  BY <1>1, <1>3 DEF FanoutInv, FlightsFit
<1>5. QueuesFit'
  BY <1>1, <1>2, <1>3 DEF FanoutInv, QueuesFit, NoTx
<1>6. NumbersFit'
  <2>1. \A r \in history : r.seq # 0
    BY DEF FanoutInv, TypeOK, Row
  <2>2. \A q \in Process : tx[q] # NoTx => tx[q].seq # 0
    BY DEF FanoutInv, NumbersFit, TypeOK
  <2>3. \A q, s \in Process : q # s /\ tx'[q] # NoTx => tx'[q].seq # tx'[s].seq
    BY <1>b, <1>2, <2>2 DEF FanoutInv, NumbersFit
  <2>4. \A q \in Process : tx'[q] # NoTx => tx'[q].seq \in 1..sequence /\ tx'[q].event # 0
    BY <1>2 DEF FanoutInv, NumbersFit
  <2>5. \A q \in Process : \A r \in history : r.seq # tx'[q].seq
    BY <1>b, <1>2, <2>1 DEF FanoutInv, NumbersFit
  <2> QED BY <1>1, <2>3, <2>4, <2>5 DEF FanoutInv, NumbersFit, NoTx
<1>7. HistoryFits'
  BY <1>1 DEF FanoutInv, HistoryFits
<1>8. BusesFit'
  <2>1. \A s \in Process : InFlight(s)' \subseteq InFlight(s)
    BY <1>3
  <2>2. ASSUME NEW q \in Process, q # p, NEW i \in DOMAIN bus[q] PROVE EntryFits(q, bus[q][i])'
    <3>1. EntryFits(q, bus[q][i]) /\ bus'[q] = bus[q] /\ listener'[q] = listener[q] /\ Origin(q)' = Origin(q)
      BY <1>2, <1>3, <2>2 DEF FanoutInv, BusesFit
    <3> QED BY <1>1, <2>1, <3>1 DEF EntryFits
  <2>3. \A q \in Process : \A i \in DOMAIN bus'[q] : q # p /\ i \in DOMAIN bus[q]
    BY <1>2
  <2> QED BY <1>2, <2>2, <2>3 DEF FanoutInv, BusesFit
<1>9. AtMostOnce'
  BY <1>2 DEF FanoutInv, AtMostOnce
<1>10. PhasesFit' /\ NothingUnnoticed'
  BY <1>b, <1>1, <1>2 DEF FanoutInv, PhasesFit, NothingUnnoticed, Process
<1>11. OnlyOvertakenRowsAreSkipped'
  <2> SUFFICES ASSUME NEW q \in Server, Started(q)', NEW r \in log, Owed(q, r)', r.seq <= listener'[q].cursor
               PROVE  OnBus(q, r.event)' \/ r.overtaken
    BY <1>1 DEF OnlyOvertakenRowsAreSkipped, OnBus
  <2>1. q \in Process /\ q # p
    BY <1>b, <1>2 DEF Process, Started
  <2> QED BY <1>2, <1>3, <2>1 DEF FanoutInv, OnlyOvertakenRowsAreSkipped, Started, Owed, OnBus
<1>12. AccountedFor'
  <2>1. \A f \in 1..published : f \in failed \/ (\E q \in Process : f \in Unshared(q)) \/ \E r \in history : r.event = f
    BY DEF FanoutInv, AccountedFor
  <2>2. failed \subseteq failed'
    BY <1>1
  <2> QED BY <1>1, <1>3, <2>1, <2>2 DEF AccountedFor
<1> QED BY <1>t, <1>4, <1>5, <1>6, <1>7, <1>8, <1>9, <1>10, <1>11, <1>12 DEF FanoutInv

\* Every step of every process keeps the invariant.
LEMMA FanoutSteps == ASSUME FanoutInv, [Next]_vars PROVE FanoutInv'
<1>1. ASSUME NEW p \in Process,
             \/ Publish(p) \/ InsertStreamingEvent(p) \/ CommitStreamingEvent(p) \/ PublicationFails(p)
             \/ DeleteStreamingEventsBefore(p) \/ Exit(p)
      PROVE  FanoutInv'
  BY <1>1, PublishKeeps, InsertKeeps, CommitKeeps, PublicationFailsKeeps, RetentionKeeps, ExitKeeps
<1>2. ASSUME NEW p \in Process, Listen(p) \/ InitializeListener(p) \/ Disconnect(p) \/ DriverReconnects(p) \/ Relisten(p)
      PROVE  FanoutInv'
  BY <1>2, ConnectionsKeep
<1>3. ASSUME NEW p \in Process, ReceiveNotification(p) \/ RecoverAfterReconnect(p)
      PROVE  FanoutInv'
  <2>1. /\ listener[p].phase \in {"ready", "relistening"} /\ (listener[p].phase = "ready" => listener[p].pending > 0)
        /\ UNCHANGED <<queue, tx, epoch, log, sequence, history, published, failed>>
        /\ (Recovered(p) /\ UNCHANGED faults) \/ RecoveryFails(p)
    BY <1>3 DEF ReceiveNotification, RecoverAfterReconnect, DeliverAfter
  <2>2. CASE Recovered(p) /\ UNCHANGED faults
    BY <2>1, <2>2, RecoveryKeeps
  <2>3. CASE RecoveryFails(p)
    BY <2>1, <2>3, ConnectionsKeep
  <2> QED BY <2>1, <2>2, <2>3
<1>4. CASE UNCHANGED vars
  <2>1. \A q \in Process : InFlight(q)' = InFlight(q) /\ Origin(q)' = Origin(q) /\ Unshared(q)' = Unshared(q)
    BY <1>4 DEF vars, InFlight, Origin, Unshared
  <2>2. TypeOK'
    BY <1>4 DEF vars, FanoutInv, TypeOK
  <2>3. FlightsFit' /\ QueuesFit' /\ NumbersFit' /\ HistoryFits' /\ AtMostOnce'
    BY <1>4, <2>1 DEF vars, FanoutInv, FlightsFit, QueuesFit, NumbersFit, HistoryFits, AtMostOnce
  <2>4. PhasesFit' /\ AccountedFor' /\ NothingUnnoticed'
    BY <1>4, <2>1 DEF vars, FanoutInv, PhasesFit, AccountedFor, NothingUnnoticed
  <2>5. BusesFit' /\ OnlyOvertakenRowsAreSkipped'
    BY <1>4, <2>1 DEF vars, FanoutInv, BusesFit, EntryFits, OnlyOvertakenRowsAreSkipped, Started, Owed, OnBus, Origin
  <2> QED BY <2>2, <2>3, <2>4, <2>5 DEF FanoutInv
<1> QED BY <1>1, <1>2, <1>3, <1>4 DEF Next

\* However processes publish, commit, listen, lose their connection, clean up,
\* exit and start again, and however many of them there are: a bus repeats no
\* event and keeps the order of every origin, a listener that has nothing
\* outstanding has read the log to its end, only overtaken rows are passed over,
\* and every event is waiting, committed or counted.
THEOREM FanoutIsSafe == Spec => []FanoutSafe
<1>1. Init => FanoutInv
  BY FanoutBegins
<1>2. FanoutInv /\ [Next]_vars => FanoutInv'
  BY FanoutSteps
<1>3. FanoutInv => FanoutSafe
  BY OrderOfOrigins DEF FanoutInv, FanoutSafe
<1> QED
  BY <1>1, <1>2, <1>3, PTL DEF Spec

-----------------------------------------------------------------------------
(* The fan-out is an ordered broadcast *)

\* What is on its way from a process has been heard there.
FlightsAreHeard == \A p \in Process : \A e \in InFlight(p) : OnBus(p, e)

\* deliver_after appends entries of rows to the bus.
LEMMA RecoveryAppends ==
    ASSUME FanoutInv, NEW p \in Process, Recovered(p)
    PROVE  \E new \in Seq(Entry) : /\ bus' = [bus EXCEPT ![p] = bus[p] \o new]
                                   /\ \A i \in 1..Len(new) : new[i].seq # 0
<1> DEFINE rows == RowsAfter(listener[p].cursor)
           news == {r \in rows : r.origin # Origin(p)}
<1>1. /\ news \in SUBSET Row /\ IsFiniteSet(news) /\ \A r, s \in news : r.seq = s.seq => r = s
      /\ \A r \in news : r.seq \in Nat \ {0} /\ r.event \in Nat \ {0}
  <2>1. news \subseteq log /\ log \subseteq history /\ history \subseteq Row /\ IsFiniteSet(log)
    BY DEF RowsAfter, FanoutInv, TypeOK, HistoryFits
  <2>2. IsFiniteSet(news)
    BY <2>1, FS_Subset
  <2> QED BY <2>1, <2>2 DEF FanoutInv, HistoryFits, Row
<1> HIDE DEF rows
<1>2. PICK m \in Nat : m = Cardinality(news)
  <2> HIDE DEF news
  <2> QED BY <1>1, InOrderIsSorted
<1>3. PICK rank \in [1..m -> news] : rank = InOrder(news)
  <2> HIDE DEF news
  <2> QED BY <1>1, <1>2, InOrderIsSorted
<1>4. bus' = [bus EXCEPT ![p] = bus[p] \o [i \in DOMAIN rank |-> [seq |-> rank[i].seq, event |-> rank[i].event]]]
  <2>1. bus' = [bus EXCEPT ![p] = bus[p] \o [i \in DOMAIN InOrder(news) |->
                                      [seq |-> InOrder(news)[i].seq, event |-> InOrder(news)[i].event]]]
    BY Zenon DEF Recovered, rows
  <2> HIDE DEF news
  <2> QED BY <1>3, <2>1
<1> HIDE DEF news
<1>5. PICK new : new = [i \in 1..m |-> [seq |-> rank[i].seq, event |-> rank[i].event]]
  OBVIOUS
<1>6. \A i \in 1..m : rank[i].seq \in Nat \ {0} /\ [seq |-> rank[i].seq, event |-> rank[i].event] \in Entry
  BY <1>1 DEF Entry
<1>7. new \in Seq(Entry) /\ Len(new) = m
  <2>1. new \in [1..m -> Entry]
    BY <1>5, <1>6
  <2> QED BY <2>1
<1>8. \A i \in 1..Len(new) : new[i].seq # 0
  BY <1>5, <1>6, <1>7
<1>9. bus' = [bus EXCEPT ![p] = bus[p] \o new]
  BY <1>4, <1>5
<1> QED BY <1>7, <1>8, <1>9

\* A bus that grows at its end.
LEMMA BusGrows ==
    ASSUME FanoutInv, NEW p \in Process, NEW new \in Seq(Entry), bus' = [bus EXCEPT ![p] = bus[p] \o new]
    PROVE  /\ Len(bus[p]) \in Nat /\ Len(new) \in Nat /\ DOMAIN bus[p] = 1..Len(bus[p])
           /\ bus' \in [Process -> Seq(Entry)] /\ \A q \in Process \ {p} : bus'[q] = bus[q]
           /\ Len(bus'[p]) = Len(bus[p]) + Len(new) /\ DOMAIN bus'[p] = 1..(Len(bus[p]) + Len(new))
           /\ \A i \in 1..Len(bus[p]) : bus'[p][i] = bus[p][i]
           /\ \A i \in 1..Len(new) : bus'[p][Len(bus[p]) + i] = new[i]
<1>1. bus \in [Process -> Seq(Entry)] /\ bus[p] \in Seq(Entry)
  BY DEF FanoutInv, TypeOK
<1>2. PICK b \in Seq(Entry) : b = bus[p]
  BY <1>1
<1>3. b \o new \in Seq(Entry) /\ Len(b \o new) = Len(b) + Len(new) /\ Len(b) \in Nat /\ Len(new) \in Nat
  OBVIOUS
<1>4. /\ \A i \in 1..Len(b) : (b \o new)[i] = b[i]
      /\ \A i \in 1..Len(new) : (b \o new)[Len(b) + i] = new[i]
  OBVIOUS
<1>5. bus'[p] = b \o new /\ bus' \in [Process -> Seq(Entry)] /\ \A q \in Process \ {p} : bus'[q] = bus[q]
  BY <1>1, <1>2, <1>3
<1>6. DOMAIN bus[p] = 1..Len(bus[p]) /\ DOMAIN (b \o new) = 1..(Len(b) + Len(new))
  BY <1>2, <1>3
<1> QED BY <1>2, <1>3, <1>4, <1>5, <1>6

\* An event that is on its way was published by its process: no step breaks that.
LEMMA FlightsStayHeard ==
    ASSUME FanoutInv, FlightsAreHeard, [Next]_vars
    PROVE  FlightsAreHeard'
<1>0. /\ published \in Nat /\ bus \in [Process -> Seq(Entry)] /\ queue \in [Process -> Seq(Nat \ {0})]
      /\ tx \in [Process -> [seq : Nat, event : Nat]]
  BY DEF FanoutInv, TypeOK
<1>1. ASSUME NEW p \in Process, Publish(p) PROVE FlightsAreHeard'
  <2>e. PICK e \in Nat \ {0} : e = published + 1
    BY <1>0
  <2>m. PICK mine \in Entry : mine = [seq |-> 0, event |-> e]
    BY DEF Entry
  <2>1. mine.event = e
    BY <2>m
  <2>2. /\ tx' = tx /\ bus' = [bus EXCEPT ![p] = Append(bus[p], mine)]
        /\ queue' = queue \/ queue' = [queue EXCEPT ![p] = Append(queue[p], e)]
    BY <1>1, <2>e, <2>m DEF Publish
  <2>3. /\ \A q \in Process \ {p} : bus'[q] = bus[q]
        /\ DOMAIN bus'[p] = 1..(Len(bus[p]) + 1) /\ DOMAIN bus[p] = 1..Len(bus[p]) /\ Len(bus[p]) \in Nat
        /\ bus'[p][Len(bus[p]) + 1] = mine /\ \A i \in DOMAIN bus[p] : bus'[p][i] = bus[p][i]
    BY <1>0, <2>2
  <2>4. OnBus(p, e)'
    BY <2>1, <2>3 DEF OnBus
  <2>5. \A q \in Process, f \in Nat : OnBus(q, f) => OnBus(q, f)'
    BY <2>3 DEF OnBus
  <2>6. /\ \A q \in Process \ {p} : queue'[q] = queue[q]
        /\ \A i \in DOMAIN queue'[p] : \/ i \in DOMAIN queue[p] /\ queue'[p][i] = queue[p][i]
                                       \/ queue'[p][i] = e
    <3>1. CASE queue' = [queue EXCEPT ![p] = Append(queue[p], e)]
      BY <1>0, <3>1
    <3>2. CASE queue' = queue
      BY <3>2
    <3> QED BY <2>2, <3>1, <3>2
  <2>7. /\ \A q \in Process \ {p} : InFlight(q)' = InFlight(q)
        /\ InFlight(p)' \subseteq InFlight(p) \cup {e}
    BY <2>2, <2>6 DEF InFlight
  <2>8. \A q \in Process : \A f \in InFlight(q) : f \in Nat /\ OnBus(q, f)
    BY <1>0 DEF InFlight, FlightsAreHeard
  <2>9. \A q \in Process : \A f \in InFlight(q)' : OnBus(q, f)'
    BY <2>4, <2>5, <2>7, <2>8
  <2> QED BY <2>9 DEF FlightsAreHeard
<1>2. ASSUME NEW p \in Process, InsertStreamingEvent(p) PROVE FlightsAreHeard'
  <2>1. PICK h, n : h = Head(queue[p]) /\ n = sequence + 1
    OBVIOUS
  <2>2. /\ bus' = bus /\ queue[p] # <<>> /\ queue' = [queue EXCEPT ![p] = Tail(queue[p])]
        /\ tx' = [tx EXCEPT ![p] = [seq |-> n, event |-> h]]
    BY <1>2, <2>1 DEF InsertStreamingEvent
  <2>3. /\ \A q \in Process \ {p} : queue'[q] = queue[q] /\ tx'[q] = tx[q]
        /\ queue'[p] = Tail(queue[p]) /\ tx'[p].event = h
    BY <1>0, <2>2
  <2>4. /\ \A i \in DOMAIN queue'[p] : i + 1 \in DOMAIN queue[p] /\ queue'[p][i] = queue[p][i + 1]
        /\ h = queue[p][1] /\ 1 \in DOMAIN queue[p]
    BY <1>0, <2>1, <2>2, <2>3
  <2>5. ASSUME NEW q \in Process, NEW f \in InFlight(q)' PROVE f \in InFlight(q)
    <3>1. CASE q # p
      BY <2>3, <2>5, <3>1 DEF InFlight
    <3>2. CASE q = p
      <4>1. f = h \/ \E i \in DOMAIN queue'[p] : f = queue'[p][i]
        BY <2>3, <2>5, <3>2 DEF InFlight
      <4>2. \E i \in DOMAIN queue[p] : f = queue[p][i]
        BY <2>4, <4>1
      <4> QED BY <3>2, <4>2 DEF InFlight
    <3> QED BY <3>1, <3>2
  <2>6. \A q \in Process : \A f \in InFlight(q)' : OnBus(q, f)'
    BY <2>2, <2>5 DEF FlightsAreHeard, OnBus
  <2> QED BY <2>6 DEF FlightsAreHeard
<1>3. ASSUME NEW p \in Process, CommitStreamingEvent(p) \/ PublicationFails(p) PROVE FlightsAreHeard'
  <2>1. bus' = bus /\ queue' = queue /\ tx' = [tx EXCEPT ![p] = NoTx]
    BY <1>3 DEF CommitStreamingEvent, PublicationFails
  <2>2. NoTx.event = 0 /\ tx'[p] = NoTx /\ \A q \in Process \ {p} : tx'[q] = tx[q]
    BY <1>0, <2>1 DEF NoTx
  <2>3. \A q \in Process : InFlight(q)' \subseteq InFlight(q)
    BY <2>1, <2>2 DEF InFlight
  <2> QED BY <2>1, <2>3 DEF FlightsAreHeard, OnBus
<1>4. ASSUME NEW p \in Process, Recovered(p), UNCHANGED <<queue, tx>> PROVE FlightsAreHeard'
  <2>1. PICK new \in Seq(Entry) : bus' = [bus EXCEPT ![p] = bus[p] \o new]
    BY <1>4, RecoveryAppends
  <2>2. /\ \A q \in Process \ {p} : bus'[q] = bus[q]
        /\ DOMAIN bus[p] = 1..Len(bus[p]) /\ DOMAIN bus'[p] = 1..(Len(bus[p]) + Len(new)) /\ Len(bus[p]) \in Nat /\ Len(new) \in Nat
        /\ \A i \in 1..Len(bus[p]) : bus'[p][i] = bus[p][i]
    BY <2>1, BusGrows
  <2>3. \A q \in Process, e \in Nat : OnBus(q, e) => OnBus(q, e)'
    BY <2>2 DEF OnBus
  <2>4. \A q \in Process : InFlight(q)' = InFlight(q) /\ \A e \in InFlight(q) : e \in Nat
    BY <1>0, <1>4 DEF InFlight
  <2> QED BY <2>3, <2>4 DEF FlightsAreHeard
<1>5. ASSUME NEW p \in Process, Exit(p) PROVE FlightsAreHeard'
  <2>1. queue' = [queue EXCEPT ![p] = <<>>] /\ tx' = [tx EXCEPT ![p] = NoTx] /\ bus' = [bus EXCEPT ![p] = <<>>]
    BY <1>5 DEF Exit
  <2>2. /\ NoTx.event = 0 /\ tx'[p] = NoTx /\ queue'[p] = <<>>
        /\ \A q \in Process \ {p} : tx'[q] = tx[q] /\ queue'[q] = queue[q] /\ bus'[q] = bus[q]
    BY <1>0, <2>1 DEF NoTx
  <2>3. InFlight(p)' = {} /\ \A q \in Process \ {p} : InFlight(q)' = InFlight(q)
    BY <2>2 DEF InFlight
  <2> QED BY <2>2, <2>3 DEF FlightsAreHeard, OnBus
<1>6. ASSUME UNCHANGED <<queue, tx, bus>> PROVE FlightsAreHeard'
  BY <1>6 DEF FlightsAreHeard, OnBus, InFlight
<1>7. ASSUME NEW p \in Process, Listen(p) \/ InitializeListener(p) \/ Disconnect(p) \/ DriverReconnects(p) \/ Relisten(p) \/ DeleteStreamingEventsBefore(p)
      PROVE  UNCHANGED <<queue, tx, bus>>
  BY <1>7 DEF Listen, InitializeListener, Disconnect, DriverReconnects, Relisten, DeleteStreamingEventsBefore
<1>8. ASSUME NEW p \in Process, ReceiveNotification(p) \/ RecoverAfterReconnect(p)
      PROVE  UNCHANGED <<queue, tx, bus>> \/ (Recovered(p) /\ UNCHANGED <<queue, tx>>)
  BY <1>8 DEF ReceiveNotification, RecoverAfterReconnect, DeliverAfter, RecoveryFails
<1> QED BY <1>1, <1>2, <1>3, <1>4, <1>5, <1>6, <1>7, <1>8 DEF Next, vars


\* What p has heard.
HeardBy(p) == [i \in 1..Len(bus[p]) |-> bus[p][i].event]

\* What comes from a row may follow all that a process heard before.
HeardInOrder ==
    \A p \in Process : \A i, k \in DOMAIN bus[p] :
        i < k /\ bus[p][k].seq # 0 => Promise!MayFollow(bus[p][i].event, bus[p][k].event)

\* It does: such an entry is foreign, and newer than the foreign ones before it.
LEMMA LaterMayFollow == FanoutInv => HeardInOrder
<1> SUFFICES ASSUME FanoutInv, NEW p \in Process, NEW i \in DOMAIN bus[p], NEW k \in DOMAIN bus[p], i < k, bus[p][k].seq # 0
             PROVE  Promise!MayFollow(bus[p][i].event, bus[p][k].event)
  BY DEF HeardInOrder
<1>1. bus[p][i].event # bus[p][k].event
  <2>1. i # k
    BY DEF FanoutInv, TypeOK
  <2> QED BY <2>1 DEF FanoutInv, AtMostOnce
<1>2. EntryFits(p, bus[p][i]) /\ EntryFits(p, bus[p][k])
  BY DEF FanoutInv, BusesFit
<1>3. ASSUME NEW r \in history, NEW s \in history, r.event = bus[p][i].event, s.event = bus[p][k].event, r.origin = s.origin
      PROVE  bus[p][i].event < bus[p][k].event
  <2>1. s.origin # Origin(p)
    <3>1. PICK t \in history : t.event = bus[p][k].event /\ t.origin # Origin(p)
      BY <1>2 DEF EntryFits
    <3>2. t = s
      BY <1>3, <3>1 DEF FanoutInv, HistoryFits
    <3> QED BY <3>1, <3>2
  <2>2. bus[p][i].seq # 0
    BY <1>2, <1>3, <2>1 DEF EntryFits
  <2>3. r.event < s.event
    BY <1>3, <2>2, OrderOfOrigins DEF OriginOrder
  <2> QED BY <1>3, <2>3
<1>4. ASSUME NEW o \in {[from |-> r.origin, event |-> r.event] : r \in history},
             NEW n \in {[from |-> r.origin, event |-> r.event] : r \in history},
             o.event = bus[p][i].event, n.event = bus[p][k].event, o.from = n.from
      PROVE  bus[p][i].event < bus[p][k].event
  <2>1. PICK r \in history : o = [from |-> r.origin, event |-> r.event]
    OBVIOUS
  <2>2. PICK s \in history : n = [from |-> s.origin, event |-> s.event]
    OBVIOUS
  <2> QED BY <1>3, <1>4, <2>1, <2>2
<1> QED BY <1>1, <1>4 DEF Promise!MayFollow

\* Events on one bus are different, so there are no more of them than were published.
HeardAreFew == \A p \in Process : Len(bus[p]) \in Nat /\ Len(bus[p]) <= published

\* Numbering the entries of a bus by their events is an injection.
LEMMA FewAreHeard == FanoutInv => HeardAreFew
<1> SUFFICES ASSUME FanoutInv, NEW p \in Process PROVE Len(bus[p]) \in Nat /\ Len(bus[p]) <= published
  BY DEF HeardAreFew
<1>1. PICK n \in Nat : n = Len(bus[p]) /\ DOMAIN bus[p] = 1..n /\ bus[p] \in Seq(Entry)
  BY DEF FanoutInv, TypeOK
<1>2. published \in Nat /\ \A i \in 1..n : bus[p][i].event \in 1..published
  <2>1. published \in Nat /\ \A i \in 1..n : bus[p][i] \in Entry /\ EntryFits(p, bus[p][i])
    BY <1>1 DEF FanoutInv, TypeOK, BusesFit
  <2> QED BY <2>1 DEF Entry, EntryFits
<1>3. PICK f : f = [i \in 1..n |-> bus[p][i].event]
  OBVIOUS
<1>4. f \in Injection(1..n, 1..published)
  <2>1. f \in [1..n -> 1..published]
    BY <1>2, <1>3
  <2>2. \A i, j \in 1..n : f[i] = f[j] => i = j
    BY <1>1, <1>3 DEF FanoutInv, AtMostOnce
  <2> QED BY <2>1, <2>2 DEF Injection, IsInjective
<1>5. IsFiniteSet(1..published) /\ Cardinality(1..published) = published /\ Cardinality(1..n) = n
  <2>1. 1 \in Int /\ published \in Int /\ n \in Int
    BY <1>1, <1>2
  <2>2. IsFiniteSet(1..published) /\ Cardinality(1..published) = IF 1 > published THEN 0 ELSE published - 1 + 1
    BY <2>1, FS_Interval
  <2>3. Cardinality(1..n) = IF 1 > n THEN 0 ELSE n - 1 + 1
    BY <2>1, FS_Interval
  <2> QED BY <1>1, <1>2, <2>2, <2>3
<1>6. Cardinality(1..n) <= Cardinality(1..published)
  BY <1>4, <1>5, FS_Injection
<1> QED BY <1>1, <1>5, <1>6

\* Both still hold after a step that keeps the invariant.
LEMMA HeardStaysInOrder == FanoutInv' => HeardInOrder' /\ HeardAreFew'
<1>1. FanoutInv => HeardInOrder /\ HeardAreFew
  BY LaterMayFollow, FewAreHeard
<1> QED BY <1>1, PTL

\* Two sequences, one behind the other.
LEMMA Joined ==
    ASSUME NEW a \in Seq(Nat), NEW b \in Seq(Nat)
    PROVE  /\ a \o b \in Seq(Nat) /\ Len(a \o b) = Len(a) + Len(b) /\ DOMAIN (a \o b) = 1..(Len(a) + Len(b))
           /\ \A i \in 1..Len(a) : (a \o b)[i] = a[i]
           /\ \A i \in 1..Len(b) : (a \o b)[Len(a) + i] = b[i]
OBVIOUS

\* What a process hears is a sequence of numbers.
LEMMA HeardIsTyped ==
    ASSUME FanoutInv, NEW p \in Process
    PROVE  /\ HeardBy(p) \in Seq(Nat \ {0}) /\ HeardBy(p) \in Seq(Nat) /\ Len(HeardBy(p)) = Len(bus[p]) /\ Len(bus[p]) \in Nat
           /\ \A i \in 1..Len(bus[p]) : HeardBy(p)[i] = bus[p][i].event
<1>1. PICK l \in Nat : l = Len(bus[p]) /\ \A i \in 1..l : bus[p][i] \in Entry
  BY DEF FanoutInv, TypeOK
<1>2. \A i \in 1..l : bus[p][i].event \in Nat \ {0}
  BY <1>1 DEF Entry
<1>3. HeardBy(p) = [i \in 1..l |-> bus[p][i].event]
  BY <1>1 DEF HeardBy
<1>4. HeardBy(p) \in [1..l -> Nat \ {0}] /\ HeardBy(p) \in [1..l -> Nat]
  BY <1>2, <1>3
<1>5. HeardBy(p) \in Seq(Nat \ {0}) /\ HeardBy(p) \in Seq(Nat) /\ Len(HeardBy(p)) = l
  BY <1>4
<1> QED BY <1>1, <1>3, <1>5

\* What a listener reads from the log is a hearing of the promise.
LEMMA RecoveryIsHeard ==
    ASSUME FanoutInv, FanoutInv', NEW p \in Process, Recovered(p), UNCHANGED <<epoch, history, published>>
    PROVE  [Promise!Next]_(Promise!vars)
<1>1. PICK new \in Seq(Entry) : /\ bus' = [bus EXCEPT ![p] = bus[p] \o new]
                                /\ \A i \in 1..Len(new) : new[i].seq # 0
  BY RecoveryAppends
<1>2. PICK l \in Nat : l = Len(bus[p])
  BY DEF FanoutInv, TypeOK
<1>3. PICK m \in Nat : m = Len(new)
  OBVIOUS
<1>4. /\ bus \in [Process -> Seq(Entry)] /\ bus' \in [Process -> Seq(Entry)] /\ \A q \in Process \ {p} : bus'[q] = bus[q]
      /\ DOMAIN bus[p] = 1..l /\ Len(bus'[p]) = l + m /\ DOMAIN bus'[p] = 1..(l + m)
      /\ \A i \in 1..l : bus'[p][i] = bus[p][i]
      /\ \A i \in 1..m : bus'[p][l + i] = new[i]
  <2>1. /\ bus \in [Process -> Seq(Entry)] /\ DOMAIN bus[p] = 1..Len(bus[p])
        /\ bus' \in [Process -> Seq(Entry)] /\ \A q \in Process \ {p} : bus'[q] = bus[q]
        /\ Len(bus'[p]) = Len(bus[p]) + Len(new) /\ DOMAIN bus'[p] = 1..(Len(bus[p]) + Len(new))
        /\ \A i \in 1..Len(bus[p]) : bus'[p][i] = bus[p][i]
        /\ \A i \in 1..Len(new) : bus'[p][Len(bus[p]) + i] = new[i]
    <3>1. bus \in [Process -> Seq(Entry)]
      BY DEF FanoutInv, TypeOK
    <3> QED BY <1>1, <3>1, BusGrows
  <2> QED BY <1>2, <1>3, <2>1
<1>5. CASE m = 0
  <2>1. \A q \in Process : HeardBy(q)' = HeardBy(q)
    <3>1. \A q \in Process \ {p} : HeardBy(q)' = HeardBy(q)
      BY <1>4 DEF HeardBy
    <3>2. l + 0 = l /\ Len(bus'[p]) = l
      BY <1>4, <1>5
    <3>3. HeardBy(p)' = HeardBy(p)
      BY <1>2, <1>4, <3>2 DEF HeardBy
    <3> QED BY <3>1, <3>3
  <2>2. [q \in Process |-> HeardBy(q)]' = [q \in Process |-> HeardBy(q)]
    BY <2>1
  <2> QED BY <2>2 DEF Promise!vars, HeardBy
<1>6. CASE m # 0
  <2>1. PICK events : events = [i \in 1..m |-> new[i].event]
    OBVIOUS
  <2>2. m \in 1..published /\ published \in Nat
    <3>1. Len(bus'[p]) <= published'
      BY HeardStaysInOrder DEF HeardAreFew
    <3>2. l + m <= published /\ published \in Nat
      BY <1>4, <3>1 DEF FanoutInv, TypeOK
    <3> QED BY <1>6, <3>2
  <2>3. \A j \in 1..m : l + j \in DOMAIN bus'[p] /\ bus'[p][l + j].seq # 0 /\ bus'[p][l + j].event = events[j]
    BY <1>1, <1>3, <1>4, <2>1
  <2>4. \A j \in 1..m : events[j] <= published /\ \E r \in history : r.event = events[j] /\ r.origin # Origin(p)
    <3>1. (\A i \in DOMAIN bus[p] : EntryFits(p, bus[p][i]))'
      BY DEF FanoutInv, BusesFit
    <3>2. \A i \in DOMAIN bus'[p] :
             /\ bus'[p][i].event <= published
             /\ bus'[p][i].seq # 0 => \E r \in history : r.event = bus'[p][i].event /\ r.origin # Origin(p)
      BY <3>1 DEF EntryFits, Origin
    <3> QED BY <2>3, <3>2
  <2>5. events \in [1..m -> 1..published] /\ Len(events) = m /\ events \in Seq(Nat)
    <3>a. \A j \in 1..m : new[j].event \in Nat \ {0} /\ events[j] = new[j].event
      <4>1. \A j \in 1..m : new[j] \in Entry /\ events[j] = new[j].event
        BY <1>3, <2>1
      <4> QED BY <4>1 DEF Entry
    <3>1. \A j \in 1..m : new[j].event \in 1..published
      BY <2>2, <2>4, <3>a
    <3>2. events \in [1..m -> 1..published]
      BY <2>1, <3>1
    <3>3. events \in [1..m -> Nat]
      BY <2>2, <3>2
    <3>4. events \in Seq(Nat)
      BY <3>3
    <3> QED BY <3>2, <3>3, <3>4
  <2>6. \A i, k \in DOMAIN bus'[p] : i < k /\ bus'[p][k].seq # 0 => Promise!MayFollow(bus'[p][i].event, bus'[p][k].event)
    <3>1. HeardInOrder'
      BY HeardStaysInOrder
    <3> QED BY <3>1 DEF HeardInOrder, Promise!MayFollow
  <2>7. ASSUME NEW j \in 1..m
        PROVE  /\ \E o \in {[from |-> r.origin, event |-> r.event] : r \in history} :
                     o.event = events[j] /\ o.from # <<p, epoch[p]>>
               /\ \A d \in 1..published : Promise!Hears(p, d) => Promise!MayFollow(d, events[j])
               /\ \A i \in 1..(j - 1) : Promise!MayFollow(events[i], events[j])
    <3>1. PICK r \in history : r.event = events[j] /\ r.origin # <<p, epoch[p]>>
      BY <2>4 DEF Origin
    <3>2. ASSUME NEW d \in 1..published, Promise!Hears(p, d) PROVE Promise!MayFollow(d, events[j])
      <4>1. PICK i \in 1..l : bus[p][i].event = d
        BY <1>2, <1>4, <3>2 DEF Promise!Hears
      <4>2. i \in DOMAIN bus'[p] /\ l + j \in DOMAIN bus'[p] /\ i < l + j /\ bus'[p][i].event = d
        BY <1>4, <4>1
      <4> QED BY <2>3, <2>6, <4>2
    <3>3. ASSUME NEW i \in 1..(j - 1) PROVE Promise!MayFollow(events[i], events[j])
      <4>1. i \in 1..m /\ l + i < l + j
        OBVIOUS
      <4>2. /\ l + i \in DOMAIN bus'[p] /\ bus'[p][l + i].event = events[i]
            /\ l + j \in DOMAIN bus'[p] /\ bus'[p][l + j].event = events[j] /\ bus'[p][l + j].seq # 0
        BY <2>3, <4>1
      <4>3. Promise!MayFollow(bus'[p][l + i].event, bus'[p][l + j].event)
        BY <2>6, <4>1, <4>2
      <4> QED BY <4>2, <4>3 DEF Promise!MayFollow
    <3>4. \E o \in {[from |-> s.origin, event |-> s.event] : s \in history} :
             o.event = events[j] /\ o.from # <<p, epoch[p]>>
      <4>1. PICK o : o = [from |-> r.origin, event |-> r.event]
        OBVIOUS
      <4>2. o \in {[from |-> s.origin, event |-> s.event] : s \in history}
        BY <4>1
      <4>3. o.event = events[j] /\ o.from # <<p, epoch[p]>>
        BY <3>1, <4>1
      <4> QED BY <4>2, <4>3, Zenon
    <3>5. \A d \in 1..published : Promise!Hears(p, d) => Promise!MayFollow(d, events[j])
      BY <3>2, Zenon
    <3>6. \A i \in 1..(j - 1) : Promise!MayFollow(events[i], events[j])
      BY <3>3, Zenon
    <3> QED BY <3>4, <3>5, <3>6, Zenon
  <2>8. HeardBy(p)' = HeardBy(p) \o events
    <3>1. PICK h \in Seq(Nat) : h = HeardBy(p) /\ Len(h) = l /\ \A i \in 1..l : h[i] = bus[p][i].event
      BY <1>2, HeardIsTyped
    <3>2. PICK t \in Seq(Nat) : /\ t = h \o events /\ DOMAIN t = 1..(l + m)
                                /\ \A i \in 1..l : t[i] = h[i]
                                /\ \A i \in 1..m : t[l + i] = events[i]
                                /\ t \in [1..(l + m) -> Nat]
      <4>1. PICK e \in Seq(Nat) : e = events /\ Len(e) = m
        BY <2>5
      <4>2. /\ h \o e \in Seq(Nat) /\ Len(h \o e) = Len(h) + Len(e) /\ DOMAIN (h \o e) = 1..(Len(h) + Len(e))
            /\ \A i \in 1..Len(h) : (h \o e)[i] = h[i]
            /\ \A i \in 1..Len(e) : (h \o e)[Len(h) + i] = e[i]
        BY Joined
      <4>3. PICK t \in Seq(Nat) : /\ t = h \o e /\ Len(t) = l + m /\ DOMAIN t = 1..(l + m)
                                  /\ \A i \in 1..l : t[i] = h[i]
                                  /\ \A i \in 1..m : t[l + i] = e[i]
        BY <3>1, <4>1, <4>2
      <4>4. t \in [1..(l + m) -> Nat]
        <5>1. PICK n \in Nat : n = l + m
          OBVIOUS
        <5>2. t \in [1..n -> Nat]
          <6>1. Len(t) = n
            BY <4>3, <5>1
          <6> QED BY <6>1
        <5> QED BY <5>1, <5>2
      <4> QED BY <4>1, <4>3, <4>4
    <3>4. \A k \in 1..(l + m) : t[k] = bus'[p][k].event
      <4> TAKE k \in 1..(l + m)
      <4>1. CASE k \in 1..l
        BY <1>4, <3>1, <3>2, <4>1
      <4>2. CASE k \notin 1..l
        <5>1. PICK i \in 1..m : k = l + i
          <6>1. k - l \in 1..m /\ k = l + (k - l)
            BY <4>2
          <6> QED BY <6>1
        <5> QED BY <2>3, <3>2, <5>1
      <4> QED BY <4>1, <4>2
    <3>5. t = [k \in 1..(l + m) |-> bus'[p][k].event]
      BY <3>2, <3>4
    <3> QED BY <1>4, <3>1, <3>2, <3>5 DEF HeardBy
  <2>9. Promise!Hear(p, events)
    <3>1. [q \in Process |-> HeardBy(q)]' = [[q \in Process |-> HeardBy(q)] EXCEPT ![p] = HeardBy(p) \o events]
      <4>1. \A q \in Process \ {p} : HeardBy(q)' = HeardBy(q)
        BY <1>4 DEF HeardBy
      <4> QED BY <2>8, <4>1
    <3> QED BY <2>5, <2>7, <3>1 DEF Promise!Hear, HeardBy
  <2> QED BY <2>2, <2>5, <2>9 DEF Promise!Next
<1> QED BY <1>5, <1>6

\* publish is heard at once where it is called.
LEMMA PublishIsHeard ==
    ASSUME FanoutInv, NEW p \in Process, Publish(p)
    PROVE  Promise!Publish(p)
<1>0. published \in Nat /\ bus \in [Process -> Seq(Entry)] /\ bus[p] \in Seq(Entry)
  BY DEF FanoutInv, TypeOK
<1>1. PICK e \in Nat \ {0} : e = published + 1
  BY <1>0
<1>2. PICK mine \in Entry : mine = [seq |-> 0, event |-> e]
  BY DEF Entry
<1>3. published' = e /\ bus' = [bus EXCEPT ![p] = Append(bus[p], mine)] /\ UNCHANGED <<epoch, history>>
  BY <1>1, <1>2 DEF Publish
<1>4. PICK l \in Nat : l = Len(bus[p])
  BY <1>0
<1>5. /\ \A q \in Process \ {p} : bus'[q] = bus[q]
      /\ Len(bus'[p]) = l + 1 /\ bus'[p][l + 1] = mine /\ \A i \in 1..l : bus'[p][i] = bus[p][i]
  BY <1>0, <1>3, <1>4
<1>6. PICK h \in Seq(Nat) : h = HeardBy(p) /\ Len(h) = l /\ \A i \in 1..l : h[i] = bus[p][i].event
  BY <1>4, HeardIsTyped
<1>7. HeardBy(p)' = Append(h, e)
  <2>1. /\ Append(h, e) \in Seq(Nat) /\ Len(Append(h, e)) = l + 1 /\ Append(h, e)[l + 1] = e
        /\ \A i \in 1..l : Append(h, e)[i] = h[i]
    BY <1>6
  <2>2. PICK t \in Seq(Nat) : t = Append(h, e) /\ Len(t) = l + 1 /\ t[l + 1] = e /\ \A i \in 1..l : t[i] = h[i]
    BY <2>1
  <2>3. PICK n \in Nat : n = l + 1
    OBVIOUS
  <2>4. t \in [1..n -> Nat]
    <3>1. Len(t) = n
      BY <2>2, <2>3
    <3> QED BY <3>1
  <2>5. \A k \in 1..n : t[k] = bus'[p][k].event
    <3>1. mine.event = e
      BY <1>2
    <3>2. \A k \in 1..n : k \in 1..l \/ k = l + 1
      BY <2>3
    <3>3. \A k \in 1..l : t[k] = bus'[p][k].event
      BY <1>5, <1>6, <2>2
    <3>4. t[l + 1] = bus'[p][l + 1].event
      BY <1>5, <2>2, <3>1
    <3> QED BY <3>2, <3>3, <3>4
  <2>6. t = [k \in 1..n |-> bus'[p][k].event]
    BY <2>4, <2>5
  <2> QED BY <1>5, <2>2, <2>3, <2>6 DEF HeardBy
<1>8. [q \in Process |-> HeardBy(q)]' = [[q \in Process |-> HeardBy(q)] EXCEPT ![p] = Append(HeardBy(p), e)]
  <2>1. \A q \in Process \ {p} : HeardBy(q)' = HeardBy(q)
    BY <1>5 DEF HeardBy
  <2> QED BY <1>6, <1>7, <2>1
<1> QED BY <1>1, <1>3, <1>8 DEF Promise!Publish, HeardBy

\* insert_streaming_event commits what its process published, once, and behind
\* all that the process has committed since it started.
LEMMA CommitIsOffered ==
    ASSUME FanoutInv, FlightsAreHeard, NEW p \in Process, CommitStreamingEvent(p)
    PROVE  \E e \in 1..published : Promise!Offer(p, e)
<1>0. /\ published \in Nat /\ tx \in [Process -> [seq : Nat, event : Nat]] /\ bus \in [Process -> Seq(Entry)]
      /\ tx[p] # NoTx /\ UNCHANGED <<bus, epoch, published>>
  BY DEF FanoutInv, TypeOK, CommitStreamingEvent
<1>1. PICK e \in Nat \ {0} : e = tx[p].event /\ e \in InFlight(p)
  BY <1>0 DEF FanoutInv, NumbersFit, InFlight
<1>2. e \in 1..published
  BY <1>0, <1>1 DEF FanoutInv, FlightsFit
<1>3. Promise!Hears(p, e)
  <2>1. PICK i \in DOMAIN bus[p] : bus[p][i].event = e
    BY <1>1 DEF FlightsAreHeard, OnBus
  <2>2. PICK l \in Nat : l = Len(bus[p]) /\ DOMAIN bus[p] = 1..l
    BY <1>0
  <2>3. PICK h : h = [k \in 1..l |-> bus[p][k].event]
    OBVIOUS
  <2>4. i \in 1..Len(h) /\ h[i] = e
    BY <2>1, <2>2, <2>3
  <2> QED BY <2>2, <2>3, <2>4 DEF Promise!Hears
<1>4. ASSUME NEW o \in {[from |-> r.origin, event |-> r.event] : r \in history}
      PROVE  o.event # e /\ (o.from = <<p, epoch[p]>> => o.event < e)
  <2>1. PICK r \in history : o = [from |-> r.origin, event |-> r.event]
    OBVIOUS
  <2>2. r.event # e /\ (r.origin = <<p, epoch[p]>> => r.event < e)
    BY <1>1 DEF FanoutInv, FlightsFit, QueuesFit, Origin
  <2> QED BY <2>1, <2>2
<1>5. {[from |-> r.origin, event |-> r.event] : r \in history'}
        = {[from |-> r.origin, event |-> r.event] : r \in history} \cup {[from |-> <<p, epoch[p]>>, event |-> e]}
  <2>1. PICK row : history' = history \cup {row} /\ row.origin = <<p, epoch[p]>> /\ row.event = e
    <3>1. PICK row : row = [seq |-> tx[p].seq, origin |-> Origin(p), event |-> tx[p].event,
                            overtaken |-> \E r \in history : r.seq > tx[p].seq]
      OBVIOUS
    <3>2. history' = history \cup {row}
      BY <3>1 DEF CommitStreamingEvent
    <3>3. row.origin = <<p, epoch[p]>> /\ row.event = e
      BY <1>1, <3>1 DEF Origin
    <3> QED BY <3>2, <3>3
  <2> QED BY <2>1
<1>6. Promise!Offer(p, e)
  BY <1>0, <1>3, <1>4, <1>5 DEF Promise!Offer
<1> QED BY <1>2, <1>6

\* A process that exits has heard nothing when it starts again, as a new origin.
LEMMA ExitIsRestart ==
    ASSUME FanoutInv, NEW p \in Process, Exit(p)
    PROVE  Promise!Restart(p)
<1>0. bus \in [Process -> Seq(Entry)] /\ epoch \in [Process -> Nat]
  BY DEF FanoutInv, TypeOK
<1>1. /\ bus' = [bus EXCEPT ![p] = <<>>] /\ epoch' = [epoch EXCEPT ![p] = epoch[p] + 1] /\ UNCHANGED <<history, published>>
  BY DEF Exit
<1>2. bus'[p] = <<>> /\ \A q \in Process \ {p} : bus'[q] = bus[q]
  BY <1>0, <1>1
<1>3. HeardBy(p)' = <<>>
  BY <1>2 DEF HeardBy
<1>4. [q \in Process |-> HeardBy(q)]' = [[q \in Process |-> HeardBy(q)] EXCEPT ![p] = <<>>]
  <2>1. \A q \in Process \ {p} : HeardBy(q)' = HeardBy(q)
    BY <1>2 DEF HeardBy
  <2> QED BY <1>3, <2>1
<1> QED BY <1>1, <1>4 DEF Promise!Restart, HeardBy

\* What sockets cannot see.
LEMMA OthersAreUnseen ==
    ASSUME UNCHANGED <<bus, epoch, history, published>>
    PROVE  UNCHANGED Promise!vars
BY DEF Promise!vars

\* Every step of the fan-out is one of the broadcast, or is not seen.
LEMMA StepsKeepThePromise ==
    ASSUME FanoutInv, FanoutInv', FlightsAreHeard, [Next]_vars
    PROVE  [Promise!Next]_(Promise!vars)
<1>1. ASSUME NEW p \in Process, Publish(p) \/ Exit(p) PROVE Promise!Next
  BY <1>1, PublishIsHeard, ExitIsRestart DEF Promise!Next
<1>2. ASSUME NEW p \in Process, CommitStreamingEvent(p) PROVE Promise!Next
  BY <1>2, CommitIsOffered DEF Promise!Next
<1>3. ASSUME NEW p \in Process, ReceiveNotification(p) \/ RecoverAfterReconnect(p)
      PROVE  [Promise!Next]_(Promise!vars)
  <2>1. /\ UNCHANGED <<epoch, history, published>>
        /\ Recovered(p) \/ UNCHANGED bus
    BY <1>3 DEF ReceiveNotification, RecoverAfterReconnect, DeliverAfter, RecoveryFails
  <2>2. CASE Recovered(p)
    BY <2>1, <2>2, RecoveryIsHeard
  <2>3. CASE UNCHANGED bus
    BY <2>1, <2>3, OthersAreUnseen
  <2> QED BY <2>1, <2>2, <2>3
<1>4. ASSUME NEW p \in Process,
             \/ InsertStreamingEvent(p) \/ PublicationFails(p) \/ Listen(p) \/ InitializeListener(p)
             \/ Disconnect(p) \/ DriverReconnects(p) \/ Relisten(p) \/ DeleteStreamingEventsBefore(p)
      PROVE  UNCHANGED <<bus, epoch, history, published>>
  BY <1>4 DEF InsertStreamingEvent, PublicationFails, Listen, InitializeListener, Disconnect,
              DriverReconnects, Relisten, DeleteStreamingEventsBefore
<1>5. CASE UNCHANGED vars
  <2>1. UNCHANGED <<bus, epoch, history, published>>
    BY <1>5 DEF vars
  <2> QED BY <2>1, OthersAreUnseen
<1> QED BY <1>1, <1>2, <1>3, <1>4, <1>5, OthersAreUnseen DEF Next

\* For any processes, faults and interleavings, what the sockets of the processes
\* see of publish, insert_streaming_event, deliver_after and restarts is an
\* ordered broadcast: a process hears what it publishes at once, the others hear
\* it at most once, in the order of its origin and only after it was offered, and
\* what is lost on the way shows as nothing but silence.
THEOREM FanoutImplementsBroadcast == Spec => ImplementsBroadcast
<1>1. Init => Promise!Init /\ FanoutInv /\ FlightsAreHeard
  <2> SUFFICES ASSUME Init PROVE Promise!Init /\ FanoutInv /\ FlightsAreHeard
    OBVIOUS
  <2>1. FlightsAreHeard
    BY DEF Init, FlightsAreHeard, InFlight, NoTx
  <2>2. published = 0 /\ history = {} /\ epoch = [p \in Process |-> 0] /\ bus = [p \in Process |-> <<>>]
    BY DEF Init
  <2>3. \A p \in Process : HeardBy(p) = <<>>
    BY <2>2 DEF HeardBy
  <2>4. [p \in Process |-> HeardBy(p)] = [p \in Process |-> <<>>]
    BY <2>3
  <2>5. Promise!Init
    BY <2>2, <2>4 DEF Promise!Init, HeardBy
  <2> QED BY <2>1, <2>5, FanoutBegins
<1>2. FanoutInv /\ FlightsAreHeard /\ [Next]_vars => FanoutInv' /\ FlightsAreHeard'
  BY FanoutSteps, FlightsStayHeard
<1>3. FanoutInv /\ FanoutInv' /\ FlightsAreHeard /\ [Next]_vars => [Promise!Next]_(Promise!vars)
  BY StepsKeepThePromise
<1> QED
  BY <1>1, <1>2, <1>3, PTL DEF Spec, ImplementsBroadcast, Promise!Spec
=============================================================================
