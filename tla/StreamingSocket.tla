--------------------------- MODULE StreamingSocket ---------------------------
(***************************************************************************)
(* The WebSocket side of one process: a permit per socket, a receiver of   *)
(* the bounded broadcast channel, the subscribed streams, and the ping and *)
(* idle timers. Time advances in ticks; everything a timer or the client   *)
(* owes happens before the next one. Events are numbered, and EventStreams *)
(* says which streams of the account an event belongs to.                  *)
(***************************************************************************)
EXTENDS Naturals, FiniteSets, Sequences

CONSTANTS
    Socket,
    MaxConnections, PingInterval, IdleTimeout,
    BroadcastCapacity,          \* of the local channel (1024)
    Stream,                     \* stream names a client may send
    EventStreams,               \* streams of each event, in order of publication
    MaxConnects                 \* bound: sockets accepted

ASSUME SocketAssumption ==
    /\ {MaxConnections, PingInterval, IdleTimeout, BroadcastCapacity, MaxConnects} \subseteq Nat \ {0}
    /\ PingInterval < IdleTimeout   \* Config::from_env rejects anything else
    /\ "user" \in Stream /\ IsFiniteSet(Socket)
    /\ EventStreams \in Seq(SUBSET Stream)

VARIABLES
    permits,    \* left in the semaphore
    sent,       \* events on the broadcast channel
    sock,       \* [st, client, streams, next, ping, idle, due] of every socket
    left,       \* why a socket ended
    connects

socket_vars == <<permits, sent, sock, left, connects>>

Closed == [st |-> "closed", client |-> "live", streams |-> {}, next |-> 1,
           ping |-> 0, idle |-> 0, due |-> FALSE]

SocketTypeOK ==
    /\ permits \in 0..MaxConnections
    /\ sent \in 0..Len(EventStreams)
    /\ \A s \in Socket :
        /\ sock[s].st \in {"closed", "upgrading", "open"}
        /\ sock[s].streams \subseteq Stream
        /\ sock[s].st = "open" => sock[s].streams # {}
        /\ sock[s].ping \in 0..PingInterval /\ sock[s].idle \in 0..IdleTimeout

SocketInit ==
    /\ permits = MaxConnections
    /\ sent = 0
    /\ sock = [s \in Socket |-> Closed]
    /\ left = [s \in Socket |-> <<"none", "live">>]
    /\ connects = 0
-----------------------------------------------------------------------------
Open(s) == sock[s].st = "open"

\* The permit and the active-connection guard are dropped with the task.
Close(s, why) ==
    /\ sock' = [sock EXCEPT ![s] = Closed]
    /\ left' = [left EXCEPT ![s] = <<why, sock[s].client>>]
    /\ permits' = permits + 1
    /\ UNCHANGED <<sent, connects>>

\* streaming_response: no permit, no socket.
Connect(s) ==
    /\ sock[s].st = "closed" /\ connects < MaxConnects
    /\ connects' = connects + 1
    /\ IF permits = 0
       THEN left' = [left EXCEPT ![s] = <<"rejected", "live">>] /\ UNCHANGED <<permits, sock>>
       ELSE /\ permits' = permits - 1
            /\ sock' = [sock EXCEPT ![s].st = "upgrading"]
            /\ UNCHANGED left
    /\ UNCHANGED sent

\* mutant: the permit of a handshake that fails is not returned
UpgradeFails_Leaks(s) ==
    /\ sock[s].st = "upgrading"
    /\ sock' = [sock EXCEPT ![s] = Closed]
    /\ UNCHANGED <<permits, left, sent, connects>>
UpgradeFails(s) == sock[s].st = "upgrading" /\ Close(s, "handshake")

\* handle_streaming_socket starts: it sees the events sent from now on.
Upgraded(s) ==
    /\ sock[s].st = "upgrading"
    /\ \E stream \in Stream :
        sock' = [sock EXCEPT ![s] = [Closed EXCEPT !.st = "open", !.streams = {stream},
                                                   !.next = sent + 1]]
    /\ UNCHANGED <<permits, sent, left, connects>>

Broadcast ==
    /\ sent < Len(EventStreams)
    /\ sent' = sent + 1
    /\ UNCHANGED <<permits, sock, left, connects>>

\* A send to a client that does not read runs into its deadline.
ReceiveEvent(s) ==
    /\ Open(s) /\ sock[s].next <= sent
    /\ IF sent - sock[s].next >= BroadcastCapacity
       THEN /\ sock' = [sock EXCEPT ![s].next = sent - BroadcastCapacity + 1]
            /\ UNCHANGED <<permits, sent, left, connects>>
       ELSE IF sock[s].client = "stuck" /\ EventStreams[sock[s].next] \cap sock[s].streams # {}
       THEN Close(s, "send")
       ELSE /\ sock' = [sock EXCEPT ![s].next = @ + 1]
            /\ UNCHANGED <<permits, sent, left, connects>>

update_stream_subscription(action, stream, streams) ==
    LET updated == IF action = "subscribe" THEN streams \cup {stream} ELSE streams \ {stream}
    IN IF updated = {} THEN {"user"} ELSE updated

\* A text frame: it also restarts the idle timer.
Control(s) ==
    /\ Open(s) /\ sock[s].client = "live"
    /\ \E action \in {"subscribe", "unsubscribe"}, stream \in Stream :
        sock' = [sock EXCEPT ![s].idle = 0,
                             ![s].streams = update_stream_subscription(action, stream, @)]
    /\ UNCHANGED <<permits, sent, left, connects>>

\* mutant: a sent ping counts as a sign of life
SendPing_Resets(s) ==
    /\ Open(s) /\ sock[s].ping = PingInterval
    /\ IF sock[s].client = "stuck" THEN Close(s, "send")
       ELSE /\ sock' = [sock EXCEPT ![s].ping = 0, ![s].due = TRUE, ![s].idle = 0]
            /\ UNCHANGED <<permits, sent, left, connects>>
SendPing(s) ==
    /\ Open(s) /\ sock[s].ping = PingInterval
    /\ IF sock[s].client = "stuck" THEN Close(s, "send")
       ELSE /\ sock' = [sock EXCEPT ![s].ping = 0, ![s].due = TRUE]
            /\ UNCHANGED <<permits, sent, left, connects>>

\* Any frame from the client restarts the idle timer.
Pong(s) ==
    /\ Open(s) /\ sock[s].due /\ sock[s].client = "live"
    /\ sock' = [sock EXCEPT ![s].due = FALSE, ![s].idle = 0]
    /\ UNCHANGED <<permits, sent, left, connects>>

IdleTimerFires(s) == Open(s) /\ sock[s].idle = IdleTimeout /\ Close(s, "idle")

ClientCloses(s) == Open(s) /\ sock[s].client = "live" /\ Close(s, "client")

\* The client goes away without a word, or stops reading.
ClientStops(s) ==
    /\ Open(s) /\ sock[s].client = "live"
    /\ \E client \in {"silent", "stuck"} : sock' = [sock EXCEPT ![s].client = client]
    /\ UNCHANGED <<permits, sent, left, connects>>

\* Time passes once timers and answers that are due have been dealt with.
Tick ==
    /\ \E s \in Socket : Open(s)
    /\ \A s \in Socket : Open(s) =>
        /\ sock[s].ping < PingInterval /\ sock[s].idle < IdleTimeout
        /\ ~(sock[s].due /\ sock[s].client = "live")
    /\ sock' = [s \in Socket |-> IF Open(s)
                  THEN [sock[s] EXCEPT !.ping = @ + 1, !.idle = @ + 1] ELSE sock[s]]
    /\ UNCHANGED <<permits, sent, left, connects>>

SocketNext ==
    \/ Broadcast \/ Tick
    \/ \E s \in Socket :
        \/ Connect(s) \/ UpgradeFails(s) \/ Upgraded(s) \/ ReceiveEvent(s) \/ Control(s)
        \/ SendPing(s) \/ Pong(s) \/ IdleTimerFires(s) \/ ClientCloses(s) \/ ClientStops(s)

\* Timers fire, handshakes end and a live client answers pings; clients need not
\* connect, write or stop. Clock and timers always get their turn.
SocketFairness ==
    /\ SF_socket_vars(Tick)
    /\ \A s \in Socket :
        /\ WF_socket_vars(UpgradeFails(s) \/ Upgraded(s)) /\ WF_socket_vars(SendPing(s))
        /\ WF_socket_vars(Pong(s)) /\ WF_socket_vars(IdleTimerFires(s))

SocketSpec == SocketInit /\ [][SocketNext]_socket_vars /\ SocketFairness
-----------------------------------------------------------------------------
\* Every way a socket can end (handshake, close frame, send deadline, idle timer)
\* gives its permit back, so the connection limit never shrinks.
PermitsConserved ==
    permits + Cardinality({s \in Socket : sock[s].st # "closed"}) = MaxConnections

\* "clients that do not send any frames (including pong frames) before the idle
\* deadline are disconnected" (development.adoc): those that answer pings are not.
LiveClientsStay == \A s \in Socket : left[s] # <<"idle", "live">>

\* A client that went away or stopped reading loses its socket, and the permit with it.
DeadClientsLeave == \A s \in Socket :
    (Open(s) /\ sock[s].client # "live") ~> ~(Open(s) /\ sock[s].client # "live")

\* Neither a permit nor a client that answers is lost, however sockets end.
SocketsSafe == SocketTypeOK /\ PermitsConserved /\ LiveClientsStay
=============================================================================
