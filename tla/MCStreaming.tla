----------------------------- MODULE MCStreaming -----------------------------
(***************************************************************************)
(* The fan-out, the routing of what it carries and the sockets it ends at, *)
(* side by side: they share no state, so a behaviour is one of the fan-out,*)
(* of the routing or of the sockets, and the others stay where they start. *)
(***************************************************************************)
EXTENDS StreamingFanout, StreamingRouting, StreamingSocket

MCEventStreams == <<{"user"}, {"public"}, {"user", "public"}>>

MCInit ==
    /\ Init /\ SocketInit
    /\ \/ RoutingInit
       \/ /\ entry = NoEntry /\ near = {} /\ stage = "none"
          /\ shown = {} /\ removal = {}

FanoutMoves(A) ==
    /\ entry = NoEntry /\ connects = 0 /\ sent = 0
    /\ A /\ UNCHANGED <<routing_vars, socket_vars>>

MCNext ==
    \/ FanoutMoves(Next)
    \/ RoutingNext /\ UNCHANGED <<vars, socket_vars>>
    \/ Init /\ entry = NoEntry /\ SocketNext /\ UNCHANGED <<vars, routing_vars>>

\* The publication task and the listener loop run whenever they can; a COMMIT
\* ends. Clients may stop posting, and faults need not happen.
FanoutFairness == \A p \in Process :
    /\ WF_vars(FanoutMoves(InsertStreamingEvent(p)))
    /\ WF_vars(FanoutMoves(CommitStreamingEvent(p)))
    /\ WF_vars(FanoutMoves(Listen(p))) /\ WF_vars(FanoutMoves(InitializeListener(p)))
    /\ WF_vars(FanoutMoves(ReceiveNotification(p))) /\ WF_vars(FanoutMoves(Relisten(p)))
    /\ WF_vars(FanoutMoves(RecoverAfterReconnect(p)))

MCSpec == /\ MCInit /\ [][MCNext]_<<vars, routing_vars, socket_vars>>
          /\ FanoutFairness /\ SocketFairness
=============================================================================
