SPECIFICATION RequestsAlone
CONSTANTS
    Notes = {"m1", "m3"}
    SenderOf <- MCSenderOf
    Mentions = {"m1", "m3"}
    Requests = {"r1", "r3"}
    RequestSender <- MCRequestSender
    Senders = {"alice", "bob"}
    None = None
    MaxFaults = 1
    r1 = r1
    r2 = r2
    f1 = f1
    f2 = f2
    b1 = b1
    Actor = {r1, r2}
    PeerFollow <- MCPeerFollow
    PeerBlock <- MCPeerBlock
    Moves <- MCMoves
    MaxActivity = 3
    MaxOpen = 1
PROPERTY AcceptedIsMerged
CHECK_DEADLOCK FALSE
