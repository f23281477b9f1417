SPECIFICATION MCSpec
CONSTANTS
    Server = {a, b}
    Worker = {w}
    QueueCapacity = 1
    MaxEvents = 2
    MaxFaults = 2
    MayFail = {"publication", "recovery", "connection", "driver", "retention", "exit"}
    Account = {u, v}
    Remote = Remote
    Author = {u, Remote}
    Socket = {s1, s2}
    MaxConnections = 1
    PingInterval = 1
    IdleTimeout = 3
    BroadcastCapacity = 2
    Stream = {"user", "public"}
    EventStreams <- MCEventStreams
    MaxConnects = 3
INVARIANTS FanoutSafe RoutingSafe SocketsSafe
PROPERTIES ImplementsBroadcast EventuallyDelivered DeadClientsLeave
CHECK_DEADLOCK FALSE
