SPECIFICATION MCSpec
CONSTANTS
    Server = {a, b, c}
    Worker = {}
    QueueCapacity = 1
    MaxEvents = 2
    MaxFaults = 0
    MayFail = {}
    Account = {u, v}
    Remote = Remote
    Author = {u, Remote}
    Socket = {s1, s2}
    MaxConnections = 1
    PingInterval = 1
    IdleTimeout = 3
    BroadcastCapacity = 2
    Stream = {"user", "public"}
    EventStreams <- MCEventStreams
    MaxConnects = 3
INVARIANT CommitsReachListeners
CHECK_DEADLOCK FALSE
