SPECIFICATION Spec
CONSTANTS
    Jobs = {"u1", "u2"}
    KindOf <- MCKindOf
    KeyOf <- MCKeyOf
    NoKey = "none"
    FederationKinds = {"media", "delivery"}
    EscapingKinds = {"purge"}
    PurgeKinds = {"purge"}
    ScheduledKinds = {"scheduled"}
    PollKinds = {"poll"}
    MediaKinds = {"media"}
    Procs = {"p1", "p2"}
    Embedded = {"p1"}
    Slots = {"w1", "w2", "w3"}
    HttpTasks = {}
    ProcOf <- MCProcOf
    Knows <- MCKnows
    c1 = c1
    c2 = c2
    c3 = c3
    c4 = c4
    c5 = c5
    Claims = {c1, c2, c3, c4, c5}
    NoClaim = NoClaim
    NoHold = NoHold
    Delays = {0, 1}
    ClaimTtl = 1
    MaxAge = 1
    SuccessRetention = 1
    FailureRetention = 1
    BatchSize = 1
    ExponentCap = 2
    BackoffCap = 3
    MaxAttempts = 1
    MaxFaults = 1
SYMMETRY ClaimSymmetry
INVARIANTS UniqueActiveKey FreshSnapshot
PROPERTIES LeaseHonoured GracefulShutdown
