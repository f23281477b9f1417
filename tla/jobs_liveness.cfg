SPECIFICATION FairSpec
CONSTANTS
    Jobs = {"d1"}
    KindOf <- MCKindOf
    KeyOf <- MCKeyOf
    NoKey = "none"
    FederationKinds = {"media", "delivery"}
    EscapingKinds = {"purge"}
    PurgeKinds = {"purge"}
    ScheduledKinds = {"scheduled"}
    PollKinds = {"poll"}
    MediaKinds = {"media"}
    Procs = {"p1", "p2"}
    Embedded = {}
    Slots = {"w1", "w2"}
    HttpTasks = {}
    ProcOf <- MCProcOf
    Knows <- MCKnows
    c1 = c1
    c2 = c2
    c3 = c3
    c4 = c4
    c5 = c5
    Claims = {c1, c2, c3}
    NoClaim = NoClaim
    NoHold = NoHold
    Delays = {0, 1}
    ClaimTtl = 1
    MaxAge = 5
    SuccessRetention = 1
    FailureRetention = 1
    BatchSize = 1
    ExponentCap = 2
    BackoffCap = 3
    MaxAttempts = 3
    MaxFaults = 2
PROPERTY EventuallySettled
