SPECIFICATION FairSpec
CONSTANTS
    Jobs = {"d1"}
    KindOf <- MCKindOf
    KeyOf <- MCKeyOf
    NoKey = "none"
    FederationKinds = {"media", "delivery"}
    EscapingKinds = {"purge"}
    PurgeKinds = {"purge"}
    ScheduledKinds = {"scheduled"}
    PollKinds = {"poll"}
    MediaKinds = {"media"}
    Procs = {"p1"}
    Embedded = {"p1"}
    Slots = {"w1"}
    HttpTasks = {}
    ProcOf <- MCProcOf
    Knows <- MCKnows
    c1 = c1
    c2 = c2
    c3 = c3
    c4 = c4
    c5 = c5
    Claims = {c1, c2, c3}
    NoClaim = NoClaim
    NoHold = NoHold
    Delays = {0, 1}
    ClaimTtl = 1
    MaxAge = 1
    SuccessRetention = 1
    FailureRetention = 1
    BatchSize = 1
    ExponentCap = 2
    BackoffCap = 3
    MaxAttempts = 1
    MaxFaults = 1
PROPERTY EventuallySettled
