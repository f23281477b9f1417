SPECIFICATION MCSpec
CONSTANTS
    thread = thread
    reply = reply
    back = back
    Actors = {"a", "b"}
    Names = {"n"}
    KeyIds = {"k1", "k2"}
    KeyController <- MCKeyController
    KeyLists <- MCKeyLists
    Lookups = {"l"}
    Deliveries = {"q"}
    Absent = "none"
    NoNote = NoNote
    Notes = {thread, reply, back}
    Handlers = {1, 2}
    MaxVersion = 3
    ReplyTo <- MCReplyTo
    TextOf <- MCTextOf
    Skew = 1
    MaxAge = 2
    Owners = {1}
    Batch = 1
    Interval = 2
    Overlap = 2
    Makers = {1, 2}
    LastHour = 5
    Peers = {"a", "b"}
    SharedBy = {"a", "b"}
    Rfc9421Only = {"b"}
    MaxRevision = 3
    Admins = {"a"}
    Members = {"b"}
    CachedActors = {"r"}
    Moderators = {1}
    Rules = {1, 2}
    MaxPurgeJobs = 2
    NoRule = NoRule
    MaxPosition = 1
    Registrations = {1, 2, 3}
    BurstLimit = 1
    BurstWindow = 2
    DailyLimit = 2
    DailyWindow = 4
    MaxLag = 1
    LastTick = 6
    People = {"a"}
    Codes = {"c"}
    Exchanges = {1, 2}
    MaxEndpoints = 3
    Pushes = {1, 2}
    Nobody = "nobody"
    Images = {1}
    Attachments = {3, 4}
    MaxUrl = 2
    MediaFetchers = {1, 2}
    Permits = 2
    Visitors = {1}
    MaxOverruns = 1
INVARIANTS OnlyProvedIsAccepted RemoteStatusesSafe ActorKeysSafe DeliverySafe ModerationSafe
    AccessSafe MediaSafe
CHECK_DEADLOCK FALSE
