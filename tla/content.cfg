SPECIFICATION MCSpec
CONSTANTS
    r1 = r1
    r2 = r2
    r3 = r3
    r4 = r4
    k1 = k1
    m1 = m1
    alice = alice
    mallory = mallory
    own = own
    far = far
    ann = ann
    bob = bob
    peer = peer
    Nil = Nil
    Requests = {r1, r2, r3, r4}
    Schedules = {r3, r4}
    Keys = {k1}
    Media = {m1}
    Publishers = {1, 2}
    Editors = {3, 4}
    ScheduleLimit = 1
    MaxEdits = 1
    RequestKey <- MCRequestKey
    RequestMedia <- MCRequestMedia
    LocalActors = {alice}
    RemoteActors = {mallory}
    OurStatuses = {own}
    TheirStatuses = {far}
    Clients = {1, 2}
    BatchSize = 1
    TrendsAt = 2
    MaxActivities = 3
    Voters = {alice}
    RemoteVoters = {mallory}
    Author = bob
    Ballots <- MCBallots
    MaxClock = 3
    MaxAuthorizations = 2
    Posts = {1, 2}
    CardIds = {1, 2}
    Fetchers = {1, 2}
    LeaseTicks = 2
    SpacingTicks = 1
    TimeoutTicks = 1
    MaxFetchAttempts = 2
    People = {ann, bob}
    Peer = peer
    Messages = {1, 2, 3}
    RemoteMessages = {2}
    Threads = {1, 2}
    Writers = {1, 2}
    TagIds = {1, 2}
    Works = {"w1", "w2"}
    Authors = {"x", "y"}
    TrendAt = 2
    PeakDays = 1
    LastDay = 2
    Pinners = {"r1", "r2"}
    Pinnable = {"i", "j"}
    PinLimit = 1
    Unlocked = "none"
    MaxTold = 3
INVARIANTS LocalStatusesSafe InteractionsSafe PollsSafe QuotesSafe PreviewCardsSafe ConversationsSafe TagsSafe
CHECK_DEADLOCK FALSE
