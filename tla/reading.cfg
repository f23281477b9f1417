SPECIFICATION MCSpec
CONSTANTS
    ann = ann
    rex = rex
    old = old
    Me = Me
    LocalPeers = {ann}
    RemotePeers = {rex, old}
    Tables = {1, 2}
    Ids = {1, 2, 3, 4, 5}
    PageLimit = 2
    Residents = {"a", "b"}
    Foreigners = {"r"}
    Archive <- MCArchive
    Anonymous = Anonymous
    NoWork = NoWork
    PublicAncestors = 1
    PublicDescendants = 2
    PublicDepth = 2
    AllLimit = 5
    ChunkSize = 1
    Viewer = "me"
    Neighbours = {"me", "f"}
    Strangers = {"r", "s"}
    Rank <- MCRank
    PoolLimit = 1
    ListingLimit = 1
    Events <- MCEvents
    RemoteSenders = {"r"}
    Notifiers = {1, 2}
    Window = 1
    MaxSpan = 1
    LastHour = 3
    MaxRows = 2
    SampleLimit = 1
    Nothing = Nothing
INVARIANTS TimelinesHold PagingHolds PagesHold DiscoveryHolds FeedHolds
CHECK_DEADLOCK FALSE
