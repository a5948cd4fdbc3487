SPECIFICATION MCSpec
CONSTANTS
    m1 = m1
    m2 = m2
    s1 = s1
    Merchants = {m1, m2}
    Requests = {1, 2, 3}
    Amounts = {4, 8}
    Keys = {"key"}
    NoKey = "no key"
    Bulks <- MCBulks
    CreatedAt <- MCCreatedAt
    Span = 2
    FeeBps <- MCFeeBps
    FixedFee <- MCFixed
    Smallest <- MCSmallest
    Largest <- MCLargest
    Limits = {6, 10}
    NoLimit = NoLimit
    Conns = 2
    MaxDay = 2
    Sales = {s1}
    Calls = {1, 2, 3}
    Due <- MCDue
    DisputeKeys = {"key"}
    NoDisputeKey = "no key"
    Browsers = {"b1"}
    Posts = {1, 2, 3, 4}
    MaxTokens = 3
    Emails = {"e1"}
    TeamCalls = {1, 2, 3, 4}
    MaxInvites = 2
    Indexers = {"i1", "i2"}
    PageSize = 2
    MaxLedger = 3
    MaxEvents = 3
    Posters = {1, 2}
    Rotations = {"r1", "r2"}
    Overlap = 2
    MaxHours = 3
    Viewers = {"v1", "v2", "v3"}
    Watchers = {"w1"}
    Checks = {1, 2, 3}
    Payers = {"p1"}
    Cents = {2, 3}
    VelocityLimit = 4
    MaxClock = 2
    Updates = {"u1", "u2"}
    Intervals = {"daily", "weekly"}
    Kept = "kept"
    Pings = {"p1"}
    SorobanConfigured = TRUE
    ApiKeyIds = {"k1"}
    W = 3
    MaxDecisions = 1
    Readers = {"reader"}
    Actions = {"created", "rotated"}
    AnyAction = "any"
    PageLimits = {0, 3}
    MaxLimit = 2
    MaxRows = 4
    MaxTime = 3
INVARIANTS
    ApiTypeOK
    MuxedIdsDistinct
    BulkEndsClean
    PaidForGood
    OneLiveUnlessRaced
    LogoutEndsSession
    SuspensionStands
    IndexedBelowCursor
    InFlightVerifies
    SubscriptionMatchesStreams
    VelocityHolds
    DateFollowsInterval
    AddressesAsListed
    NothingMissed
PROPERTIES
    SpendBounded
    CreationSpec
    EventuallyTold
    HealthAnswers
CHECK_DEADLOCK FALSE
