SPECIFICATION Spec
CONSTANTS
    Passwords = {"p1", "p2"}
    Reqs = {"r1", "r2"}
    MaxAuthCrashes = 2
    MaxAuthFailures = 1
    Urls = {"a", "b"}
    Contents = {"c"}
    Hash <- MCHash
    Shipped <- MCShipped
    Legacy <- MCLegacy
    Handlers = {"h1", "h2"}
    MaxSourceChanges = 3
    MaxSourceCrashes = 1
    MaxSourceFailures = 1
    ListUrls = {"a", "b"}
    Listings = {"l1", "l2"}
    Entries = {"e1", "e2"}
    BuiltIn = "e1"
    Clients = {"c1", "c2"}
    MaxNamedCrashes = 2
    MaxNamedFailures = 1
    Categories = 3
    Readers = {"g1", "g2", "g3"}
INVARIANTS
    TypeOK
    TokensValid
    LonePasswordSticks
    IdsUnique
    UrlsDistinctUnlessRetargeted
    OffStaysOff
    SingleFlight
    RoutingSurvivesRestart
    WholeOnceQuiet
    EmptyOnlyAfterFailure
PROPERTIES
    ImplementsBook
CHECK_DEADLOCK FALSE
