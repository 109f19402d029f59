SPECIFICATION FairSpec
CONSTANTS
    source = source
    sub = sub
    a = a
    b = b
    g1 = g1
    g2 = g2
    SourceKeys <- MCSourceKeys
    OutputKeys <- MCOutputKeys
    Prefixes <- MCPrefixes
    Vals <- MCVals
    TTLs <- MCTTLs
    Goroutines <- MCGoroutines
    MaxTime = 2
    MaxSets = 2
    MaxCrashes = 1
    MaxFailures = 1
INVARIANTS
    TypeOK
    ServedWithinTTL
    StoredWasSet
    AtomicReplace
    DiskFollowsMemory
PROPERTIES
    ImplementsTtlStore
    PersistLands
CHECK_DEADLOCK FALSE
