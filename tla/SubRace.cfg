SPECIFICATION Spec
CONSTANTS
    s1 = s1
    s2 = s2
    r1 = r1
    r2 = r2
    Sources <- OneSource
    LocalSources <- NoSource
    Requests <- TwoRequests
    Kinds = {"sub", "test"}
    Outcomes = {"good"}
    SourceTTL = 2
    OutputTTL = 2
    MaxTime = 2
    Restarts = FALSE
INVARIANTS
    RefreshSticks
