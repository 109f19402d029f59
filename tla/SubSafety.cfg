SPECIFICATION Spec
CONSTANTS
    s1 = s1
    s2 = s2
    r1 = r1
    r2 = r2
    Sources <- OneSource
    LocalSources <- NoSource
    Requests <- TwoRequests
    Kinds = {"sub", "filter", "run", "test"}
    Outcomes = {"good"}
    SourceTTL = 1
    OutputTTL = 0
    MaxTime = 2
    Restarts = TRUE
SYMMETRY MCSymmetry
INVARIANTS
    TypeOK
    AgeBound
    LoneRefreshSticks
