SPECIFICATION Spec
CONSTANTS
    s1 = s1
    s2 = s2
    r1 = r1
    r2 = r2
    Sources <- TwoSources
    LocalSources <- OneSource
    Requests <- TwoRequests
    Kinds = {"sub", "filter", "refresh"}
    Outcomes = {"good"}
    SourceTTL = 1
    OutputTTL = 1
    MaxTime = 1
    Restarts = FALSE
SYMMETRY MCSymmetry
INVARIANTS
    LoneRefreshSticks
