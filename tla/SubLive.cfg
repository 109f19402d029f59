SPECIFICATION FairSpec
CONSTANTS
    s1 = s1
    s2 = s2
    r1 = r1
    r2 = r2
    Sources <- OneSource
    LocalSources <- NoSource
    Requests <- TwoRequests
    Kinds = {"sub", "filter", "preview", "load"}
    Outcomes = {"good", "bad", "error"}
    SourceTTL = 0
    OutputTTL = 0
    MaxTime = 1
    Restarts = TRUE
PROPERTIES
    RequestsEnd
