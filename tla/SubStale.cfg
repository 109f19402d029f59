SPECIFICATION Spec
CONSTANTS
    s1 = s1
    s2 = s2
    r1 = r1
    r2 = r2
    Sources <- OneSource
    LocalSources <- NoSource
    Requests <- OneRequest
    Kinds = {"sub"}
    Outcomes = {"good"}
    SourceTTL = 2
    OutputTTL = 1
    MaxTime = 3
    Restarts = FALSE
PROPERTIES
    ExpiredKeptForGetStale
