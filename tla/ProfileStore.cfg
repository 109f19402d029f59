SPECIFICATION FairSpec
CONSTANTS
    p1 = p1
    p2 = p2
    n1 = n1
    n2 = n2
    v1 = v1
    v2 = v2
    v3 = v3
    Ids <- TwoProfiles
    Names <- TwoNames
    Savers <- TwoSavers
    MaxChanges = 3
    MaxCrashes = 1
    MaxFailures = 1
INVARIANTS
    TypeOK
    FieldsAreSaved
    MembersAreSaved
PROPERTIES
    SavesEnd
CHECK_DEADLOCK FALSE
