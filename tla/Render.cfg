SPECIFICATION Spec
CONSTANTS
    RegionOf <- MCRegionOf
    Turn <- MCTurn
    Geo <- MCGeo
    Rank <- MCRank
    Feeds <- MCFeeds
    Profiles <- MCProfiles
    Texts <- MCTexts
    Dashed <- MCDashed
    Spaced <- MCSpaced
    Plussed <- MCPlussed
    Unpadded <- MCUnpadded
    Stores <- MCStores
    NodeLists <- MCNodeLists
    Letters = {"a", "b", "hk", "hong", "jp", "kong", "ss", "us", "vless", "x", "noname", "ip1", "ip2", "dom", "UN"}
    Wide = {"xg", "zz"}
    Separators = {" ", "-"}
    Blank = " "
    Addresses = {"ip1", "ip2"}
    Slots = 2
    ClientTypes = {"clash", "surge", "loon", "quantumult", "quanx", "singbox", "sing-box", "base64", "uri", "other"}
INVARIANTS
    OneNodePerEndpoint
    PrefixTruthful
    EndpointsKept
    CodesInOrder
    NamesInOrder
    TargetsResolve
    MembersResolve
    SelectorsHaveDefault
    SamePolicy
    RuleSetsRouted
    ReimportKeeps
PROPERTIES
    RunEnds
CHECK_DEADLOCK FALSE
