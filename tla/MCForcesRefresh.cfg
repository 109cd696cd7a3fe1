SPECIFICATION DashFairSpec
CONSTANTS
    none = none
    bare = bare
    one = one
    two = two
    Lists <- MCLists
    SizeOf <- MCSizeOf
    PairsOf <- MCPairsOf
    Known = Known
    NoData = NoData
    NaN = NaN
    MaxChanges = 2
PROPERTIES
    ForcesRefresh
CHECK_DEADLOCK FALSE
