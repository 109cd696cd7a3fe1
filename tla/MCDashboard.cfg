SPECIFICATION DashFairSpec
CONSTANTS
    none = none
    bare = bare
    one = one
    two = two
    Lists <- MCLists
    SizeOf <- MCSizeOf
    PairsOf <- MCPairsOf
    Known = Known
    NoData = NoData
    NaN = NaN
    MaxChanges = 2
INVARIANTS
    DashTypeOK
    PairIsThere
PROPERTIES
    RefreshesIfLoadsEnd
CHECK_DEADLOCK FALSE
