SPECIFICATION HistorySpec
CONSTANTS
    l = l
    a = a
    b = b
    bad = bad
    v = v
    e = e
    Left = {l}
    Openings <- MCOpenings
    Solana = {a, b, bad}
    VeChain = {v}
    Underivable = {bad}
    All = All
    Limit = 2
    MaxTxns <- MCMaxTxns
    MaxArrivals = 3
    MaxErrors = 1
    NoItem = NoItem
    NoList = NoList
INVARIANTS
    HistoryTypeOK
    WholeUnlessErrors
PROPERTIES
    NothingVanishes
    FollowsView
