SPECIFICATION TransferSpec
CONSTANTS
    stop = stop
    unknown = unknown
    b3tr = b3tr
    weth = weth
    t1 = t1
    t2 = t2
    sol1 = sol1
    sol2 = sol2
    eth = eth
    zero = zero
    ens = ens
    Tokens <- MCTokens
    ChainOf <- MCChainOf
    AmountOf <- MCAmountOf
    Typed <- MCTyped
    Part = 2
    Mint = stop
    Empty = Empty
    NaN = NaN
    SolanaAddresses = {sol1, sol2}
    EthereumAddresses = {eth}
    Refused = {zero}
    Unreadable = {ens}
    Transfers = {t1, t2}
SYMMETRY MCSymmetry
INVARIANTS
    TransferTypeOK
    OneTransferAtATime
    SentAsReviewedIfMint
    SentIsCovered
    LoadingIsOfATransfer
CHECK_DEADLOCK FALSE
