SPECIFICATION ConvertFairSpec
CONSTANTS
    c1 = c1
    c2 = c2
    c3 = c3
    CreditAmount = 3
    TokenAmount <- MCTokenAmount
    Tokens <- MCTokens
    STOP = stop
    NoToken = NoToken
    Null = Null
    stop = stop
    b3tr = b3tr
    Values = {0, 1, 2, 3, 4}
    NaN = NaN
    Conversions <- MCTwo
INVARIANTS
    ConvertTypeOK
    ConvertWithinBalance
PROPERTIES
    StopConversionsKeepOrders
    ScreenCloses
    
CHECK_DEADLOCK FALSE
