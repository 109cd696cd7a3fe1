SPECIFICATION BalancesFairSpec
CONSTANTS
    MaxBoards = 2
    Left = {l1}
    MaxWallet = 3
    MaxErrors = 1
    NoItem = NoItem
INVARIANTS
    BalancesTypeOK
PROPERTIES
    BalancesOfWallet
    GoesBackOnlyOverwritten
