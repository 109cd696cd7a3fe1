SPECIFICATION SessionSpec
CONSTANTS
    generated = generated
    imported = imported
    t1 = t1
    t2 = t2
    Phrases <- MCPhrases
    Generated = generated
    Code = Code
    None = None
    Tasks <- MCTasks
    MaxDepth = 4
    MaxFaults = 2
    MaxRestarts = 1
SYMMETRY MCSymmetry
INVARIANTS
    SessionTypeOK
    SecretsOfOnePhrase
    WalletScreensHaveWallet
    WalletOfStoredKey
    ShownPhraseIsWallet
CHECK_DEADLOCK FALSE
