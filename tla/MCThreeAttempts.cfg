SPECIFICATION PasscodeSpec
CONSTANTS
    code = code
    other = other
    Codes <- MCCodes
    None = None
    MaxAsked = 2
    MaxWrong = 6
    MaxTimers = 3
INVARIANTS
    ThreeAttempts
CHECK_DEADLOCK FALSE
