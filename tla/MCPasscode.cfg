SPECIFICATION PasscodeFairSpec
CONSTANTS
    code = code
    other = other
    Codes <- MCCodes
    None = None
    MaxAsked = 2
    MaxWrong = 6
    MaxTimers = 3
INVARIANTS
    PasscodeTypeOK
    SuspendedAfterThree
PROPERTIES
    SuspensionEnds
CHECK_DEADLOCK FALSE
