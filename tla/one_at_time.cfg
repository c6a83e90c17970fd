SPECIFICATION FairSpec
CONSTANTS
    Calls <- MCCalls
    CallId <- MCCallId
    MayTimeOut = TRUE
INVARIANTS
    FlagsMatchAwaited
    OneAwaited
PROPERTIES
    LockoutEnds
