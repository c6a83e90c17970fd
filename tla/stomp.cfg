SPECIFICATION FairSpec
CONSTANTS
    s1 = s1
    s2 = s2
    Calls <- MCCalls
    MaxAttempts = 2
    MaxFaults = 2
INVARIANTS
    NoSocketLeft
    FlagsAreTrue
    SendAfterConnect
PROPERTIES
    SendsSettle
CHECK_DEADLOCK FALSE
