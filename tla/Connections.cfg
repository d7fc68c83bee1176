SPECIFICATION FairSpec
CONSTANTS
    Ids = {c1, c2}
    MaxObjects = 2
    MaxFaults = 1
    MaxRestarts = 1
INVARIANTS
    CopiesAgree
    OneGoroutineEach
PROPERTIES
    ListenersFollow
CHECK_DEADLOCK FALSE
