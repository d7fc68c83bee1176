SPECIFICATION FairSpec
CONSTANTS
    k1 = k1
    k2 = k2
    alice = alice
    None = None
    Sessions = {k1, k2}
    Owner <- SameOwner
    Tasks <- FewTasks
    MaxFaults = 3
INVARIANTS
    TypeOK
    InWithValidToken
    TokenWrittenOnce
PROPERTIES
    GetsIn
