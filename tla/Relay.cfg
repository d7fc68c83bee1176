SPECIFICATION FairSpec
CONSTANTS
    alice = alice
    bob = bob
    m1 = m1
    m2 = m2
    m3 = m3
    NoMessage = NoMessage
    Users = {alice}
    NServers = 2
    Messages = {m1, m2}
    Author <- AuthorOf
    MaxFaults = 2
INVARIANTS
    TypeOK
PROPERTIES
    ListenersConform
    RelayRepairs
CHECK_DEADLOCK FALSE
