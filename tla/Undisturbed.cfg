SPECIFICATION FairSpec
CONSTANTS
    alice = alice
    bob = bob
    m1 = m1
    m2 = m2
    m3 = m3
    NoMessage = NoMessage
    Users = {alice}
    NServers = 2
    Messages = {m1, m2, m3}
    Author <- AuthorOf
    MaxFaults = 0
PROPERTIES
    EveryoneReads
CHECK_DEADLOCK FALSE
