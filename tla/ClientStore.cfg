SPECIFICATION Spec
CONSTANTS
    p1 = p1
    p2 = p2
    p3 = p3
    c1 = c1
    c2 = c2
    m1 = m1
    m2 = m2
    m3 = m3
    u1 = u1
    u2 = u2
    None = None
    Procs = {p1, p2, p3}
    Channels = {c1}
    Messages = {m1, m2}
    Clients = {u1}
    EncList <- ClientEncList
    ChanOf <- ClientChanOf
    Deletable = {c1}
    MaxFaults = 1
INVARIANTS
    DeletionComplete
PROPERTIES
    ImplementsMessageLog
