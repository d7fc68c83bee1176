SPECIFICATION Spec
CONSTANTS
    p1 = p1
    p2 = p2
    p3 = p3
    c1 = c1
    c2 = c2
    m1 = m1
    m2 = m2
    m3 = m3
    u1 = u1
    u2 = u2
    None = None
    Procs = {p1, p2}
    Channels = {c1, c2}
    Messages = {m1, m2, m3}
    Clients = {u1, u2}
    EncList <- ServerEncList
    ChanOf <- ServerChanOf
    Deletable = {}
    MaxFaults = 2
SYMMETRY ProcSymmetry
INVARIANTS
    LogSound
    ChannelIndexSound
    ListenResolves
    OneLossPerFault
