SPECIFICATION Spec
CONSTANTS
    s1 = s1
    s2 = s2
    me = me
    you = you
    other = other
    mine = mine
    yours = yours
    theirs = theirs
    Main = Main
    None = None
    Servers = {s1, s2}
    Channels = {mine, yours}
    Clients = {me, you, other}
    Me = me
    EncList <- Participants
    BadNames = {}
    Early <- Settled
    Late = {}
    MaxFaults = 2
SYMMETRY ServerSymmetry
INVARIANTS
    TypeOK
    StoredIsPublished
    FaultHidesOne
    DeletionSurvivesRestart
    StartGivesUpOnFault
CHECK_DEADLOCK FALSE
