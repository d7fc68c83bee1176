SPECIFICATION FairSpec
CONSTANTS
    s1 = s1
    s2 = s2
    me = me
    you = you
    other = other
    mine = mine
    yours = yours
    theirs = theirs
    Main = Main
    None = None
    Servers = {s1, s2}
    Channels = {yours, theirs}
    Clients = {me, you, other}
    Me = me
    EncList <- Participants
    BadNames = {yours}
    Early <- NewOnOne
    Late = {me}
    MaxFaults = 1
INVARIANTS
    IndexedOnce
PROPERTIES
    ChannelsSpread
CHECK_DEADLOCK FALSE
