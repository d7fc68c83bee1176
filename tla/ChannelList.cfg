\* Three channels; a list of three is one too long for a stable sort.
SPECIFICATION Spec
CONSTANTS
    Channels = {a, b, c}
    Users = {u}
    Adders = {g1, g2}
    NoChannel = NoChannel
    StableLength = 2
    MaxObjects = 3
    MaxFaults = 1
    MaxRestarts = 1
SYMMETRY Symmetry
INVARIANTS
    ListInOrder
    ToldIsSaved
CHECK_DEADLOCK FALSE
