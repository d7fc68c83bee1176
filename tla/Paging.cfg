SPECIFICATION PageSpec
CONSTANTS
    Listeners = {l1, l2}
    PageSize = 2
    MaxCount = 6
SYMMETRY Symmetry
INVARIANTS
    PageTypeOK
    ScreenOrdered
    NoGaps
    EndReached
PROPERTIES
    FullPages
