SPECIFICATION FairSpec
CONSTANTS
    m1 = m1
    m2 = m2
    m3 = m3
    NoMessage = NoMessage
    Messages = {m1, m2, m3}
INVARIANTS
    SkipsOnlyOvertaken
    NewPostsNotSkipped
    SearchInBounds
PROPERTIES
    Delivery
