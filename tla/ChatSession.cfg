\* Two chats opened twice.
CONSTANTS
    a = a  b = b  m1 = m1  m2 = m2  s1 = s1  s2 = s2
    Chats <- TwoChats
    Messages <- TwoMessages
    ChatOf <- OneEach
    Servers <- TwoServers
    NoChat = NoChat
    NoMessage = NoMessage
    Page = Page
    MaxSessions = 2
    MaxFaults = 1
SPECIFICATION Spec
SYMMETRY Symmetry
INVARIANTS PatientUser StaleWasReady  TwiceOnlyIfRaced
CHECK_DEADLOCK FALSE
