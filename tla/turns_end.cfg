SPECIFICATION FairSpec
CONSTANTS
    c1 = c1
    c2 = c2
    c3 = c3
    c4 = c4
    u1 = u1
    u2 = u2
    NoChannel = NoChannel
    NoUser = NoUser
    Channel <- TwoChannels
    User <- OneUser
    MaxConcurrentSessions = 2
    Races = {}
    Images = FALSE
    Faults = FALSE
    MaxMessages = 3
    MaxPlans = 1
    MaxClears = 0
CHECK_DEADLOCK FALSE
PROPERTIES
    TurnsEnd
