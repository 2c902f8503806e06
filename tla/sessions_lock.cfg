SPECIFICATION Spec
CONSTANTS
    c1 = c1
    c2 = c2
    c3 = c3
    c4 = c4
    u1 = u1
    u2 = u2
    NoChannel = NoChannel
    NoUser = NoUser
    Channel <- TwoChannels
    User <- OneUser
    MaxConcurrentSessions = 2
    Races = {}
    Images = TRUE
    Faults = FALSE
    MaxMessages = 3
    MaxPlans = 0
    MaxClears = 1
SYMMETRY Symmetry
CHECK_DEADLOCK FALSE
INVARIANTS
    TypeOK
    MutualExclusion
    NoStrandedWaiter
    WaitingIsWoken
    ClearAndStopAreFinal
