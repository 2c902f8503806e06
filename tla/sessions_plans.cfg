SPECIFICATION Spec
CONSTANTS
    c1 = c1
    c2 = c2
    c3 = c3
    c4 = c4
    u1 = u1
    u2 = u2
    NoChannel = NoChannel
    NoUser = NoUser
    Channel <- TwoChannels
    User <- TwoUsers
    MaxConcurrentSessions = 1
    Races = {}
    Images = FALSE
    Faults = TRUE
    MaxMessages = 3
    MaxPlans = 1
    MaxClears = 0
SYMMETRY Symmetry
CHECK_DEADLOCK FALSE
INVARIANTS
    AttributionFollowsTurn
    ViewsFollowSession
