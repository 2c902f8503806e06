SPECIFICATION Spec
CONSTANTS
    c1 = c1
    c2 = c2
    c3 = c3
    c4 = c4
    u1 = u1
    u2 = u2
    NoChannel = NoChannel
    NoUser = NoUser
    Channel <- ThreeChannels
    User <- OneUser
    MaxConcurrentSessions = 2
    Races = {}
    Images = FALSE
    Faults = FALSE
    MaxMessages = 4
    MaxPlans = 0
    MaxClears = 0
SYMMETRY Symmetry
CHECK_DEADLOCK FALSE
INVARIANTS
    NothingOutlivesItsSession
PROPERTIES
    TurnsExclude
