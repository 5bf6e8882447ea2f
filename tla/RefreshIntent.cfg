CONSTANTS
    u = u
    v = v
    p = p
    q = q
    s1 = s1
    s2 = s2
    Users <- TwoUsers
    Admins <- NoAdmin
    Tasks <- TwoTasks
    UserOf <- OneEach
    Symbols <- OneSymbol
    MaxMoves = 0
    MaxSaves = 1
    MaxFaults = 0
SPECIFICATION RefreshFairSpec
PROPERTIES RowsFollowIntent
CHECK_DEADLOCK FALSE
