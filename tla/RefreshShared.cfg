CONSTANTS
    u = u
    v = v
    p = p
    q = q
    s1 = s1
    s2 = s2
    Users <- TwoUsers
    Admins <- NoAdmin
    Tasks <- TwoTasks
    UserOf <- OneEach
    Symbols <- OneSymbol
    MaxMoves = 1
    MaxSaves = 0
    MaxFaults = 1
SPECIFICATION RefreshFairSpec
PROPERTIES AcceptedRowsStay RowsFollowMarket
CHECK_DEADLOCK FALSE
