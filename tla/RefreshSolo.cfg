CONSTANTS
    u = u
    v = v
    p = p
    q = q
    s1 = s1
    s2 = s2
    Users <- OneUser
    Admins <- NoAdmin
    Tasks <- TwoTasks
    UserOf <- BothOfU
    Symbols <- TwoSymbols
    MaxMoves = 1
    MaxSaves = 1
    MaxFaults = 1
SPECIFICATION RefreshFairSpec
INVARIANTS OneRefreshPerUser
PROPERTIES RowsFollowIntent
CHECK_DEADLOCK FALSE
