\* One LIVE short SuperTrend trade: the monitor against a user closing it, with faults.
CONSTANTS
    t1 = t1
    t2 = t2
    c1 = c1
    c2 = c2
    v1 = v1
    monitor = monitor
    Monitor <- monitor
    Trades <- T1
    Closers <- OneCloser
    Viewers <- None
    Live <- T1
    Short <- T1
    SuperTrend <- T1
    Stochastic <- None
    Pending <- None
    MaxPx = 3
    EntryPx = 2
    SlPts = 1
    TgtPts = 1
    TrailPts = 1
    BreakevenPct = 50
    MaxFaults = 2
SPECIFICATION Spec
INVARIANTS AuditTrail OneExitPerActor
PROPERTIES RefinesBook
CHECK_DEADLOCK FALSE
