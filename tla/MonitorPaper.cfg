\* One PAPER long trade that three tasks may close and the monitor trails.
CONSTANTS
    t1 = t1
    t2 = t2
    c1 = c1
    c2 = c2
    v1 = v1
    monitor = monitor
    Monitor <- monitor
    Trades <- T1
    Closers <- OneCloser
    Viewers <- OneViewer
    Live <- None
    Short <- None
    SuperTrend <- None
    Stochastic <- None
    Pending <- None
    MaxPx = 5
    EntryPx = 2
    SlPts = 1
    TgtPts = 4
    TrailPts = 2
    BreakevenPct = 50
    MaxFaults = 1
SPECIFICATION Spec
INVARIANTS PnlMatchesEntry
PROPERTIES StopOnlyTightens
CHECK_DEADLOCK FALSE
