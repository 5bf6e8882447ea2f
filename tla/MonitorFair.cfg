\* Two PAPER trades, one entered without a quote, one with a rule exit.
CONSTANTS
    t1 = t1
    t2 = t2
    c1 = c1
    c2 = c2
    v1 = v1
    monitor = monitor
    Monitor <- monitor
    Trades <- Both
    Closers <- None
    Viewers <- None
    Live <- None
    Short <- T2
    SuperTrend <- None
    Stochastic <- T2
    Pending <- T1
    MaxPx = 3
    EntryPx = 2
    SlPts = 1
    TgtPts = 1
    TrailPts = 1
    BreakevenPct = 50
    MaxFaults = 1
SPECIFICATION FairSpec
PROPERTIES GapServed
