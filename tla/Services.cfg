\* Each component alone: see MCServices.
CONSTANTS
    t1 = t1
    t2 = t2
    t3 = t3
    s1 = s1
    s2 = s2
    h1 = h1
    h2 = h2
    m1 = m1
    x1 = x1
    x2 = x2
    ClosedTrades <- ThreeTrades
    PlanOf <- TwoPlans
    HourlyRuns <- TwoHourly
    AdminRuns <- OneAdmin
    Samplers <- TwoSamplers
    LastHour = 2
    FinalDay = 2
    LastDay = 16
    HolidaySets <- SomeHolidays
    Listings <- SomeListings
    Needs <- SomeNeeds
    Catalogs <- SomeCatalogs
    Boards <- SomeMarkets
    Vixes <- SomeVixes
    Polls <- SomePolls
    SuperTrendViews <- SuperTrendCases
    StochasticViews <- StochasticCases
    PsVsViews <- PsVsCases
    TrendPulseViews <- TrendPulseCases
    LegBoards <- BoardCases
    Bars <- SomeBars
    Premiums <- SomePremiums
    Averages <- SomeAverages
    SlPoints = 150
    TargetPoints = 700
    TrailPoints = 200
    BreakevenPct = 50
    StepPct = 5
    EpsPct = 2
SPECIFICATION ServicesSpec
CONSTRAINT ServicesBound
SYMMETRY ServiceSymmetry
INVARIANTS MarkedHourIsDone OneLateSample ServesNeed VerdictsAgree
    AdmittedWasCleared ReasonsFollowCatalog SignalsStandOut MirrorAgrees
    OffersFollowSignal ChartAgrees PeggedNeverStops
PROPERTIES RollsForward StopRisesOnlyWhilePegged
\* A refresh of HeuristicRules and SpotSignals happens once, and a closed trade of
\* SuperTrendTrail stays so.
CHECK_DEADLOCK FALSE
