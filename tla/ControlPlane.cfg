\* Each of the four components alone: see MCControlPlane.
CONSTANTS
    r1 = r1
    r2 = r2
    put1 = put1
    put2 = put2
    a1 = a1
    a2 = a2
    b1 = b1
    A = A
    B = B
    q1 = q1
    q2 = q2
    p1 = p1
    p2 = p2
    m1 = m1
    m2 = m2
    Readers <- TwoReaders
    Puts <- TwoPuts
    TTL = 3
    Latency = 4
    Offers <- ThreeOffers
    StrategyOf <- TwoStrategies
    Requests <- TwoRequests
    Proposals <- TwoProposals
    Admins <- TwoAdmins
    LastVersion = 3
    j1 = j1
    j2 = j2
    k1 = k1
    VaultJobs <- TwoJobs
    BrokerCalls <- OneCall
    MaxLogins = 2
SPECIFICATION ControlSpec
CONSTRAINT ControlBound
SYMMETRY ControlSymmetry
INVARIANTS PauseWithinGrace OneActive SettingsReady LastWins
    ImplementedIsBacked OneOrigin StoredAsAnswered LiveOnOwnSession
PROPERTIES DecisionStands
