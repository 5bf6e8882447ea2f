\* The loop over two days, and a user who trades beside it: see UserBound.
CONSTANTS
    a = a
    c = c
    r1 = r1
    r2 = r2
    r3 = r3
    s1 = s1
    s2 = s2
    s3 = s3
    u1 = u1
    u2 = u2
    u3 = u3
    Callers <- AutoAndUser
    Loop = a
    Recs <- ThreeRecs
    Symbols <- ThreeSymbols
    SymbolOf <- TripleOf
    Refs <- ThreeRefs
    TradeModes <- Paper
    MaxParallel = 2
    MaxPerDay = 1
    LastDay = 2
SPECIFICATION AutoSpec
SYMMETRY AllSymmetry
CONSTRAINT UserBound
INVARIANTS StopBound AutoParallelCap DayOvershoot
PROPERTIES ImplementsEntry
CHECK_DEADLOCK FALSE
