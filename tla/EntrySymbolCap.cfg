CONSTANTS
    c1 = c1
    c2 = c2
    r1 = r1
    r2 = r2
    s1 = s1
    u1 = u1
    u2 = u2
    u3 = u3
    Callers <- TwoCallers
    Recs <- TwoRecs
    Symbols <- OneSymbol
    SymbolOf <- SameSymbol
    Refs <- TwoRefs
SPECIFICATION EntrySpec
SYMMETRY AllSymmetry
INVARIANTS SymbolCap
CHECK_DEADLOCK FALSE
