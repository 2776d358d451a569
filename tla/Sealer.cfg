SPECIFICATION Spec
CONSTANTS
    r1 = r1
    r2 = r2
    t1 = t1
    t2 = t2
    bad = bad
    Malformed = {bad}

    Rids = {r1, r2}
    Taps = {t1, t2, bad}
    TapRid <- MCTapRid
    NoIngress = NoIngress
    Grace = 1
    MaxRelay = 1
    QuarantineAfter = 1
    LastActivity = 2
    MaxTime = 4
INVARIANTS
    TypeOK
    
    ReleasesAreCurrent
    QuickExchangesLoseNothing
PROPERTIES
    NoRetraction
    ImplementsJoin
    ObservedAreScored
    OrphansAreDropped
