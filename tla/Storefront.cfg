SPECIFICATION Spec
CONSTANTS
    t1 = t1
    t2 = t2
    alice = alice
    bob = bob
    card = card
    once = once
    ip1 = ip1
    ip2 = ip2
    None = None
    Threads = {t1, t2}
    Work <- MCWork
    SeedUsers <- MCUsers
    SeedWallets <- MCWallets
    SeedCards <- MCCards
    SeedReferrers = {1, 3}
    MaxRequests = 3
    MaxCrashes = 1
SYMMETRY MCSymmetry
CHECK_DEADLOCK FALSE
INVARIANTS
    StorefrontTypeOK
    MoneyIsConserved
    DoubleSpendsAreVisible
    ReuseIsReported
    AccountsAreWhole
    ReportsNeverOvercount
    EscalationsHaveAuthors
    SerialShopIsSound
