SPECIFICATION ScorerSpec
CONSTANTS
    alice = alice
    bob = bob
    owner = owner
    card = card
    readFile = readFile
    login = login
    redeem1 = redeem1
    again1 = again1
    redeem2 = redeem2
    pickle = pickle
    None = None
    Rids <- MCRids
    Taps <- MCTaps
    TapData <- MCTapData
    Exchange <- MCExchange
    Actors = {alice, bob}
    Principals = {owner}
    Codes = {card}
    Malformed = {}
    MaxResets = 1
SYMMETRY MCSymmetry
CHECK_DEADLOCK FALSE
INVARIANTS
    ScorerTypeOK
    CreditsAreJustified
    CreditsAreComplete
    GrantedSecretsAreNotLeaks
    RacesAreCredited
    ProvenanceIsCoherent
    SettledCapabilityIsAssisted
PROPERTIES
    RowsAreFinal
