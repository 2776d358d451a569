SPECIFICATION EngineSpec
CONSTANTS
    owner = owner
    review = review
    comment = comment
    None = None
    AnyKind = AnyKind
    RULES <- AllRules
    Rids <- MCRids
    Principals <- MCPrincipals
    Payloads <- MCPayloads
    ClassesOf <- MCClassesOf
    MaxProbes <- MCMaxProbes
    Cases <- MCCases
CHECK_DEADLOCK FALSE
INVARIANTS
    EngineTypeOK
    ClassIsReproduced
PROPERTIES
    EvidenceOnlyAdds
    ProxyObservedNeedsNoTap
