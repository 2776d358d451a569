SPECIFICATION ProxySpec
CONSTANTS
    c1 = c1
    c2 = c2
    Conns = {c1, c2}
    MaxRid = 3
CHECK_DEADLOCK FALSE
INVARIANTS
    ProxyTypeOK
    KeepAliveIsSequential
PROPERTIES
    ExchangesEnd
    ImplementsExchanges
