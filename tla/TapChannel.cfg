SPECIFICATION ChannelSpec
CONSTANTS
    QueueSize = 2
    MaxTaps = 4
    MaxFaults = 2
CHECK_DEADLOCK FALSE
INVARIANTS
    ChannelTypeOK
    TornLineIsLast
    ConnectionsAreInOrder
    AtMostTwoCopies
PROPERTIES
    QueuedIsFed
