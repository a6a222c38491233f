SPECIFICATION FairSpec
CONSTANTS
    MaxPacketCount = 3
    RetryMax = 2
    BulkForwarding = TRUE
    Capacity = 2
    Octets <- MCOctets
    Refused <- MCRefused
    MaxPackets = 5
    MaxReadFailures = 1
INVARIANTS
    TypeOK
    StatsExact
    NoneStranded
    BatchBounded
PROPERTIES
    CableSafety
    CableLiveness
CHECK_DEADLOCK FALSE
