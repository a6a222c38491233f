SPECIFICATION FairSpec
CONSTANTS
    MaxPacketCount = 2
    MaxPacketSize = 3
    BulkForwarding = TRUE
    Size <- MCSize
    MaxPackets = 5
INVARIANTS
    TypeOK
    NoStaleLength
    VmStatsExact
    CleanEnd
PROPERTIES
    LosslessCable
    Forwards
CHECK_DEADLOCK FALSE
