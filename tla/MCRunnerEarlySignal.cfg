SPECIFICATION FairSpec
CONSTANTS
    Signals = {"TERM"}
    MaxSignals = 1
    MaxFd = 6
PROPERTY StopsWhenAsked
CHECK_DEADLOCK FALSE
