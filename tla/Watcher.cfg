SPECIFICATION FairSpec
CONSTANTS
    OwnPrimary = TRUE
    DistinctFallback = TRUE
    Budget = 2
    MaxMoves = 3
    MaxFaults = 1
    MaxBreaks = 1
INVARIANTS
    QuietStretch
    GatePingedOnce
    ConcludedStands
PROPERTIES
    GateIsSurfaced
CHECK_DEADLOCK FALSE
