SPECIFICATION Spec
CONSTANTS
    OneShots = {"backfill"}
    LongRunning = {"scheduler"}
    Spaces = {s1}
    Configs = {c1}
    Releases = {v1}
    Requests = {q1}
    MaxBoots = 2
    MaxMoves = 1
    MaxProofs = 2
    MaxFaults = 1
INVARIANTS
    ProofStands
    NoDuplicateResident
PROPERTIES
    ResidentsFollowGate
CHECK_DEADLOCK FALSE
