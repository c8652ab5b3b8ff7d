SPECIFICATION Spec
CONSTANTS
    Domains = {"language", "tone", "listing"}
    Seeded = {"language", "tone"}
    Default = "language"
    Projects = {"p1"}
    Staged = {"confirm"}
    MaxNodes = 3
    MaxSteps = 5
    MaxQueue = 1
INVARIANTS
    StandingsAgree
PROPERTIES
    TombstoneStands
    DisplacesWhatWasShown
CHECK_DEADLOCK FALSE
