SPECIFICATION CycleSpec
CONSTANTS
    d1 = d1
    d2 = d2
    Documents = {d1, d2}
    Writings <- MCWritings
    Absent = Absent
    Held <- MCHeld
    Reports <- MCReports
    MaxPosts = 1
    MaxWords = 1
    MaxEdits = 1
    MaxFaults = 1
INVARIANTS
    OneAttempt
    ReadsAgreedSummary
PROPERTIES
    WorkIsDone
CHECK_DEADLOCK FALSE
