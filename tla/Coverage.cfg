SPECIFICATION Spec
CONSTANTS
    Tables = {"full", "short"}
    RowsOf <- MCRowsOf
    Stakes = {"a"}
    Outside = {"a", "b"}
    NoTable = "no table"
    Denominators = {"questions", "places"}
    InPlay = {"yes"}
    Reports <- MCReports
    Decisions <- MCDecisions
    MaxPasses <- MCMaxPasses
    MaxNotices = 1
    MaxFaults = 1
INVARIANTS
    KeepGatingHolds
    BlockedIsScheduled
PROPERTIES
    ConvergedIsMeasured
CHECK_DEADLOCK FALSE
