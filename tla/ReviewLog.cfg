SPECIFICATION Spec
CONSTANTS
    Findings = {f1}
    Others = {ext}
    Defect = ext
    MaxVersion = 2
    Modes = {"auto"}
    Classes = {"judgment"}
    Proposals = {"fix"}
    Directives = {"accept", "detail"}
INVARIANTS
    ConvergedStands
    OpenItemsPark
    NoMissedCompletion
    GateTurnIsDue
CHECK_DEADLOCK FALSE
