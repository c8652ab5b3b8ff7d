CONSTANTS
    n1 = n1
    n2 = n2
    Nodes = {n1, n2}
    Acks = {a1}
    Approvals <- MCApprovals
    Graphs <- MCGraphs
    Registered = {"Note", "Task"}
    Requests <- MCRequests
    Patches <- MCPatches
    Plans <- MCPlans
    Runtimes = {"ready", "no_bot", "off"}
    MaxRuns = 2
    MaxEdits = 2
    MaxFaults = 1
SPECIFICATION MCSpec
ACTION_CONSTRAINT SomebodyReads
INVARIANTS
    ExecutableAsAccepted
    RecordIsTrue
    WritesStayInFence
    ApprovalHolds
CHECK_DEADLOCK FALSE
