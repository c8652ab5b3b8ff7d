SPECIFICATION MCSpec
CONSTANTS
    Jobs = {j1, j2}
    Plain = {j1}
    Runners = {r1, r2}
    Triggers = {"one_shot", "interval", "broken", "unsupported"}
    Gates = {"none", "predicate", "malformed"}
    Lease = 1
    MaxTime = 1
    MaxFailures = 1
INVARIANTS
    OccurrenceOnce
    ClaimsEnd
PROPERTIES
    DueIsServed
CHECK_DEADLOCK FALSE
