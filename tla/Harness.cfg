SPECIFICATION Spec
CONSTANTS
    Questions = {q1, q2}
    Answers = {a1, a2}
    MaxRound = 2
    MaxArtifact = 2
    MaxEdits = 2
    MaxProfile = 2
SYMMETRY Symmetry
INVARIANTS
    StateIsRestorable
PROPERTIES
    FactsStand
    StopIsJudged
