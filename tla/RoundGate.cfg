SPECIFICATION Spec
CONSTANTS
    Findings = {f1, f2}
    Others = {}
    MaxVersion = 3
    Modes = {"auto", "all_wait"}
    Classes = {"forced", "judgment", "plain"}
    Proposals = {"fix", "waive_boundary"}
    Directives = {"accept", "amend_waive", "detail"}
SYMMETRY Symmetry
INVARIANTS
    LedgerClosedBetweenRounds
    OutcomeIsSanctioned
    OwedCanBePaid
PROPERTIES
    RoundIsNeverReplaced
    FinalIsFinal
    LedgerSpec
