SPECIFICATION Spec
CONSTANTS
    first = first
    second = second
    Contents = {first, second}
    UserJudged = {second}
    c1 = c1
    c2 = c2
    Clients = {c1, c2}
    Reserved = 1
    MaxRevision = 5
    MaxVerdicts = 1
    NoContent = NoContent

CONSTRAINT FewOverlaps
SYMMETRY Symmetry
CHECK_DEADLOCK FALSE
INVARIANTS TypeOK EvidenceNamesWhatWasChecked VerifierBudget
PROPERTIES TerminalIsFinal ConfirmedContentWasVerified
