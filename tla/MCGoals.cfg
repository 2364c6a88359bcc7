SPECIFICATION Spec
CONSTANTS
    N = 2
    Contracts = {c1, c2}
    read = read
    write = write
    Actions <- MCActions
    Scopes <- MCScopes
    Grants <- MCGrants
    None = None
    MaxUpdates = 2
    MaxRevision = 7
SYMMETRY Symmetry
CONSTRAINT Bound
ACTION_CONSTRAINT FirstUpdate
INVARIANTS
    TypeOK
PROPERTIES
    ProgressIsNeverLost
    CompletedStageHasPassed
    OldApprovalsLapse
CHECK_DEADLOCK FALSE
