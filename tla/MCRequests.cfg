SPECIFICATION Spec
CONSTANTS
    Processes = {p, q}
    PrepareKeys = {prepare}
    PauseKeys = {pause}
    ResumeKeys = {resume}
    VerifyKeys = {verify}
    ConfirmKeys = {confirm}
    NoKey = NoKey
    MaxSends = 3
    MaxOpenings = 4
    MaxRevision = 3
    MaxFailures = 1
SYMMETRY Symmetry
CONSTRAINT Bound
CHECK_DEADLOCK FALSE
INVARIANTS
    TypeOK
    KeyedExactlyOnce
    SchemaIsWhole
    RenamingNeedsARace
