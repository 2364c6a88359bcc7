SPECIFICATION Spec
CONSTANTS
    Processes = {p, q}
    PrepareKeys = {prepare}
    PauseKeys = {pause}
    ResumeKeys = {resume}
    VerifyKeys = {verify}
    ConfirmKeys = {confirm}
    NoKey = NoKey
    MaxSends = 3
    MaxOpenings = 3
    MaxRevision = 3
    MaxFailures = 1
SYMMETRY Symmetry
CHECK_DEADLOCK FALSE
INVARIANTS RetryIsAnsweredAlike
