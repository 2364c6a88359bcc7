SPECIFICATION FairSpec
CONSTANTS
    Contracts = {c1, c2}
    Executors = {x1}
    None = None
    Cap = 1
    Gated = {c1}
    Shared = {}
    MaxDispatches = 1
    Reserved = 1
    MaxCalls = 2
INVARIANTS
    TypeOK
    CapacityHolds
PROPERTIES
    AdmittedContentWasPlanned
    ApprovalOutlivesBookkeeping
    CapacityIsAwaited
CHECK_DEADLOCK FALSE
