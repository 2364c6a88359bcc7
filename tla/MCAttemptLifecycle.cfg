SPECIFICATION Spec
CONSTANTS
    Executors = {e1, e2}
    Verifiers = {v1, v2}
    None = None
    MaxDispatches = 1
    Reserved = 1
    MaxCrashes = 2
    MaxInterrupts = 1
SYMMETRY Symmetry
INVARIANTS
    TypeOK
    OneInFlight
    ExecutorsWithinBudget
    LeaseFollowsTheRun
PROPERTY RowsFollowTheAxis
CHECK_DEADLOCK FALSE
