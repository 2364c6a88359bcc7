SPECIFICATION FairSpec
CONSTANTS
    Executors = {e1}
    Verifiers = {v1}
    None = None
    MaxDispatches = 1
    Reserved = 1
    MaxCrashes = 1
    MaxInterrupts = 0
PROPERTIES
    LeaseIsReturned
    RequestIsServed
CHECK_DEADLOCK FALSE
