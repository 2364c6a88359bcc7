SPECIFICATION Spec
CONSTANTS
    N = 1
    Contracts = {c1}
    read = read
    write = write
    Actions <- MCActions
    Scopes <- MCScopes
    Grants <- MCGrants
    None = None
    MaxUpdates = 2
    MaxRevision = 5
PROPERTIES
    PromotionIsWithinTheGrant
CHECK_DEADLOCK FALSE
