SPECIFICATION Spec
CONSTANTS
    x = x
    y = y
    k1 = k1
    k2 = k2
    m1 = m1
    m2 = m2
    AnyModel = AnyModel
    User = User
    None = None
    NoSpec = NoSpec
    Executors <- MCExecutors
    Models <- MCModels
    Checks <- MCChecks
    Reports <- MCReports
    Catalog <- MCCatalog
    Terms <- MCTerms
    Room = 1
    MaxLines = 2
    MaxRounds = 2
    MaxToggles = 1
INVARIANTS
    TypeOK
    WorkStaysInsideTheGrant
    CompletionIsBacked
    VerdictIsExact
CHECK_DEADLOCK FALSE
