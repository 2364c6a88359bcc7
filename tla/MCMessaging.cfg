SPECIFICATION FairMessagingSpec
CONSTANTS
    Notices = {n1, n2}
    NoNotice = NoNotice
    LeaseTicks = 1
    RetryTicks = 1
    QuietTicks = 1
    Agents = {a, b}
    Everyone = Everyone
    NoSnapshot = NoSnapshot
    MaxDirectives = 2
    MaxInjected = 1
    MaxCrashes = 1
INVARIANTS
    MessagingTypeOK
    RowsTellWhatWasDelivered
    NoDirectiveIsSkipped
PROPERTY EveryNoticeIsSent
CHECK_DEADLOCK FALSE
