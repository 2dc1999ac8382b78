CONSTANTS
    Loggers = {t1, t2}
    Hosts = {h1}
    Addrs = {a1, a2}
    CallLevels <- MCCallLevels
    Requests <- MCRequests
    MaxLeaks = 1
    None = None
SPECIFICATION FairSpec
INVARIANTS
    TypeOK
    CountIsExact
    LoggerAliveWhileInUse
    FormatMatchesLogger
    EmitsOnlyEnabledLevels
    PublishedNeverDangles
    HostWorksAlone
    PublicationMatchesState
    ReadersSeeWholeState
    IInv
PROPERTIES
    OnlyShutdownUnconfigures
    ImplementsAdmission
    LogCallsReturn
    OperationReturnsOrMissesNotify
