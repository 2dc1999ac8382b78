CONSTANTS
    Loggers = {t1, t2}
    Hosts = {h1}
    Addrs = {a1}
    CallLevels <- MCCallLevels
    Requests <- MCRequests
    MaxLeaks = 0
    None = None
SPECIFICATION TSpec
PROPERTIES
    TSOShutdownWaitsForCalls
