CONSTANTS
    Loggers = {t1}
    Hosts = {h1, h2}
    Addrs = {a1, a2}
    CallLevels <- MCCallLevels
    Requests <- MCRequests
    MaxLeaks = 0
    None = None
SPECIFICATION Spec
PROPERTIES
    OnlyShutdownUnconfigures
