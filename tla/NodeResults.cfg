\* Work may return 12 to 16 MiB, a session.end runs beside it; nothing is lost.
CONSTANTS
    MaxCmds = 2
    MaxQueue = 1
    Sessions = {s1}
    NoSession = NoSession
    WorkerIds = {1, 2}
    WorkerSessions = {s1}
    MaxWork = 1
    MaxEnds = 1
    CacheSize = 1
    Oversize = TRUE
    Clients = {s1}
    FaultKinds = {}
    MaxFaults = 0
SPECIFICATION FairSpec
PROPERTY StopsAcknowledged
CHECK_DEADLOCK FALSE
