\* A session with a stop and hanging work, one loss or restart of the node.
CONSTANTS
    MaxCmds = 2
    MaxQueue = 1
    Sessions = {s1}
    NoSession = NoSession
    WorkerIds = {1, 2}
    WorkerSessions = {s1}
    MaxWork = 1
    MaxEnds = 1
    CacheSize = 1
    Oversize = FALSE
    Clients = {s1}
    FaultKinds = {"loss", "node"}
    MaxFaults = 1
SPECIFICATION FairSpec
PROPERTIES StopArrives ResultsAcknowledged
CHECK_DEADLOCK FALSE
