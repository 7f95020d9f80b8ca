\* Two commands, of any kind and session, and any one fault.
\* The system may stop: every command settled and no more to dispatch.
CONSTANTS
    MaxCmds = 2
    MaxQueue = 1
    Sessions = {s1}
    NoSession = NoSession
    WorkerIds = {1, 2}
    WorkerSessions = {s1}
    MaxWork = 2
    MaxEnds = 1
    CacheSize = 1
    Oversize = FALSE
    Clients = {s1, NoSession}
    FaultKinds = {"loss", "node", "main", "revoked", "silent", "clocks"}
    MaxFaults = 1
SPECIFICATION Spec
INVARIANTS TypeOK WorkAtMostOnce HonestRejection
PROPERTIES SessionInOrder WorkShedsNoStop
CHECK_DEADLOCK FALSE
