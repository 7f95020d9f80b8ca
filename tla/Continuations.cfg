\* One card; three attempts stand for the five the code asks for.
CONSTANTS
    Actions = {a1}
    MaxAttempts = 3
    MaxPresses = 2
    MaxRestarts = 3
    DiskFaults = TRUE
SPECIFICATION FairSpec
INVARIANTS TypeOK OneTurnPerCard ReplyOnce
PROPERTIES FinalStays NoReplayWhileUp EveryApprovalSettles
CHECK_DEADLOCK FALSE
