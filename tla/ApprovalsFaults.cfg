SPECIFICATION Spec
CONSTANTS
    MaxCards = 2
    Keys = {k1}
    NoKey = NoKey
    Sessions = {s1}
    Codes = {c1}
    NoCode = NoCode
    Ttls = {0, 1}
    CodeRetire = 1
    MaxNow = 2
    MaxRestarts = 2
    DiskFaults = TRUE
INVARIANTS TypeOK AtMostOnce RefusedNeverRan
PROPERTIES DurableFinality KeepsPromise
