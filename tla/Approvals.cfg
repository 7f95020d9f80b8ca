SPECIFICATION FairSpec
CONSTANTS
    MaxCards = 2
    Keys = {k1}
    NoKey = NoKey
    Sessions = {s1, s2}
    Codes = {c1}
    NoCode = NoCode
    Ttls = {0, 1}
    CodeRetire = 1
    MaxNow = 3
    MaxRestarts = 1
    DiskFaults = FALSE
INVARIANTS OnePendingPerRequest CodesRetired OwnerRunExclusive
PROPERTIES ClaimsAreResolved
