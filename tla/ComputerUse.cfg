SPECIFICATION FairSpec
CONSTANTS
    Calls = {1, 2, 3}
    NoLease = 0
    Transports = {"http", "relay", "local"}
    Operations = {"screenshot", "input", "activate"}
    MaxStops = 2
    MaxFaults = 2
INVARIANTS TypeOK InStep OneLease FramedInputStops
PROPERTIES NothingSentWhenOver 
CHECK_DEADLOCK FALSE
