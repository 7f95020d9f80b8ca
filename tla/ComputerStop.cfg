SPECIFICATION Spec
CONSTANTS
    Calls = {1, 2, 3}
    NoLease = 0
    Transports = {"local"}
    Operations = {"screenshot", "input"}
    MaxStops = 1
    MaxFaults = 0
INVARIANT StopWins
CHECK_DEADLOCK FALSE
