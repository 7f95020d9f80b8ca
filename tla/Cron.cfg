\* A recurring job that is due again after every run, and a one-shot.
CONSTANTS
    Jobs = {recurring, oneshot}
    OneShots = {oneshot}
    Interval = 1
    Budget = 1
    MaxNow = 3
    MaxEdits = 2
    MaxRestarts = 1
    MaxFaults = 1
SPECIFICATION FairSpec
INVARIANTS TypeOK NoOverlap MarkerExact NoRefire FireNotLost OneShotOnce BoundedBypass
PROPERTIES DueRuns
CHECK_DEADLOCK FALSE
