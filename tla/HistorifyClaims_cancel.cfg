SPECIFICATION FairSpec
CONSTANTS
    Items = {1, 2}
    Users = {u1, u2}
    MaxStarts = 1
    MaxFaults = 0
PROPERTY CancelStopsTheThread
CHECK_DEADLOCK FALSE
