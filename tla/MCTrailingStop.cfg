SPECIFICATION Spec
CONSTANTS
    s1 = s1
    s2 = s2
    Stops = {s1, s2}
    Long = {s1, s2}
    Percent = {s2}
    Trail <- Trails
    MaxPrice = 4
    MaxFaults = 2
INVARIANTS
    TrailingTypeOK
    EveryCloseIsAnExit
PROPERTIES
    StopOnlyTightens
    HitStopExits
CHECK_DEADLOCK FALSE
