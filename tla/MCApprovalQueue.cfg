SPECIFICATION Spec
CONSTANTS
    Requests = {q}
    Signals = {}
    Approvers = {a1, a2}
    Presses = {p1, p2}
    MaxVelocity = 1
    MaxFaults = 2
INVARIANTS
    TypeOK
    ArmedOrderIsStopped
    PanicLeavesNothingOlder
    PressLetsGo
    QueuedOrderIsSentOnce
    ApprovedRowIsAnswered
SYMMETRY Symmetry
CHECK_DEADLOCK FALSE
