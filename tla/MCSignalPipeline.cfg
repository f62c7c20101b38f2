SPECIFICATION Spec
CONSTANTS
    Deliveries = {d1, d2}
    Payloads = {"entry", "exit"}
    Workers = {w1, w2}
    Evaluates = TRUE
    Halts = {"Paused"}
    MaxFaults = 1
INVARIANTS PipelineTypeOK EnteringHasAnOwner StatusTellsPosition
PROPERTIES HaltedStaysQuiet
SYMMETRY Symmetry
CHECK_DEADLOCK FALSE
