SPECIFICATION Spec
CONSTANTS
    Items = {1, 2, 3}
    Users = {u1, u2, u3, u4}
    MaxStarts = 2
    MaxFaults = 2
SYMMETRY Symmetry
INVARIANTS
    JobTypeOK
    CompletedJobIsDone
    ActiveJobHasAThread
CHECK_DEADLOCK FALSE
