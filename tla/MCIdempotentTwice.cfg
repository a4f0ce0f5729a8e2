CONSTANTS
    Requests = {q1, q2}
    Keys = {k1}
    NoKey = NoKey
    Absent = Absent
    Adapters = {"mssql"}
    Window = 1
    MaxTransfers = 2
    MaxTime = 2
    MaxCrashes = 1
SPECIFICATION Spec
SYMMETRY MCSymmetry
INVARIANT
    PaidOnce
CHECK_DEADLOCK FALSE
