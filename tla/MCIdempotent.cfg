CONSTANTS
    Requests = {q1, q2}
    Keys = {k1}
    NoKey = NoKey
    Absent = Absent
    Adapters = {"sqlite", "mssql"}
    Window = 1
    MaxTransfers = 3
    MaxTime = 2
    MaxCrashes = 1
SPECIFICATION Spec
SYMMETRY MCSymmetry
INVARIANTS
    TypeOK
    PaidOnceSqlite
    AnswersAgree
    OnlyOverlapping
CHECK_DEADLOCK FALSE
