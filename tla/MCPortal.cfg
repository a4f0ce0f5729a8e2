CONSTANTS
    Users = {"u"}
    Spellings = {"u", "u "}
    Normal <- MCNormal
    Lower <- MCLower
    Passwords = {p1, p2}
    Codes = {k1, k2}
    Adapters = {"sqlite", "mssql"}
    Keys <- MCKeys
    Limit <- MCLimit
    Cost <- MCCost
    Workloads <- MCWorkloads
    Idle = Idle
    Absent = Absent
    Never = Never
    Window = 2
    SessionTtl = 2
    OtpTtl = 1
    BlockWindow = 2
    MaxFailed = 2
    MaxSessions = 1
    MaxSaves = 1
    MaxTime = 3
    MaxCrashes = 1
SPECIFICATION Spec
SYMMETRY Symmetry
INVARIANTS
    TypeOK
    TwiceAtMost
    RefusedForCause
    FailuresThrottled
    SessionsAsGiven
    PasswordAsTold
    GuessesBounded
PROPERTIES
    ResetByOtp
CHECK_DEADLOCK FALSE
