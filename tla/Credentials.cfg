CONSTANTS
    Ids = {c1}
    Absent = Absent
    Never = Never
    Adapters = {"sqlite", "mssql"}
    Expiries = {1, Never}
    TokenTtl = 1
    MaxSecrets = 2
    MaxTokens = 2
    MaxSaves = 2
    MaxTime = 4
    MaxCrashes = 1
SPECIFICATION Spec
INVARIANTS
    TypeOK
    GrantedAsTold
    AcceptedSoonAfter
    ExpiryRespected
CHECK_DEADLOCK FALSE
