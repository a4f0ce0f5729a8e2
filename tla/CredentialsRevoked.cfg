CONSTANTS
    Ids = {c1}
    Absent = Absent
    Never = Never
    Adapters = {"sqlite"}
    Expiries = {Never}
    TokenTtl = 1
    MaxSecrets = 2
    MaxTokens = 1
    MaxSaves = 1
    MaxTime = 3
    MaxCrashes = 0
SPECIFICATION Spec
INVARIANT
    RevokedRefused
CHECK_DEADLOCK FALSE
