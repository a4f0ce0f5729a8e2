CONSTANTS
    Tenants = {t1, t2}
    Accounts = {a1, a2}
    ClientIds = {p1}
    Absent = Absent
    Adapters = {"sqlite"}
    MaxChanges <- MCMaxChanges
    MaxRequests = 0
    MaxWipes <- MCOneWipe
    MaxCrashes = 1
SPECIFICATION Spec
PROPERTY
    StoredSurvives
CHECK_DEADLOCK FALSE
