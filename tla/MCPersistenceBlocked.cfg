CONSTANTS
    Tenants = {t1, t2}
    Accounts = {a1, a2}
    ClientIds = {p1}
    Absent = Absent
    Adapters = {"sqlite"}
    MaxChanges <- MCMaxChanges
    MaxRequests = 0
    MaxWipes <- MCMaxWipes
    MaxCrashes = 0
SPECIFICATION Spec
INVARIANT
    QuietAllSaved
CHECK_DEADLOCK FALSE
