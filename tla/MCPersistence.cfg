CONSTANTS
    Tenants = {t1, t2}
    Accounts = {a1, a2}
    ClientIds = {p1}
    Absent = Absent
    Adapters = {"sqlite", "mssql"}
    MaxChanges <- MCMaxChanges
    MaxRequests = 1
    MaxWipes <- MCMaxWipes
    MaxCrashes = 1
SPECIFICATION FairSpec
INVARIANTS
    TypeOK
    QuietSaved
PROPERTIES
    NeverBackwards
    IsDurableMap
    AnswerStored
    DatasetSaved
CHECK_DEADLOCK FALSE
