CONSTANTS
    Ids = {i1, i2}
    Absent = Absent
    Adapters = {"sqlite", "mssql"}
    MaxRequests = 3
    MaxLoads = 2
    MaxSaves = 2
    MaxCrashes = 1
SPECIFICATION FairSpec
INVARIANTS
    TypeOK
    AnswersHeld
PROPERTIES
    IsWriteThrough
    AnswerStored
CHECK_DEADLOCK FALSE
