CONSTANTS
    Customers = {"c1", "c2"}
    Accounts = {"a1", "a2"}
    MockCustomers = {"c1"}
    MockEmail <- MCMockEmail
    MockOwner <- MCMockOwner
    Emails = {"one", "ONE", "two"}
    Normal <- MCNormal
    Ids = {"i1", "i2"}
    PatchedLists = {"stopCheckPayments", "originalLtv"}
    CardIds = {1, 2}
    Numbers = {"n1", "n2"}
    Workloads <- MCWorkloads
    Absent = Absent
    MaxOps = 3
    MaxCrashes = 1
SPECIFICATION Spec
INVARIANTS
    TypeOK
    EmailsUnique
    KeysHold
    RecordsAsShown
    CardsAsShown
CHECK_DEADLOCK FALSE
