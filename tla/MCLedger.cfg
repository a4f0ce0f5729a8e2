CONSTANTS
    Accounts = {"a1", "a2"}
    BaselineAccounts <- MCBaselineAccounts
    BaselineBalance <- MCBaselineBalance
    BaselineAvailable <- MCBaselineAvailable
    BaselineOpening <- MCBaselineOpening
    BaselineTxns <- MCBaselineTxns
    BaselineTransfers = {}
    Refs = {"r1"}
    Mentions <- MCMentions
    NoOne = "none"
    Nowhere = "acct_missing"
    TransferAmounts = {502}
    CardAmounts = {503}
    Apys = {12}
    Dates = {1, 2}
    MaxOps = 3
SPECIFICATION Spec
INVARIANTS
    TypeOK
    TransferBooked
    HoldResolvedOnce
    Reconciled
    RefundBacked
    AvailableFollowsBalance
    InterestWithinTotal
