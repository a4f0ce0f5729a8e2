CONSTANTS
    Accounts = {"a1"}
    BaselineAccounts <- MCBaselineAccounts
    BaselineBalance <- MCBaselineBalance
    BaselineAvailable <- MCBaselineAvailable
    BaselineOpening <- MCBaselineOpening
    BaselineTxns <- MCBaselineTxns
    BaselineTransfers = {}
    Refs = {}
    Mentions <- MCMentions
    NoOne = "none"
    Nowhere = "acct_missing"
    TransferAmounts = {}
    CardAmounts = {}
    Apys = {12}
    Dates = {1, 2}
    MaxOps = 4
SPECIFICATION Spec
INVARIANT
    InterestOncePerDate
