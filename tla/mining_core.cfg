\* The mining engine with the code's thresholds (20 s floor, 300 s ceiling)
\* and blocks of 10 s or 200 s, so that a proof can come faster than the
\* floor, between the thresholds, or after a gap above the ceiling.
CONSTANTS
    a1 = a1  a2 = a2  v1 = v1  v2 = v2
    Accounts <- MCAccounts
    Validators <- MCValidators
    NoAccount = NoAccount
    InitOwner = a1
    InitFeeAccount = a1
    InitFeeAccountType = "FeeSplit"
    InitFeeRate = 5
    InitDenom = "ujuno"
    Denoms = {"ujuno", "uatom"}
    MaxFeeRate = 10
    FeeRates = {0, 10, 20}
    TARGET_MINING_DURATION_FLOOR_SECONDS = 20
    TARGET_MINING_DURATION_CEILING_SECONDS = 300
    BlockTimes = {10, 200}
    MaxHeight = 4
    MaxProofs = 3
SPECIFICATION Spec
INVARIANTS TypeOK PowerAccountsForBlocks
