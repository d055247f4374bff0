\* The payout after a slash of bonded stake: a batch worth less than its
\* shares, split between two users whose refunds truncate to zero.
CONSTANTS
    u1 = u1  u2 = u2  v1 = v1  v2 = v2
    Users <- MCUsers
    Validators <- MCOneValidator
    InitValidators <- MCOneValidatorSeq
    EpochPeriod = 1
    InitUnbondPeriod = 1
    UnbondPeriods = {1}
    ChainUnbondTime = 1
    BondAmounts = {1}
    RosterChanges = FALSE
    MaxSupply = 2
    MaxTime = 4
    MaxBatchId = 2
    MaxRewards = 0
    MaxSlashes = 1
    MaxUnbondingSlashes = 0
    MiningEnabled = FALSE
    m1 = m1
    Accounts <- MCAccounts
    NoAccount = NoAccount
    InitOwner = m1
    InitFeeAccount = m1
    InitFeeAccountType = "FeeSplit"
    InitFeeRate = 0
    MaxFeeRate = 10
    FeeRates = {0}
    TARGET_MINING_DURATION_FLOOR_SECONDS = 1
    TARGET_MINING_DURATION_CEILING_SECONDS = 2
    MaxProofs = 0
    RebalanceMinimums = {0}
SPECIFICATION LiveSpec
PROPERTIES ReconciledBatchesPaidOut
