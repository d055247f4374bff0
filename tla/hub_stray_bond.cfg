\* hub_stray_bond0
CONSTANTS
    u1 = u1  u2 = u2  v1 = v1  v2 = v2
    Users <- MCUsers
    Validators <- MCValidators
    InitValidators <- MCInitValidators
    EpochPeriod = 1
    InitUnbondPeriod = 1
    UnbondPeriods = {1}
    ChainUnbondTime = 1
    BondAmounts = {1}
    RosterChanges = TRUE
    MaxSupply = 3
    MaxTime = 2
    MaxBatchId = 1
    MaxRewards = 0
    MaxSlashes = 0
    MaxUnbondingSlashes = 0
    MiningEnabled = FALSE
    m1 = m1
    Accounts <- MCAccounts
    NoAccount = NoAccount
    InitOwner = m1
    InitFeeAccount = m1
    InitFeeAccountType = "FeeSplit"
    InitFeeRate = 0
    MaxFeeRate = 10
    FeeRates = {0}
    TARGET_MINING_DURATION_FLOOR_SECONDS = 1
    TARGET_MINING_DURATION_CEILING_SECONDS = 2
    MaxProofs = 0
    RebalanceMinimums = {0}
SPECIFICATION Spec
SYMMETRY UserSymmetry
VIEW HubView
PROPERTY BondsOnlyToWhitelisted
