\* Batches, reconciliation and the exchange rate with a fixed roster;
\* bonded and unbonding stake may be slashed.
CONSTANTS
    u1 = u1  u2 = u2  v1 = v1  v2 = v2
    Users <- MCUsers
    Validators <- MCOneValidator
    InitValidators <- MCOneValidatorSeq
    EpochPeriod = 1
    InitUnbondPeriod = 1
    UnbondPeriods = {0, 1}
    ChainUnbondTime = 1
    BondAmounts = {1}
    RosterChanges = FALSE
    MaxSupply = 2
    MaxTime = 4
    MaxBatchId = 2
    MaxRewards = 0
    MaxSlashes = 1
    MaxUnbondingSlashes = 1
    MiningEnabled = FALSE
    m1 = m1
    Accounts <- MCAccounts
    NoAccount = NoAccount
    InitOwner = m1
    InitFeeAccount = m1
    InitFeeAccountType = "FeeSplit"
    InitFeeRate = 0
    MaxFeeRate = 10
    FeeRates = {0}
    TARGET_MINING_DURATION_FLOOR_SECONDS = 1
    TARGET_MINING_DURATION_CEILING_SECONDS = 2
    MaxProofs = 0
    RebalanceMinimums = {0}
SPECIFICATION Spec
SYMMETRY UserSymmetry
VIEW HubView
INVARIANTS TypeOK RequestsMatchBatches NoPhantomDeduction
PROPERTIES RateNeverFalls LifecycleRefined
