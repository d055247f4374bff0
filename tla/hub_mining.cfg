\* Proofs with their harvest and reinvest, fee updates, entropy updates and
\* rebalancing, beside bonding and unbonding, with two validators that
\* accrue rewards and no slashing; the fee starts at the maximum, 50
\* percent, and the owner may try to set 0 or 100.
CONSTANTS
    u1 = u1  u2 = u2  v1 = v1  v2 = v2
    Users <- MCUsers
    Validators <- MCValidators
    InitValidators <- MCInitValidators
    EpochPeriod = 1
    InitUnbondPeriod = 1
    UnbondPeriods = {1}
    ChainUnbondTime = 1
    BondAmounts = {1}
    RosterChanges = FALSE
    MaxSupply = 2
    MaxTime = 3
    MaxBatchId = 1
    MaxRewards = 2
    MaxSlashes = 0
    MaxUnbondingSlashes = 0
    MiningEnabled = TRUE
    m1 = m1
    Accounts <- MCAccounts
    NoAccount = NoAccount
    InitOwner = m1
    InitFeeAccount = m1
    InitFeeAccountType = "FeeSplit"
    InitFeeRate = 50
    MaxFeeRate = 50
    FeeRates = {0, 100}
    TARGET_MINING_DURATION_FLOOR_SECONDS = 1
    TARGET_MINING_DURATION_CEILING_SECONDS = 2
    MaxProofs = 2
    RebalanceMinimums = {1}
SPECIFICATION Spec
SYMMETRY UserSymmetry
VIEW HubView
INVARIANT Solvency
