\* Harvest twice while a batch has come back from unbonding: one
\* validator, uluna rewards only matter.
CONSTANTS
    u1 = u1  u2 = u2  v1 = v1  v2 = v2  w1 = w1
    Users <- MCUsers
    Validators <- MCOneValidator
    Workers <- MCWorkers
    EpochPeriod = 1
    UnbondPeriod = 1
    ChainUnbondTime = 1
    SwapRate = 2
    BondAmounts = {1}
    MaxSupply = 2
    MaxTime = 4
    MaxBatchId = 1
    MaxRewards = 2
SPECIFICATION Spec
SYMMETRY Symmetry
INVARIANTS Solvency
CHECK_DEADLOCK FALSE
