\* The legacy hub with harvest, swap and reinvest: two users, two
\* validators, rewards in both denoms, two batches.
CONSTANTS
    u1 = u1  u2 = u2  v1 = v1  v2 = v2  w1 = w1
    Users <- MCUsers
    Validators <- MCValidators
    Workers <- MCWorkers
    EpochPeriod = 1
    UnbondPeriod = 1
    ChainUnbondTime = 1
    SwapRate = 2
    BondAmounts = {1}
    MaxSupply = 2
    MaxTime = 4
    MaxBatchId = 2
    MaxRewards = 2
SPECIFICATION Spec
SYMMETRY Symmetry
INVARIANTS TypeOK RefundsWithinBatch
PROPERTIES RateNeverFalls
\* The only states without a successor are those where the clock reached
\* MaxTime with the pending batch not yet due (checked with an invariant
\* ENABLED Next \/ now = MaxTime): the bound, not the contract, stops.
CHECK_DEADLOCK FALSE
