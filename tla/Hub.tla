-------------------------------- MODULE Hub --------------------------------
(***************************************************************************)
(* The liquid-staking hub of src/contracts/hub/src/execute.rs together     *)
(* with the parts of the host chain it talks to: the staking module        *)
(* (delegations, rewards, unbonding entries that mature after a fixed      *)
(* unbonding time, slashing), the bank balance of the hub and the supply   *)
(* of the receipt token (usteak).                                          *)
(*                                                                         *)
(* Every contract call is one atomic action.  The sub-messages a handler   *)
(* dispatches (delegate, undelegate, redelegate, mint, burn, the reply     *)
(* that registers received coins, the SubmitBatch a QueueUnbond triggers)  *)
(* run in the same transaction and either all succeed or the call aborts, *)
(* so they are part of the handler's action; a failing sub-message is a    *)
(* conjunct of the guard.                                                  *)
(*                                                                         *)
(* Amounts are small naturals; validators and users are model values.      *)
(* The helpers of src/contracts/hub/src/math.rs are not in the sources and *)
(* are modelled from the specification (marked so in PROJECT.json).        *)
(***************************************************************************)
EXTENDS Naturals, FiniteSets, Sequences, SequencesExt, Functions, FiniteSetsExt

CONSTANTS
    Users,              \* stakers (model values)
    Validators,         \* every validator known to the staking module
    InitValidators,     \* the whitelist given to instantiate, a sequence
    EpochPeriod,        \* epoch_period: time between batch submissions
    InitUnbondPeriod,   \* unbond_period given to instantiate
    UnbondPeriods,      \* values the owner may pass to set_unbond_period
    ChainUnbondTime,    \* the staking module's unbonding time
    BondAmounts,        \* native amounts a user may deposit in one bond
    RosterChanges,      \* whether the owner's roster operations are enabled
    MaxSupply,          \* bound: usteak supply
    MaxTime,            \* bound: block time
    MaxBatchId,         \* bound: ids of submitted batches
    MaxRewards,         \* bound: reward accruals by the chain
    MaxSlashes,         \* bound: slashes of bonded stake
    MaxUnbondingSlashes,\* bound: slashes of stake that is unbonding
    \* mining, fees and rebalancing (see Mining.tla for the rest)
    MiningEnabled,      \* whether proofs, entropy updates, fee updates and
                        \* rebalancing are enabled
    Accounts, NoAccount, InitOwner, InitFeeAccount, InitFeeAccountType, InitFeeRate, MaxFeeRate, FeeRates,
    TARGET_MINING_DURATION_FLOOR_SECONDS, TARGET_MINING_DURATION_CEILING_SECONDS,
    MaxProofs,
    RebalanceMinimums   \* values of rebalance's `minimum` argument

ASSUME /\ InitValidators \in Seq(Validators) /\ Len(InitValidators) > 0
       /\ {EpochPeriod, InitUnbondPeriod, ChainUnbondTime} \subseteq Nat \ {0}
       /\ InitUnbondPeriod \in UnbondPeriods
       /\ BondAmounts \subseteq Nat \ {0}
       /\ RosterChanges \in BOOLEAN /\ MiningEnabled \in BOOLEAN
       /\ RebalanceMinimums \subseteq Nat

VARIABLES
    \* contract storage (src/contracts/hub/src/state.rs)
    validators,         \* whitelist, a sequence
    validators_active,  \* validators that bond and reinvest may pick
    pending_batch,      \* [id, usteak_to_burn, est_unbond_start_time]
    previous_batches,   \* id -> [id, reconciled, total_shares, amount_unclaimed, est_unbond_end_time]
    unbond_requests,    \* <<id, user>> -> shares
    unbond_period,
    prev_denom,         \* native balance snapshot used by reinvest
    unlocked_coins,     \* native coins registered from coin_received events
    \* receipt token
    supply,             \* usteak total supply
    steak,              \* user -> usteak balance
    \* host chain
    delegation,         \* validator -> native delegated by the hub
    rewards,            \* validator -> rewards accrued to the hub, not withdrawn
    unbonding,          \* batch id -> [amount, completes]: maturing undelegations
    balance,            \* native bank balance of the hub
    now,                \* block time
    \* history counters: environment events and reconcile's deductions
    rewardCount, slashCount, unbondSlashCount, deducted,
    shortPeriodUsed,    \* a batch was submitted with unbond_period < ChainUnbondTime
    \* mining and fee configuration, as in Mining.tla
    miner_difficulty, miner_last_mined_timestamp, miner_last_mined_block,
    validator_mining_powers, total_mining_power,
    fee_account, fee_account_type, fee_rate, owner, new_owner, denom, proofs

contract == <<validators, validators_active, pending_batch, previous_batches,
              unbond_requests, unbond_period, prev_denom, unlocked_coins>>
chain == <<supply, steak, delegation, rewards, unbonding, balance, now>>
history == <<rewardCount, slashCount, unbondSlashCount, deducted, shortPeriodUsed>>
incentive == <<miner_difficulty, miner_last_mined_timestamp, miner_last_mined_block,
               validator_mining_powers, total_mining_power,
               fee_account, fee_account_type, fee_rate, owner, new_owner, denom, proofs>>
vars == <<contract, chain, history, incentive>>

\* Hub works in one native denom: denom keeps its instantiate value, and
\* change_denom is an action of Mining only (see the README).
NativeDenom == "native"

\* The mining engine runs on the hub's clock: every block lasts one time
\* unit, so the block height is the block time.
M == INSTANCE Mining WITH block_time <- now, height <- now,
                          InitDenom <- NativeDenom, Denoms <- {NativeDenom},
                          BlockTimes <- {1}, MaxHeight <- MaxTime

BatchIds == 1..MaxBatchId + 1
Batch == [id: BatchIds, reconciled: BOOLEAN, total_shares: Nat,
          amount_unclaimed: Nat, est_unbond_end_time: Nat]

TypeOK ==
    /\ validators \in Seq(Validators) /\ validators_active \in Seq(Validators)
    /\ pending_batch \in [id: BatchIds, usteak_to_burn: Nat, est_unbond_start_time: Nat]
    /\ DOMAIN previous_batches \subseteq BatchIds
    /\ \A id \in DOMAIN previous_batches :
          previous_batches[id] \in Batch /\ previous_batches[id].id = id
    /\ DOMAIN unbond_requests \subseteq BatchIds \X Users
    /\ \A k \in DOMAIN unbond_requests : unbond_requests[k] \in Nat \ {0}
    /\ unbond_period \in Nat /\ prev_denom \in Nat /\ unlocked_coins \in Nat
    /\ supply \in Nat /\ steak \in [Users -> Nat]
    /\ delegation \in [Validators -> Nat] /\ rewards \in [Validators -> Nat]
    /\ DOMAIN unbonding \subseteq BatchIds
    /\ \A id \in DOMAIN unbonding : unbonding[id] \in [amount: Nat, completes: Nat]
    /\ balance \in Nat /\ now \in Nat
    /\ deducted \in Nat /\ shortPeriodUsed \in BOOLEAN
    /\ M!TypeOK

-----------------------------------------------------------------------------
(* Arithmetic of math.rs, modelled from the specification.                 *)

\* compute_mint_amount: 1:1 at genesis, else deposit * supply / delegated
MintAmount(usteakSupply, amount, totalDelegated) ==
    IF usteakSupply = 0 THEN amount ELSE (amount * usteakSupply) \div totalDelegated

UnbondAmountRoundedUp(usteakSupply, shares, totalDelegated) ==   \* mutant
    (shares * totalDelegated + usteakSupply - 1) \div usteakSupply

\* compute_unbond_amount: shares * delegated / supply, truncated
UnbondAmount(usteakSupply, shares, totalDelegated) ==
    (shares * totalDelegated) \div usteakSupply

\* Uint128::multiply_ratio
MultiplyRatio(a, num, den) == (a * num) \div den

\* compute_undelegations: per-validator amounts of the whitelist that add up
\* to the amount to unbond; the specification fixes no split, so any one
\* the delegations can cover
Undelegations(amount, vs) ==
    {s \in [Validators -> 0..amount] :
        /\ SumFunction(s) = amount
        /\ \A v \in Validators : s[v] <= delegation[v] /\ (v \notin ToSet(vs) => s[v] = 0)}

\* compute_redelegations_for_removal: the departing stake spread over the
\* remaining whitelist
RedelegationsForRemoval(amount, vs) ==
    {s \in [Validators -> 0..amount] :
        /\ SumFunction(s) = amount
        /\ \A v \in Validators : v \notin ToSet(vs) => s[v] = 0}

\* reconcile_batches: the shortfall spread over the due batches in
\* proportion to their amount_unclaimed; the truncation remainder goes one
\* unit each to the lowest ids; a shortfall at least the total clamps all
\* batches to zero
ReconcileBatches(due, shortfall) ==
    LET unclaimed(id) == previous_batches[id].amount_unclaimed
        total == MapThenSumSet(unclaimed, due)
        share(id) == (shortfall * unclaimed(id)) \div total
        funded == {id \in due : unclaimed(id) > 0}
        remainder == shortfall - MapThenSumSet(share, due)
        rank(id) == Cardinality({j \in funded : j <= id})
    IN [id \in due |->
          IF shortfall >= total THEN unclaimed(id)
          ELSE share(id) + (IF id \in funded /\ rank(id) <= remainder THEN 1 ELSE 0)]

-----------------------------------------------------------------------------
(* Helpers of execute.rs                                                   *)

DelegatedTo(vs) == SumFunctionOnSet(delegation, ToSet(vs))

\* bond's linear search: the first validator with the smallest delegation
SmallestDelegation(vs) ==
    vs[CHOOSE i \in 1..Len(vs) :
         \A j \in 1..Len(vs) :
            /\ delegation[vs[j]] >= delegation[vs[i]]
            /\ j < i => delegation[vs[j]] > delegation[vs[i]]]

\* A delegate, undelegate or redelegate touching validators T withdraws
\* their accrued rewards to the hub's balance; when it is a sub-message, its
\* reply (register_received_coins) adds them to unlocked_coins.
RewardsOf(T) == SumFunctionOnSet(rewards, T)

WithdrawRewards(T) == [v \in Validators |-> IF v \in T THEN 0 ELSE rewards[v]]

AddShares(requests, key, n) ==
    IF key \in DOMAIN requests THEN [requests EXCEPT ![key] = @ + n]
    ELSE requests @@ (key :> n)

-----------------------------------------------------------------------------
(* instantiate (and register_steak_token, its reply): pending batch 1 opens *)
(* one epoch from now; the token starts with no supply.                     *)
Init ==
    /\ validators = InitValidators
    /\ validators_active = InitValidators
    /\ pending_batch = [id |-> 1, usteak_to_burn |-> 0, est_unbond_start_time |-> EpochPeriod]
    /\ previous_batches = << >>
    /\ unbond_requests = << >>
    /\ unbond_period = InitUnbondPeriod
    /\ prev_denom = 0
    /\ unlocked_coins = 0
    /\ supply = 0
    /\ steak = [u \in Users |-> 0]
    /\ delegation = [v \in Validators |-> 0]
    /\ rewards = [v \in Validators |-> 0]
    /\ unbonding = << >>
    /\ balance = 0
    /\ now = 0
    /\ rewardCount = 0 /\ slashCount = 0 /\ unbondSlashCount = 0 /\ deducted = 0
    /\ shortPeriodUsed = FALSE
    /\ M!Init

(* bond: the whole deposit goes to the first active validator with the     *)
(* smallest delegation; usteak is minted at the rate of the active         *)
(* validators' delegations, queried before the deposit is delegated.       *)
Bond(u, amount) ==
    LET vs == validators_active
        v == SmallestDelegation(vs)
        minted == MintAmount(supply, amount, DelegatedTo(vs))
    IN /\ Len(vs) > 0                          \* delegations[0] panics otherwise
       /\ supply = 0 \/ DelegatedTo(vs) > 0    \* division by zero otherwise
       /\ minted > 0                           \* cw20 rejects a zero mint
       /\ supply + minted <= MaxSupply
       /\ delegation' = [delegation EXCEPT ![v] = @ + amount]
       /\ rewards' = WithdrawRewards({v})
       /\ unlocked_coins' = unlocked_coins + RewardsOf({v})
       /\ balance' = balance + RewardsOf({v})
       /\ prev_denom' = balance + amount      \* the deposit is already held
       /\ supply' = supply + minted
       /\ steak' = [steak EXCEPT ![u] = @ + minted]
       /\ UNCHANGED <<incentive, validators, validators_active, pending_batch, previous_batches,
                      unbond_requests, unbond_period, unbonding, now, history>>

(* submit_batch applied to pending batch pb: undelegate the native value of *)
(* its shares from the whitelist, record it as a previous batch, open the  *)
(* next pending batch and burn the shares.                                 *)
SubmitBatchOf(pb) ==
    LET amount == UnbondAmount(supply, pb.usteak_to_burn, DelegatedTo(validators))
    IN /\ now >= pb.est_unbond_start_time
       /\ pb.usteak_to_burn > 0                \* cw20 rejects a zero burn
       /\ pb.id <= MaxBatchId
       /\ \E s \in Undelegations(amount, validators) :
            LET touched == {v \in Validators : s[v] > 0}
            IN /\ delegation' = [v \in Validators |-> delegation[v] - s[v]]
               /\ rewards' = WithdrawRewards(touched)
               /\ unlocked_coins' = unlocked_coins + RewardsOf(touched)
               /\ balance' = balance + RewardsOf(touched)
       /\ previous_batches' = previous_batches @@
             (pb.id :> [id |-> pb.id, reconciled |-> FALSE,
                        total_shares |-> pb.usteak_to_burn, amount_unclaimed |-> amount,
                        est_unbond_end_time |-> now + unbond_period])
       /\ pending_batch' = [id |-> pb.id + 1, usteak_to_burn |-> 0,
                            est_unbond_start_time |-> now + EpochPeriod]
       /\ prev_denom' = balance
       /\ unbonding' = unbonding @@ (pb.id :> [amount |-> amount, completes |-> now + ChainUnbondTime])
       /\ supply' = supply - pb.usteak_to_burn
       /\ shortPeriodUsed' = (shortPeriodUsed \/ unbond_period < ChainUnbondTime)
       /\ UNCHANGED <<incentive, validators, validators_active, unbond_period, now,
                      rewardCount, slashCount, unbondSlashCount, deducted>>

SubmitBatch == SubmitBatchOf(pending_batch) /\ UNCHANGED <<steak, unbond_requests>>

(* queue_unbond, reached through the cw20 receive hook that moves the      *)
(* shares to the hub: add them to the pending batch and to the user's      *)
(* request; once the batch's start time has come, the SubmitBatch it       *)
(* dispatches runs in the same transaction.                                *)
QueueUnbond(u, n) ==
    LET pb == [pending_batch EXCEPT !.usteak_to_burn = @ + n]
    IN /\ n \in 1..steak[u]
       /\ steak' = [steak EXCEPT ![u] = @ - n]
       /\ unbond_requests' = AddShares(unbond_requests, <<pb.id, u>>, n)
       /\ IF now >= pb.est_unbond_start_time
          THEN SubmitBatchOf(pb)
          ELSE /\ pending_batch' = pb
               /\ UNCHANGED <<incentive, validators, validators_active, previous_batches, unbond_period,
                              prev_denom, unlocked_coins, supply, delegation, rewards,
                              unbonding, balance, now, history>>

(* reconcile's selection: unreconciled batches whose unbonding has ended.  *)
DueBatchesIgnoringEndTime ==      \* mutant: the end-time filter dropped
    {id \in DOMAIN previous_batches : ~previous_batches[id].reconciled}

DueBatches ==
    {id \in DOMAIN previous_batches :
        /\ ~previous_batches[id].reconciled
        /\ now > previous_batches[id].est_unbond_end_time}

(* native_expected.checked_sub(native_actual).unwrap_or(0)                 *)
ShortfallUnchecked(expected, actual) == expected - actual   \* mutant: no saturation

Shortfall(expected, actual) == IF expected > actual THEN expected - actual ELSE 0

(* reconcile: the due batches are expected to be held, with unlocked_coins, *)
(* in the balance; a shortfall is deducted from them, and they are all     *)
(* marked reconciled.                                                      *)
Reconcile ==
    LET due == DueBatches
        expected == MapThenSumSet(LAMBDA id : previous_batches[id].amount_unclaimed, due)
                    + unlocked_coins
        deduction == ReconcileBatches(due, Shortfall(expected, balance))
    IN /\ previous_batches' =
            [id \in DOMAIN previous_batches |->
               IF id \in due
               THEN [previous_batches[id] EXCEPT !.reconciled = TRUE,
                                                 !.amount_unclaimed = @ - deduction[id]]
               ELSE previous_batches[id]]
       /\ deducted' = deducted + MapThenSumSet(LAMBDA id : deduction[id], due)
       /\ UNCHANGED <<incentive, validators, validators_active, pending_batch, unbond_requests,
                      unbond_period, prev_denom, unlocked_coins, chain,
                      rewardCount, slashCount, unbondSlashCount, shortPeriodUsed>>

WithdrawableUnreconciled(u) ==   \* mutant: the reconciled check dropped
    {id \in DOMAIN previous_batches :
        /\ <<id, u>> \in DOMAIN unbond_requests
        /\ previous_batches[id].est_unbond_end_time < now}

(* withdraw_unbonded's selection: the user's requests whose batch is       *)
(* reconciled and past its end time (a request of the pending batch has no *)
(* previous batch and is skipped).                                         *)
Withdrawable(u) ==
    {id \in DOMAIN previous_batches :
        /\ <<id, u>> \in DOMAIN unbond_requests
        /\ previous_batches[id].reconciled
        /\ previous_batches[id].est_unbond_end_time < now}

Refund(u, id) ==
    MultiplyRatio(previous_batches[id].amount_unclaimed, unbond_requests[<<id, u>>],
                  previous_batches[id].total_shares)

Emptied(u) ==
    {id \in Withdrawable(u) : previous_batches[id].total_shares = unbond_requests[<<id, u>>]}

BatchesAfterWithdrawNoSave(u) ==   \* mutant: only removal is stored (steak-hub)
    [id \in DOMAIN previous_batches \ Emptied(u) |-> previous_batches[id]]

BatchesAfterWithdrawNoShrink(u) == \* mutant: amount_unclaimed not reduced
    [id \in DOMAIN previous_batches \ Emptied(u) |->
        IF id \in Withdrawable(u)
        THEN [previous_batches[id] EXCEPT !.total_shares = @ - unbond_requests[<<id, u>>]]
        ELSE previous_batches[id]]

(* Each paid batch loses the request's shares and refund; an emptied batch *)
(* is removed, the others are saved.                                       *)
BatchesAfterWithdraw(u) ==
    [id \in DOMAIN previous_batches \ Emptied(u) |->
        IF id \in Withdrawable(u)
        THEN [previous_batches[id] EXCEPT !.total_shares = @ - unbond_requests[<<id, u>>],
                                          !.amount_unclaimed = @ - Refund(u, id)]
        ELSE previous_batches[id]]

(* withdraw_unbonded (and withdraw_unbonded_admin, which runs it for the    *)
(* receiver): pay every withdrawable request its pro-rata share in one     *)
(* bank send and remove it.                                                *)
WithdrawUnbonded(u) ==
    LET total == MapThenSumSet(LAMBDA id : Refund(u, id), Withdrawable(u))
    IN /\ total > 0                     \* "withdrawable amount is zero"
       /\ total <= balance              \* the bank send fails otherwise
       /\ previous_batches' = BatchesAfterWithdraw(u)
       /\ unbond_requests' = Restrict(unbond_requests,
                                      DOMAIN unbond_requests \ (Withdrawable(u) \X {u}))
       /\ balance' = balance - total
       /\ UNCHANGED <<incentive, validators, validators_active, pending_batch, unbond_period,
                      prev_denom, unlocked_coins, supply, steak, delegation, rewards,
                      unbonding, now, history>>

-----------------------------------------------------------------------------
(* Owner operations on the roster and the configuration.                   *)

(* add_validator: whitelist v and make it active.                          *)
AddValidator(v) ==
    /\ v \notin ToSet(validators)              \* "validator is already whitelisted"
    /\ validators' = Append(validators, v)
    /\ validators_active' = IF v \in ToSet(validators_active) THEN validators_active
                            ELSE Append(validators_active, v)
    /\ UNCHANGED <<incentive, pending_batch, previous_batches, unbond_requests, unbond_period,
                   prev_denom, unlocked_coins, chain, history>>

(* remove_validator: drop v from the whitelist, keep (or put) it in the     *)
(* active list as the code does, and redelegate all its stake to the       *)
(* remaining whitelist.                                                    *)
RemoveValidator(v) ==
    LET remaining == Remove(validators, v)
    IN /\ v \in ToSet(validators)              \* "validator is not already whitelisted"
       /\ validators' = remaining
       /\ validators_active' = IF v \in ToSet(validators_active) THEN validators_active
                               ELSE Append(validators_active, v)
       /\ \E s \in RedelegationsForRemoval(delegation[v], remaining) :
            LET touched == {w \in Validators : s[w] > 0} \cup
                           (IF delegation[v] > 0 THEN {v} ELSE {})
            IN /\ delegation' = [w \in Validators |->
                                   IF w = v THEN 0 ELSE delegation[w] + s[w]]
               /\ rewards' = WithdrawRewards(touched)
               /\ unlocked_coins' = unlocked_coins + RewardsOf(touched)
               /\ balance' = balance + RewardsOf(touched)
       /\ prev_denom' = balance
       /\ UNCHANGED <<incentive, pending_batch, previous_batches, unbond_requests, unbond_period,
                      supply, steak, unbonding, now, history>>

(* remove_validator_ex: drop v from the whitelist only.                    *)
RemoveValidatorEx(v) ==
    /\ v \in ToSet(validators)
    /\ validators' = Remove(validators, v)
    /\ UNCHANGED <<incentive, validators_active, pending_batch, previous_batches, unbond_requests,
                   unbond_period, prev_denom, unlocked_coins, chain, history>>

(* pause_validator: drop v from the active list.                           *)
PauseValidator(v) ==
    /\ v \in ToSet(validators_active)
    /\ validators_active' = Remove(validators_active, v)
    /\ UNCHANGED <<incentive, validators, pending_batch, previous_batches, unbond_requests,
                   unbond_period, prev_denom, unlocked_coins, chain, history>>

(* unpause_validator: append v to the active list if absent; the code does *)
(* not check the whitelist.                                                *)
UnpauseValidator(v) ==
    /\ v \notin ToSet(validators_active)
    /\ validators_active' = Append(validators_active, v)
    /\ UNCHANGED <<incentive, validators, pending_batch, previous_batches, unbond_requests,
                   unbond_period, prev_denom, unlocked_coins, chain, history>>

(* set_unbond_period: any value, applied to batches submitted later.       *)
SetUnbondPeriod(p) ==
    /\ p # unbond_period
    /\ unbond_period' = p
    /\ UNCHANGED <<incentive, validators, validators_active, pending_batch, previous_batches,
                   unbond_requests, prev_denom, unlocked_coins, chain, history>>

-----------------------------------------------------------------------------
(* Mining, harvest, reinvest and rebalance.                                *)

\* compute_target_delegation_from_mining_power, from the specification:
\* the validator's power-weighted share of the bonded total, zero while no
\* power has been earned
TargetDelegation(totalBonded, power, totalPower) ==
    IF totalPower = 0 THEN 0 ELSE (totalBonded * power) \div totalPower

\* Ordering of target.cmp(&amount): Less < Equal < Greater
Cmp(a, b) == IF a < b THEN -1 ELSE IF a = b THEN 0 ELSE 1

(* The running-best scan of reinvest over the delegations of vs: start     *)
(* with the first, whose gap counts only when it is below target; move to *)
(* a later validator whose comparison with its target is greater, or that  *)
(* is below target by more.  The targets come from the mining powers     *)
(* `powers` and their total as stored when the scan runs.                  *)
MostUnderTarget(vs, totalBonded, powers, totalPower) ==
    LET target(v) == TargetDelegation(totalBonded, powers[v], totalPower)
        cmp(v) == Cmp(target(v), delegation[v])
        gap(v) == IF cmp(v) = 1 THEN target(v) - delegation[v] ELSE delegation[v] - target(v)
        best(v, d) == [validator |-> v, cmp |-> cmp(v), diff |-> d]
        step(b, v) == IF cmp(v) > b.cmp \/ (cmp(v) = 1 /\ gap(v) > b.diff)
                      THEN best(v, gap(v)) ELSE b
    IN FoldLeft(step, best(vs[1], IF cmp(vs[1]) = 1 THEN gap(vs[1]) ELSE 0), Tail(vs))

HarvestSnapshotMissing == prev_denom   \* mutant: harvest does not save prev_denom

\* harvest: prev_denom is saved as the balance before the withdrawals
HarvestSnapshot == balance

(* submit_proof and the harvest it dispatches to the hub itself, with the  *)
(* Reinvest callback harvest dispatches, all in one transaction:           *)
(*  - the mining state is updated and miner m becomes the fee account;     *)
(*  - harvest snapshots the balance into prev_denom and withdraws the      *)
(*    rewards of every delegation; the replies register them as unlocked;  *)
(*  - reinvest bonds the balance above prev_denom, less the fee, to the    *)
(*    active validator furthest below its target, sends the fee to the     *)
(*    miner and drops the native entry of unlocked_coins.                  *)
(* Any failure of the chain aborts the proof as well.                      *)
SubmitProof(m, v) ==
    LET staked == {w \in Validators : delegation[w] > 0}   \* query_all_delegations
        current == balance + RewardsOf(staked)
        amount == current - HarvestSnapshot                \* saturating_sub after the check
        vs == validators_active
        fee == (fee_rate * amount) \div 100                 \* Decimal * Uint128, floored
        \* reinvest runs after submit_proof saved the new mining powers
        w == MostUnderTarget(vs, DelegatedTo(vs), validator_mining_powers',
                             total_mining_power').validator
    IN /\ MiningEnabled
       /\ M!AcceptProof(m, v)
       /\ current > HarvestSnapshot       \* reinvest: "no rewards"
       /\ Len(vs) > 0                     \* delegations[0] panics otherwise
       /\ amount - fee > 0                \* the staking module rejects a zero delegation
       /\ amount <= current               \* the delegation and the fee must be funded
       /\ rewards' = WithdrawRewards(staked)
       /\ delegation' = [delegation EXCEPT ![w] = @ + (amount - fee)]
       /\ prev_denom' = HarvestSnapshot
       /\ unlocked_coins' = 0
       /\ balance' = current - amount
       /\ UNCHANGED <<validators, validators_active, pending_batch, previous_batches,
                      unbond_requests, unbond_period, supply, steak, unbonding, history>>

(* update_entropy: anyone may call it; it only retargets the difficulty.   *)
UpdateEntropy ==
    /\ MiningEnabled
    /\ M!UpdateEntropy
    /\ UNCHANGED <<contract, supply, steak, delegation, rewards, unbonding, balance, history>>

(* update_fee, by the owner.                                               *)
UpdateFee(r) ==
    /\ MiningEnabled
    /\ M!UpdateFee(r)
    /\ UNCHANGED <<contract, supply, steak, delegation, rewards, unbonding, balance, history>>

\* compute_redelegations_for_rebalancing, from the specification: the
\* single destination is the active validator furthest below its target
\* (the same scan as reinvest, over the whitelist's total); it receives moves
\* of at least `minimum` from whitelisted validators above their targets,
\* each at most the source's surplus and together at most its deficit
RedelegationsForRebalancing(minimum) ==
    LET total == DelegatedTo(validators)
        target(x) == TargetDelegation(total, validator_mining_powers[x], total_mining_power)
        dest == MostUnderTarget(validators_active, total, validator_mining_powers, total_mining_power)
        sources == {x \in ToSet(validators) : delegation[x] > target(x) /\ x # dest.validator}
    IN IF dest.cmp # 1 THEN {[x \in Validators |-> 0]}
       ELSE {s \in [Validators -> 0..total] :
               /\ \A x \in Validators :
                    \/ s[x] = 0
                    \/ x \in sources /\ minimum <= s[x] /\ s[x] <= delegation[x] - target(x)
               /\ SumFunction(s) <= dest.diff}

(* rebalance, by anyone: redelegate toward the power-weighted targets; the  *)
(* redelegations withdraw the rewards of the validators they touch, which  *)
(* the replies register; prev_denom is snapshotted first.                  *)
Rebalance(minimum) ==
    LET dest == MostUnderTarget(validators_active, DelegatedTo(validators),
                                validator_mining_powers, total_mining_power).validator
    IN /\ MiningEnabled
       /\ Len(validators_active) > 0
       /\ \E s \in RedelegationsForRebalancing(minimum) :
            LET moved == SumFunction(s)
                touched == {x \in Validators : s[x] > 0} \cup (IF moved > 0 THEN {dest} ELSE {})
            IN /\ delegation' = [x \in Validators |->
                                   delegation[x] - s[x] + (IF x = dest THEN moved ELSE 0)]
               /\ rewards' = WithdrawRewards(touched)
               /\ unlocked_coins' = unlocked_coins + RewardsOf(touched)
               /\ balance' = balance + RewardsOf(touched)
       /\ prev_denom' = balance
       /\ UNCHANGED <<incentive, validators, validators_active, pending_batch, previous_batches,
                      unbond_requests, unbond_period, supply, steak, unbonding, now, history>>

-----------------------------------------------------------------------------
(* The host chain.                                                         *)

(* End of the block at time now: unbonding entries that have matured pay   *)
(* their amount to the hub; the next block starts one time unit later.     *)
Tick ==
    LET matured == {id \in DOMAIN unbonding : unbonding[id].completes <= now}
    IN /\ now < MaxTime
       /\ balance' = balance + MapThenSumSet(LAMBDA id : unbonding[id].amount, matured)
       /\ unbonding' = Restrict(unbonding, DOMAIN unbonding \ matured)
       /\ now' = now + 1
       /\ UNCHANGED <<incentive, contract, supply, steak, delegation, rewards, history>>

(* Staking rewards accrue to a validator the hub delegates to.             *)
AccrueReward(v) ==
    /\ delegation[v] > 0 /\ rewardCount < MaxRewards
    /\ rewards' = [rewards EXCEPT ![v] = @ + 1]
    /\ rewardCount' = rewardCount + 1
    /\ UNCHANGED <<incentive, contract, supply, steak, delegation, unbonding, balance, now,
                   slashCount, unbondSlashCount, deducted, shortPeriodUsed>>

(* A validator is slashed: the hub's bonded stake with it shrinks.         *)
Slash(v) ==
    /\ delegation[v] > 0 /\ slashCount < MaxSlashes
    /\ delegation' = [delegation EXCEPT ![v] = @ - 1]
    /\ slashCount' = slashCount + 1
    /\ UNCHANGED <<incentive, contract, supply, steak, rewards, unbonding, balance, now,
                   rewardCount, unbondSlashCount, deducted, shortPeriodUsed>>

(* A slash for an infraction before the undelegation also cuts the         *)
(* unbonding entry of a batch.                                             *)
SlashUnbonding(id) ==
    /\ unbonding[id].amount > 0 /\ unbondSlashCount < MaxUnbondingSlashes
    /\ unbonding' = [unbonding EXCEPT ![id].amount = @ - 1]
    /\ unbondSlashCount' = unbondSlashCount + 1
    /\ UNCHANGED <<incentive, contract, supply, steak, delegation, rewards, balance, now,
                   rewardCount, slashCount, deducted, shortPeriodUsed>>

-----------------------------------------------------------------------------
Next ==
    \/ \E u \in Users, a \in BondAmounts : Bond(u, a)
    \/ \E u \in Users, n \in 1..MaxSupply : QueueUnbond(u, n)
    \/ SubmitBatch
    \/ Reconcile
    \/ \E u \in Users : WithdrawUnbonded(u)
    \/ \E p \in UnbondPeriods : SetUnbondPeriod(p)
    \/ /\ RosterChanges
       /\ \E v \in Validators :
            \/ AddValidator(v) \/ RemoveValidator(v) \/ RemoveValidatorEx(v)
            \/ PauseValidator(v) \/ UnpauseValidator(v)
    \/ \E m \in Accounts, v \in Validators : SubmitProof(m, v)
    \/ UpdateEntropy
    \/ \E r \in FeeRates : UpdateFee(r)
    \/ \E min \in RebalanceMinimums : Rebalance(min)
    \/ Tick
    \/ \E v \in Validators : AccrueReward(v) \/ Slash(v)
    \/ \E id \in DOMAIN unbonding : SlashUnbonding(id)

Spec == Init /\ [][Next]_vars

(* Fairness for the liveness runs: a user who has something to withdraw    *)
(* eventually calls withdraw_unbonded.  Nothing in the contract calls it   *)
(* for them; it is the assumption that owners of the coins want them.      *)
UsersWithdraw == \A u \in Users : WF_vars(WithdrawUnbonded(u))

LiveSpec == Spec /\ UsersWithdraw

-----------------------------------------------------------------------------
(* Properties                                                              *)

SharesRequested(id) ==
    MapThenSumSet(LAMBDA k : unbond_requests[k], {k \in DOMAIN unbond_requests : k[1] = id})

(* For the pending batch and every previous batch, the users' unbond       *)
(* requests add up to the batch's shares, and no request refers to a batch *)
(* that is gone: queue_unbond, submit_batch and withdraw_unbonded keep the *)
(* request table and the batch table in step, so every share is paid out  *)
(* exactly once and a batch is removed exactly when its last request is.   *)
RequestsMatchBatches ==
    /\ SharesRequested(pending_batch.id) = pending_batch.usteak_to_burn
    /\ \A id \in DOMAIN previous_batches :
          SharesRequested(id) = previous_batches[id].total_shares
    /\ \A k \in DOMAIN unbond_requests :
          k[1] \in DOMAIN previous_batches \cup {pending_batch.id}

(* The hub's balance covers what it owes every reconciled batch: once       *)
(* reconcile has fixed a batch's amount_unclaimed, withdraw_unbonded can pay *)
(* all of its requests.                                                    *)
Solvency ==
    balance >= MapThenSumSet(LAMBDA id : previous_batches[id].amount_unclaimed,
                             {id \in DOMAIN previous_batches : previous_batches[id].reconciled})

(* As long as every batch was submitted with an unbond_period at least    *)
(* the chain's unbonding time, reconcile never takes from the batches more *)
(* than the chain has slashed from unbonding stake: it only deducts        *)
(* losses, never funds still on their way from the staking module.         *)
(* set_unbond_period accepts any value; with a shorter period the batch's  *)
(* estimated end comes before its coins and the claim is not made.         *)
NoPhantomDeduction == ~shortPeriodUsed => deducted <= unbondSlashCount

PoolValue == SumFunction(delegation)

(* Outside slashing, no call lowers the native value backing one usteak:   *)
(* bond mints at most deposit * supply / delegated and submit_batch        *)
(* unbonds at most shares * delegated / supply, both counted over all of  *)
(* the hub's delegations.                                                  *)
RateNeverFalls ==
    [][slashCount' = slashCount /\ supply > 0 /\ supply' > 0
         => PoolValue' * supply >= PoolValue * supply']_vars

(* No call puts new stake on a validator that is not whitelisted: bond's   *)
(* choice among the active validators and remove_validator's redelegation *)
(* only target the whitelist.                                              *)
BondsOnlyToWhitelisted ==
    [][\A v \in Validators :
          delegation'[v] > delegation[v] => v \in ToSet(validators')]_vars

\* Native coins of batches whose unbonding entry has paid out to the hub
Matured == {id \in DOMAIN previous_batches : id \notin DOMAIN unbonding}

(* Every native coin the hub holds is either owed to a batch whose         *)
(* unbonding has paid out or registered in unlocked_coins for reinvestment: *)
(* the rewards that bond, submit_batch, rebalance and remove_validator      *)
(* withdraw as a side effect are registered by their replies and must stay *)
(* registered until a reinvest bonds them.                                 *)
IdleCoinsRegistered ==
    balance <= MapThenSumSet(LAMBDA id : previous_batches[id].amount_unclaimed, Matured)
               + unlocked_coins

(* Once reconcile has fixed a batch's amount, the batch is eventually paid *)
(* out in full and removed, when every user with a request in it withdraws *)
(* when able: withdraw_unbonded pays each request its pro-rata part and     *)
(* removes the batch with its last request.                                *)
ReconciledBatchesPaidOut ==
    \A id \in BatchIds :
        id \in DOMAIN previous_batches /\ previous_batches[id].reconciled
            ~> id \notin DOMAIN previous_batches


-----------------------------------------------------------------------------
(* Refinement of BatchLifecycle: the pending batch is the open one, a      *)
(* stored previous batch is unbonding until reconciled, a removed one is   *)
(* closed; a missing request is a request of zero shares.                  *)

BatchStatus ==
    [id \in BatchIds |->
        IF id = pending_batch.id THEN "open"
        ELSE IF id \in DOMAIN previous_batches
             THEN IF previous_batches[id].reconciled THEN "reconciled" ELSE "unbonding"
        ELSE IF id < pending_batch.id THEN "closed" ELSE "future"]

RequestedShares ==
    [k \in BatchIds \X Users |-> IF k \in DOMAIN unbond_requests THEN unbond_requests[k] ELSE 0]

Lifecycle == INSTANCE BatchLifecycle WITH current <- pending_batch.id,
                                          status <- BatchStatus,
                                          requests <- RequestedShares

(* The hub implements the batch lifecycle: every step of every handler,    *)
(* with the chain's steps in between, is a step of BatchLifecycle or      *)
(* leaves its state alone.  Shares go only to the pending batch, are paid  *)
(* only from reconciled batches, and a batch disappears exactly when its   *)
(* last request is withdrawn.                                              *)
LifecycleRefined == Lifecycle!Spec

=============================================================================
