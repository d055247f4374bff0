# TLA+ model of the liquid-staking hub

This directory models two CosmWasm contracts with TLA+ and checks them with TLC:
- the staking hub in `src/contracts/hub/src/execute.rs`, with its mining engine;
- the legacy Steak hub in `src/contracts/steak-hub/src/execute.rs`.

## The system

The hub is a CosmWasm contract. Users bond native tokens and get `usteak`, a cw20 token.
The contract delegates what they bond to a whitelist of validators.

A user who queues an unbond burns `usteak` into the *pending batch*.
When the epoch ends the batch is submitted:
- the hub undelegates the matching native amount;
- the batch becomes a *previous batch* with an `est_unbond_end_time`.

When the chain's unbonding entry matures, the coins come back to the hub.
`reconcile` then marks the due batches as reconciled.
If the hub holds fewer coins than the batches expect (an unbonding entry was slashed),
it deducts the shortfall from the batches.
`withdraw_unbonded` pays every user their share of the reconciled batches they requested from.

Rewards are reinvested through *mining*:
- A miner who finds a nonce whose sha256 proof meets the current difficulty calls `submit_proof`.
- `submit_proof` retargets the difficulty, credits mining power to a validator and makes the miner the fee account.
- It then runs `harvest`, which withdraws all rewards.
- `reinvest` (a callback in the same transaction) takes the fee and delegates the rest to the active validator furthest below its mining-power target.
- `rebalance` moves stake from validators above target to the one furthest below.

The parts, and how they interact:

| Part | Code | Interacts with |
|---|---|---|
| Exchange rate (mint/unbond amounts) | `bond`, `submit_batch`, math helpers | token supply, delegations |
| Batch state machine | `queue_unbond`, `submit_batch`, `reconcile`, `withdraw_unbonded` | chain unbonding entries, balance |
| Validator roster | `add_validator`, `remove_validator(_ex)`, `pause_validator`, `unpause_validator` | delegations (redelegation), bond target |
| Received-coin accounting | `register_received_coins` (reply of delegate/undelegate/redelegate/withdraw) | `unlocked_coins`, reconcile, reinvest |
| Mining / difficulty | `submit_proof`, `update_entropy`, `update_difficulty` | mining power, fee account |
| Harvest, reinvest, rebalance | `harvest`, `reinvest`, `rebalance` | rewards, delegations, mining power |
| Configuration | `transfer_ownership`, `accept_ownership`, `transfer_fee_account`, `update_fee`, `set_unbond_period`, `change_denom` | fees, batch end times |
| Legacy `steak-hub` | its own `bond`, `harvest`/`swap`/`reinvest`, `queue_unbond`, `submit_batch`, `withdraw_unbonded` | a separate contract on Terra |

Each CosmWasm execute call is atomic: the handler, its sub-messages, replies and callbacks
either all take effect or none do. So each handler is one action, and a sub-message that would
fail (a cw20 mint or burn of zero, a delegation of zero, a bank send of zero) becomes a guard.

The chain is modelled with a few actions of its own:
- `Tick` advances block time. It also matures unbonding entries, whose coins go to the hub's balance.
- `AccrueReward` adds staking rewards. Delegate, undelegate and redelegate messages withdraw these rewards automatically, as the chain does.
- `Slash` cuts a delegation. `SlashUnbonding` cuts an unbonding entry.

## Modules

- **`Mining.tla`** is the mining engine and the owner's configuration.
  - Variables: the difficulty, the last mined timestamp and block, the validators' mining powers and their total, the fee account, its type and rate, and `owner`/`new_owner`.
  - Actions: `AcceptProof` (the mining part of `submit_proof`), `UpdateEntropy`, `TransferOwnership`, `AcceptOwnership`, `TransferFeeAccount`, `UpdateFee`, `ChangeDenom`, and a `NextBlock` clock with block times from `BlockTimes`.
  - `NewDifficulty` is `update_difficulty`.
  - Hashing is out of TLC's reach, so whether a miner found a nonce that meets the difficulty is a free choice: `AcceptProof` may fire at any difficulty.
  - The entropy strings only feed the hash, so they are left out.
- **`Hub.tla`** is the hub contract together with the chain.
  - **Contract state.** The variables (`validators`, `validators_active`, `pending_batch`, `previous_batches`, `unbond_requests`, `unbond_period`, `prev_denom`, `unlocked_coins`) are the contract's storage items with the same names.
  - **Token and chain state.** `supply` and `steak` are the cw20 token. `delegation`, `rewards`, `unbonding`, `balance` and `now` are the chain.
  - **Batch and roster actions.** Each of these models the whole handler of the same name:
    - `Bond`, `QueueUnbond`, `SubmitBatch`, `Reconcile`, `WithdrawUnbonded`;
    - `AddValidator`, `RemoveValidator`, `RemoveValidatorEx`, `PauseValidator`, `UnpauseValidator`, `SetUnbondPeriod`.
  - **Mining actions.**
    - `SubmitProof` is `submit_proof`, `harvest`, the reward withdrawals with their replies, and the `reinvest` callback, in one transaction. `reinvest`'s targets come from the mining powers that `submit_proof` has just saved. `harvest` accepts only the contract itself as sender, so it runs only from `submit_proof`.
    - `UpdateEntropy`, `UpdateFee` and `Rebalance` are the handlers of the same names.
  - **Composition with `Mining`.**
    - Hub instantiates `Mining` as `M` with its clock mapped onto the hub's: one hub tick is one block of one second.
    - `SubmitProof` conjoins `M!AcceptProof`; `UpdateEntropy` and `UpdateFee` conjoin the Mining actions of the same names.
    - `MiningEnabled = FALSE` turns these off for the runs about batches.
  - **Helpers from `math.rs`.** `math.rs` is not in the repository, so these helpers are modelled from the spec and marked `spec_modelled` in `PROJECT.json`: `MintAmount`, `UnbondAmount`, `Undelegations`, `RedelegationsForRemoval`, `ReconcileBatches`, `TargetDelegation` and `RedelegationsForRebalancing`.
  - **Nondeterministic splits.** `Undelegations`, `RedelegationsForRemoval` and `RedelegationsForRebalancing` let the model pick any split that the spec allows, so every property is checked for all of them.
  - **`MostUnderTarget`** is reinvest's scan for the validator furthest below target, written as a fold over the active list.
- **`BatchLifecycle.tla`** is the abstract specification of unbonding.
  - Batches go future → open → unbonding → reconciled → closed.
  - Shares are requested only in the open batch.
  - A user withdraws a whole request, only from a reconciled batch.
  - A batch closes when its last request is withdrawn.
  - Hub maps onto it with `BatchStatus` and `RequestedShares` (`Lifecycle == INSTANCE BatchLifecycle WITH ...`). `LifecycleRefined` checks that every hub behaviour is a lifecycle behaviour.
- **`SteakHub.tla`** is the legacy contract, on a Terra chain with rewards in `uluna` and `uusd`.
  - **Actions.** `Bond`, `Harvest`, `QueueUnbond`, `SubmitBatch` and `WithdrawUnbonded`. `Harvest` is `harvest`, the reward withdrawals and their `register_received_coins` replies, and the `Swap` and `Reinvest` callbacks, in one transaction.
  - **Fixed configuration.** There is no reconcile and no roster management; the whitelist, the workers and the periods are constants.
  - **`withdraw_unbonded`'s loop.** `BatchesAfterWithdraw` keeps the loop's behaviour: it shrinks a local copy of the batch and stores only removals.
  - **Swaps and events.** The market swap pays `SwapRate` uluna per uusd. A reward withdrawal with nothing to pay emits no `coin_received` event, so its reply fails. This makes `Harvest` need rewards on every delegation.
  - **History variables.** `unbonded` and `paid` record each batch's uluna and its refunds.
- **`MCHub.tla`, `MCMining.tla` and `MCSteakHub.tla`** instantiate the modules for TLC.
  - Users, validators, miners and workers are model values.
  - **Symmetry.** The symmetry sets are sound because no handler treats one user (or, in SteakHub, one validator) differently.
  - **Users only.** Hub's validators are not symmetric, because bond and reinvest scan the whitelist in order.
  - **`HubView`** leaves out `prev_denom`. It is written by several handlers, but it is only read by `reinvest`, which runs in the same transaction as the `harvest` that overwrites it first.

## Properties

Hub:
- `TypeOK` holds for every variable. In particular no batch amount goes negative, which needs the `Shortfall` guard.
- `RequestsMatchBatches`:
  - the pending batch's `usteak_to_burn` equals the sum of the shares requested from it;
  - every previous batch's `total_shares` equals the sum of the shares still requested from it;
  - every request names a batch that exists.
- `Solvency`: the hub's balance covers the unclaimed amount of every reconciled batch.
- `NoPhantomDeduction`: as long as no batch was submitted with an `unbond_period` shorter than the chain's unbonding time, reconcile never deducts more in total than unbonding entries have really been slashed. `set_unbond_period` accepts any value; the history flag `shortPeriodUsed` records whether a `SubmitBatch` used a shorter one. With such a period reconcile runs before the chain's entries mature and counts the unmatured coins as a loss; `hub_core` lets the owner set 0 so that this case is reached, and only the claim's condition excludes it.
- `RateNeverFalls` is an action property: with no slash of a delegation, no step lowers the value of a share.
- `BondsOnlyToWhitelisted` is an action property: a step that raises a delegation raises it only to a whitelisted validator.
- `IdleCoinsRegistered`: every native coin the hub holds beyond what matured batches owe is registered in `unlocked_coins`, so reconcile and reinvest account for it.
- `ReconciledBatchesPaidOut` is a liveness property: a reconciled batch is eventually paid out and removed.
- `LifecycleRefined`: Hub implements `BatchLifecycle`.

Mining:
- `PowerAccountsForBlocks`: the validators' mining powers add up to the total, and the total is the height of the last mined block. So no block is credited twice.

SteakHub:
- `Solvency`: the hub's uluna covers what it still owes from every batch whose coins have come back.
- `RefundsWithinBatch`: whatever order the users withdraw in, the refunds from a batch never exceed what it was given.
- `RateNeverFalls`: no step lowers the value of a share.

## Runs

| Run | Bounds | Result |
|---|---|---|
| `hub_core` | 1 validator, 2 users, supply ≤ 2, time ≤ 4, 2 batches, periods {0,1} (chain: 1), 1 slash of each kind | pass: `TypeOK`, `RequestsMatchBatches`, `NoPhantomDeduction`, `RateNeverFalls`, `LifecycleRefined` |
| `hub_solvency` | 2 validators, roster changes on, 1 reward, supply ≤ 2, time ≤ 3, 1 batch | pass: `Solvency` |
| `hub_mining` | 2 validators, mining on, fee 50%, rates {0,100%}, 2 proofs, 2 rewards, rebalance minimum 1 | pass: `Solvency` |
| `hub_payout` | 1 validator, supply ≤ 2, time ≤ 4, 2 batches, 1 reward, users weakly fair on withdraw | pass: `ReconciledBatchesPaidOut` |
| `mining_core` | 2 accounts, 2 validators, block times {10,200}, floor 20, ceiling 300, height ≤ 4, 3 proofs | pass: `TypeOK`, `PowerAccountsForBlocks` |
| `steak_core` | 2 users, 2 validators, 1 worker, supply ≤ 2, time ≤ 4, 2 batches, 2 rewards in either denom | pass: `TypeOK`, `RefundsWithinBatch`, `RateNeverFalls` |
| `hub_masking` | 2 validators, 1 unbonding slash, supply ≤ 3, time ≤ 4 | `Solvency` violated |
| `hub_dilution` | roster changes, supply ≤ 4 | `RateNeverFalls` violated |
| `hub_stray_bond` | roster changes | `BondsOnlyToWhitelisted` violated |
| `hub_stranded_rewards` | 1 validator, mining on, fee 0, 2 rewards | `IdleCoinsRegistered` violated |
| `hub_dust` | as `hub_payout`, 1 slash, no rewards | `ReconciledBatchesPaidOut` violated |
| `steak_reinvest` | 1 validator, 2 rewards, 1 batch | SteakHub `Solvency` violated |

Why these bounds are enough:
- **Users.** Two users are enough for two requests in one batch, and for one user withdrawing while another has not.
- **Batches and time.** Two batches with time 4 let a second batch be queued while the first is unbonding. Reconcile then sees one batch due and one not yet due.
- **Slashes.** One slash of each kind reaches the shortfall path of reconcile, and rounding down to a zero refund.
- **Roster.** The roster runs use two validators, so that removal redelegates and pausing changes the bond target.
- **Mining.**
  - `mining_core` uses one fast block time (10 s, below the floor) and one slow (200 s; two of them exceed the ceiling), so the difficulty both rises and falls.
  - `hub_mining` has two proofs with fee-bearing rewards in between, and an under-target validator for rebalance. Both `Rebalance` moves and fee-paying proofs occur.
- **`steak_core`.** Two rewards are enough for two harvests, or one harvest that swaps uusd. Reinvested rewards make share prices non-integral, which the truncations must survive.
- **Deadlock.** `steak_core` and `steak_reinvest` turn off deadlock checking. The only states without a successor are those where the clock reached `MaxTime` before the pending batch was due; an invariant `ENABLED Next \/ now = MaxTime` confirmed this.

### What the violations show (see `findings` in `PROJECT.json`)

- **`hub_masking`** (`execute.rs:627`).
  - `reconcile` compares the expected amount with the *whole* native balance. This includes coins that belong to batches still unbonding, and unclaimed coins of batches that were already reconciled.
  - When a slash cuts an unbonding entry, those coins hide the shortfall. The slashed batch is marked reconciled at full value, and the loss falls on whoever withdraws last.
- **`hub_dilution`** (`execute.rs:175`). `bond` computes the pool value from the *active* validators only. After a pause, the paused validator's delegation is left out, so `bond` mints too many shares and the existing holders are diluted.
- **`hub_stray_bond`** (`execute.rs:856`). `remove_validator` keeps the removed validator in `validators_active`, and even appends it. After the removal it stays the smallest active delegation, so new bonds go to a validator that is no longer whitelisted.
- **`hub_stranded_rewards`** (`execute.rs:366`). `reinvest` clears `unlocked_coins` but bonds only the balance above harvest's snapshot. Rewards that `bond`, `submit_batch` or `rebalance` withdrew and registered are then neither delegated nor registered any more.
- **`hub_dust`** (`execute.rs:732`).
  - After a slash, a request's truncated refund can be zero. `withdraw_unbonded` then fails with "withdrawable amount is zero", although the request is eligible.
  - The request, and its batch, stay forever. The spec's withdraw fails only when no request is eligible.
- **`steak_reinvest`** (`steak-hub/execute.rs:229`).
  - The legacy `reinvest` delegates the registered uluna, but then keeps exactly the uluna entry of `unlocked_coins`.
  - The next harvest delegates the same amount again. Once unbonded coins have arrived, it takes them, and the unbonders' withdrawal fails.

Two more disagreements were found in the legacy `withdraw_unbonded` and are listed as hazards:
- A batch shared by two users is never removed, against its comment.
- A request in the pending batch makes the whole call fail.

## Fairness and liveness

The hub acts only when somebody sends it a message, and the code cannot make anybody do so.
The liveness run assumes only that a user keeps trying to withdraw: `UsersWithdraw` is weak fairness of `WithdrawUnbonded(u)` for every user.
Under that assumption, `hub_payout` shows that every reconciled batch is eventually paid out and removed when no slash occurs.
`hub_dust` shows that after a slash this fails.
No fairness is put on `SubmitBatch`, `Reconcile` or the chain. Those would model keepers, an assumption about the environment and not about the code.
Liveness runs use neither symmetry nor a view.

## Not modelled, and why

- **Proof hashing** (`compute_miner_proof`, `create_difficulty_prefix`). It is sha256, hex encoding and string building, out of TLC's reach and of no property's concern. Whether a miner finds a nonce that meets the difficulty is a free choice. The entropy chain it feeds is left out for the same reason.
- **Whitelist-only pricing in `submit_batch`** (hazard at `execute.rs:524`). Stake that `remove_validator_ex` leaves on a validator is not counted when a batch is priced. No run shows it yet; it is listed as a hazard with its planned property. Adding roster changes to the passing hub runs makes them too large to check in minutes (hub_core with roster changes takes nine minutes).
- **`change_denom` in Hub.** Mining models `change_denom` as the owner's update of `denom`. Hub instantiates Mining with one native denom (`NativeDenom`). Composing the switch with the hub would need per-denom balances, delegations and unlocked coins, which multiplies the state space past what the runs can check. The hazard is listed in `PROJECT.json`: after a switch, reconcile reads the balance in the new denom and deducts the whole expected amount from the batches.
- **Slashing in SteakHub.** The legacy contract has no reconcile, so an unbonding slash leaves the last withdrawer unpaid. The hub's handling of the same event is checked in `Hub`.
- **`lib.rs`.** It only declares modules.
