------------------------------ MODULE SteakHub ------------------------------
(***************************************************************************)
(* The legacy Steak hub of src/contracts/steak-hub/src/execute.rs on a      *)
(* Terra chain: bond, harvest (with its Swap and Reinvest callbacks and    *)
(* the register_received_coins replies), queue_unbond, submit_batch and    *)
(* withdraw_unbonded, together with the staking module (delegations,       *)
(* rewards in two denoms, unbonding entries), the hub's bank balances and  *)
(* the usteak supply.                                                      *)
(*                                                                         *)
(* As in Hub.tla every execute call is one atomic action with its          *)
(* sub-messages, replies and callbacks; a sub-message that would fail is a *)
(* guard.  There is no reconcile and no roster management in this         *)
(* contract, and its whitelist and unbond period are fixed at instantiate. *)
(* The helpers of its math.rs are not in the sources: their splits are     *)
(* left free and the rates are those of the hub's specification.           *)
(***************************************************************************)
EXTENDS Naturals, Sequences, SequencesExt, Functions, FiniteSetsExt

CONSTANTS
    Users,              \* stakers (model values)
    Validators,         \* the whitelist given to instantiate
    Workers,            \* the whitelisted workers that may harvest
    EpochPeriod,        \* epoch_period
    UnbondPeriod,       \* unbond_period
    ChainUnbondTime,    \* the staking module's unbonding time
    SwapRate,           \* uluna the market pays for one unit of uusd
    BondAmounts,        \* uluna a user may send with one bond
    MaxSupply,          \* bound: usteak supply
    MaxTime,            \* bound: block time
    MaxBatchId,         \* bound: ids of submitted batches
    MaxRewards          \* bound: reward accruals by the chain

ASSUME /\ Validators # {} /\ Workers # {}
       /\ {EpochPeriod, UnbondPeriod, ChainUnbondTime, SwapRate} \subseteq Nat \ {0}
       /\ BondAmounts \subseteq Nat \ {0}

Denoms == {"uluna", "uusd"}   \* the staking denom and one reward denom

VARIABLES
    \* contract storage
    pending_batch,      \* [id, usteak_to_burn, est_unbond_start_time]
    previous_batches,   \* id -> [total_shares, uluna_unclaimed, est_unbond_end_time]
    unbond_requests,    \* <<id, user>> -> shares
    unlocked_coins,     \* denom -> amount registered from coin_received events
    \* receipt token
    supply, steak,
    \* host chain
    delegation,         \* validator -> uluna delegated by the hub
    rewards,            \* validator -> denom -> rewards not yet withdrawn
    unbonding,          \* batch id -> [amount, completes]
    balance,            \* denom -> bank balance of the hub
    now,
    \* history
    rewardCount,
    unbonded,           \* batch id -> uluna the batch was given at submission
    paid                \* batch id -> uluna refunded from the batch so far

contract == <<pending_batch, previous_batches, unbond_requests, unlocked_coins>>
chain == <<supply, steak, delegation, rewards, unbonding, balance, now>>
history == <<rewardCount, unbonded, paid>>
vars == <<contract, chain, history>>

BatchIds == 1..MaxBatchId + 1
NoCoins == [d \in Denoms |-> 0]

TypeOK ==
    /\ pending_batch \in [id: BatchIds, usteak_to_burn: Nat, est_unbond_start_time: Nat]
    /\ DOMAIN previous_batches \subseteq BatchIds
    /\ \A id \in DOMAIN previous_batches :
          previous_batches[id] \in [total_shares: Nat \ {0}, uluna_unclaimed: Nat,
                                    est_unbond_end_time: Nat]
    /\ DOMAIN unbond_requests \subseteq BatchIds \X Users
    /\ \A k \in DOMAIN unbond_requests : unbond_requests[k] \in Nat \ {0}
    /\ unlocked_coins \in [Denoms -> Nat] /\ balance \in [Denoms -> Nat]
    /\ supply \in Nat /\ steak \in [Users -> Nat]
    /\ delegation \in [Validators -> Nat] /\ rewards \in [Validators -> [Denoms -> Nat]]
    /\ DOMAIN unbonding \subseteq BatchIds
    /\ unbonded \in [BatchIds -> Nat] /\ paid \in [BatchIds -> Nat]

-----------------------------------------------------------------------------
(* Arithmetic of math.rs                                                   *)

MintAmount(usteakSupply, amount, totalDelegated) ==
    IF usteakSupply = 0 THEN amount ELSE (amount * usteakSupply) \div totalDelegated

UnbondAmountRoundedUp(usteakSupply, shares, totalDelegated) ==   \* mutant
    (shares * totalDelegated + usteakSupply - 1) \div usteakSupply

UnbondAmount(usteakSupply, shares, totalDelegated) ==
    (shares * totalDelegated) \div usteakSupply

MultiplyRatioCeil(a, num, den) == (a * num + den - 1) \div den   \* mutant

\* Uint128::multiply_ratio
MultiplyRatio(a, num, den) == (a * num) \div den

\* compute_delegations: uluna spread over the whitelist, any split
Delegations(amount) ==
    {s \in [Validators -> 0..amount] : SumFunction(s) = amount}

\* compute_undelegations: a split the delegations can cover
Undelegations(amount) ==
    {s \in Delegations(amount) : \A v \in Validators : s[v] <= delegation[v]}

-----------------------------------------------------------------------------
(* Chain helpers                                                           *)

Touched(s) == {v \in Validators : s[v] > 0}

\* The rewards of validators T, per denom.
RewardsOf(T) == [d \in Denoms |-> SumFunctionOnSet([v \in Validators |-> rewards[v][d]], T)]

Clear(T) == [v \in Validators |-> IF v \in T THEN NoCoins ELSE rewards[v]]

Plus(a, b) == [d \in Denoms |-> a[d] + b[d]]

\* The first coin_received event of a delegation is the withdrawal of its
\* rewards when there are any, else the bonded pool's receipt, which
\* register_received_coins ignores.
HasRewards(v) == \E d \in Denoms : rewards[v][d] > 0

-----------------------------------------------------------------------------
(* instantiate and register_steak_token                                    *)
Init ==
    /\ pending_batch = [id |-> 1, usteak_to_burn |-> 0, est_unbond_start_time |-> EpochPeriod]
    /\ previous_batches = << >>
    /\ unbond_requests = << >>
    /\ unlocked_coins = NoCoins
    /\ supply = 0 /\ steak = [u \in Users |-> 0]
    /\ delegation = [v \in Validators |-> 0]
    /\ rewards = [v \in Validators |-> NoCoins]
    /\ unbonding = << >>
    /\ balance = NoCoins
    /\ now = 0
    /\ rewardCount = 0
    /\ unbonded = [id \in BatchIds |-> 0] /\ paid = [id \in BatchIds |-> 0]

(* bond: mint at the rate of the whitelist's delegations and delegate the  *)
(* deposit; each delegate's reply registers the rewards it withdrew.       *)
Bond(u, amount) ==
    LET minted == MintAmount(supply, amount, SumFunction(delegation))
    IN /\ supply = 0 \/ SumFunction(delegation) > 0
       /\ minted > 0 /\ supply + minted <= MaxSupply
       /\ \E s \in Delegations(amount) :
            LET got == RewardsOf(Touched(s))
            IN /\ delegation' = [v \in Validators |-> delegation[v] + s[v]]
               /\ rewards' = Clear(Touched(s))
               /\ balance' = Plus(balance, got)
               /\ unlocked_coins' = Plus(unlocked_coins, got)
       /\ supply' = supply + minted
       /\ steak' = [steak EXCEPT ![u] = @ + minted]
       /\ UNCHANGED <<pending_batch, previous_batches, unbond_requests, unbonding, now, history>>

(* harvest by a whitelisted worker, with the messages it dispatches, all in *)
(* one transaction:                                                        *)
(*  - a WithdrawDelegatorReward for every delegation the hub has; its      *)
(*    reply registers the rewards, and fails when a validator has none to  *)
(*    pay, as the withdrawal then emits no coin_received event;            *)
(*  - Swap: every registered non-uluna coin is offered to the market and   *)
(*    dropped from unlocked_coins; each swap's reply registers the uluna;  *)
(*  - Reinvest: the registered uluna is delegated over the whitelist, and  *)
(*    unlocked_coins keeps only its uluna entry (line 229).                *)
Harvest(w) ==
    LET staked == {v \in Validators : delegation[v] > 0}
        withdrawn == Plus(unlocked_coins, RewardsOf(staked))
        bought == withdrawn["uusd"] * SwapRate
        afterSwap == [withdrawn EXCEPT !["uusd"] = 0, !["uluna"] = @ + bought]
        held == [Plus(balance, RewardsOf(staked)) EXCEPT !["uusd"] = @ - withdrawn["uusd"],
                                                      !["uluna"] = @ + bought]
        toBond == afterSwap["uluna"]
    IN /\ w \in Workers
       /\ \A v \in staked : HasRewards(v)
       /\ toBond > 0                       \* "no uluna available to be bonded"
       /\ toBond <= held["uluna"]          \* the delegations must be funded
       /\ \E s \in Delegations(toBond) :
            delegation' = [v \in Validators |-> delegation[v] + s[v]]
       /\ rewards' = Clear(staked)
       /\ balance' = [held EXCEPT !["uluna"] = @ - toBond]
       /\ unlocked_coins' = [afterSwap EXCEPT !["uusd"] = 0]
       /\ UNCHANGED <<pending_batch, previous_batches, unbond_requests, supply, steak,
                      unbonding, now, history>>

(* submit_batch applied to pending batch pb: from its start time on,       *)
(* undelegate the uluna value of its shares, record it as a previous batch *)
(* ending one unbond period from now, open the next batch and burn.        *)
SubmitBatchOf(pb) ==
    LET amount == UnbondAmount(supply, pb.usteak_to_burn, SumFunction(delegation))
    IN /\ now >= pb.est_unbond_start_time
       /\ pb.usteak_to_burn > 0                \* cw20 rejects a zero burn
       /\ pb.id <= MaxBatchId
       /\ \E s \in Undelegations(amount) :
            /\ delegation' = [v \in Validators |-> delegation[v] - s[v]]
            /\ rewards' = Clear(Touched(s))    \* withdrawn, not registered
            /\ balance' = Plus(balance, RewardsOf(Touched(s)))
       /\ previous_batches' = previous_batches @@
             (pb.id :> [total_shares |-> pb.usteak_to_burn, uluna_unclaimed |-> amount,
                        est_unbond_end_time |-> now + UnbondPeriod])
       /\ pending_batch' = [id |-> pb.id + 1, usteak_to_burn |-> 0,
                            est_unbond_start_time |-> now + EpochPeriod]
       /\ unbonding' = unbonding @@ (pb.id :> [amount |-> amount, completes |-> now + ChainUnbondTime])
       /\ supply' = supply - pb.usteak_to_burn
       /\ unbonded' = [unbonded EXCEPT ![pb.id] = amount]
       /\ UNCHANGED <<unlocked_coins, now, rewardCount, paid>>

SubmitBatch == SubmitBatchOf(pending_batch) /\ UNCHANGED <<steak, unbond_requests>>

AddShares(requests, key, n) ==
    IF key \in DOMAIN requests THEN [requests EXCEPT ![key] = @ + n]
    ELSE requests @@ (key :> n)

(* queue_unbond, through the cw20 hook that moves the shares to the hub:   *)
(* add them to the pending batch and the user's request, and once the      *)
(* start time has come run the SubmitBatch it dispatches.                  *)
QueueUnbond(u, n) ==
    LET pb == [pending_batch EXCEPT !.usteak_to_burn = @ + n]
    IN /\ n \in 1..steak[u]
       /\ steak' = [steak EXCEPT ![u] = @ - n]
       /\ unbond_requests' = AddShares(unbond_requests, <<pb.id, u>>, n)
       /\ IF now >= pb.est_unbond_start_time
          THEN SubmitBatchOf(pb)
          ELSE /\ pending_batch' = pb
               /\ UNCHANGED <<previous_batches, unlocked_coins, supply, delegation, rewards,
                              unbonding, balance, now, history>>

\* the batch ids of u's requests, in ascending order of the index range
RequestIds(u) == {id \in BatchIds : <<id, u>> \in DOMAIN unbond_requests}

Refund(u, id) ==
    MultiplyRatio(previous_batches[id].uluna_unclaimed, unbond_requests[<<id, u>>],
                  previous_batches[id].total_shares)

BatchesAfterWithdrawKept(due, u) ==   \* mutant: the shrunk batch saved, never removed
    [id \in DOMAIN previous_batches |->
        IF id \in due
        THEN [previous_batches[id] EXCEPT !.total_shares = @ - unbond_requests[<<id, u>>],
                                          !.uluna_unclaimed = @ - Refund(u, id)]
        ELSE previous_batches[id]]

(* The loop shrinks a local copy of each batch and never saves it: only a  *)
(* batch whose total shares the request covers is removed.                 *)
BatchesAfterWithdraw(due, u) ==
    LET emptied == {id \in due : unbond_requests[<<id, u>>] = previous_batches[id].total_shares}
    IN Restrict(previous_batches, DOMAIN previous_batches \ emptied)

\* the requests of u whose batch's estimated end time has passed
Due(u) == {id \in RequestIds(u) : previous_batches[id].est_unbond_end_time < now}

(* withdraw_unbonded: every request of u whose batch has ended is refunded *)
(* its share of the batch's uluna and removed; one bank send pays the sum. *)
(* Loading a request's batch fails while it is still the pending batch.   *)
WithdrawUnbonded(u) ==
    LET due == Due(u)
        total == MapThenSumSet(LAMBDA id : Refund(u, id), due)
    IN /\ RequestIds(u) \subseteq DOMAIN previous_batches
       /\ total > 0                         \* the bank rejects a send of 0uluna
       /\ total <= balance["uluna"]
       /\ previous_batches' = BatchesAfterWithdraw(due, u)
       /\ unbond_requests' = Restrict(unbond_requests, DOMAIN unbond_requests \ (due \X {u}))
       /\ balance' = [balance EXCEPT !["uluna"] = @ - total]
       /\ paid' = [id \in BatchIds |-> paid[id] + IF id \in due THEN Refund(u, id) ELSE 0]
       /\ UNCHANGED <<pending_batch, unlocked_coins, supply, steak, delegation, rewards,
                      unbonding, now, rewardCount, unbonded>>

-----------------------------------------------------------------------------
(* The chain                                                               *)

(* A block passes; unbonding entries that complete by then pay out.        *)
Tick ==
    LET done == {id \in DOMAIN unbonding : unbonding[id].completes <= now + 1}
    IN /\ now < MaxTime
       /\ now' = now + 1
       /\ balance' = [balance EXCEPT !["uluna"] = @ + MapThenSumSet(LAMBDA id : unbonding[id].amount, done)]
       /\ unbonding' = Restrict(unbonding, DOMAIN unbonding \ done)
       /\ UNCHANGED <<contract, supply, steak, delegation, rewards, history>>

(* Validator v pays the hub one unit of reward in denom d.                 *)
AccrueReward(v, d) ==
    /\ delegation[v] > 0 /\ rewardCount < MaxRewards
    /\ rewards' = [rewards EXCEPT ![v][d] = @ + 1]
    /\ rewardCount' = rewardCount + 1
    /\ UNCHANGED <<contract, supply, steak, delegation, unbonding, balance, now, unbonded, paid>>

Next ==
    \/ \E u \in Users, a \in BondAmounts : Bond(u, a)
    \/ \E w \in Workers : Harvest(w)
    \/ \E u \in Users, n \in 1..MaxSupply : QueueUnbond(u, n)
    \/ SubmitBatch
    \/ \E u \in Users : WithdrawUnbonded(u)
    \/ Tick
    \/ \E v \in Validators, d \in Denoms : AccrueReward(v, d)

Spec == Init /\ [][Next]_vars

-----------------------------------------------------------------------------
(* Properties                                                              *)

\* Batches whose unbonding entry has paid out to the hub.
Matured == {id \in BatchIds : id < pending_batch.id /\ id \notin DOMAIN unbonding}

(* The hub's uluna covers what it still owes from every batch whose coins  *)
(* have come back: coins it delegates on its own account (bond deposits,   *)
(* registered rewards) must never be taken from unbonders.  harvest's      *)
(* reinvest is the step that could break this.                            *)
Solvency ==
    balance["uluna"] >= MapThenSumSet(LAMBDA id : unbonded[id] - paid[id], Matured)

(* Whatever order the users of a batch withdraw in, withdraw_unbonded      *)
(* never refunds more from a batch than it was given at submit_batch.      *)
RefundsWithinBatch == \A id \in BatchIds : paid[id] <= unbonded[id]

PoolValue == SumFunction(delegation)

(* No step lowers the uluna value of one usteak: bond must not mint too    *)
(* many shares, submit_batch must not unbond too much.                     *)
RateNeverFalls ==
    [][supply > 0 /\ supply' > 0 => PoolValue' * supply >= PoolValue * supply']_vars

=============================================================================
