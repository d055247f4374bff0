------------------------------- MODULE Mining -------------------------------
(***************************************************************************)
(* The mining and difficulty engine of src/contracts/hub/src/execute.rs    *)
(* (submit_proof, update_entropy, update_difficulty) and the owner's fee   *)
(* and ownership configuration (transfer_ownership, accept_ownership,      *)
(* transfer_fee_account, update_fee), over a chain clock of block time and *)
(* block height.                                                           *)
(*                                                                         *)
(* A proof is sha256(entropy || miner || nonce) and must start with        *)
(* miner_difficulty '0' characters.  Hashing is out of reach, so whether a *)
(* miner found an acceptable nonce is a free choice; the entropy strings   *)
(* only feed the hash and no property tells them apart, so they are left   *)
(* out.  The harvest that submit_proof dispatches is composed in Hub.tla;  *)
(* here AcceptProof is the part of submit_proof that changes mining state. *)
(***************************************************************************)
EXTENDS Naturals, Functions

CONSTANTS
    Accounts,           \* addresses: miners, owners, fee accounts
    Validators,         \* validators known to the staking module
    NoAccount,          \* new_owner not set (a model value)
    InitOwner,          \* owner given to instantiate
    InitFeeAccount,     \* fee_account given to instantiate
    InitFeeAccountType, \* fee_account_type given to instantiate
    InitDenom,          \* denom given to instantiate
    Denoms,             \* denoms the owner may pass to change_denom
    InitFeeRate,        \* fee_amount given to instantiate, in percent
    MaxFeeRate,         \* max_fee_amount given to instantiate, in percent
    FeeRates,           \* rates the owner may pass to update_fee, in percent
    TARGET_MINING_DURATION_FLOOR_SECONDS,
    TARGET_MINING_DURATION_CEILING_SECONDS,
    BlockTimes,         \* seconds one block may take (standalone clock)
    MaxHeight,          \* bound: block height (standalone clock)
    MaxProofs           \* bound: accepted proofs

ASSUME /\ NoAccount \notin Accounts
       /\ InitOwner \in Accounts /\ InitFeeAccount \in Accounts
       /\ MaxFeeRate \in 0..100 /\ InitFeeRate \in 0..MaxFeeRate
       /\ FeeRates \subseteq 0..100
       /\ TARGET_MINING_DURATION_FLOOR_SECONDS < TARGET_MINING_DURATION_CEILING_SECONDS

FeeTypes == {"Wallet", "FeeSplit"}
ASSUME InitFeeAccountType \in FeeTypes
ASSUME InitDenom \in Denoms

VARIABLES
    miner_difficulty,
    miner_last_mined_timestamp,
    miner_last_mined_block,
    validator_mining_powers,  \* validator -> accrued mining power
    total_mining_power,
    fee_account, fee_account_type, fee_rate,
    owner, new_owner,
    denom,                    \* the native denom every balance query, bond and refund uses
    block_time, height,       \* env.block.time and env.block.height
    proofs                    \* history: number of accepted proofs

mining == <<miner_difficulty, miner_last_mined_timestamp, miner_last_mined_block,
            validator_mining_powers, total_mining_power>>
config == <<fee_account, fee_account_type, fee_rate, owner, new_owner, denom>>
clock == <<block_time, height>>
vars == <<mining, config, clock, proofs>>

TypeOK ==
    /\ miner_difficulty \in Nat
    /\ miner_last_mined_timestamp \in Nat /\ miner_last_mined_block \in Nat
    /\ validator_mining_powers \in [Validators -> Nat] /\ total_mining_power \in Nat
    /\ fee_account \in Accounts /\ fee_account_type \in FeeTypes
    /\ fee_rate \in 0..MaxFeeRate /\ denom \in Denoms
    /\ owner \in Accounts /\ new_owner \in Accounts \cup {NoAccount}
    /\ block_time \in Nat /\ height \in Nat /\ proofs \in Nat

(* instantiate: difficulty one, last mined at the instantiation block, no   *)
(* mining power; the chain starts at height and time zero.                 *)
Init ==
    /\ miner_difficulty = 1
    /\ miner_last_mined_timestamp = 0 /\ miner_last_mined_block = 0
    /\ validator_mining_powers = [v \in Validators |-> 0]
    /\ total_mining_power = 0
    /\ fee_account = InitFeeAccount /\ fee_account_type = InitFeeAccountType
    /\ fee_rate = InitFeeRate /\ denom = InitDenom
    /\ owner = InitOwner /\ new_owner = NoAccount
    /\ block_time = 0 /\ height = 0 /\ proofs = 0

(* update_difficulty: loosen by one after a gap above the ceiling (never   *)
(* below one), tighten by one on a proof that came faster than the floor.  *)
NewDifficulty(didSubmitProof) ==
    LET duration == block_time - miner_last_mined_timestamp
    IN IF duration > TARGET_MINING_DURATION_CEILING_SECONDS /\ miner_difficulty > 1
       THEN miner_difficulty - 1
       ELSE IF duration < TARGET_MINING_DURATION_FLOOR_SECONDS /\ didSubmitProof
       THEN miner_difficulty + 1
       ELSE miner_difficulty

MiningDurationSeconds ==   \* mutant: seconds since the last proof, not blocks
    block_time - miner_last_mined_timestamp

\* submit_proof: blocks since the last mined block
MiningDurationBlocks == height - miner_last_mined_block

(* submit_proof without the harvest it dispatches: miner m, having found a *)
(* nonce that meets the difficulty, retargets the difficulty, credits the  *)
(* blocks since the last proof to validator v and to the total, records    *)
(* this block as the last mined one and becomes the Wallet fee account.    *)
AcceptProof(m, v) ==
    /\ proofs < MaxProofs
    /\ miner_difficulty' = NewDifficulty(TRUE)
    /\ validator_mining_powers' = [validator_mining_powers EXCEPT ![v] = @ + MiningDurationBlocks]
    /\ total_mining_power' = total_mining_power + MiningDurationBlocks
    /\ miner_last_mined_timestamp' = block_time
    /\ miner_last_mined_block' = height
    /\ fee_account_type' = "Wallet"
    /\ fee_account' = m
    /\ proofs' = proofs + 1
    /\ UNCHANGED <<fee_rate, owner, new_owner, denom, clock>>

(* update_entropy, callable by anyone: folds a contribution into the draft *)
(* entropy and retargets without a proof, so it can only loosen.          *)
UpdateEntropy ==
    /\ miner_difficulty' = NewDifficulty(FALSE)
    /\ UNCHANGED <<miner_last_mined_timestamp, miner_last_mined_block,
                   validator_mining_powers, total_mining_power, config, clock, proofs>>

(* transfer_ownership: the owner nominates a new owner.                    *)
TransferOwnership(a) ==
    /\ new_owner' = a
    /\ UNCHANGED <<mining, fee_account, fee_account_type, fee_rate, owner, denom, clock, proofs>>

(* accept_ownership: the nominee becomes the owner; the nomination is      *)
(* removed.                                                                *)
AcceptOwnership ==
    /\ new_owner # NoAccount         \* new_owner.load fails when it is unset
    /\ owner' = new_owner
    /\ new_owner' = NoAccount
    /\ UNCHANGED <<mining, fee_account, fee_account_type, fee_rate, denom, clock, proofs>>

(* transfer_fee_account: the owner sets the fee account and its type.      *)
TransferFeeAccount(t, a) ==
    /\ fee_account_type' = t
    /\ fee_account' = a
    /\ UNCHANGED <<mining, fee_rate, owner, new_owner, denom, clock, proofs>>

UpdateFeeUnchecked(r) ==   \* mutant: the maximum is not enforced
    /\ fee_rate' = r
    /\ UNCHANGED <<mining, fee_account, fee_account_type, owner, new_owner, denom, clock, proofs>>

(* update_fee: the owner sets a rate no higher than the maximum.           *)
UpdateFee(r) ==
    /\ r <= MaxFeeRate               \* "refusing to set fee above maximum set"
    /\ fee_rate' = r
    /\ UNCHANGED <<mining, fee_account, fee_account_type, owner, new_owner, denom, clock, proofs>>

(* change_denom: the owner switches the denom; nothing else is touched.   *)
ChangeDenom(d) ==
    /\ denom' = d
    /\ UNCHANGED <<mining, fee_account, fee_account_type, fee_rate, owner, new_owner, clock, proofs>>

(* The chain produces a block that takes dt seconds.                       *)
NextBlock(dt) ==
    /\ height < MaxHeight
    /\ height' = height + 1
    /\ block_time' = block_time + dt
    /\ UNCHANGED <<mining, config, proofs>>

Next ==
    \/ \E m \in Accounts, v \in Validators : AcceptProof(m, v)
    \/ UpdateEntropy
    \/ \E a \in Accounts : TransferOwnership(a)
    \/ AcceptOwnership
    \/ \E t \in FeeTypes, a \in Accounts : TransferFeeAccount(t, a)
    \/ \E r \in FeeRates : UpdateFee(r)
    \/ \E d \in Denoms : ChangeDenom(d)
    \/ \E dt \in BlockTimes : NextBlock(dt)

Spec == Init /\ [][Next]_vars

-----------------------------------------------------------------------------
(* Properties                                                              *)

(* Every block between instantiation and the last accepted proof is        *)
(* credited as mining power exactly once: the validators' powers add up to *)
(* total_mining_power, which is the height of the last mined block.  Each  *)
(* proof credits the blocks since the previous one, so a proof must never  *)
(* count blocks an earlier proof counted, whatever the block times and    *)
(* however update_entropy and proofs interleave.                           *)
PowerAccountsForBlocks ==
    /\ SumFunction(validator_mining_powers) = total_mining_power
    /\ total_mining_power = miner_last_mined_block

=============================================================================
