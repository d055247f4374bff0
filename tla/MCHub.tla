------------------------------- MODULE MCHub -------------------------------
(* Model-checking instance of Hub: two users, two validators.              *)
EXTENDS Hub, TLC

CONSTANTS u1, u2, v1, v2, m1

MCUsers == {u1, u2}
MCValidators == {v1, v2}
MCInitValidators == <<v1, v2>>
\* A single validator, for the runs about batches rather than the roster.
MCOneValidator == {v1}
MCOneValidatorSeq == <<v1>>
\* One miner: who receives the fee does not change the hub's state.
MCAccounts == {m1}

\* Users are interchangeable: no handler treats one differently.
UserSymmetry == Permutations(MCUsers)
\* prev_denom is only read by reinvest, which runs in the same transaction
\* as the harvest that overwrites it first: no action reads a value another
\* action wrote, so states that differ only in it have the same futures and
\* are identified.
HubView == <<validators, validators_active, pending_batch, previous_batches,
             unbond_requests, unbond_period, unlocked_coins, chain, history, incentive>>
=============================================================================
