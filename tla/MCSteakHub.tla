----------------------------- MODULE MCSteakHub -----------------------------
(* Model-checking instance of SteakHub: two users, two validators, one     *)
(* worker.                                                                 *)
EXTENDS SteakHub, TLC

CONSTANTS u1, u2, v1, v2, w1

MCUsers == {u1, u2}
MCValidators == {v1, v2}
MCWorkers == {w1}
\* A single validator, for the runs about batches and reinvest.
MCOneValidator == {v1}

\* No handler treats one user, or one whitelisted validator, differently:
\* delegations are split over the whole whitelist and harvest withdraws
\* from every delegation.
Symmetry == Permutations(MCUsers) \cup Permutations(MCValidators)
=============================================================================
