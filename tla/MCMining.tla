------------------------------ MODULE MCMining ------------------------------
(* The mining engine on its own, with the code's duration thresholds and   *)
(* block times that fall below the floor, between the thresholds and above *)
(* the ceiling.                                                            *)
EXTENDS Mining, TLC

CONSTANTS a1, a2, v1, v2

MCAccounts == {a1, a2}
MCValidators == {v1, v2}
=============================================================================
