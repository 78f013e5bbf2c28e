---------------------------- MODULE MCPayoutClaims ----------------------------
(* Instances of PayoutClaims for TLC.                                       *)
EXTENDS PayoutClaims, TLC

\* Workers and transfers are interchangeable; used for safety only.
Symmetry == Permutations(Workers) \cup Permutations(Txs)
===============================================================================
