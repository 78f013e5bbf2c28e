--------------------------- MODULE MCX402Settlement ----------------------------
(* Instances of X402Settlement for TLC.                                     *)
EXTENDS X402Settlement, TLC

\* Instances are interchangeable; used for safety only.
Symmetry == Permutations(Gateways)
================================================================================
