-------------------------- MODULE MCSettlementProgram --------------------------
(* Instances of SettlementProgram for TLC.                                  *)
EXTENDS SettlementProgram, TLC

===============================================================================
