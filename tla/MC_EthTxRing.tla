---------------------------- MODULE MC_EthTxRing ----------------------------
(* Instances of EthTxRing for TLC. *)
EXTENDS EthTxRing
=============================================================================
