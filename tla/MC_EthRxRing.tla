--------------------------- MODULE MC_EthRxRing -----------------------------
(* EthRxRing on a small ring, for TLC.                                     *)
EXTENDS EthRxRing
=============================================================================
