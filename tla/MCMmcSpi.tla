------------------------------ MODULE MCMmcSpi ------------------------------
(* Instances of MmcSpi for TLC. *)
EXTENDS MmcSpiInv, TLC
=============================================================================
