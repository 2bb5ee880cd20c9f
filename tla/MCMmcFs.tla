------------------------------- MODULE MCMmcFs -----------------------------
(* An instance of MmcFs for TLC.                                           *)
EXTENDS MmcFs

CONSTANT f
=============================================================================
