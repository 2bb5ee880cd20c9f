------------------------------ MODULE MCDiskIo ------------------------------
(* Instances of DiskIo for TLC: a card of each kind.                       *)
EXTENDS DiskIo, TLC

CONSTANTS Big, Mid, Old, Mmc

MCKind == (Big :> "SD2B") @@ (Mid :> "SD2") @@ (Old :> "SD1")
MCMmcKind == Mmc :> "MMC"
=============================================================================
