------------------------- MODULE MCBootstrapMagisk -------------------------
(***************************************************************************)
(* Ramdisks for BootstrapMagisk: every set of the paths that matter.       *)
(***************************************************************************)
EXTENDS BootstrapMagisk

AllRamdisks == SUBSET Paths
=============================================================================
