------------------------- MODULE MCCartridgeBackup -------------------------
(* Instances of CartridgeBackup for TLC.                                   *)
EXTENDS CartridgeBackup, TLC

Symmetry == Permutations(Games)
=============================================================================
