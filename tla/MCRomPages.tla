---------------------------- MODULE MCRomPages ----------------------------
(* Instances of RomPages for TLC.                                          *)
EXTENDS RomPages, TLC

CONSTANTS whole, trimmed, small, zip

MCPagesOf == (whole :> 4) @@ (trimmed :> 3) @@ (small :> 2) @@ (zip :> 4)
=============================================================================
