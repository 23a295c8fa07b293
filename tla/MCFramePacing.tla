--------------------------- MODULE MCFramePacing ---------------------------
(***************************************************************************)
(* A counter of 40 ticks and frames of two and a half: the frames that     *)
(* take 9 fall behind at once and wrap around.                             *)
(***************************************************************************)
EXTENDS FramePacing

=============================================================================
