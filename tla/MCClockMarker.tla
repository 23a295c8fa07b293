--------------------------- MODULE MCClockMarker ---------------------------
(* Instances of ClockMarker: two games, with files of other builds (one    *)
(* with a fast CPU and without keys for the slots) or without.             *)
EXTENDS ClockMarker, TLC

CONSTANTS g1, g2, c1

MCOldFiles ==
  {None, [version |-> 1, settings |-> [scale |-> Raw, speed |-> 1],
          keys |-> [others |-> c1, slots |-> "free"]]}

Symmetry == Permutations(Games)
=============================================================================
