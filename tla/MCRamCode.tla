----------------------------- MODULE MCRamCode -----------------------------
(* An instance of RamCode for TLC: what the game may run, and what writes. *)
EXTENDS RamCode

(* A Thumb block at the start, which may stop at ScanEnd, one that goes on *)
(* there from the RAM's end, and ARM code over both.                       *)
SomeStarts == {<<"thumb", 0>>, <<"thumb", 3>>, <<"arm", 2>>}

(* Nothing that ends a block, everything that does, and code in between.   *)
SomeContents ==
  {[a \in Address |-> 0], [a \in Address |-> 1], [a \in Address |-> a % 2]}

SomeMultiples == {<<2, 2>>}
SomeDmas == {<<1, 1>>, <<1, 3>>, <<2, 0>>, <<2, 2>>}
=============================================================================
