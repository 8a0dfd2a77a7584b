---- MODULE MCAuctionHouse ----
(* Instances of AuctionHouse for TLC. *)
EXTENDS AuctionHouse, TLC
CONSTANTS Alice, Bob, Carol, sword
AliceHasSword == [p \in Players |-> IF p = Alice THEN {sword} ELSE {}]
Symmetry == Permutations({Bob, Carol})
====
