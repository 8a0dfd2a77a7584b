------------------------------- MODULE MCTrade -------------------------------
(***************************************************************************)
(* Instances of Trade for model checking.                                  *)
(***************************************************************************)
EXTENDS Trade, TLC

CONSTANTS Alice, Bob, sword, potion, elixir, tonic, weapon, drink

\* Alice has one item and Bob the others.
StartBags == [p \in Players |-> IF p = Alice THEN Items \cap {potion} ELSE Items \ {potion}]

\* Of the three drinks, a player may have two.
Kinds == [i \in Items |-> IF i = sword THEN weapon ELSE drink]
Limits == [k \in {weapon, drink} |-> IF k = drink THEN 2 ELSE 0]

\* Alice has a full bag, or room for two more items.
Bags == {[p \in Players |-> IF p = Alice THEN n ELSE 3] : n \in {1, 3}}

OneBag == {[p \in Players |-> 1]}

\* Bob's drinks are alike; so are the players as long as nobody has an item.
Drinks == Permutations({elixir, tonic})
Symmetry == Permutations(Players)
=============================================================================
