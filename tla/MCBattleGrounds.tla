-------------------------- MODULE MCBattleGrounds --------------------------
(***************************************************************************)
(* Values for TLC: one player of each side who may join again and again,   *)
(* or three players, two of them on one side.                              *)
(***************************************************************************)
EXTENDS BattleGrounds
CONSTANTS a1, a2, h1

Duel == {a1, h1}
Three == {a1, a2, h1}

DuelTeams == [p \in Duel |-> IF p = h1 THEN "horde" ELSE "alliance"]
ThreeTeams == [p \in Three |-> IF p = h1 THEN "horde" ELSE "alliance"]

DuelParties == {{a1}, {h1}}
ThreeParties == {{a1}, {a2}, {h1}}
=============================================================================
