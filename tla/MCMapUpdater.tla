----------------------------- MODULE MCMapUpdater -----------------------------
(***************************************************************************)
(* Instances of MapUpdater for model checking.                             *)
(***************************************************************************)
EXTENDS MapUpdater, TLC

Symmetry == Permutations(Maps) \cup Permutations(Workers)
=============================================================================
