-------------------------- MODULE MCWorldSessions --------------------------
(* Instances of WorldSessions for TLC: connections are interchangeable, and *)
(* so are the accounts of players.                                         *)
EXTENDS WorldSessions, TLC

Symmetric == Permutations(Sockets) \cup Permutations(Players)
=============================================================================
