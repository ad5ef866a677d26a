----------------------------- MODULE MCGameStart -----------------------------
(* An instance of GameStart for TLC; GameStart.cfg gives the constants.        *)
EXTENDS GameStart, TLC

\* The players are interchangeable: their colors and their lists tell them apart.
Symmetry == Permutations(Players)
=============================================================================
