----------------------------- MODULE MCSavedGame -----------------------------
(* Instances of SavedGame for TLC: two objects and their extensions, and one   *)
(* address more.                                                               *)
EXTENDS SavedGame, TLC

Symmetry == Permutations(Addr) \cup Permutations(Names)
=============================================================================
