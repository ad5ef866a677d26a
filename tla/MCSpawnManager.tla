--------------------------- MODULE MCSpawnManager ---------------------------
(* Instances of SpawnManager for TLC; the cfg files give the constants. *)
EXTENDS SpawnManager, TLC

\* Aircraft, targets and houses are interchangeable in the safety runs.
Symmetry ==
    Permutations(Aircraft) \union Permutations(Targets) \union Permutations(Houses)
=============================================================================
