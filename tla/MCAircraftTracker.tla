--------------------------- MODULE MCAircraftTracker ---------------------------
(* Instances of AircraftTracker for TLC. *)
EXTENDS AircraftTracker, TLC

\* A strip through the middle of an isometric map of 8 by 8 cells, which has 4
\* rows of 4 regions; most of its cells are next to a border, and some beyond
\* MapRect, where the code counts them to the last region of a row.
Strip == {c \in (0..9) \X (0..9) : c[1] + c[2] \in 9..10 /\ c[1] - c[2] \in 0..7}

Symmetry == Permutations(Feet)
=============================================================================
