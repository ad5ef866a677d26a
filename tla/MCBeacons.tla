----------------------------- MODULE MCBeacons -----------------------------
(* Two players who are allies.                                               *)
EXTENDS Beacons, TLC

AllAllied == {<<p, q>> \in Houses \X Houses : p # q}
Symmetry == Permutations(Houses)

(* Bound: messages come late or twice in the last frame only, where no other *)
(* beacon is placed after them.                                              *)
LateOnly == resent > 0 => \A p \in Houses : frame[p] = MaxFrame /\ ~placing[p]
=============================================================================
