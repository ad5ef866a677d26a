------------------------------- MODULE Archive -------------------------------
(* What saving and loading promise: a world of named objects, each of which    *)
(* may point to another; a load brings back the world as it was saved.  Where  *)
(* the objects are in memory is not part of it.                                *)

CONSTANTS Names, Nobody, NoWorld

Worlds == UNION {[S -> S \cup {Nobody}] : S \in SUBSET Names}

VARIABLES
    world,      \* for every object, the one it points to; NoWorld: none is played
    saved       \* the world in the file

Init == world = NoWorld /\ saved = NoWorld

Begin == world' = [n \in {} |-> Nobody] /\ UNCHANGED saved       \* a new game: no objects yet
Play ==                                         \* objects come, go and point to others
    /\ world # NoWorld
    /\ world' \in Worlds
    /\ UNCHANGED saved
Save == world # NoWorld /\ saved' = world /\ UNCHANGED world
Leave == world' = NoWorld /\ UNCHANGED saved    \* a load begins, or fails
Load == world = NoWorld /\ saved # NoWorld /\ world' = saved /\ UNCHANGED saved

Next == Begin \/ Play \/ Save \/ Leave \/ Load

Spec == Init /\ [][Next]_<<world, saved>>
=============================================================================
