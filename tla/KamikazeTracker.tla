--------------------------- MODULE KamikazeTracker ---------------------------
(***************************************************************************)
(* The aircraft a spawn manager flies, and the tracker of the ones that    *)
(* were let go to crash into something                                     *)
(* (src/src/new/kamikazetracker/kamikazetracker.cpp).                      *)
(*                                                                         *)
(* The aircraft are objects of the original engine. Of each one the model  *)
(* keeps what the manager and the tracker read or write: where it is, its  *)
(* strength, its ammunition, IsKamikaze, whether the tracker has sent it   *)
(* against its cell, and its house. A freed object's address can be handed *)
(* out again by the allocator, as an element of Aircraft is.               *)
(*                                                                         *)
(* Add and Detach are called by the manager in the middle of its own       *)
(* handlers, so they are operators on a record w that holds the state in   *)
(* flight; w has at least the fields craft and tracked.                    *)
(***************************************************************************)
EXTENDS Naturals, FiniteSets

CONSTANTS
    Aircraft,      \* addresses at which aircraft objects can live
    Houses,        \* the players
    None,          \* nullptr
    MissileSpawn,  \* the aircraft type's MissileSpawn= flag
    MaxAmmo        \* the aircraft type's MaxAmmo

ASSUME FlagAssumption == MissileSpawn \in BOOLEAN
ASSUME AmmoAssumption == MaxAmmo \in Nat
ASSUME NoneAssumption == None \notin Aircraft /\ None \notin Houses

VARIABLES
    craft,         \* what is at each address
    tracked        \* how many of KamikazeTracker's Controls hold each aircraft

Places == {"free", "limbo", "air"}

Craft == [place    : Places,
          strength : 0..1,
          ammo     : 0..(MaxAmmo + 1),
          kamikaze : BOOLEAN,
          sent     : BOOLEAN,
          house    : Houses \union {None}]

\* Memory that holds no aircraft.
Free == [place |-> "free", strength |-> 0, ammo |-> 0, kamikaze |-> FALSE,
         sent |-> FALSE, house |-> None]

\* What Create_One_Of and Limbo leave: a sound, armed aircraft off the map.
Fresh(h) == [place |-> "limbo", strength |-> 1, ammo |-> MaxAmmo,
             kamikaze |-> FALSE, sent |-> FALSE, house |-> h]

\* Mutant: the aircraft becomes a kamikaze, but no control is added for it.
AddUncontrolled(w, S) ==
    [w EXCEPT !.craft = [a \in Aircraft |->
        IF a \in S THEN [w.craft[a] EXCEPT !.kamikaze = TRUE, !.ammo = 1]
                   ELSE w.craft[a]]]

(***************************************************************************)
(* Add, for all the aircraft S that one loop of the manager hands over. An *)
(* aircraft that is no missile is killed on the spot: On_Death(nullptr)    *)
(* leaves it a wreck that still has to come down.                          *)
(***************************************************************************)
Add(w, S) ==
    IF MissileSpawn
    THEN [w EXCEPT
            !.craft = [a \in Aircraft |->
                IF a \in S
                THEN [w.craft[a] EXCEPT !.kamikaze = TRUE, !.ammo = 1]
                ELSE w.craft[a]],
            !.tracked = [a \in Aircraft |->
                IF a \in S THEN w.tracked[a] + 1 ELSE w.tracked[a]]]
    ELSE [w EXCEPT
            !.craft = [a \in Aircraft |->
                IF a \in S THEN [w.craft[a] EXCEPT !.strength = 0]
                           ELSE w.craft[a]]]

\* Mutant: it does not look whether there is a control.
UntrackBlindly(w, S) ==
    [w EXCEPT !.tracked = [a \in Aircraft |->
        IF a \in S THEN w.tracked[a] - 1 ELSE w.tracked[a]]]

\* Detach, for each aircraft of S: its first control goes, if it has one.
Untrack(w, S) ==
    [w EXCEPT !.tracked = [a \in Aircraft |->
        IF a \in S /\ w.tracked[a] > 0 THEN w.tracked[a] - 1 ELSE w.tracked[a]]]

\* Delete_Me of the aircraft S: Detach_This_From_All takes each from the
\* tracker before its memory is released.
DeleteMe(w, S) ==
    [Untrack(w, S) EXCEPT !.craft = [a \in Aircraft |->
        IF a \in S THEN Free ELSE w.craft[a]]]

(***************************************************************************)
(* AI: every tracked aircraft is sent against its cell again, through the  *)
(* pointer the control keeps. UpdateTimer, 2 frames after an Add and 30    *)
(* after a round, is left to the fairness of this action.                  *)
(***************************************************************************)
TrackerAI ==
    /\ \E a \in Aircraft : tracked[a] > 0 /\ ~craft[a].sent
    /\ craft' = [a \in Aircraft |->
           IF tracked[a] > 0
           THEN [craft[a] EXCEPT !.ammo = 1, !.sent = TRUE]
           ELSE craft[a]]
    /\ UNCHANGED tracked
=============================================================================
