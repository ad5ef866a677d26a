------------------------------- MODULE Hangar -------------------------------
(***************************************************************************)
(* What a spawn manager promises, without its orders, timers and callbacks:*)
(* a fixed number of bays, each with one aircraft that is docked or out,   *)
(* or with none. An aircraft flies for one bay at most; one that is docked *)
(* is safe unless the whole hangar is disbanded; a bay that lost its       *)
(* aircraft gets another one, never the same one back.                     *)
(***************************************************************************)
EXTENDS Naturals

CONSTANTS SpawnCount, Aircraft, None

VARIABLES
    where,     \* of each bay: is its aircraft docked, out, or gone
    occupant   \* of each bay: its aircraft

vars == <<where, occupant>>

Bays == 1..SpawnCount

TypeOK ==
    /\ where \in [Bays -> {"docked", "out", "gone"}]
    /\ occupant \in [Bays -> Aircraft \union {None}]

Init ==
    /\ where = [i \in Bays |-> "docked"]
    /\ occupant \in [Bays -> Aircraft]
    /\ \A i, j \in Bays : occupant[i] = occupant[j] => i = j

Sortie(i) ==
    /\ where[i] = "docked"
    /\ where' = [where EXCEPT ![i] = "out"]
    /\ UNCHANGED occupant

Recover(i) ==
    /\ where[i] = "out"
    /\ where' = [where EXCEPT ![i] = "docked"]
    /\ UNCHANGED occupant

Vacate(S) ==
    /\ where' = [i \in Bays |-> IF i \in S THEN "gone" ELSE where[i]]
    /\ occupant' = [i \in Bays |-> IF i \in S THEN None ELSE occupant[i]]

\* Aircraft that are out are shot down, or let go for good.
Lose(S) ==
    /\ \A i \in S : where[i] = "out"
    /\ Vacate(S)

\* The owner is lost, captured or carried off, and its hangar with it.
Disband == Vacate(Bays)

Rebuild(i) ==
    /\ where[i] = "gone"
    /\ \E a \in Aircraft :
        /\ \A j \in Bays : occupant[j] # a
        /\ occupant' = [occupant EXCEPT ![i] = a]
    /\ where' = [where EXCEPT ![i] = "docked"]

Next ==
    \/ \E i \in Bays : Sortie(i) \/ Recover(i) \/ Rebuild(i)
    \/ \E S \in SUBSET Bays : Lose(S)
    \/ Disband

Spec == Init /\ [][Next]_vars
=============================================================================
