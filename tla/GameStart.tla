------------------------------ MODULE GameStart ------------------------------
(* The beginning of a skirmish or network game: Assign_Houses makes a house    *)
(* for every player and computer, and Create_Units gives each of them a        *)
(* starting position.  Every machine runs this code by itself, from its own    *)
(* list of players, in which its own player comes first; no message is sent.   *)
(* The random numbers are the same on every machine as long as each draws as   *)
(* many as the others, so that a step is taken by all with one draw.           *)
(*                                                                             *)
(* Cells lie on a line: what matters of them is their distance.  The kind of a *)
(* house is left out, and so are the units it gets besides its base: which     *)
(* they are and where they stand is drawn from what is in world, and nothing   *)
(* that follows looks at them.  A map has room for every base.                 *)
EXTENDS Integers, Sequences, FiniteSets, FiniteSetsExt, Functions

CONSTANTS
    Players,        \* the people who play, each at a machine
    MaxPlayers,     \* MAX_PLAYERS: colors, waypoints to start at, and houses
    MaxComputers,   \* bound: Session.Options.AIPlayers
    MaxSearch,      \* bound: starting positions a map lacks
    PrePlacedConYards,  \* the option to begin with a construction yard
    Natives,        \* how many of Neutral and Special the rules define
    Cells,          \* the cells a house can start from
    NoCell,         \* CELL_NONE
    Computer,       \* the owner of a computer's house
    Native          \* the owner of a passive house

ASSUME StartAssumption ==
    /\ IsFiniteSet(Players) /\ MaxPlayers \in Nat /\ MaxComputers \in Nat
    /\ MaxSearch \in Nat /\ Natives \in 0 .. 2
    /\ Cardinality(Players) + MaxComputers <= MaxPlayers
    /\ PrePlacedConYards \in BOOLEAN
    /\ Cells \subseteq Nat /\ NoCell \notin Cells
    /\ Computer \notin Players /\ Native \notin Players /\ Computer # Native

N == Cardinality(Players)
Colors == 0 .. MaxPlayers - 1
Waypoints == 0 .. MaxPlayers - 1
NoColor == -1
NoWaypoint == -1
House == [owner : Players \cup {Computer, Native}, color : Colors \cup {NoColor}]

VARIABLES
    color,      \* the color each player has chosen; no two the same
    list,       \* list[m]: Session.Players on the machine of m
    computers,  \* Session.Options.AIPlayers
    scenario,   \* the waypoints of the map, and whether it is an official one
    phase,      \* how far the code has come
    world,      \* world[m]: what the machine of m knows of the game
    desk,       \* desk[m]: whom it has assigned, and its own player's house
    missing     \* starting positions that are still to be found at random

lobby == <<color, list, computers, scenario>>
vars == <<lobby, phase, world, desk, missing>>

-----------------------------------------------------------------------------
(* Assign_Houses.                                                              *)

\* Mutant: the players are taken in the order of the list.
FirstOfList(m) ==
    CHOOSE i \in DOMAIN list[m] \ desk[m].assigned :
        \A j \in DOMAIN list[m] \ desk[m].assigned : i <= j

(* The player with the lowest color of those not yet assigned.                 *)
LowestColor(m) ==
    CHOOSE i \in DOMAIN list[m] \ desk[m].assigned :
        \A j \in DOMAIN list[m] \ desk[m].assigned : color[list[m][i]] <= color[list[m][j]]

\* Mutant: the color is not marked as used.
AddHouseUnmarked(w, owner, c) ==
    [w EXCEPT !.houses = Append(@, [owner |-> owner, color |-> c])]

(* The color is marked as used and the next slot of Houses is taken.           *)
AddHouse(w, owner, c) ==
    [w EXCEPT !.used = IF c = NoColor THEN @ ELSE @ \cup {c},
              !.houses = Append(@, [owner |-> owner, color |-> c])]

\* Mutant: the first house is taken for that of the player at this machine.
TakeFirstSeat(m, i) ==
    [assigned |-> desk[m].assigned \cup {i}, house |-> 1]

(* The first of the list is the player at this machine.                        *)
TakeSeat(m, i) ==
    [assigned |-> desk[m].assigned \cup {i},
     house |-> IF i = 1 THEN Len(world[m].houses) + 1 ELSE desk[m].house]

AssignPlayer ==
    /\ phase = "players"
    /\ \E m \in Players : desk[m].assigned # DOMAIN list[m]
    /\ world' = [m \in Players |->
                   LET p == list[m][LowestColor(m)] IN AddHouse(world[m], p, color[p])]
    /\ desk' = [m \in Players |-> TakeSeat(m, LowestColor(m))]
    /\ UNCHANGED <<lobby, phase, missing>>

PlayersAssigned ==
    /\ phase = "players"
    /\ \A m \in Players : desk[m].assigned = DOMAIN list[m]
    /\ phase' = "computers"
    /\ UNCHANGED <<lobby, world, desk, missing>>

(* A color is drawn until one is drawn that is not in use.                     *)
ColorDrawn(w, c) == IF c \in w.used THEN w ELSE AddHouse(w, Computer, c)

DrawColor ==
    /\ phase = "computers"
    /\ \E m \in Players : Len(world[m].houses) < N + computers
    /\ \E c \in Colors : world' = [m \in Players |-> ColorDrawn(world[m], c)]
    /\ UNCHANGED <<lobby, phase, desk, missing>>

AddNatives(w) ==
    [w EXCEPT !.houses = @ \o [k \in 1 .. Natives |-> [owner |-> Native, color |-> NoColor]]]

CreateNatives ==
    /\ phase = "computers"
    /\ \A m \in Players : Len(world[m].houses) >= N + computers
    /\ world' = [m \in Players |-> AddNatives(world[m])]
    /\ phase' = "waypoints"
    /\ UNCHANGED <<lobby, desk, missing>>

-----------------------------------------------------------------------------
(* Build_Starting_Waypoint_List.                                               *)

Valid(i) == scenario.waypoint[i] # NoCell

(* The valid waypoints before the first that is not.                           *)
MinWaypoints == Cardinality({i \in Waypoints : \A j \in 0 .. i : Valid(j)})

LookFor == IF scenario.official THEN Max({MinWaypoints, N + computers}) ELSE MaxPlayers

\* Mutant: waypoints are not looked at before they are used.
ListedWaypoints == [k \in 1 .. LookFor |-> scenario.waypoint[k - 1]]

FoundWaypoints ==
    LET found[k \in 0 .. LookFor] ==
            IF k = 0 THEN <<>>
            ELSE IF Valid(k - 1) THEN Append(found[k - 1], scenario.waypoint[k - 1])
            ELSE found[k - 1]
    IN found[LookFor]

ReadWaypoints ==
    /\ phase = "waypoints"
    /\ world' = [m \in Players |-> [world[m] EXCEPT !.waypts = FoundWaypoints]]
    /\ missing' = LookFor - Len(FoundWaypoints)
    /\ phase' = "search"
    /\ UNCHANGED <<lobby, desk>>

(* Nearby_Location finds a place for a base near a random cell, or none.       *)
RandomStart ==
    /\ phase = "search" /\ missing > 0
    /\ \E c \in Cells \cup {NoCell} :
         world' = IF c = NoCell
                  THEN world
                  ELSE [m \in Players |-> [world[m] EXCEPT !.waypts = Append(@, c)]]
    /\ missing' = missing - 1
    /\ UNCHANGED <<lobby, phase, desk>>

SearchDone ==
    /\ phase = "search" /\ missing = 0
    /\ phase' = "starts"
    /\ UNCHANGED <<lobby, world, desk, missing>>

-----------------------------------------------------------------------------
(* Create_Units: a starting position for each house that is not passive.       *)

Distance(a, b) == IF a < b THEN b - a ELSE a - b

\* Mutant: the distances are not added up.
ScoreOfLast(w, i) ==
    IF i \in w.taken THEN 0 ELSE Distance(w.waypts[i], w.waypts[Max(w.taken)])

(* The sum of the distances to the positions that are taken; 0 if it is taken. *)
Score(w, i) ==
    IF i \in w.taken THEN 0
    ELSE SumFunction([t \in w.taken |-> Distance(w.waypts[i], w.waypts[t])])

(* The search goes on to the next waypoint while the best value is 0, and      *)
(* keeps the first of those with the same value otherwise.                     *)
Furthest(w) ==
    LET top == Max({Score(w, i) : i \in DOMAIN w.waypts})
    IN IF top = 0 THEN Len(w.waypts) ELSE Min({i \in DOMAIN w.waypts : Score(w, i) = top})

\* Mutant: a house that starts at no waypoint gets the first.
SpawnPointOrFirst(c) ==
    LET at == {i \in Waypoints : scenario.waypoint[i] = c}
    IN IF at = {} THEN 0 ELSE Min(at)

(* Set_Spawn_Point: the first waypoint at the cell.                            *)
SpawnPoint(c) ==
    LET at == {i \in Waypoints : scenario.waypoint[i] = c}
    IN IF at = {} THEN NoWaypoint ELSE Min(at)

Settle(w, i) ==
    [w EXCEPT !.taken = @ \cup {i},
              !.start = Append(@, w.waypts[i]),
              !.spawn = Append(@, SpawnPoint(w.waypts[i]))]

SkipPassive(w) == [w EXCEPT !.start = Append(@, NoCell), !.spawn = Append(@, NoWaypoint)]

(* A construction yard of a house that is not controlled by the player at this *)
(* machine begins to build by itself; a base unit waits for its orders.        *)
PlaceBase(m, w, h) ==
    IF PrePlacedConYards /\ h # desk[m].house
    THEN [w EXCEPT !.building = @ \cup {h}] ELSE w

(* One pass of the loop over Houses; pick is the draw for the first house.     *)
NextHouse(m, pick) ==
    LET w == world[m]
        h == Len(w.start) + 1
    IN IF w.houses[h].owner = Native THEN SkipPassive(w)
       ELSE PlaceBase(m, Settle(w, IF w.taken = {} THEN pick ELSE Furthest(w)), h)

PlaceHouse ==
    /\ phase = "starts"
    /\ \E m \in Players : Len(world[m].start) < Len(world[m].houses)
    /\ \E pick \in 1 .. Max({Len(world[m].waypts) : m \in Players}) :
         world' = [m \in Players |-> NextHouse(m, pick)]
    /\ UNCHANGED <<lobby, phase, desk, missing>>

HousesPlaced ==
    /\ phase = "starts"
    /\ \A m \in Players : Len(world[m].start) = Len(world[m].houses)
    /\ phase' = "done"
    /\ UNCHANGED <<lobby, world, desk, missing>>

(* No position was found at all: the code reads before the first of an empty   *)
(* list, and nothing is said of what follows.                                  *)
NoPosition ==
    /\ phase = "starts"
    /\ \E m \in Players : world[m].waypts = <<>>
    /\ phase' = "undefined"
    /\ UNCHANGED <<lobby, world, desk, missing>>

Over ==
    /\ phase \in {"done", "undefined"}
    /\ UNCHANGED vars

-----------------------------------------------------------------------------
Empty == [used |-> {}, houses |-> <<>>, waypts |-> <<>>, taken |-> {},
          start |-> <<>>, spawn |-> <<>>, building |-> {}]

Injective(f) == \A a, b \in DOMAIN f : f[a] = f[b] => a = b

(* Every machine lists its own player first, and the others in some order.     *)
Lists(m) ==
    {l \in [1 .. N -> Players] :
       /\ Injective(l) /\ \A p \in Players : \E i \in 1 .. N : l[i] = p
       /\ l[1] = m}

(* A map has no two starting waypoints in one cell.                            *)
Maps == {w \in [Waypoints -> Cells \cup {NoCell}] :
           \A i, j \in Waypoints : w[i] = w[j] /\ w[i] # NoCell => i = j}

Init ==
    /\ color \in {c \in [Players -> Colors] : Injective(c)}
    /\ list \in {l \in [Players -> UNION {Lists(m) : m \in Players}] :
                   \A m \in Players : l[m] \in Lists(m)}
    /\ computers \in 0 .. MaxComputers
    /\ scenario \in [waypoint : Maps, official : BOOLEAN]
    /\ LookFor - Len(FoundWaypoints) <= MaxSearch
    /\ phase = "players"
    /\ world = [m \in Players |-> Empty]
    /\ desk = [m \in Players |-> [assigned |-> {}, house |-> 0]]
    /\ missing = 0

Next ==
    \/ AssignPlayer \/ PlayersAssigned
    \/ DrawColor \/ CreateNatives
    \/ ReadWaypoints \/ RandomStart \/ SearchDone
    \/ PlaceHouse \/ HousesPlaced \/ NoPosition
    \/ Over

Spec == Init /\ [][Next]_vars

-----------------------------------------------------------------------------
(* Reading a game that has begun.                                              *)

Active(w) == {h \in DOMAIN w.start : w.houses[h].owner # Native}

(* House_At_Spawn_Point: the first house whose spawn point is the waypoint;    *)
(* 0 for none.                                                                 *)
HouseAt(w, i) ==
    LET at == {h \in DOMAIN w.spawn : w.spawn[h] = i}
    IN IF at = {} THEN 0 ELSE Min(at)

(* The state is of the shape the code gives it.                                *)
TypeOK ==
    /\ color \in [Players -> Colors]
    /\ list \in [Players -> [1 .. N -> Players]]
    /\ computers \in 0 .. MaxComputers
    /\ scenario \in [waypoint : Maps, official : BOOLEAN]
    /\ phase \in {"players", "computers", "waypoints", "search", "starts", "done", "undefined"}
    /\ missing \in 0 .. MaxPlayers
    /\ \A m \in Players :
         /\ desk[m].assigned \subseteq 1 .. N /\ desk[m].house \in 0 .. N
         /\ world[m].used \subseteq Colors
         /\ world[m].houses \in Seq(House)
         /\ world[m].waypts \in Seq(Cells)
         /\ world[m].taken \subseteq DOMAIN world[m].waypts
         /\ world[m].start \in Seq(Cells \cup {NoCell})
         /\ world[m].spawn \in Seq(Waypoints \cup {NoWaypoint})
         /\ world[m].building \subseteq DOMAIN world[m].start

(* All machines make the same game of lists of players in different orders:    *)
(* the same houses in the same slots, of the same colors, starting from the    *)
(* same cells.  The simulation runs in lockstep and would part otherwise.      *)
SameGame == \A m, n \in Players : world[m] = world[n]

(* PlayerPtr of each machine is the house of the player who sits at it, and    *)
(* that house has the color he chose, when all players are assigned.           *)
OwnHouse ==
    phase # "players" =>
        \A m \in Players :
            /\ desk[m].house \in DOMAIN world[m].houses
            /\ world[m].houses[desk[m].house] = [owner |-> m, color |-> color[m]]

(* No two houses that play have the same color, whether their color was chosen *)
(* or drawn.                                                                   *)
ColorsDiffer ==
    \A m \in Players : LET hs == world[m].houses IN
        \A g, h \in DOMAIN hs : g # h /\ hs[g].color # NoColor => hs[g].color # hs[h].color

(* As long as a cell is free, each house after the first starts from a cell    *)
(* of its own, one that no free cell is further away than from the houses      *)
(* before it, all distances added up; unless a random position coincides with  *)
(* another.                                                                    *)
FurthestApart ==
    \A m \in Players : LET w == world[m] IN
        Injective(w.waypts) =>
            \A h \in Active(w) :
                LET before == {g \in Active(w) : g < h}
                    far(c) == SumFunction([g \in before |-> Distance(c, w.start[g])])
                    free == {w.waypts[i] : i \in DOMAIN w.waypts} \ {w.start[g] : g \in before}
                IN free # {} =>
                    w.start[h] \in free /\ \A c \in free : far(c) <= far(w.start[h])

(* What a trigger of the map gets for a spawn house is the house that started  *)
(* at this waypoint, and nobody if none did.                                   *)
SpawnHouseFound ==
    \A m \in Players : LET w == world[m] IN
        \A i \in Waypoints : LET h == HouseAt(w, i) IN
            /\ h # 0 => w.start[h] = scenario.waypoint[i]
            /\ h = 0 => \A g \in Active(w) : w.start[g] # scenario.waypoint[i]
=============================================================================
