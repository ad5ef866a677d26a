---------------------------- MODULE AircraftTracker ----------------------------
(***************************************************************************)
(* The aircraft tracker, where explosions look for what is in the air      *)
(* (src/src/new/aircrafttracker), and the locomotors that keep it up to    *)
(* date: fly, levitate, jumpjet and rocket.                                *)
(*                                                                         *)
(* The tracker divides the map into Side by Side regions (20 by 20 in the  *)
(* code). Where an object is entered is known twice: by the regions, and   *)
(* by the object's extension, as the cell it was last seen flying in.      *)
(***************************************************************************)
EXTENDS Integers, FiniteSets

CONSTANTS
    Feet,        \* movable objects
    Side,        \* regions in a row, and rows of regions
    Width,       \* Map.MapRect
    Height,
    MapCells,    \* the cells of the map, <<X, Y>>
    Ranges       \* the ranges of the explosions

Locomotors == {"fly", "levitate", "jumpjet", "rocket"}

\* CELL_NONE. Memory for extensions is zeroed, and no constructor sets the cell.
NoCell == <<0, 0>>

AtMost(x, y) == IF x < y THEN x ELSE y
AtLeast(x, y) == IF x < y THEN y ELSE x

RegionWidth == Width \div Side
RegionHeight == Height \div Side

GetRegion(cell) ==
    AtMost(Side - 1, AtLeast(0, cell[1]) \div RegionWidth)
        + Side * AtMost(Side - 1, AtLeast(0, cell[2]) \div RegionHeight)

Regions == 0..(Side * Side - 1)

ASSUME SideAssumption == Side \in Nat \ {0}
ASSUME SizeAssumption == {Width, Height} \subseteq Nat /\ Width >= Side /\ Height >= Side

\* The map is a diamond: nothing flies in the region of its first corner, which
\* is the region of CELL_NONE.
ASSUME CornerAssumption ==
    /\ MapCells \subseteq Int \X Int
    /\ \A c \in MapCells : GetRegion(c) # GetRegion(NoCell)

ASSUME RangeAssumption == Ranges \subseteq Int

VARIABLES
    locomotor, \* of each object, from its type
    place,     \* of each object: no object, in limbo, or on the map
    cell,      \* where it is
    phase,     \* what its locomotor does
    last,      \* LastFlightCell
    entries    \* in each region, how many times each object is listed

vars == <<locomotor, place, cell, phase, last, entries>>

Phases == {"ground", "entering", "flying"}

TypeOK ==
    /\ locomotor \in [Feet -> Locomotors]
    /\ place \in [Feet -> {"none", "limbo", "map"}]
    /\ cell \in [Feet -> MapCells \union {NoCell}]
    /\ \A f \in Feet : place[f] = "map" => cell[f] \in MapCells
    /\ phase \in [Feet -> Phases]
    /\ last \in [Feet -> MapCells \union {NoCell}]
    /\ entries \in [Regions -> [Feet -> Nat]]

------------------------------------------------------------------------------
(***************************************************************************)
(* The tracker, on a record of the state in flight.                        *)
(***************************************************************************)
Now == [last |-> last, entries |-> entries]

Becomes(w) == last' = w.last /\ entries' = w.entries

Enter(w, r, f) == [w EXCEPT !.entries[r][f] = @ + 1]

\* Mutant: there is always an entry to take out.
RemoveAlways(w, r, f) == [w EXCEPT !.entries[r][f] = @ - 1]

\* DynamicVectorClass::Delete takes out one entry, if there is one.
Remove(w, r, f) ==
    [w EXCEPT !.entries[r][f] = IF @ > 0 THEN @ - 1 ELSE 0]

Track(w, f, c) == Enter([w EXCEPT !.last[f] = c], GetRegion(c), f)

Untrack(w, f) ==
    Remove([w EXCEPT !.last[f] = NoCell], GetRegion(w.last[f]), f)

\* Mutant: the object stays in the old region, too.
UpdatePositionKept(w, f, c) ==
    LET old == GetRegion(w.last[f])
    IN IF old = GetRegion(c) THEN [w EXCEPT !.last[f] = c]
       ELSE Enter([w EXCEPT !.last[f] = c], GetRegion(c), f)

\* Update_Position(f, last[f], c), as all its callers call it.
UpdatePosition(w, f, c) ==
    LET old == GetRegion(w.last[f])
        moved == [w EXCEPT !.last[f] = c]
    IN IF old = GetRegion(c) THEN moved
       ELSE Enter(Remove(moved, old, f), GetRegion(c), f)

UpdateIfMoved(w, f, c) == IF c = w.last[f] THEN w ELSE UpdatePosition(w, f, c)

TrackIfNew(w, f, c) == IF w.last[f] = NoCell THEN Track(w, f, c) ELSE w

\* Mutant: rows and columns are swapped.
AdjacentRegionTransposed(region, xoff, yoff) ==
    AtMost(Side - 1, AtLeast(0, (region \div Side) + xoff))
        + Side * AtMost(Side - 1, AtLeast(0, (region % Side) + yoff))

AdjacentRegion(region, xoff, yoff) ==
    AtMost(Side - 1, AtLeast(0, (region % Side) + xoff))
        + Side * AtMost(Side - 1, AtLeast(0, (region \div Side) + yoff))

RegionRange(range) == (AtLeast(range, 1) + Side - 1) \div Side

\* Fetch_Targets: whoever is in the regions around the cell, which are copied
\* once each, and are what Get_Target hands out until the set is empty.
FetchTargets(c, range) ==
    LET reach == -RegionRange(range)..RegionRange(range)
        fetched == {AdjacentRegion(GetRegion(c), x, y) : x, y \in reach}
    IN {f \in Feet : \E r \in fetched : entries[r][f] > 0}

------------------------------------------------------------------------------
Init ==
    /\ locomotor = [f \in Feet |-> "fly"]
    /\ place = [f \in Feet |-> "none"]
    /\ cell = [f \in Feet |-> NoCell]
    /\ phase = [f \in Feet |-> "ground"]
    /\ last = [f \in Feet |-> NoCell]
    /\ entries = [r \in Regions |-> [f \in Feet |-> 0]]

OnMap(f, kind) == place[f] = "map" /\ locomotor[f] = kind

Create(f) ==
    /\ place[f] = "none"
    /\ place' = [place EXCEPT ![f] = "limbo"]
    /\ \E kind \in Locomotors : locomotor' = [locomotor EXCEPT ![f] = kind]
    /\ UNCHANGED <<cell, phase, last, entries>>

\* FootClass::Unlimbo. Levitating objects are always in flight; aircraft are put
\* on the ground or in the air; rockets wait on their launcher.
Unlimbo(f, c) ==
    /\ place[f] = "limbo"
    /\ place' = [place EXCEPT ![f] = "map"]
    /\ cell' = [cell EXCEPT ![f] = c]
    /\ \E p \in (CASE locomotor[f] = "levitate" -> {"flying"}
                   [] locomotor[f] = "fly" -> {"ground", "entering"}
                   [] OTHER -> {"ground"}) :
        phase' = [phase EXCEPT ![f] = p]
    /\ Becomes(IF locomotor[f] = "levitate" THEN Track(Now, f, c) ELSE Now)
    /\ UNCHANGED locomotor

Vanish(f, to) ==
    /\ place' = [place EXCEPT ![f] = to]
    /\ cell' = [cell EXCEPT ![f] = NoCell]
    /\ phase' = [phase EXCEPT ![f] = "ground"]
    /\ UNCHANGED locomotor

\* FootClass::Limbo, for an object that stays in the game or is destroyed.
Limbo(f) ==
    /\ place[f] = "map"
    /\ \E to \in {"limbo", "none"} : Vanish(f, to)
    /\ Becomes(IF last[f] # NoCell THEN Untrack(Now, f) ELSE Now)

Destroy(f) ==
    /\ place[f] = "limbo"
    /\ Vanish(f, "none")
    /\ UNCHANGED <<last, entries>>

\* Within a frame nothing flies further than into the next cell.
Near(c) == {d \in MapCells : d[1] - c[1] \in -1..1 /\ d[2] - c[2] \in -1..1}

MoveFrom(f) == \E d \in Near(cell[f]) : cell' = [cell EXCEPT ![f] = d]

\* FlyLocomotionClass::Take_Off, also of an aircraft that is in the air.
TakeOff(f) ==
    /\ OnMap(f, "fly")
    /\ phase' = [phase EXCEPT ![f] = "flying"]
    /\ Becomes(TrackIfNew(Now, f, cell[f]))
    /\ UNCHANGED <<locomotor, place, cell>>

\* Movement_AI and State_AI, in a frame in which the object is moving: the
\* position is noted before it moves on.
Fly(f) ==
    /\ OnMap(f, "fly") \/ OnMap(f, "levitate")
    /\ phase[f] # "ground"
    /\ Becomes(UpdateIfMoved(Now, f, cell[f]))
    /\ phase' = [phase EXCEPT ![f] = "flying"]
    /\ MoveFrom(f)
    /\ UNCHANGED <<locomotor, place>>

\* Process_Landing, and what is left of a crash before it goes.
TouchDown(f) ==
    /\ OnMap(f, "fly")
    /\ phase[f] # "ground"
    /\ phase' = [phase EXCEPT ![f] = "ground"]
    /\ Becomes(Untrack(Now, f))
    /\ UNCHANGED <<locomotor, place, cell>>

\* Process_Grounded.
JumpjetUp(f) ==
    /\ OnMap(f, "jumpjet")
    /\ phase[f] = "ground"
    /\ phase' = [phase EXCEPT ![f] = "flying"]
    /\ Becomes(TrackIfNew(Now, f, cell[f]))
    /\ UNCHANGED <<locomotor, place, cell>>

\* Process_Ascent and Process_Cruise.
JumpjetFly(f) ==
    /\ OnMap(f, "jumpjet")
    /\ phase[f] = "flying"
    /\ Becomes(UpdateIfMoved(Now, f, cell[f]))
    /\ MoveFrom(f)
    /\ UNCHANGED <<locomotor, place, phase>>

\* Process_Descent, at the ground.
JumpjetDown(f) ==
    /\ OnMap(f, "jumpjet")
    /\ phase[f] = "flying"
    /\ phase' = [phase EXCEPT ![f] = "ground"]
    /\ Becomes(Untrack(Now, f))
    /\ UNCHANGED <<locomotor, place, cell>>

\* The end of Tilt or VerticalTakeOff; a rocket that skips them is not tracked.
RocketUp(f) ==
    /\ OnMap(f, "rocket")
    /\ phase[f] = "ground"
    /\ phase' = [phase EXCEPT ![f] = "flying"]
    /\ \/ Becomes(TrackIfNew(Now, f, cell[f]))
       \/ UNCHANGED <<last, entries>>
    /\ UNCHANGED <<locomotor, place, cell>>

RocketFly(f) ==
    /\ OnMap(f, "rocket")
    /\ phase[f] = "flying"
    /\ MoveFrom(f)
    /\ UNCHANGED <<locomotor, place, phase, last, entries>>

\* Explode: Untrack, and Limbo by way of Delete_Me.
RocketExplode(f) ==
    /\ OnMap(f, "rocket")
    /\ Becomes(Untrack(Now, f))
    /\ Vanish(f, "none")

\* Clear_Scenario: the tracker is emptied with the game it belongs to.
Clear ==
    /\ place' = [f \in Feet |-> "none"]
    /\ cell' = [f \in Feet |-> NoCell]
    /\ phase' = [f \in Feet |-> "ground"]
    /\ last' = [f \in Feet |-> NoCell]
    /\ entries' = [r \in Regions |-> [f \in Feet |-> 0]]
    /\ UNCHANGED locomotor

------------------------------------------------------------------------------
Arrive(f) == Create(f) \/ \E c \in MapCells : Unlimbo(f, c)

Leave(f) == Limbo(f) \/ Destroy(f)

Locomotion(f) ==
    \/ TakeOff(f) \/ Fly(f) \/ TouchDown(f)
    \/ JumpjetUp(f) \/ JumpjetFly(f) \/ JumpjetDown(f)
    \/ RocketUp(f) \/ RocketFly(f) \/ RocketExplode(f)

Next == (\E f \in Feet : Arrive(f) \/ Leave(f) \/ Locomotion(f)) \/ Clear

Spec == Init /\ [][Next]_vars

------------------------------------------------------------------------------
\* The regions and the extensions agree: an object is listed once, in the region
\* of its LastFlightCell, or nowhere if it has none (aircrafttracker.cpp:132-152,
\* 232-242). An object that is not on the map is listed nowhere, so that no
\* explosion gets a pointer to a dead one (footext_hooks.cpp:782-789).
ListedOnce ==
    \A f \in Feet :
        /\ last[f] # NoCell => place[f] = "map"
        /\ \A r \in Regions :
            entries[r][f] = IF last[f] # NoCell /\ r = GetRegion(last[f]) THEN 1 ELSE 0

Airborne(f) == place[f] = "map" /\ phase[f] = "flying"

Steered == {"fly", "levitate", "jumpjet"}

\* An explosion finds what flies around it, wherever the borders of the regions
\* are and although an object is entered where it was a frame ago: up to a cell
\* less than the regions it fetches are wide (aircrafttracker.cpp:62-80, 105-124).
\* Only rockets are not kept up to date.
FlyersFound ==
    \A f \in Feet, c \in MapCells, range \in Ranges :
        LET far == AtMost(RegionWidth, RegionHeight) * RegionRange(range) - 1
        IN (/\ Airborne(f) /\ locomotor[f] \in Steered
            /\ cell[f][1] - c[1] \in -far..far /\ cell[f][2] - c[2] \in -far..far)
           => f \in FetchTargets(c, range)
=============================================================================
