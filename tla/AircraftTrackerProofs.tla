------------------------- MODULE AircraftTrackerProofs -------------------------
(***************************************************************************)
(* The regions of the aircraft tracker and the LastFlightCell of each      *)
(* object agree, and explosions find what flies around them, for any map,  *)
(* number of regions and number of objects.                                *)
(***************************************************************************)
EXTENDS AircraftTracker, TLAPS

Constants ==
    /\ Side \in Nat \ {0}
    /\ Width \in Nat /\ Height \in Nat /\ Width >= Side /\ Height >= Side

LEMMA ConstantsHold == Constants
BY SideAssumption, SizeAssumption DEF Constants

LEMMA RegionsAreWide == RegionWidth \in Nat \ {0} /\ RegionHeight \in Nat \ {0}
BY ConstantsHold, SMTT(30) DEF Constants, RegionWidth, RegionHeight

\* A row and a column below Side make a region.
LEMMA RegionOfRowAndColumn ==
    ASSUME NEW i \in 0..(Side - 1), NEW j \in 0..(Side - 1)
    PROVE  i + Side * j \in Regions
<1>1. Side \in Nat \ {0}
  BY SideAssumption
<1>2. Side * j <= Side * (Side - 1)
  BY <1>1, SMTT(30)
<1>3. Side * (Side - 1) = Side * Side - Side
  BY <1>1, SMTT(30)
<1>4. Side * j \in Nat /\ Side * Side \in Nat
  BY <1>1, SMTT(30)
<1> QED
  BY <1>1, <1>2, <1>3, <1>4, SMTT(30) DEF Regions

LEMMA ClampedQuotient ==
    ASSUME NEW v \in Int, NEW d \in Nat \ {0}
    PROVE  AtMost(Side - 1, AtLeast(0, v) \div d) \in 0..(Side - 1)
<1>1. AtLeast(0, v) \in Nat
  BY DEF AtLeast
<1>2. AtLeast(0, v) \div d \in Nat
  BY <1>1, SMTT(30)
<1> QED
  BY <1>2, SideAssumption DEF AtMost

LEMMA GetRegionType ==
    ASSUME NEW c \in Int \X Int
    PROVE  GetRegion(c) \in Regions
<1>1. c[1] \in Int /\ c[2] \in Int
  OBVIOUS
<1>2. AtMost(Side - 1, AtLeast(0, c[1]) \div RegionWidth) \in 0..(Side - 1)
  BY <1>1, RegionsAreWide, ClampedQuotient
<1>3. AtMost(Side - 1, AtLeast(0, c[2]) \div RegionHeight) \in 0..(Side - 1)
  BY <1>1, RegionsAreWide, ClampedQuotient
<1> QED
  BY <1>2, <1>3, RegionOfRowAndColumn DEF GetRegion

LEMMA CornerIsNoCell ==
    /\ NoCell \notin MapCells
    /\ \A c \in MapCells \union {NoCell} : GetRegion(c) \in Regions
    /\ \A c \in MapCells : GetRegion(c) # GetRegion(NoCell)
BY CornerAssumption, GetRegionType DEF NoCell

------------------------------------------------------------------------------
\* The state in flight, and what the tracker's operators keep.
Typed(w) ==
    w \in [last : [Feet -> MapCells \union {NoCell}], entries : [Regions -> [Feet -> Nat]]]

Agree(w) ==
    \A f \in Feet, r \in Regions :
        w.entries[r][f] = IF w.last[f] # NoCell /\ r = GetRegion(w.last[f]) THEN 1 ELSE 0

\* What one object's entry is, when only that object is entered or removed.
LEMMA EnterEntries ==
    ASSUME NEW w, Typed(w), NEW r \in Regions, NEW f \in Feet
    PROVE  /\ Typed(Enter(w, r, f))
           /\ Enter(w, r, f).last = w.last
           /\ \A s \in Regions, g \in Feet :
                Enter(w, r, f).entries[s][g] =
                    IF s = r /\ g = f THEN w.entries[s][g] + 1 ELSE w.entries[s][g]
<1> DEFINE v == [w.entries EXCEPT ![r][f] = @ + 1]
<1>1. w.entries \in [Regions -> [Feet -> Nat]] /\ w.last \in [Feet -> MapCells \union {NoCell}]
  BY DEF Typed
<1>2. /\ v \in [Regions -> [Feet -> Nat]]
      /\ \A s \in Regions, g \in Feet :
            v[s][g] = IF s = r /\ g = f THEN w.entries[s][g] + 1 ELSE w.entries[s][g]
  BY <1>1
<1>3. Enter(w, r, f) = [w EXCEPT !.entries = v]
  BY <1>1 DEF Enter, Typed
<1> HIDE DEF v
<1>4. Enter(w, r, f) = [last |-> w.last, entries |-> v]
  BY <1>3 DEF Typed
<1> QED
  BY <1>1, <1>2, <1>4 DEF Typed

LEMMA RemoveEntries ==
    ASSUME NEW w, Typed(w), NEW r \in Regions, NEW f \in Feet
    PROVE  /\ Typed(Remove(w, r, f))
           /\ Remove(w, r, f).last = w.last
           /\ \A s \in Regions, g \in Feet :
                Remove(w, r, f).entries[s][g] =
                    IF s = r /\ g = f
                    THEN IF w.entries[s][g] > 0 THEN w.entries[s][g] - 1 ELSE 0
                    ELSE w.entries[s][g]
<1> DEFINE v == [w.entries EXCEPT ![r][f] = IF @ > 0 THEN @ - 1 ELSE 0]
<1>1. w.entries \in [Regions -> [Feet -> Nat]] /\ w.last \in [Feet -> MapCells \union {NoCell}]
  BY DEF Typed
<1>2. /\ v \in [Regions -> [Feet -> Nat]]
      /\ \A s \in Regions, g \in Feet :
            v[s][g] = IF s = r /\ g = f
                      THEN IF w.entries[s][g] > 0 THEN w.entries[s][g] - 1 ELSE 0
                      ELSE w.entries[s][g]
  BY <1>1
<1>3. Remove(w, r, f) = [w EXCEPT !.entries = v]
  BY <1>1 DEF Remove, Typed
<1> HIDE DEF v
<1>4. Remove(w, r, f) = [last |-> w.last, entries |-> v]
  BY <1>3 DEF Typed
<1> QED
  BY <1>1, <1>2, <1>4 DEF Typed

LEMMA SeenIn ==
    ASSUME NEW w, Typed(w), NEW f \in Feet, NEW c \in MapCells \union {NoCell}
    PROVE  /\ Typed([w EXCEPT !.last[f] = c])
           /\ [w EXCEPT !.last[f] = c].entries = w.entries
           /\ [w EXCEPT !.last[f] = c].last = [w.last EXCEPT ![f] = c]
BY DEF Typed

\* Track, for an object that is not tracked yet.
LEMMA TrackAgrees ==
    ASSUME NEW w, Typed(w), Agree(w), NEW f \in Feet, NEW c \in MapCells,
           w.last[f] = NoCell
    PROVE  /\ Typed(Track(w, f, c)) /\ Agree(Track(w, f, c))
           /\ Track(w, f, c).last = [w.last EXCEPT ![f] = c]
<1> DEFINE m == [w EXCEPT !.last[f] = c]
<1>1. Typed(m) /\ m.entries = w.entries /\ m.last = [w.last EXCEPT ![f] = c]
  BY SeenIn
<1>2. GetRegion(c) \in Regions /\ c # NoCell
  BY CornerIsNoCell
<1>3. Track(w, f, c) = Enter(m, GetRegion(c), f)
  BY DEF Track
<1> HIDE DEF m
<1>4. Typed(Enter(m, GetRegion(c), f)) /\ Enter(m, GetRegion(c), f).last = m.last
  BY <1>1, <1>2, EnterEntries
<1>5. \A s \in Regions, g \in Feet :
          Enter(m, GetRegion(c), f).entries[s][g] =
              IF s = GetRegion(c) /\ g = f THEN m.entries[s][g] + 1 ELSE m.entries[s][g]
  <2>1. Typed(m) /\ GetRegion(c) \in Regions
    BY <1>1, <1>2
  <2> QED
    BY <2>1, EnterEntries
<1>6. Agree(Enter(m, GetRegion(c), f))
  BY <1>1, <1>2, <1>4, <1>5 DEF Agree, Typed
<1> QED
  BY <1>1, <1>3, <1>4, <1>6

\* Untrack, of any object: also of one that is tracked nowhere.
LEMMA UntrackAgrees ==
    ASSUME NEW w, Typed(w), Agree(w), NEW f \in Feet
    PROVE  /\ Typed(Untrack(w, f)) /\ Agree(Untrack(w, f))
           /\ Untrack(w, f).last = [w.last EXCEPT ![f] = NoCell]
<1> DEFINE m == [w EXCEPT !.last[f] = NoCell]
           r == GetRegion(w.last[f])
<1>1. Typed(m) /\ m.entries = w.entries /\ m.last = [w.last EXCEPT ![f] = NoCell]
  BY SeenIn
<1>2. r \in Regions
  BY CornerIsNoCell DEF Typed
<1>3. Untrack(w, f) = Remove(m, r, f)
  BY DEF Untrack
<1>4. \A s \in Regions : m.entries[s][f] = IF w.last[f] # NoCell /\ s = r THEN 1 ELSE 0
  BY <1>1 DEF Agree
<1> HIDE DEF m, r
<1>5. Typed(Remove(m, r, f)) /\ Remove(m, r, f).last = m.last
  BY <1>1, <1>2, RemoveEntries
<1>6. \A s \in Regions, g \in Feet :
          Remove(m, r, f).entries[s][g] =
              IF s = r /\ g = f
              THEN IF m.entries[s][g] > 0 THEN m.entries[s][g] - 1 ELSE 0
              ELSE m.entries[s][g]
  <2>1. Typed(m) /\ r \in Regions
    BY <1>1, <1>2
  <2> QED
    BY <2>1, RemoveEntries
<1>7. \A s \in Regions : Remove(m, r, f).entries[s][f] = 0
  BY <1>2, <1>4, <1>6
<1>8. Agree(Remove(m, r, f))
  BY <1>1, <1>2, <1>5, <1>6, <1>7 DEF Agree, Typed
<1> QED
  BY <1>1, <1>3, <1>5, <1>8

\* Update_Position. An object that was tracked nowhere is entered where it is,
\* because it cannot be in the region of CELL_NONE.
LEMMA UpdateAgrees ==
    ASSUME NEW w, Typed(w), Agree(w), NEW f \in Feet, NEW c \in MapCells
    PROVE  /\ Typed(UpdatePosition(w, f, c)) /\ Agree(UpdatePosition(w, f, c))
           /\ UpdatePosition(w, f, c).last = [w.last EXCEPT ![f] = c]
<1> DEFINE m == [w EXCEPT !.last[f] = c]
           r == GetRegion(w.last[f])
           q == GetRegion(c)
<1>1. Typed(m) /\ m.entries = w.entries /\ m.last = [w.last EXCEPT ![f] = c]
  BY SeenIn
<1>2. r \in Regions /\ q \in Regions /\ c # NoCell
  BY CornerIsNoCell DEF Typed
<1>3. \A s \in Regions : m.entries[s][f] = IF w.last[f] # NoCell /\ s = r THEN 1 ELSE 0
  BY <1>1 DEF Agree
<1>4. CASE r = q
  <2>1. UpdatePosition(w, f, c) = m
    BY <1>4 DEF UpdatePosition
  <2>2. w.last[f] # NoCell
    BY <1>4, CornerIsNoCell
  <2> HIDE DEF m
  <2>3. Agree(m)
    BY <1>1, <1>2, <1>3, <1>4, <2>2 DEF Agree, Typed
  <2> QED
    BY <1>1, <2>1, <2>3
<1>5. CASE r # q
  <2> DEFINE k == Remove(m, r, f)
  <2>1. UpdatePosition(w, f, c) = Enter(k, q, f)
    BY <1>5 DEF UpdatePosition
  <2> HIDE DEF m, r, q
  <2>2. Typed(k) /\ k.last = m.last
    BY <1>1, <1>2, RemoveEntries
  <2>3. \A s \in Regions, g \in Feet :
            k.entries[s][g] =
                IF s = r /\ g = f
                THEN IF m.entries[s][g] > 0 THEN m.entries[s][g] - 1 ELSE 0
                ELSE m.entries[s][g]
    <3>1. Typed(m) /\ r \in Regions
      BY <1>1, <1>2
    <3> QED
      BY <3>1, RemoveEntries
  <2> HIDE DEF k
  <2>4. Typed(Enter(k, q, f)) /\ Enter(k, q, f).last = k.last
    BY <1>2, <2>2, EnterEntries
  <2>5. \A s \in Regions, g \in Feet :
            Enter(k, q, f).entries[s][g] =
                IF s = q /\ g = f THEN k.entries[s][g] + 1 ELSE k.entries[s][g]
    <3>1. Typed(k) /\ q \in Regions
      BY <1>2, <2>2
    <3> QED
      BY <3>1, EnterEntries
  <2>6. \A s \in Regions : Enter(k, q, f).entries[s][f] = IF s = q THEN 1 ELSE 0
    BY <1>2, <1>3, <1>5, <2>3, <2>5
  <2>7. \A s \in Regions, g \in Feet : g # f => Enter(k, q, f).entries[s][g] = w.entries[s][g]
    BY <1>1, <2>3, <2>5
  <2>8. Agree(Enter(k, q, f))
    BY <1>1, <1>2, <2>2, <2>4, <2>6, <2>7 DEF Agree, Typed, q
  <2> QED
    BY <1>1, <2>1, <2>2, <2>4, <2>8
<1> QED
  BY <1>4, <1>5

------------------------------------------------------------------------------
\* What an operator may do to the state in flight, for the sake of one object.
Kept(w, v, f) ==
    /\ Typed(v) /\ Agree(v)
    /\ \A g \in Feet : g # f => v.last[g] = w.last[g]

LEMMA NothingKept ==
    ASSUME NEW w, Typed(w), Agree(w), NEW f \in Feet
    PROVE  Kept(w, w, f)
BY DEF Kept

LEMMA TrackIfNewKept ==
    ASSUME NEW w, Typed(w), Agree(w), NEW f \in Feet, NEW c \in MapCells
    PROVE  Kept(w, TrackIfNew(w, f, c), f)
<1>1. w.last \in [Feet -> MapCells \union {NoCell}]
  BY DEF Typed
<1>2. CASE w.last[f] = NoCell
  <2>1. TrackIfNew(w, f, c) = Track(w, f, c)
    BY <1>2 DEF TrackIfNew
  <2>2. /\ Typed(Track(w, f, c)) /\ Agree(Track(w, f, c))
        /\ Track(w, f, c).last = [w.last EXCEPT ![f] = c]
    BY <1>2, TrackAgrees
  <2> QED
    BY <1>1, <2>1, <2>2 DEF Kept
<1>3. CASE w.last[f] # NoCell
  BY <1>3, NothingKept DEF TrackIfNew
<1> QED
  BY <1>2, <1>3

LEMMA UpdateIfMovedKept ==
    ASSUME NEW w, Typed(w), Agree(w), NEW f \in Feet, NEW c \in MapCells
    PROVE  Kept(w, UpdateIfMoved(w, f, c), f)
<1>1. w.last \in [Feet -> MapCells \union {NoCell}]
  BY DEF Typed
<1>2. CASE c = w.last[f]
  BY <1>2, NothingKept DEF UpdateIfMoved
<1>3. CASE c # w.last[f]
  <2>1. UpdateIfMoved(w, f, c) = UpdatePosition(w, f, c)
    BY <1>3 DEF UpdateIfMoved
  <2>2. /\ Typed(UpdatePosition(w, f, c)) /\ Agree(UpdatePosition(w, f, c))
        /\ UpdatePosition(w, f, c).last = [w.last EXCEPT ![f] = c]
    BY UpdateAgrees
  <2> QED
    BY <1>1, <2>1, <2>2 DEF Kept
<1> QED
  BY <1>2, <1>3

LEMMA UntrackKept ==
    ASSUME NEW w, Typed(w), Agree(w), NEW f \in Feet
    PROVE  Kept(w, Untrack(w, f), f) /\ Untrack(w, f).last[f] = NoCell
<1>1. w.last \in [Feet -> MapCells \union {NoCell}]
  BY DEF Typed
<1>2. /\ Typed(Untrack(w, f)) /\ Agree(Untrack(w, f))
      /\ Untrack(w, f).last = [w.last EXCEPT ![f] = NoCell]
  BY UntrackAgrees
<1> QED
  BY <1>1, <1>2 DEF Kept

------------------------------------------------------------------------------
\* The type of what is not the tracker's.
Placed ==
    /\ locomotor \in [Feet -> Locomotors]
    /\ place \in [Feet -> {"none", "limbo", "map"}]
    /\ cell \in [Feet -> MapCells \union {NoCell}]
    /\ \A f \in Feet : place[f] = "map" => cell[f] \in MapCells
    /\ phase \in [Feet -> Phases]

\* The inductive invariant: each half of ListedOnce needs the other, and the type.
Inv == TypeOK /\ ListedOnce

LEMMA InvParts ==
    Inv <=> /\ Placed /\ Typed(Now) /\ Agree(Now)
            /\ \A f \in Feet : last[f] # NoCell => place[f] = "map"
BY DEF Inv, TypeOK, ListedOnce, Placed, Typed, Agree, Now

\* An action that keeps the tracker for one object, which is on the map after it
\* or tracked no more, while the others stay where they are.
LEMMA OneObject ==
    ASSUME Inv, NEW f \in Feet, NEW w, Kept(Now, w, f), Becomes(w), Placed',
           \A g \in Feet : g # f => place'[g] = place[g],
           place'[f] = "map" \/ w.last[f] = NoCell
    PROVE  Inv'
<1>1. Typed(w) /\ Agree(w) /\ last' = w.last /\ entries' = w.entries
  BY DEF Kept, Becomes
<1>2. last' \in [Feet -> MapCells \union {NoCell}] /\ entries' \in [Regions -> [Feet -> Nat]]
  BY <1>1 DEF Typed
<1>3. \A g \in Feet : last'[g] # NoCell => place'[g] = "map"
  BY <1>1, InvParts DEF Kept, Now
<1>4. \A g \in Feet, r \in Regions :
          entries'[r][g] = IF last'[g] # NoCell /\ r = GetRegion(last'[g]) THEN 1 ELSE 0
  BY <1>1 DEF Agree
<1> QED
  BY <1>2, <1>3, <1>4 DEF Inv, TypeOK, ListedOnce, Placed

LEMMA InvInit == Init => Inv
<1> SUFFICES ASSUME Init PROVE Inv
  OBVIOUS
<1>1. Regions \subseteq Int /\ NoCell \in MapCells \union {NoCell}
  BY SideAssumption DEF Regions
<1> QED
  BY <1>1 DEF Init, Inv, TypeOK, ListedOnce, Locomotors, Phases

LEMMA InvArrive ==
    ASSUME Inv, NEW f \in Feet, Arrive(f)
    PROVE  Inv'
<1>1. Placed /\ Typed(Now) /\ Agree(Now)
  BY InvParts
<1>2. last[f] # NoCell => place[f] = "map"
  BY InvParts
<1>3. CASE Create(f)
  <2>1. Placed'
    BY <1>1, <1>3 DEF Placed, Create
  <2>2. last[f] = NoCell /\ Becomes(Now)
    BY <1>2, <1>3 DEF Create, Becomes, Now
  <2>3. Kept(Now, Now, f)
    BY <1>1, NothingKept
  <2>4. \A g \in Feet : g # f => place'[g] = place[g]
    BY <1>1, <1>3 DEF Placed, Create
  <2>5. Now.last[f] = NoCell
    BY <2>2 DEF Now
  <2> QED
    BY <2>1, <2>2, <2>3, <2>4, <2>5, OneObject
<1>4. ASSUME NEW c \in MapCells, Unlimbo(f, c)
      PROVE  Inv'
  <2> DEFINE w == IF locomotor[f] = "levitate" THEN Track(Now, f, c) ELSE Now
  <2>1. place'[f] = "map" /\ \A g \in Feet : g # f => place'[g] = place[g]
    BY <1>1, <1>4 DEF Placed, Unlimbo
  <2>2. phase' \in [Feet -> Phases]
    BY <1>1, <1>4 DEF Placed, Unlimbo, Phases, Locomotors
  <2>3. Placed'
    BY <1>1, <1>4, <2>1, <2>2 DEF Placed, Unlimbo
  <2>4. Becomes(w)
    BY <1>4 DEF Unlimbo
  <2>5. Now.last[f] = NoCell
    BY <1>2, <1>4 DEF Unlimbo, Now
  <2>6. Track(Now, f, c) = TrackIfNew(Now, f, c)
    BY <2>5 DEF TrackIfNew
  <2>7. Kept(Now, w, f)
    BY <1>1, <2>6, NothingKept, TrackIfNewKept
  <2> HIDE DEF w
  <2> QED
    BY <2>1, <2>3, <2>4, <2>7, OneObject
<1> QED
  BY <1>3, <1>4 DEF Arrive

LEMMA InvLeave ==
    ASSUME Inv, NEW f \in Feet, Leave(f)
    PROVE  Inv'
<1>1. Placed /\ Typed(Now) /\ Agree(Now)
  BY InvParts
<1>2. last[f] # NoCell => place[f] = "map"
  BY InvParts
<1>3. ASSUME NEW to \in {"limbo", "none"}, Vanish(f, to)
      PROVE  Placed' /\ \A g \in Feet : g # f => place'[g] = place[g]
  BY <1>1, <1>3 DEF Placed, Vanish, Phases
<1>4. CASE Limbo(f)
  <2> DEFINE w == IF last[f] # NoCell THEN Untrack(Now, f) ELSE Now
  <2>1. Placed' /\ \A g \in Feet : g # f => place'[g] = place[g]
    BY <1>3, <1>4 DEF Limbo
  <2>2. Kept(Now, w, f) /\ w.last[f] = NoCell
    BY <1>1, NothingKept, UntrackKept DEF Now
  <2>3. Becomes(w)
    BY <1>4 DEF Limbo
  <2> HIDE DEF w
  <2> QED
    BY <2>1, <2>2, <2>3, OneObject
<1>5. CASE Destroy(f)
  <2>1. Placed' /\ \A g \in Feet : g # f => place'[g] = place[g]
    BY <1>3, <1>5 DEF Destroy
  <2>2. Now.last[f] = NoCell /\ Becomes(Now)
    BY <1>2, <1>5 DEF Destroy, Becomes, Now
  <2>3. Kept(Now, Now, f)
    BY <1>1, NothingKept
  <2> QED
    BY <2>1, <2>2, <2>3, OneObject
<1> QED
  BY <1>4, <1>5 DEF Leave

\* What the locomotors do to objects on the map, which stay there until a rocket
\* explodes.
LEMMA InvLocomotion ==
    ASSUME Inv, NEW f \in Feet, Locomotion(f)
    PROVE  Inv'
<1>1. Placed /\ Typed(Now) /\ Agree(Now)
  BY InvParts
<1>2. ASSUME place[f] = "map", UNCHANGED <<locomotor, place>>,
             UNCHANGED cell \/ MoveFrom(f),
             UNCHANGED phase \/ \E p \in Phases : phase' = [phase EXCEPT ![f] = p],
             NEW w, Kept(Now, w, f), Becomes(w)
      PROVE  Inv'
  <2>1. cell' \in [Feet -> MapCells \union {NoCell}]
        /\ \A g \in Feet : place'[g] = "map" => cell'[g] \in MapCells
    BY <1>1, <1>2 DEF Placed, MoveFrom, Near
  <2>2. Placed'
    BY <1>1, <1>2, <2>1 DEF Placed
  <2> QED
    BY <1>2, <2>2, OneObject
<1>3. place[f] = "map" => cell[f] \in MapCells
  BY <1>1 DEF Placed
<1>4. "ground" \in Phases /\ "flying" \in Phases
  BY DEF Phases
<1>5. CASE TakeOff(f) \/ JumpjetUp(f)
  <2>1. place[f] = "map" /\ Becomes(TrackIfNew(Now, f, cell[f]))
    BY <1>5 DEF TakeOff, JumpjetUp, OnMap
  <2>2. Kept(Now, TrackIfNew(Now, f, cell[f]), f)
    BY <1>1, <1>3, <2>1, TrackIfNewKept
  <2>3. /\ UNCHANGED <<locomotor, place>> /\ UNCHANGED cell
        /\ \E p \in Phases : phase' = [phase EXCEPT ![f] = p]
    BY <1>4, <1>5 DEF TakeOff, JumpjetUp
  <2> QED
    BY <1>2, <2>1, <2>2, <2>3
<1>6. CASE Fly(f) \/ JumpjetFly(f)
  <2>1. place[f] = "map" /\ Becomes(UpdateIfMoved(Now, f, cell[f]))
    BY <1>6 DEF Fly, JumpjetFly, OnMap
  <2>2. Kept(Now, UpdateIfMoved(Now, f, cell[f]), f)
    BY <1>1, <1>3, <2>1, UpdateIfMovedKept
  <2>3. /\ UNCHANGED <<locomotor, place>> /\ MoveFrom(f)
        /\ UNCHANGED phase \/ \E p \in Phases : phase' = [phase EXCEPT ![f] = p]
    BY <1>4, <1>6 DEF Fly, JumpjetFly
  <2> QED
    BY <1>2, <2>1, <2>2, <2>3
<1>7. CASE TouchDown(f) \/ JumpjetDown(f)
  <2>1. place[f] = "map" /\ Becomes(Untrack(Now, f))
    BY <1>7 DEF TouchDown, JumpjetDown, OnMap
  <2>2. Kept(Now, Untrack(Now, f), f)
    BY <1>1, UntrackKept
  <2>3. /\ UNCHANGED <<locomotor, place>> /\ UNCHANGED cell
        /\ \E p \in Phases : phase' = [phase EXCEPT ![f] = p]
    BY <1>4, <1>7 DEF TouchDown, JumpjetDown
  <2> QED
    BY <1>2, <2>1, <2>2, <2>3
<1>8. CASE RocketUp(f)
  <2> DEFINE w == TrackIfNew(Now, f, cell[f])
  <2>1. place[f] = "map" /\ (Becomes(w) \/ Becomes(Now))
    BY <1>8 DEF RocketUp, OnMap, Becomes, Now
  <2>2. Kept(Now, w, f) /\ Kept(Now, Now, f)
    BY <1>1, <1>3, <2>1, TrackIfNewKept, NothingKept
  <2>3. /\ UNCHANGED <<locomotor, place>> /\ UNCHANGED cell
        /\ \E p \in Phases : phase' = [phase EXCEPT ![f] = p]
    BY <1>4, <1>8 DEF RocketUp
  <2> HIDE DEF w
  <2> QED
    BY <1>2, <2>1, <2>2, <2>3
<1>9. CASE RocketFly(f)
  <2>1. place[f] = "map" /\ Becomes(Now)
    BY <1>9 DEF RocketFly, OnMap, Becomes, Now
  <2>2. Kept(Now, Now, f)
    BY <1>1, NothingKept
  <2>3. UNCHANGED <<locomotor, place>> /\ MoveFrom(f) /\ UNCHANGED phase
    BY <1>9 DEF RocketFly
  <2> QED
    BY <1>2, <2>1, <2>2, <2>3
<1>10. CASE RocketExplode(f)
  <2>1. Placed' /\ \A g \in Feet : g # f => place'[g] = place[g]
    BY <1>1, <1>10 DEF Placed, RocketExplode, Vanish, Phases
  <2>2. Kept(Now, Untrack(Now, f), f) /\ Untrack(Now, f).last[f] = NoCell
    BY <1>1, UntrackKept
  <2>3. Becomes(Untrack(Now, f))
    BY <1>10 DEF RocketExplode
  <2> QED
    BY <2>1, <2>2, <2>3, OneObject
<1> QED
  BY <1>5, <1>6, <1>7, <1>8, <1>9, <1>10 DEF Locomotion

LEMMA InvClear == Inv /\ Clear => Inv'
<1> SUFFICES ASSUME Inv, Clear PROVE Inv'
  OBVIOUS
<1>1. Regions \subseteq Int /\ NoCell \in MapCells \union {NoCell}
  BY SideAssumption DEF Regions
<1> QED
  BY <1>1 DEF Clear, Inv, TypeOK, ListedOnce, Phases

LEMMA InvStep == Inv /\ [Next]_vars => Inv'
<1> SUFFICES ASSUME Inv, [Next]_vars PROVE Inv'
  OBVIOUS
<1>1. CASE UNCHANGED vars
  BY <1>1 DEF Inv, TypeOK, ListedOnce, vars
<1>2. ASSUME NEW f \in Feet, Arrive(f) \/ Leave(f) \/ Locomotion(f)
      PROVE  Inv'
  BY <1>2, InvArrive, InvLeave, InvLocomotion
<1>3. CASE Clear
  BY <1>3, InvClear
<1> QED
  BY <1>1, <1>2, <1>3 DEF Next

\* The types of the tracker hold in every reachable state: an object is never
\* taken out of a region more often than it was entered there.
THEOREM TrackerTypeCorrect == Spec => []TypeOK
<1>1. Inv => TypeOK
  BY DEF Inv
<1> QED
  BY <1>1, InvInit, InvStep, PTL DEF Spec

\* The regions and the extensions agree in every reachable state, and an object
\* that is not on the map is in no region (aircrafttracker.cpp:132-152, 232-242).
THEOREM TrackedOnce == Spec => []ListedOnce
<1>1. Inv => ListedOnce
  BY DEF Inv
<1> QED
  BY <1>1, InvInit, InvStep, PTL DEF Spec

------------------------------------------------------------------------------
(***************************************************************************)
(* The geometry of the regions: cells that are at most k regions apart are *)
(* in regions that Adjacent_Region leads to in at most k steps.            *)
(***************************************************************************)
LEMMA ProductMonotonic ==
    ASSUME NEW w \in Nat, NEW p \in Int, NEW q \in Int, p <= q
    PROVE  w * p <= w * q
<1>1. w * q - w * p = w * (q - p)
  BY SMTT(30)
<1>2. w * (q - p) >= 0
  BY SMTT(30)
<1>3. w * p \in Int /\ w * q \in Int
  BY SMTT(30)
<1> QED
  BY <1>1, <1>2, <1>3

LEMMA QuotientBounds ==
    ASSUME NEW a \in Nat, NEW w \in Nat \ {0}
    PROVE  a \div w \in Nat /\ w * (a \div w) <= a /\ a < w * (a \div w) + w
<1>1. a \div w \in Nat
  BY SMTT(30)
<1>2. a = w * (a \div w) + (a % w) /\ a % w \in 0..(w - 1)
  BY SMTT(30)
<1> QED
  BY <1>1, <1>2, SMTT(30)

LEMMA QuotientsApart ==
    ASSUME NEW a \in Nat, NEW b \in Nat, NEW w \in Nat \ {0}, NEW k \in Nat,
           a <= b + w * k
    PROVE  a \div w <= b \div w + k
<1> DEFINE p == a \div w
           q == b \div w
<1>1. p \in Nat /\ w * p <= a
  BY QuotientBounds
<1>2. q \in Nat /\ b < w * q + w
  BY QuotientBounds
<1> HIDE DEF p, q
<1>3. SUFFICES ASSUME p >= q + k + 1 PROVE FALSE
  <2>1. p <= q + k
    BY <1>1, <1>2, <1>3
  <2> QED BY <2>1 DEF p, q
<1>4. w * (q + k + 1) <= w * p
  BY <1>1, <1>2, <1>3, ProductMonotonic
<1>5. w * (q + k + 1) = w * q + w * k + w
  BY <1>1, <1>2, SMTT(30)
<1>6. w * q \in Int /\ w * k \in Int /\ w * p \in Int
  BY <1>1, <1>2, SMTT(30)
<1> QED
  BY <1>1, <1>2, <1>4, <1>5, <1>6

\* The row or column of a region.
Band(v, d) == AtMost(Side - 1, AtLeast(0, v) \div d)

LEMMA BandsApart ==
    ASSUME NEW u \in Int, NEW v \in Int, NEW d \in Nat \ {0}, NEW k \in Nat,
           u - v <= d * k
    PROVE  Band(u, d) - Band(v, d) <= k
<1>1. AtLeast(0, u) \in Nat /\ AtLeast(0, v) \in Nat /\ d * k \in Nat
  BY SMTT(30) DEF AtLeast
<1>2. AtLeast(0, u) <= AtLeast(0, v) + d * k
  BY <1>1 DEF AtLeast
<1>3. AtLeast(0, u) \div d <= AtLeast(0, v) \div d + k
  BY <1>1, <1>2, QuotientsApart
<1>4. AtLeast(0, u) \div d \in Nat /\ AtLeast(0, v) \div d \in Nat
  BY <1>1, QuotientBounds
<1> QED
  BY <1>3, <1>4, SideAssumption DEF Band, AtMost

\* Adjacent_Region divides what Get_Region put together.
LEMMA RowAndColumn ==
    ASSUME NEW i \in 0..(Side - 1), NEW j \in 0..(Side - 1)
    PROVE  (i + Side * j) % Side = i /\ (i + Side * j) \div Side = j
<1> DEFINE n == i + Side * j
           q == n \div Side
           r == n % Side
<1>1. Side \in Nat \ {0} /\ Side * j \in Nat
  BY SideAssumption, SMTT(30)
<1>2. n \in Nat
  BY <1>1
<1>3. q \in Nat /\ r \in 0..(Side - 1) /\ n = Side * q + r
  BY <1>1, <1>2, SMTT(30)
<1> HIDE DEF q, r
<1>4. Side * q \in Nat
  BY <1>1, <1>3, SMTT(30)
<1>5. ~(q >= j + 1)
  <2> SUFFICES ASSUME q >= j + 1 PROVE FALSE
    OBVIOUS
  <2>1. Side * (j + 1) <= Side * q
    BY <1>1, <1>3, ProductMonotonic
  <2>2. Side * (j + 1) = Side * j + Side
    BY <1>1, SMTT(30)
  <2> QED BY <1>1, <1>3, <1>4, <2>1, <2>2
<1>6. ~(j >= q + 1)
  <2> SUFFICES ASSUME j >= q + 1 PROVE FALSE
    OBVIOUS
  <2>1. Side * (q + 1) <= Side * j
    BY <1>1, <1>3, ProductMonotonic
  <2>2. Side * (q + 1) = Side * q + Side
    BY <1>1, <1>3, SMTT(30)
  <2> QED BY <1>1, <1>3, <1>4, <2>1, <2>2
<1>7. q = j
  BY <1>3, <1>5, <1>6
<1> QED
  BY <1>1, <1>3, <1>7 DEF q, r

\* Two cells, and the region of one from the region of the other.
LEMMA ReachedFrom ==
    ASSUME NEW c \in Int \X Int, NEW d \in Int \X Int, NEW k \in Nat,
           c[1] - d[1] <= RegionWidth * k, d[1] - c[1] <= RegionWidth * k,
           c[2] - d[2] <= RegionHeight * k, d[2] - c[2] <= RegionHeight * k
    PROVE  \E x, y \in -k..k : GetRegion(d) = AdjacentRegion(GetRegion(c), x, y)
<1> DEFINE i == Band(c[1], RegionWidth)
           j == Band(c[2], RegionHeight)
           p == Band(d[1], RegionWidth)
           q == Band(d[2], RegionHeight)
<1>1. {i, j, p, q} \subseteq 0..(Side - 1)
  BY RegionsAreWide, ClampedQuotient DEF Band
<1>2. p - i \in -k..k
  <2>1. p - i <= k /\ i - p <= k
    BY RegionsAreWide, BandsApart
  <2> QED BY <1>1, <2>1, SideAssumption
<1>3. q - j \in -k..k
  <2>1. q - j <= k /\ j - q <= k
    BY RegionsAreWide, BandsApart
  <2> QED BY <1>1, <2>1, SideAssumption
<1>4. GetRegion(c) = i + Side * j /\ GetRegion(d) = p + Side * q
  BY DEF GetRegion, Band
<1> HIDE DEF i, j, p, q
<1>5. GetRegion(c) % Side = i /\ GetRegion(c) \div Side = j
  BY <1>1, <1>4, RowAndColumn
<1>6. AdjacentRegion(GetRegion(c), p - i, q - j)
          = AtMost(Side - 1, AtLeast(0, i + (p - i)))
                + Side * AtMost(Side - 1, AtLeast(0, j + (q - j)))
  BY <1>5 DEF AdjacentRegion
<1>7. i + (p - i) = p /\ j + (q - j) = q
  BY <1>1, SideAssumption
<1>8. AtMost(Side - 1, AtLeast(0, p)) = p /\ AtMost(Side - 1, AtLeast(0, q)) = q
  BY <1>1, SideAssumption DEF AtMost, AtLeast
<1> QED
  BY <1>2, <1>3, <1>4, <1>6, <1>7, <1>8

------------------------------------------------------------------------------
(***************************************************************************)
(* What flies is entered next to where it is. The tracker is told where an *)
(* object is before it moves on, so that it may be a cell behind; what is  *)
(* on the ground, or comes onto the map in the air and has not moved yet,  *)
(* is not entered.                                                         *)
(***************************************************************************)
Beside(c, d) == c[1] - d[1] \in -1..1 /\ c[2] - d[2] \in -1..1

Follows(f) ==
    place[f] = "map" /\ locomotor[f] \in Steered =>
        IF phase[f] = "flying" THEN last[f] # NoCell /\ Beside(cell[f], last[f])
        ELSE last[f] = NoCell

FollowInv == Inv /\ \A f \in Feet : Follows(f)

\* What the tracker's operators note of the object they are told about.
LEMMA LastNoted ==
    ASSUME Inv, NEW f \in Feet, NEW c \in MapCells
    PROVE  /\ last[f] = NoCell => Track(Now, f, c).last = [last EXCEPT ![f] = c]
           /\ TrackIfNew(Now, f, c).last
                  = IF last[f] = NoCell THEN [last EXCEPT ![f] = c] ELSE last
           /\ UpdateIfMoved(Now, f, c).last = [last EXCEPT ![f] = c]
           /\ Untrack(Now, f).last = [last EXCEPT ![f] = NoCell]
<1>1. Typed(Now) /\ Agree(Now) /\ Now.last = last
  BY InvParts DEF Now
<1>2. last[f] = NoCell => Track(Now, f, c).last = [last EXCEPT ![f] = c]
  BY <1>1, TrackAgrees
<1>3. UpdatePosition(Now, f, c).last = [last EXCEPT ![f] = c]
  BY <1>1, UpdateAgrees
<1>4. Untrack(Now, f).last = [last EXCEPT ![f] = NoCell]
  BY <1>1, UntrackAgrees
<1>5. last \in [Feet -> MapCells \union {NoCell}]
  BY DEF Inv, TypeOK
<1> QED
  BY <1>1, <1>2, <1>3, <1>4, <1>5 DEF TrackIfNew, UpdateIfMoved

\* An action of one object does not touch the others.
LEMMA OthersFollow ==
    ASSUME FollowInv, NEW f \in Feet, Arrive(f) \/ Leave(f) \/ Locomotion(f),
           NEW g \in Feet, g # f
    PROVE  Follows(g)'
<1>1. Inv /\ Placed /\ last \in [Feet -> MapCells \union {NoCell}]
  BY InvParts DEF FollowInv, Inv, TypeOK
<1>2. place[f] = "map" => cell[f] \in MapCells
  BY <1>1 DEF Placed
<1>3. last'[g] = last[g]
  <2>1. ASSUME NEW c \in MapCells, Unlimbo(f, c) PROVE last'[g] = last[g]
    <3>1. last[f] = NoCell
      BY <1>1, <2>1, InvParts DEF Unlimbo
    <3>2. last' = last \/ last' = [last EXCEPT ![f] = c]
      BY <1>1, <2>1, <3>1, LastNoted DEF Unlimbo, Becomes, Now
    <3> QED BY <1>1, <3>2
  <2>2. CASE Create(f) \/ Destroy(f) \/ RocketFly(f)
    BY <2>2 DEF Create, Destroy, RocketFly
  <2>3. CASE Limbo(f) \/ TouchDown(f) \/ JumpjetDown(f) \/ RocketExplode(f)
    <3>1. place[f] = "map"
      BY <2>3 DEF Limbo, TouchDown, JumpjetDown, RocketExplode, OnMap
    <3>2. Untrack(Now, f).last = [last EXCEPT ![f] = NoCell]
      BY <1>1, <1>2, <3>1, LastNoted
    <3> QED BY <1>1, <2>3, <3>2 DEF Limbo, TouchDown, JumpjetDown, RocketExplode, Becomes, Now
  <2>4. CASE TakeOff(f) \/ JumpjetUp(f) \/ RocketUp(f)
    <3>1. place[f] = "map"
      BY <2>4 DEF TakeOff, JumpjetUp, RocketUp, OnMap
    <3>2. TrackIfNew(Now, f, cell[f]).last
              = IF last[f] = NoCell THEN [last EXCEPT ![f] = cell[f]] ELSE last
      BY <1>1, <1>2, <3>1, LastNoted
    <3> QED BY <1>1, <2>4, <3>2 DEF TakeOff, JumpjetUp, RocketUp, Becomes
  <2>5. CASE Fly(f) \/ JumpjetFly(f)
    <3>1. place[f] = "map"
      BY <2>5 DEF Fly, JumpjetFly, OnMap
    <3>2. UpdateIfMoved(Now, f, cell[f]).last = [last EXCEPT ![f] = cell[f]]
      BY <1>1, <1>2, <3>1, LastNoted
    <3> QED BY <1>1, <2>5, <3>2 DEF Fly, JumpjetFly, Becomes
  <2> QED BY <2>1, <2>2, <2>3, <2>4, <2>5 DEF Arrive, Leave, Locomotion
<1>4. /\ place'[g] = place[g] /\ locomotor'[g] = locomotor[g]
      /\ phase'[g] = phase[g] /\ cell'[g] = cell[g]
  <2>1. CASE Arrive(f)
    BY <1>1, <2>1 DEF Placed, Arrive, Create, Unlimbo
  <2>2. CASE Leave(f) \/ RocketExplode(f)
    BY <1>1, <2>2 DEF Placed, Leave, Limbo, Destroy, RocketExplode, Vanish
  <2>3. CASE TakeOff(f) \/ TouchDown(f) \/ JumpjetUp(f) \/ JumpjetDown(f) \/ RocketUp(f)
    BY <1>1, <2>3 DEF Placed, TakeOff, TouchDown, JumpjetUp, JumpjetDown, RocketUp
  <2>4. CASE Fly(f) \/ JumpjetFly(f) \/ RocketFly(f)
    BY <1>1, <2>4 DEF Placed, Fly, JumpjetFly, RocketFly, MoveFrom
  <2> QED BY <2>1, <2>2, <2>3, <2>4 DEF Locomotion
<1>5. Follows(g)
  BY DEF FollowInv
<1> QED BY <1>3, <1>4, <1>5 DEF Follows

LEMMA NearIsBeside ==
    ASSUME NEW c \in MapCells
    PROVE  Beside(c, c) /\ \A d \in Near(c) : d \in MapCells /\ Beside(d, c)
<1>1. c[1] \in Int /\ c[2] \in Int
  BY CornerAssumption
<1> QED BY <1>1 DEF Beside, Near

\* Untracked or out of the air: nothing to follow.
LEMMA FollowStep ==
    ASSUME FollowInv, NEW f \in Feet, Arrive(f) \/ Leave(f) \/ Locomotion(f)
    PROVE  Follows(f)'
<1>1. Inv /\ Placed /\ Follows(f) /\ last \in [Feet -> MapCells \union {NoCell}]
  BY InvParts DEF FollowInv, Inv, TypeOK
<1>2. /\ place[f] = "map" => cell[f] \in MapCells
      /\ last[f] # NoCell => place[f] = "map"
  BY <1>1, InvParts DEF Placed
<1>3. \A c \in MapCells : c # NoCell
  BY CornerIsNoCell
<1>4. ASSUME NEW c \in MapCells, Unlimbo(f, c) PROVE Follows(f)'
  <2>1. last[f] = NoCell /\ Track(Now, f, c).last = [last EXCEPT ![f] = c]
    BY <1>1, <1>2, <1>4, LastNoted DEF Unlimbo
  <2>2. cell'[f] = c /\ locomotor' = locomotor
    BY <1>1, <1>4 DEF Unlimbo, Placed
  <2>3. CASE locomotor[f] = "levitate"
    <3>1. phase'[f] = "flying" /\ last'[f] = c
      BY <1>1, <1>4, <2>1, <2>3 DEF Unlimbo, Placed, Becomes
    <3> QED BY <1>3, <2>2, <3>1, NearIsBeside DEF Follows
  <2>4. CASE locomotor[f] # "levitate"
    <3>1. last'[f] = NoCell
      BY <1>4, <2>1, <2>4 DEF Unlimbo, Becomes, Now
    <3>2. phase'[f] \in {"ground", "entering"}
      BY <1>1, <1>4, <2>4 DEF Unlimbo, Placed
    <3> QED BY <3>1, <3>2 DEF Follows
  <2> QED BY <2>3, <2>4
<1>5. CASE Create(f) \/ Leave(f) \/ RocketExplode(f)
  <2>1. place'[f] # "map"
    BY <1>1, <1>5 DEF Placed, Create, Leave, Limbo, Destroy, RocketExplode, Vanish
  <2> QED BY <2>1 DEF Follows
<1>6. CASE RocketUp(f) \/ RocketFly(f)
  <2>1. locomotor'[f] = "rocket"
    BY <1>6 DEF RocketUp, RocketFly, OnMap
  <2> QED BY <2>1 DEF Follows, Steered
<1>7. CASE TakeOff(f) \/ JumpjetUp(f)
  <2>1. place[f] = "map" /\ cell[f] \in MapCells /\ locomotor[f] \in Steered
    BY <1>2, <1>7 DEF TakeOff, JumpjetUp, OnMap, Steered
  <2>2. last' = IF last[f] = NoCell THEN [last EXCEPT ![f] = cell[f]] ELSE last
    BY <1>1, <1>7, <2>1, LastNoted DEF TakeOff, JumpjetUp, Becomes
  <2>3. phase'[f] = "flying" /\ cell' = cell
    BY <1>1, <1>7 DEF TakeOff, JumpjetUp, Placed
  <2>4. last'[f] # NoCell /\ Beside(cell[f], last'[f])
    <3>1. CASE last[f] = NoCell
      BY <1>1, <1>3, <2>1, <2>2, <3>1, NearIsBeside
    <3>2. CASE last[f] # NoCell
      BY <1>1, <2>1, <2>2, <3>2 DEF Follows
    <3> QED BY <3>1, <3>2
  <2> QED BY <2>3, <2>4 DEF Follows
<1>8. CASE Fly(f) \/ JumpjetFly(f)
  <2>1. place[f] = "map" /\ cell[f] \in MapCells
    BY <1>2, <1>8 DEF Fly, JumpjetFly, OnMap
  <2>2. last' = [last EXCEPT ![f] = cell[f]]
    BY <1>1, <1>8, <2>1, LastNoted DEF Fly, JumpjetFly, Becomes
  <2>3. phase'[f] = "flying"
    BY <1>1, <1>8 DEF Fly, JumpjetFly, Placed
  <2>4. PICK d \in Near(cell[f]) : cell' = [cell EXCEPT ![f] = d]
    BY <1>8 DEF Fly, JumpjetFly, MoveFrom
  <2>5. last'[f] = cell[f] /\ cell'[f] = d
    BY <1>1, <2>2, <2>4 DEF Placed
  <2>6. last'[f] # NoCell /\ Beside(cell'[f], last'[f])
    BY <1>3, <2>1, <2>5, NearIsBeside
  <2> QED BY <2>3, <2>6 DEF Follows
<1>9. CASE TouchDown(f) \/ JumpjetDown(f)
  <2>1. place[f] = "map" /\ cell[f] \in MapCells
    BY <1>2, <1>9 DEF TouchDown, JumpjetDown, OnMap
  <2>2. last' = [last EXCEPT ![f] = NoCell]
    BY <1>1, <1>9, <2>1, LastNoted DEF TouchDown, JumpjetDown, Becomes
  <2>3. phase'[f] = "ground" /\ last'[f] = NoCell
    BY <1>1, <1>9, <2>2 DEF TouchDown, JumpjetDown, Placed
  <2> QED BY <2>3 DEF Follows
<1> QED BY <1>4, <1>5, <1>6, <1>7, <1>8, <1>9 DEF Arrive, Locomotion

LEMMA FollowInvariant == Spec => []FollowInv
<1>1. Init => FollowInv
  BY InvInit DEF Init, FollowInv, Follows
<1>2. FollowInv /\ [Next]_vars => FollowInv'
  <2> SUFFICES ASSUME FollowInv, [Next]_vars PROVE \A g \in Feet : Follows(g)'
    BY InvStep DEF FollowInv
  <2>1. CASE UNCHANGED vars
    BY <2>1 DEF FollowInv, Follows, vars
  <2>2. CASE Clear
    BY <2>2 DEF Clear, Follows
  <2>3. ASSUME NEW f \in Feet, Arrive(f) \/ Leave(f) \/ Locomotion(f)
        PROVE  \A g \in Feet : Follows(g)'
    BY <2>3, FollowStep, OthersFollow
  <2> QED BY <2>1, <2>2, <2>3 DEF Next
<1> QED BY <1>1, <1>2, PTL DEF Spec

\* An explosion finds what flies around it, for any map, number of regions and
\* range (aircrafttracker.cpp:62-80, 105-124; FlyersFound of AircraftTracker).
THEOREM NoFlyerMissed == Spec => []FlyersFound
<1>1. ASSUME FollowInv, NEW f \in Feet, NEW c \in MapCells, NEW range \in Ranges,
             Airborne(f), locomotor[f] \in Steered,
             LET far == AtMost(RegionWidth, RegionHeight) * RegionRange(range) - 1
             IN cell[f][1] - c[1] \in -far..far /\ cell[f][2] - c[2] \in -far..far
      PROVE  f \in FetchTargets(c, range)
  <2> DEFINE k == RegionRange(range)
             m == AtMost(RegionWidth, RegionHeight)
             d == last[f]
  <2>1. k \in Nat
    <3>1. AtLeast(range, 1) + Side - 1 \in Nat
      BY RangeAssumption, SideAssumption DEF AtLeast
    <3> QED BY <3>1, SideAssumption, QuotientBounds DEF RegionRange
  <2>2. /\ m \in Nat /\ RegionWidth \in Nat /\ RegionHeight \in Nat
        /\ m <= RegionWidth /\ m <= RegionHeight
    BY RegionsAreWide DEF AtMost
  <2>3. Inv /\ ListedOnce /\ d \in MapCells /\ cell[f] \in MapCells /\ Beside(cell[f], d)
    BY <1>1, InvParts DEF FollowInv, Follows, Airborne, Inv, TypeOK
  <2>4. /\ {c[1], c[2], d[1], d[2], cell[f][1], cell[f][2]} \subseteq Int
        /\ c \in Int \X Int /\ d \in Int \X Int
    BY <2>3, CornerAssumption
  <2> HIDE DEF k, m, d
  <2>5. /\ k * m \in Nat /\ m * k \in Nat /\ k * m = m * k
        /\ k * RegionWidth = RegionWidth * k /\ k * RegionHeight = RegionHeight * k
        /\ k * RegionWidth \in Nat /\ k * RegionHeight \in Nat
    BY <2>1, <2>2, SMTT(30)
  <2>6. k * m <= k * RegionWidth /\ k * m <= k * RegionHeight
    BY <2>1, <2>2, ProductMonotonic
  <2>7. /\ cell[f][1] - c[1] \in -(m * k - 1)..(m * k - 1)
        /\ cell[f][2] - c[2] \in -(m * k - 1)..(m * k - 1)
    BY <1>1 DEF k, m
  <2>8. /\ c[1] - d[1] <= m * k /\ d[1] - c[1] <= m * k
        /\ c[2] - d[2] <= m * k /\ d[2] - c[2] <= m * k
    BY <2>3, <2>4, <2>5, <2>7 DEF Beside
  <2>9. PICK x, y \in -k..k : GetRegion(d) = AdjacentRegion(GetRegion(c), x, y)
    <3>1. /\ c[1] - d[1] <= RegionWidth * k /\ d[1] - c[1] <= RegionWidth * k
          /\ c[2] - d[2] <= RegionHeight * k /\ d[2] - c[2] <= RegionHeight * k
      BY <2>4, <2>5, <2>6, <2>8
    <3> QED BY <2>1, <2>4, <3>1, ReachedFrom
  <2>10. entries[GetRegion(d)][f] > 0
    <3>1. GetRegion(d) \in Regions /\ d # NoCell
      BY <2>3, CornerIsNoCell
    <3> QED BY <2>3, <3>1 DEF ListedOnce, d
  <2> QED BY <2>9, <2>10 DEF FetchTargets, k
<1>2. FollowInv => FlyersFound
  BY <1>1 DEF FlyersFound
<1> QED BY <1>2, FollowInvariant, PTL
=============================================================================
