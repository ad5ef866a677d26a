--------------------------- MODULE GameStartProofs ---------------------------
(* Proofs about GameStart: the machines make the same game, each player gets   *)
(* the house of his color, no two houses have the same color, and houses start *)
(* as far apart as the positions allow, where their spawn points say.          *)
EXTENDS GameStart, TLAPS, WellFoundedInduction,
    SequenceTheorems, FiniteSetTheorems

-----------------------------------------------------------------------------
(* The lowest color.                                                           *)

Less == {pair \in Nat \X Nat : pair[1] < pair[2]}

(* A set of naturals that is not empty has a least element.                    *)
LEMMA LeastNatural ==
    ASSUME NEW S \in SUBSET Nat, S # {}
    PROVE  \E x \in S : \A y \in S : x <= y
<1>1. OpToRel(<, Nat) = Less
    BY DEF OpToRel, Less
<1>2. IsWellFoundedOn(Less, Nat)
    BY <1>1, NatLessThanWellFounded
<1>3. PICK x \in S : \A y \in S : <<y, x>> \notin Less
    BY <1>2, WFMin
<1>4. ASSUME NEW y \in S PROVE x <= y
    <2>1. ~(y < x)
        BY <1>3, <1>4 DEF Less
    <2> QED
        BY <1>4, <2>1
<1> QED
    BY <1>4

Lobby ==
    /\ color \in [Players -> Colors] /\ Injective(color)
    /\ \A m \in Players : list[m] \in Lists(m)

Assigned(m) == {list[m][i] : i \in desk[m].assigned}

(* As long as somebody is not assigned, LowestColor is the place of such a     *)
(* player in the list, and nobody who is not assigned has a lower color.       *)
LEMMA LowestIsLowest ==
    ASSUME Lobby, NEW m \in Players, desk[m].assigned \subseteq 1 .. N, desk[m].assigned # 1 .. N
    PROVE  /\ LowestColor(m) \in 1 .. N
           /\ LowestColor(m) \notin desk[m].assigned
           /\ \A p \in Players \ Assigned(m) : color[list[m][LowestColor(m)]] <= color[p]
           /\ list[m][LowestColor(m)] \in Players \ Assigned(m)
<1> DEFINE free == DOMAIN list[m] \ desk[m].assigned
           cs == {color[list[m][i]] : i \in free}
<1>1. /\ list[m] \in [1 .. N -> Players] /\ DOMAIN list[m] = 1 .. N
      /\ Injective(list[m]) /\ \A p \in Players : \E i \in 1 .. N : list[m][i] = p
    BY DEF Lobby, Lists
<1>2. cs \in SUBSET Nat /\ cs # {}
    <2>1. color \in [Players -> Nat]
        BY StartAssumption DEF Lobby, Colors
    <2>2. PICK i \in 1 .. N : i \notin desk[m].assigned
        OBVIOUS
    <2>3. \A j \in free : color[list[m][j]] \in Nat
        BY <1>1, <2>1
    <2>4. color[list[m][i]] \in cs
        BY <1>1, <2>2
    <2> QED
        BY <2>3, <2>4
<1>3. PICK x \in cs : \A y \in cs : x <= y
    BY <1>2, LeastNatural
<1>4. \E i \in free : \A j \in free : color[list[m][i]] <= color[list[m][j]]
    BY <1>3
<1>5. LowestColor(m) \in free
      /\ \A j \in free : color[list[m][LowestColor(m)]] <= color[list[m][j]]
    BY <1>4 DEF LowestColor
<1>6. list[m][LowestColor(m)] \in Players \ Assigned(m)
    <2>1. LowestColor(m) \in 1 .. N /\ LowestColor(m) \notin desk[m].assigned
        BY <1>1, <1>5
    <2>2. \A i \in desk[m].assigned : list[m][i] # list[m][LowestColor(m)]
        BY <1>1, <2>1 DEF Injective
    <2> QED
        BY <1>1, <2>1, <2>2 DEF Assigned
<1>7. ASSUME NEW p \in Players \ Assigned(m)
      PROVE  color[list[m][LowestColor(m)]] <= color[p]
    <2>1. PICK i \in 1 .. N : list[m][i] = p
        BY <1>1
    <2>2. i \in free
        BY <1>1, <2>1, <1>7 DEF Assigned
    <2> QED
        BY <1>5, <2>1, <2>2
<1> QED
    BY <1>1, <1>5, <1>6, <1>7

(* Machines that have assigned the same players go on with the same player,    *)
(* wherever he is in their lists.                                              *)
LEMMA LowestSame ==
    ASSUME Lobby, NEW m \in Players, NEW n \in Players, Assigned(m) = Assigned(n),
           desk[m].assigned \subseteq 1 .. N, desk[m].assigned # 1 .. N,
           desk[n].assigned \subseteq 1 .. N, desk[n].assigned # 1 .. N
    PROVE  list[m][LowestColor(m)] = list[n][LowestColor(n)]
<1> DEFINE p == list[m][LowestColor(m)]
           q == list[n][LowestColor(n)]
<1>1. p \in Players \ Assigned(m) /\ q \in Players \ Assigned(n)
    BY LowestIsLowest
<1>2. color[p] <= color[q] /\ color[q] <= color[p]
    BY <1>1, LowestIsLowest
<1>3. color[p] = color[q]
    BY <1>1, <1>2, StartAssumption DEF Lobby, Colors
<1> QED
    BY <1>1, <1>3 DEF Lobby, Injective

(* Machines that have assigned the same players are done at the same time.     *)
LEMMA AllAssigned ==
    ASSUME Lobby, NEW m \in Players, desk[m].assigned \subseteq 1 .. N
    PROVE  desk[m].assigned = 1 .. N <=> Assigned(m) = Players
<1>1. /\ list[m] \in [1 .. N -> Players] /\ DOMAIN list[m] = 1 .. N
      /\ Injective(list[m]) /\ \A p \in Players : \E i \in 1 .. N : list[m][i] = p
    BY DEF Lobby, Lists
<1>2. ASSUME desk[m].assigned = 1 .. N PROVE Assigned(m) = Players
    BY <1>1, <1>2 DEF Assigned
<1>3. ASSUME Assigned(m) = Players, NEW i \in 1 .. N PROVE i \in desk[m].assigned
    <2>0. list[m][i] \in Assigned(m)
        BY <1>1, <1>3
    <2>1. PICK j \in desk[m].assigned : list[m][i] = list[m][j]
        BY <2>0 DEF Assigned
    <2> QED
        BY <1>1, <2>1 DEF Injective
<1> QED
    BY <1>2, <1>3

-----------------------------------------------------------------------------
(* What an operation does to the houses a machine knows.                       *)

IsWorld(w) ==
    /\ DOMAIN w = {"used", "houses", "waypts", "taken", "start", "spawn", "building"}
    /\ w.houses \in Seq(House)

(* Each color of a house is marked, and no other house has it.                 *)
Colored(w) ==
    /\ \A h \in DOMAIN w.houses : w.houses[h].color # NoColor => w.houses[h].color \in w.used
    /\ \A g, h \in DOMAIN w.houses :
         g # h /\ w.houses[g].color # NoColor => w.houses[g].color # w.houses[h].color

(* A house is added at the end, and its color is marked.                       *)
LEMMA HouseAdded ==
    ASSUME NEW w, IsWorld(w), NEW owner \in Players \cup {Computer, Native},
           NEW c \in Colors
    PROVE  LET u == AddHouse(w, owner, c) IN
             /\ IsWorld(u)
             /\ u.houses = Append(w.houses, [owner |-> owner, color |-> c])
             /\ u.used = w.used \cup {c}
             /\ c \notin w.used /\ Colored(w) => Colored(u)
<1> DEFINE u == AddHouse(w, owner, c)
           house == [owner |-> owner, color |-> c]
<1>1. c # NoColor /\ house \in House
    BY StartAssumption DEF Colors, NoColor, House
<1>2. /\ DOMAIN u = DOMAIN w
      /\ u.houses = Append(w.houses, house) /\ u.used = w.used \cup {c}
    BY <1>1 DEF AddHouse, IsWorld
<1>3. IsWorld(u)
    BY <1>1, <1>2 DEF IsWorld
<1>4. /\ DOMAIN u.houses = 1 .. Len(w.houses) + 1
      /\ DOMAIN w.houses = 1 .. Len(w.houses) /\ Len(w.houses) \in Nat
      /\ u.houses[Len(w.houses) + 1] = house
      /\ \A h \in DOMAIN w.houses : u.houses[h] = w.houses[h]
    BY <1>1, <1>2 DEF IsWorld
<1>5. ASSUME c \notin w.used, Colored(w) PROVE Colored(u)
    <2>1. ASSUME NEW h \in DOMAIN u.houses, u.houses[h].color # NoColor
          PROVE  u.houses[h].color \in u.used
        BY <1>2, <1>4, <1>5, <2>1 DEF Colored
    <2>2. ASSUME NEW g \in DOMAIN u.houses, NEW h \in DOMAIN u.houses, g # h,
                 u.houses[g].color # NoColor
          PROVE  u.houses[g].color # u.houses[h].color
        <3>1. CASE g \in DOMAIN w.houses /\ h \in DOMAIN w.houses
            BY <1>4, <1>5, <2>2, <3>1 DEF Colored
        <3>2. CASE g = Len(w.houses) + 1
            BY <1>1, <1>4, <1>5, <2>2, <3>2 DEF Colored
        <3>3. CASE h = Len(w.houses) + 1
            BY <1>1, <1>4, <1>5, <2>2, <3>3 DEF Colored
        <3> QED
            BY <1>4, <3>1, <3>2, <3>3
    <2> QED
        BY <2>1, <2>2 DEF Colored
<1> QED
    BY <1>2, <1>3, <1>5

(* Neutral and Special are added at the end, and have no color.                *)
LEMMA NativesAdded ==
    ASSUME NEW w, IsWorld(w)
    PROVE  LET u == AddNatives(w) IN
             /\ IsWorld(u)
             /\ DOMAIN w.houses \subseteq DOMAIN u.houses
             /\ \A h \in DOMAIN w.houses : u.houses[h] = w.houses[h]
             /\ Colored(w) => Colored(u)
<1> DEFINE u == AddNatives(w)
           more == [k \in 1 .. Natives |-> [owner |-> Native, color |-> NoColor]]
<1>1. more \in Seq(House) /\ Len(more) = Natives /\ Natives \in Nat
    <2>1. [owner |-> Native, color |-> NoColor] \in House
        BY DEF House
    <2> QED
        BY <2>1, StartAssumption
<1>2. /\ DOMAIN u = DOMAIN w
      /\ u.houses = w.houses \o more /\ u.used = w.used
    BY DEF AddNatives, IsWorld
<1>3. IsWorld(u)
    BY <1>1, <1>2, ConcatProperties DEF IsWorld
<1>4. /\ DOMAIN u.houses = 1 .. Len(w.houses) + Natives
      /\ DOMAIN w.houses = 1 .. Len(w.houses) /\ Len(w.houses) \in Nat
      /\ \A h \in DOMAIN w.houses : u.houses[h] = w.houses[h]
      /\ \A h \in DOMAIN u.houses \ DOMAIN w.houses : u.houses[h].color = NoColor
    BY <1>1, <1>2, ConcatProperties DEF IsWorld
<1>5. Colored(w) => Colored(u)
    BY <1>2, <1>4 DEF Colored
<1> QED
    BY <1>1, <1>3, <1>4, <1>5

-----------------------------------------------------------------------------
(* The inductive invariant.                                                    *)

(* What holds of one machine: its houses have colors of their own, its own     *)
(* player has his house once he is assigned, and the marked colors are those   *)
(* of the assigned players until computers come.                               *)
Ready(m) ==
    /\ desk[m].assigned \subseteq 1 .. N
    /\ IsWorld(world[m]) /\ Colored(world[m])
    /\ 1 \in desk[m].assigned =>
         /\ desk[m].house \in DOMAIN world[m].houses
         /\ world[m].houses[desk[m].house] = [owner |-> m, color |-> color[m]]
    /\ phase = "players" => \A c \in world[m].used : \E p \in Assigned(m) : color[p] = c
    /\ phase # "players" => desk[m].assigned = 1 .. N

InStep == \A m, n \in Players : Assigned(m) = Assigned(n)

IInv == Lobby /\ InStep /\ \A m \in Players : Ready(m)

(* Every game begins so.                                                       *)
LEMMA InitReady == Init => IInv /\ SameGame
<1> SUFFICES ASSUME Init PROVE IInv /\ SameGame
    OBVIOUS
<1>1. Lobby
    BY DEF Init, Lobby
<1>2. \A m \in Players : world[m] = Empty /\ desk[m] = [assigned |-> {}, house |-> 0]
    BY DEF Init
<1>3. phase = "players"
    BY DEF Init
<1>4. IsWorld(Empty) /\ Colored(Empty) /\ Empty.used = {}
    BY DEF IsWorld, Colored, Empty
<1>5. ASSUME NEW m \in Players PROVE Ready(m) /\ Assigned(m) = {}
    BY <1>2, <1>3, <1>4 DEF Ready, Assigned
<1> QED
    BY <1>1, <1>2, <1>5 DEF IInv, InStep, SameGame

(* A step that leaves the houses, the colors and the desk of a machine alone,  *)
(* and ends the phase of the players only when all are assigned.               *)
LEMMA ReadyKept ==
    ASSUME NEW m \in Players, Ready(m), UNCHANGED lobby, desk'[m] = desk[m],
           DOMAIN world'[m] = DOMAIN world[m],
           world'[m].houses = world[m].houses, world'[m].used = world[m].used,
           \/ phase' = phase
           \/ phase' # "players" /\ desk[m].assigned = 1 .. N
    PROVE  Ready(m)'
<1>1. color' = color /\ list' = list
    BY DEF lobby
<1>2. Assigned(m)' = Assigned(m)
    BY <1>1 DEF Assigned
<1>3. IsWorld(world[m])' /\ Colored(world[m])'
    BY DEF Ready, IsWorld, Colored
<1>4. phase' = "players" => phase = "players"
    OBVIOUS
<1>5. phase' # "players" => desk[m].assigned = 1 .. N
    BY DEF Ready
<1> QED
    BY <1>1, <1>2, <1>3, <1>4, <1>5 DEF Ready

(* A machine assigns the next player.                                          *)
LEMMA AssignReady ==
    ASSUME IInv, AssignPlayer, NEW m \in Players
    PROVE  Ready(m)' /\ Assigned(m)' = Assigned(m) \cup {list[m][LowestColor(m)]}
<1> DEFINE i == LowestColor(m)
           p == list[m][i]
           w == world[m]
           u == AddHouse(w, p, color[p])
<1>1. Lobby /\ Ready(m) /\ phase = "players"
    BY DEF IInv, AssignPlayer
<1>2. desk[m].assigned # 1 .. N
    <2>1. PICK n \in Players : desk[n].assigned # DOMAIN list[n]
        BY DEF AssignPlayer
    <2>2. DOMAIN list[n] = 1 .. N
        BY <1>1 DEF Lobby, Lists
    <2>3. Ready(n) /\ Assigned(m) = Assigned(n)
        BY DEF IInv, InStep
    <2>4. Assigned(n) # Players
        BY <1>1, <2>1, <2>2, <2>3, AllAssigned DEF Ready
    <2> QED
        BY <1>1, <2>3, <2>4, AllAssigned DEF Ready
<1>3. i \in 1 .. N /\ i \notin desk[m].assigned /\ p \in Players \ Assigned(m)
    BY <1>1, <1>2, LowestIsLowest DEF Ready
<1>4. /\ color' = color /\ list' = list /\ phase' = phase
      /\ world'[m] = u /\ desk'[m] = TakeSeat(m, i)
    BY DEF AssignPlayer, lobby
<1>5. desk'[m].assigned = desk[m].assigned \cup {i}
    BY <1>4 DEF TakeSeat
<1>6. Assigned(m)' = Assigned(m) \cup {p}
    BY <1>4, <1>5 DEF Assigned
<1>7. color[p] \in Colors
    BY <1>1, <1>3 DEF Lobby
<1>8. color[p] \notin w.used
    <2>1. Assigned(m) \subseteq Players
        <3>1. list[m] \in [1 .. N -> Players] /\ desk[m].assigned \subseteq 1 .. N
            BY <1>1 DEF Ready, Lobby, Lists
        <3> QED
            BY <3>1 DEF Assigned
    <2>2. \A q \in Assigned(m) : color[q] # color[p]
        BY <1>1, <1>3, <2>1 DEF Lobby, Injective
    <2>3. \A c \in w.used : \E q \in Assigned(m) : color[q] = c
        BY <1>1 DEF Ready
    <2> QED
        BY <2>2, <2>3
<1>9. /\ IsWorld(u) /\ Colored(u)
      /\ u.houses = Append(w.houses, [owner |-> p, color |-> color[p]])
      /\ u.used = w.used \cup {color[p]}
    <2>1. IsWorld(w) /\ Colored(w)
        BY <1>1 DEF Ready
    <2>2. p \in Players \cup {Computer, Native}
        BY <1>3
    <2> HIDE DEF p, w
    <2> QED
        BY <1>7, <1>8, <2>1, <2>2, HouseAdded
<1>10. ASSUME 1 \in desk'[m].assigned
       PROVE  /\ desk'[m].house \in DOMAIN u.houses
              /\ u.houses[desk'[m].house] = [owner |-> m, color |-> color[m]]
    <2>1. CASE i = 1
        <3>1. p = m
            BY <1>1, <2>1 DEF Lobby, Lists
        <3>2. desk'[m].house = Len(w.houses) + 1
            BY <1>4, <2>1 DEF TakeSeat
        <3> QED
            BY <1>1, <1>9, <3>1, <3>2 DEF Ready, IsWorld
    <2>2. CASE i # 1
        <3>1. desk'[m].house = desk[m].house /\ 1 \in desk[m].assigned
            BY <1>4, <1>5, <1>10, <2>2 DEF TakeSeat
        <3>2. desk[m].house \in DOMAIN w.houses
              /\ w.houses[desk[m].house] = [owner |-> m, color |-> color[m]]
            BY <1>1, <3>1 DEF Ready
        <3> QED
            BY <1>1, <1>9, <3>1, <3>2 DEF Ready, IsWorld
    <2> QED
        BY <2>1, <2>2
<1>11. \A c \in u.used : \E q \in Assigned(m) \cup {p} : color[q] = c
    BY <1>1, <1>9 DEF Ready
<1>12. desk'[m].assigned \subseteq 1 .. N
    BY <1>1, <1>3, <1>5 DEF Ready
<1>13. Ready(m)'
    BY <1>1, <1>4, <1>6, <1>9, <1>10, <1>11, <1>12 DEF Ready
<1> QED
    BY <1>6, <1>13

(* A house that is placed keeps its color, and takes none.                     *)
LEMMA HousePlaced ==
    ASSUME NEW m \in Players, IsWorld(world[m]), NEW pick
    PROVE  LET u == NextHouse(m, pick) IN
             DOMAIN u = DOMAIN world[m] /\ u.houses = world[m].houses /\ u.used = world[m].used
<1> DEFINE w == world[m]
           h == Len(w.start) + 1
           v(i) == Settle(w, i)
<1>1. \A i : DOMAIN v(i) = DOMAIN w /\ v(i).houses = w.houses /\ v(i).used = w.used
    BY DEF Settle, IsWorld
<1>2. \A i : LET u == PlaceBase(m, v(i), h) IN
                DOMAIN u = DOMAIN w /\ u.houses = w.houses /\ u.used = w.used
    BY <1>1 DEF PlaceBase, IsWorld
<1>3. LET u == SkipPassive(w) IN
        DOMAIN u = DOMAIN w /\ u.houses = w.houses /\ u.used = w.used
    BY DEF SkipPassive, IsWorld
<1> HIDE DEF v
<1>4. \A i : v(i) = Settle(w, i)
    BY DEF v
<1> QED
    BY <1>2, <1>3, <1>4 DEF NextHouse

(* Every step keeps the invariant.                                             *)
LEMMA StepReady == IInv /\ [Next]_vars => IInv'
<1> SUFFICES ASSUME IInv, [Next]_vars PROVE IInv'
    OBVIOUS
<1> USE DEF IInv
<1>1. UNCHANGED lobby /\ color' = color /\ list' = list
    BY DEF Next, vars, lobby, AssignPlayer, PlayersAssigned, DrawColor, CreateNatives,
           ReadWaypoints, RandomStart, SearchDone, PlaceHouse, HousesPlaced, NoPosition, Over
<1>2. Lobby'
    BY <1>1 DEF Lobby, Lists, Injective
<1>3. ASSUME UNCHANGED desk PROVE InStep'
    <2>1. \A m : Assigned(m)' = Assigned(m)
        BY <1>1, <1>3 DEF Assigned
    <2> QED
        BY <2>1 DEF InStep
<1>4. CASE AssignPlayer
    <2>1. \A m \in Players :
            Ready(m)' /\ Assigned(m)' = Assigned(m) \cup {list[m][LowestColor(m)]}
        BY <1>4, AssignReady
    <2>2. ASSUME NEW m \in Players, NEW n \in Players
          PROVE  list[m][LowestColor(m)] = list[n][LowestColor(n)]
        <3>1. PICK k \in Players : desk[k].assigned # DOMAIN list[k]
            BY <1>4 DEF AssignPlayer
        <3>2. DOMAIN list[k] = 1 .. N
            BY DEF Lobby, Lists
        <3>3. Assigned(k) # Players
            BY <3>1, <3>2, AllAssigned DEF Ready
        <3>4. desk[m].assigned # 1 .. N /\ desk[n].assigned # 1 .. N
            BY <3>3, AllAssigned DEF Ready, InStep
        <3>5. /\ desk[m].assigned \subseteq 1 .. N /\ desk[n].assigned \subseteq 1 .. N
              /\ Assigned(m) = Assigned(n)
            BY DEF Ready, InStep
        <3> QED
            BY <3>4, <3>5, LowestSame
    <2>3. InStep'
        BY <2>1, <2>2 DEF InStep
    <2> QED
        BY <1>2, <2>1, <2>3
<1>5. CASE PlayersAssigned
    <2>1. UNCHANGED <<world, desk>> /\ phase' = "computers"
        BY <1>5 DEF PlayersAssigned
    <2>2. \A m \in Players : desk[m].assigned = 1 .. N
        BY <1>5 DEF PlayersAssigned, Lobby, Lists
    <2>3. \A m \in Players : Ready(m)'
        BY <1>1, <2>1, <2>2, ReadyKept
    <2> QED
        BY <1>2, <1>3, <2>1, <2>3
<1>6. CASE DrawColor
    <2>1. UNCHANGED <<phase, desk>> /\ phase = "computers"
        BY <1>6 DEF DrawColor
    <2>2. PICK c \in Colors : world' = [m \in Players |-> ColorDrawn(world[m], c)]
        BY <1>6 DEF DrawColor
    <2>3. ASSUME NEW m \in Players PROVE Ready(m)'
        <3> DEFINE w == world[m]
                   u == AddHouse(w, Computer, c)
        <3>1. CASE c \in w.used
            <4>1. world'[m] = world[m]
                BY <2>2, <3>1 DEF ColorDrawn
            <4> QED
                BY <1>1, <2>1, <4>1, ReadyKept
        <3>2. CASE c \notin w.used
            <4>1. world'[m] = u
                BY <2>2, <3>2 DEF ColorDrawn
            <4>2. IsWorld(w) /\ Colored(w)
                BY DEF Ready
            <4> HIDE DEF w
            <4>3. /\ IsWorld(u) /\ Colored(u)
                  /\ u.houses = Append(w.houses, [owner |-> Computer, color |-> c])
                BY <3>2, <4>2, HouseAdded
            <4>4. /\ DOMAIN w.houses \subseteq DOMAIN u.houses
                  /\ \A h \in DOMAIN w.houses : u.houses[h] = w.houses[h]
                <5>1. w.houses \in Seq(House)
                    BY <4>2 DEF IsWorld
                <5> HIDE DEF u
                <5> QED
                    BY <4>3, <5>1
            <4> USE DEF w
            <4> QED
                BY <1>1, <2>1, <4>1, <4>3, <4>4 DEF Ready
        <3> QED
            BY <3>1, <3>2
    <2> QED
        BY <1>2, <1>3, <2>1, <2>3
<1>7. CASE CreateNatives
    <2>1. UNCHANGED desk /\ phase = "computers" /\ phase' = "waypoints"
        BY <1>7 DEF CreateNatives
    <2>2. ASSUME NEW m \in Players PROVE Ready(m)'
        <3>1. world'[m] = AddNatives(world[m])
            BY <1>7 DEF CreateNatives
        <3>2. IsWorld(world[m]) /\ Colored(world[m])
            BY DEF Ready
        <3>3. LET u == AddNatives(world[m]) IN
                /\ IsWorld(u) /\ Colored(u)
                /\ DOMAIN world[m].houses \subseteq DOMAIN u.houses
                /\ \A h \in DOMAIN world[m].houses : u.houses[h] = world[m].houses[h]
            BY <3>2, NativesAdded
        <3> QED
            BY <1>1, <2>1, <3>1, <3>3 DEF Ready
    <2> QED
        BY <1>2, <1>3, <2>1, <2>2
<1>8. CASE ReadWaypoints
    <2>1. UNCHANGED desk /\ phase = "waypoints" /\ phase' = "search"
        BY <1>8 DEF ReadWaypoints
    <2>2. ASSUME NEW m \in Players PROVE Ready(m)'
        <3>1. world'[m] = [world[m] EXCEPT !.waypts = FoundWaypoints]
            BY <1>8 DEF ReadWaypoints
        <3>2. IsWorld(world[m]) /\ desk[m].assigned = 1 .. N
            BY <2>1 DEF Ready
        <3>3. /\ DOMAIN world'[m] = DOMAIN world[m]
              /\ world'[m].houses = world[m].houses /\ world'[m].used = world[m].used
            BY <3>1, <3>2 DEF IsWorld
        <3> QED
            BY <1>1, <2>1, <3>2, <3>3, ReadyKept
    <2> QED
        BY <1>2, <1>3, <2>1, <2>2
<1>9. CASE RandomStart
    <2>1. UNCHANGED <<desk, phase>>
        BY <1>9 DEF RandomStart
    <2>2. PICK c \in Cells \cup {NoCell} :
            world' = IF c = NoCell
                     THEN world
                     ELSE [m \in Players |-> [world[m] EXCEPT !.waypts = Append(@, c)]]
        BY <1>9 DEF RandomStart
    <2>3. ASSUME NEW m \in Players PROVE Ready(m)'
        <3>1. IsWorld(world[m])
            BY DEF Ready
        <3>2. /\ DOMAIN world'[m] = DOMAIN world[m]
              /\ world'[m].houses = world[m].houses /\ world'[m].used = world[m].used
            BY <2>2, <3>1 DEF IsWorld
        <3> QED
            BY <1>1, <2>1, <3>2, ReadyKept
    <2> QED
        BY <1>2, <1>3, <2>1, <2>3
<1>10. CASE PlaceHouse
    <2>1. UNCHANGED <<desk, phase>>
        BY <1>10 DEF PlaceHouse
    <2>2. PICK pick : world' = [m \in Players |-> NextHouse(m, pick)]
        BY <1>10 DEF PlaceHouse
    <2>3. ASSUME NEW m \in Players PROVE Ready(m)'
        <3>1. IsWorld(world[m])
            BY DEF Ready
        <3>2. /\ DOMAIN world'[m] = DOMAIN world[m]
              /\ world'[m].houses = world[m].houses /\ world'[m].used = world[m].used
            BY <2>2, <3>1, HousePlaced
        <3> QED
            BY <1>1, <2>1, <3>2, ReadyKept
    <2> QED
        BY <1>2, <1>3, <2>1, <2>3
<1>11. CASE SearchDone \/ HousesPlaced \/ NoPosition
    <2>1. UNCHANGED <<world, desk>> /\ phase # "players" /\ phase' # "players"
        BY <1>11 DEF SearchDone, HousesPlaced, NoPosition
    <2>2. \A m \in Players : Ready(m)'
        BY <1>1, <2>1, ReadyKept DEF Ready
    <2> QED
        BY <1>2, <1>3, <2>1, <2>2
<1>12. CASE Over \/ UNCHANGED vars
    <2>1. UNCHANGED <<world, desk, phase>>
        BY <1>12 DEF Over, vars
    <2>2. \A m \in Players : Ready(m)'
        BY <1>1, <2>1, ReadyKept
    <2> QED
        BY <1>2, <1>3, <2>1, <2>2
<1> QED
    BY <1>4, <1>5, <1>6, <1>7, <1>8, <1>9, <1>10, <1>11, <1>12 DEF Next

-----------------------------------------------------------------------------
(* The theorems.                                                               *)

(* The invariant holds of every game.                                          *)
LEMMA AlwaysReady == Spec => []IInv
<1>1. Init => IInv
    BY InitReady
<1> QED
    BY <1>1, StepReady, PTL DEF Spec

(* The player at each machine has the house of his color when all players are  *)
(* assigned, wherever they are in the lists of the others.                     *)
THEOREM EveryoneAtHome == Spec => []OwnHouse
<1>1. IInv => OwnHouse
    <2> SUFFICES ASSUME IInv, phase # "players", NEW m \in Players
                 PROVE  /\ desk[m].house \in DOMAIN world[m].houses
                        /\ world[m].houses[desk[m].house] = [owner |-> m, color |-> color[m]]
        BY DEF OwnHouse
    <2>1. list[m] \in [1 .. N -> Players] /\ \A p \in Players : \E i \in 1 .. N : list[m][i] = p
        BY DEF IInv, Lobby, Lists
    <2>2. PICK i \in 1 .. N : list[m][i] = m
        BY <2>1
    <2>3. N \in Nat
        BY StartAssumption, FS_CardinalityType DEF N
    <2>4. 1 \in 1 .. N
        BY <2>2, <2>3
    <2> QED
        BY <2>4 DEF IInv, Ready
<1> QED
    BY <1>1, AlwaysReady, PTL

(* No two houses have the same color, chosen by players or drawn for           *)
(* computers, whatever the number of each.                                     *)
THEOREM NoColorTwice == Spec => []ColorsDiffer
<1>1. IInv => ColorsDiffer
    BY DEF IInv, Ready, Colored, ColorsDiffer
<1> QED
    BY <1>1, AlwaysReady, PTL

(* Without the option of construction yards, a step of all machines that know  *)
(* the same leaves them with the same: the order of their lists does not show. *)
LEMMA StepSame == ~PrePlacedConYards /\ IInv /\ SameGame /\ [Next]_vars => SameGame'
<1> SUFFICES ASSUME ~PrePlacedConYards, IInv, SameGame, [Next]_vars,
                    NEW m \in Players, NEW n \in Players
             PROVE  world'[m] = world'[n]
    BY DEF SameGame
<1>0. world[m] = world[n]
    BY DEF SameGame
<1>1. CASE AssignPlayer
    <2>1. PICK k \in Players : desk[k].assigned # DOMAIN list[k]
        BY <1>1 DEF AssignPlayer
    <2>2. DOMAIN list[k] = 1 .. N /\ Lobby
        BY DEF IInv, Lobby, Lists
    <2>3. /\ desk[k].assigned \subseteq 1 .. N /\ desk[m].assigned \subseteq 1 .. N
          /\ desk[n].assigned \subseteq 1 .. N
          /\ Assigned(k) = Assigned(m) /\ Assigned(m) = Assigned(n)
        BY DEF IInv, InStep, Ready
    <2>4. desk[m].assigned # 1 .. N /\ desk[n].assigned # 1 .. N
        BY <2>1, <2>2, <2>3, AllAssigned
    <2>5. list[m][LowestColor(m)] = list[n][LowestColor(n)]
        BY <2>2, <2>3, <2>4, LowestSame
    <2> QED
        BY <1>0, <1>1, <2>5 DEF AssignPlayer
<1>2. CASE DrawColor
    BY <1>0, <1>2 DEF DrawColor
<1>3. CASE CreateNatives
    BY <1>0, <1>3 DEF CreateNatives
<1>4. CASE ReadWaypoints
    BY <1>0, <1>4 DEF ReadWaypoints
<1>5. CASE RandomStart
    BY <1>0, <1>5 DEF RandomStart
<1>6. CASE PlaceHouse
    <2>1. PICK pick : world' = [k \in Players |-> NextHouse(k, pick)]
        BY <1>6 DEF PlaceHouse
    <2>2. NextHouse(m, pick) = NextHouse(n, pick)
        BY <1>0 DEF NextHouse, PlaceBase
    <2> QED
        BY <2>1, <2>2
<1>7. CASE PlayersAssigned \/ SearchDone \/ HousesPlaced \/ NoPosition \/ Over \/ UNCHANGED vars
    BY <1>0, <1>7 DEF PlayersAssigned, SearchDone, HousesPlaced, NoPosition, Over, vars
<1> QED
    BY <1>1, <1>2, <1>3, <1>4, <1>5, <1>6, <1>7 DEF Next

(* All machines make the same game from their own lists of players, for any    *)
(* players, colors, computers and maps, unless construction yards are placed.  *)
THEOREM OneGame == ~PrePlacedConYards => (Spec => []SameGame)
<1>1. Init => SameGame
    BY InitReady
<1>2. ASSUME ~PrePlacedConYards PROVE Spec => []SameGame
    <2>1. IInv /\ SameGame /\ [Next]_vars => SameGame'
        BY <1>2, StepSame
    <2> QED
        BY <1>1, <2>1, AlwaysReady, PTL DEF Spec
<1> QED
    BY <1>2

-----------------------------------------------------------------------------
(* Sums.  SumFunction folds over the arguments in an order it does not say:    *)
(* for naturals, any order gives the same.                                     *)

\* A set of finite sets has one of which no element can be taken.
LEMMA SmallestSubset ==
    ASSUME NEW S, IsFiniteSet(S), NEW bad \in SUBSET SUBSET S, bad # {}
    PROVE  \E T \in bad : \A x \in T : T \ {x} \notin bad
<1> DEFINE sizes == {Cardinality(T) : T \in bad}
<1>1. ASSUME NEW T \in bad
      PROVE  /\ Cardinality(T) \in Nat
             /\ \A x \in T : Cardinality(T \ {x}) = Cardinality(T) - 1
    <2>1. IsFiniteSet(T)
        BY FS_Subset
    <2> QED
        BY <2>1, FS_CardinalityType, FS_RemoveElement
<1>2. sizes \in SUBSET Nat /\ sizes # {}
    BY <1>1
<1>3. PICK n \in sizes : \A k \in sizes : n <= k
    BY <1>2, LeastNatural
<1>4. PICK T \in bad : Cardinality(T) = n
    BY <1>3
<1>5. ASSUME NEW x \in T, T \ {x} \in bad PROVE FALSE
    <2>1. Cardinality(T \ {x}) = n - 1 /\ n \in Nat
        BY <1>1, <1>4
    <2>2. n <= n - 1
        BY <1>3, <1>5, <2>1
    <2> QED
        BY <2>1, <2>2
<1> QED
    BY <1>4, <1>5

Any(s) == CHOOSE x \in s : TRUE

\* What a sum adds up, for all parts of S.
Part(f, g, s) == IF s = {} THEN 0 ELSE f[Any(s)] + g[s \ {Any(s)}]
Adds(f, S, g) == g = [s \in SUBSET S |-> Part(f, g, s)]

LEMMA AnyOf == ASSUME NEW s, s # {} PROVE Any(s) \in s
BY DEF Any

LEMMA AddsUp ==
    ASSUME NEW S, IsFiniteSet(S), NEW f
    PROVE  \E g : Adds(f, S, g)
<1> DEFINE Upto(n, g) == \A s \in SUBSET S : Cardinality(s) <= n => g[s] = Part(f, g, s)
           bad == {n \in Nat : \A g : ~Upto(n, g)}
<1>1. \A s \in SUBSET S : IsFiniteSet(s) /\ Cardinality(s) \in Nat
    BY FS_Subset, FS_CardinalityType
<1>2. bad = {}
    <2> SUFFICES ASSUME bad # {} PROVE FALSE
        OBVIOUS
    <2>1. PICK n \in bad : \A k \in bad : n <= k
        <3>1. bad \in SUBSET Nat
            OBVIOUS
        <3> HIDE DEF bad
        <3> QED
            BY <3>1, LeastNatural
    <2>2. CASE n = 0
        <3> DEFINE g == [s \in SUBSET S |-> 0]
        <3>1. \A s \in SUBSET S : Cardinality(s) <= 0 => s = {}
            BY <1>1, FS_EmptySet
        <3>2. Upto(0, g)
            BY <3>1 DEF Part
        <3> QED
            BY <2>2, <3>2
    <2>3. CASE n # 0
        <3>1. n \in Nat /\ n - 1 \in Nat /\ ~(n <= n - 1)
            BY <2>3
        <3>2. n - 1 \notin bad
            BY <2>1, <3>1
        <3>3. PICK g : Upto(n - 1, g)
            BY <3>1, <3>2
        <3> DEFINE h == [s \in SUBSET S |-> Part(f, g, s)]
        <3>4. ASSUME NEW s \in SUBSET S, Cardinality(s) <= n, s # {}
              PROVE  s \ {Any(s)} \in SUBSET S /\ Cardinality(s \ {Any(s)}) <= n - 1
            <4>1. Cardinality(s \ {Any(s)}) = Cardinality(s) - 1
                BY <1>1, <3>4, AnyOf, FS_RemoveElement
            <4>2. Cardinality(s) \in Nat
                BY <1>1
            <4> QED
                BY <3>1, <3>4, <4>1, <4>2
        <3>5. ASSUME NEW s \in SUBSET S, Cardinality(s) <= n PROVE h[s] = Part(f, h, s)
            <4>1. CASE s = {}
                BY <4>1 DEF Part
            <4>2. CASE s # {}
                <5> DEFINE r == s \ {Any(s)}
                <5>1. r \in SUBSET S /\ Cardinality(r) <= n - 1
                    BY <3>4, <3>5, <4>2
                <5>2. h[r] = Part(f, g, r)
                    BY <5>1
                <5>3. g[r] = Part(f, g, r)
                    BY <3>3, <5>1
                <5>4. h[s] = f[Any(s)] + g[r] /\ Part(f, h, s) = f[Any(s)] + h[r]
                    BY <4>2 DEF Part
                <5> QED
                    BY <5>2, <5>3, <5>4
            <4> QED
                BY <4>1, <4>2
        <3>6. Upto(n, h)
            BY <3>5
        <3> QED
            BY <3>6
    <2> QED
        BY <2>2, <2>3
<1> DEFINE n == Cardinality(S)
<1>3. n \in Nat /\ \A s \in SUBSET S : Cardinality(s) <= n
    BY <1>1, FS_Subset
<1>4. PICK g : Upto(n, g)
    BY <1>2, <1>3
<1>5. \A s \in SUBSET S : g[s] = Part(f, g, s)
    BY <1>3, <1>4
<1> DEFINE h == [s \in SUBSET S |-> g[s]]
<1>6. \A s \in SUBSET S : Part(f, h, s) = Part(f, g, s)
    BY AnyOf DEF Part
<1>7. h = [s \in SUBSET S |-> Part(f, h, s)]
    BY <1>5, <1>6
<1> QED
    BY <1>7 DEF Adds

LEMMA SumUnfolds ==
    ASSUME NEW f, IsFiniteSet(DOMAIN f)
    PROVE \E g : Adds(f, DOMAIN f, g) /\ SumFunction(f) = g[DOMAIN f]
<1> DEFINE g == CHOOSE g : Adds(f, DOMAIN f, g)
<1>1. \E h : Adds(f, DOMAIN f, h)
    BY AddsUp
<1>2. Adds(f, DOMAIN f, g)
    BY <1>1, Zenon
<1>3. SumFunction(f) = g[DOMAIN f]
    BY DEF SumFunction, SumFunctionOnSet, FoldFunctionOnSet, MapThenFoldSet, Adds, Part, Any
<1> QED BY <1>2, <1>3

\* Any element may be taken first.
LEMMA AddsAny ==
    ASSUME NEW S, IsFiniteSet(S), NEW f \in [S -> Nat], NEW g, Adds(f, S, g)
    PROVE  /\ g[{}] = 0
           /\ \A T \in SUBSET S : g[T] \in Nat
           /\ \A T \in SUBSET S : \A x \in T : g[T] = f[x] + g[T \ {x}]
<1>1. \A T \in SUBSET S : g[T] = Part(f, g, T)
    BY DEF Adds
<1>2. g[{}] = 0
    BY <1>1 DEF Part
<1>3. \A T \in SUBSET S : T # {} => Any(T) \in T /\ g[T] = f[Any(T)] + g[T \ {Any(T)}]
    BY <1>1, AnyOf DEF Part
<1> DEFINE bad == {T \in SUBSET S : g[T] \notin Nat}
           worse == {T \in SUBSET S : \E x \in T : g[T] # f[x] + g[T \ {x}]}
<1>4. bad = {}
    <2> SUFFICES ASSUME bad # {} PROVE FALSE
        OBVIOUS
    <2>1. bad \in SUBSET SUBSET S
        OBVIOUS
    <2>2. PICK T \in bad : \A x \in T : T \ {x} \notin bad
        <3> HIDE DEF bad
        <3> QED
            BY <2>1, SmallestSubset
    <2>3. T \in SUBSET S /\ T # {} /\ g[T] \notin Nat
        BY <1>2
    <2>4. g[T \ {Any(T)}] \in Nat /\ f[Any(T)] \in Nat
        BY <1>3, <2>2, <2>3
    <2> QED
        BY <1>3, <2>3, <2>4
<1>5. worse = {}
    <2> SUFFICES ASSUME worse # {} PROVE FALSE
        OBVIOUS
    <2>1. worse \in SUBSET SUBSET S
        OBVIOUS
    <2>2. PICK T \in worse : \A x \in T : T \ {x} \notin worse
        <3> HIDE DEF worse
        <3> QED
            BY <2>1, SmallestSubset
    <2>3. PICK x \in T : g[T] # f[x] + g[T \ {x}]
        OBVIOUS
    <2> DEFINE a == Any(T)
    <2>4. T \in SUBSET S /\ a \in T /\ g[T] = f[a] + g[T \ {a}] /\ a # x
        BY <1>3, <2>3
    <2> DEFINE rest == T \ {a, x}
    <2>5. rest = (T \ {a}) \ {x} /\ rest = (T \ {x}) \ {a} /\ rest \in SUBSET S
        BY <2>4
    <2>6. g[T \ {a}] = f[x] + g[(T \ {a}) \ {x}]
        BY <2>2, <2>3, <2>4
    <2>7. g[T \ {x}] = f[a] + g[(T \ {x}) \ {a}]
        BY <2>2, <2>3, <2>4
    <2> HIDE DEF a, rest
    <2>8. f[a] \in Nat /\ f[x] \in Nat /\ g[rest] \in Nat
        BY <1>4, <2>3, <2>4, <2>5
    <2>9. g[T \ {a}] = f[x] + g[rest] /\ g[T \ {x}] = f[a] + g[rest]
        BY <2>5, <2>6, <2>7
    <2>10. f[a] + (f[x] + g[rest]) = f[x] + (f[a] + g[rest])
        BY <2>8
    <2> QED
        BY <2>3, <2>4, <2>9, <2>10
<1> QED
    BY <1>2, <1>4, <1>5

\* Sums over equal functions are equal, whatever they are parts of.
LEMMA AddsSame ==
    ASSUME NEW S, IsFiniteSet(S), NEW f \in [S -> Nat], NEW g, Adds(f, S, g),
           NEW T \in SUBSET S, NEW e \in [T -> Nat], NEW h, Adds(e, T, h),
           \A x \in T : e[x] = f[x]
    PROVE  h[T] = g[T]
<1> DEFINE bad == {U \in SUBSET T : h[U] # g[U]}
<1>1. IsFiniteSet(T)
    BY FS_Subset
<1>2. /\ g[{}] = 0 /\ h[{}] = 0
      /\ \A U \in SUBSET T : \A x \in U : g[U] = f[x] + g[U \ {x}] /\ h[U] = e[x] + h[U \ {x}]
    BY <1>1, AddsAny
<1> SUFFICES ASSUME bad # {} PROVE FALSE
    OBVIOUS
<1>3. bad \in SUBSET SUBSET T
    OBVIOUS
<1>4. PICK U \in bad : \A x \in U : U \ {x} \notin bad
    <2> HIDE DEF bad
    <2> QED
        BY <1>1, <1>3, SmallestSubset
<1>5. PICK x \in U : TRUE
    BY <1>2
<1>6. h[U \ {x}] = g[U \ {x}] /\ e[x] = f[x]
    BY <1>4
<1> QED
    BY <1>2, <1>5, <1>6

Without(f, x) == [y \in DOMAIN f \ {x} |-> f[y]]

\* A sum of naturals: any of them may be taken out.
LEMMA SumStep ==
    ASSUME NEW S, IsFiniteSet(S), NEW f \in [S -> Nat]
    PROVE  /\ SumFunction(f) \in Nat
           /\ S = {} => SumFunction(f) = 0
           /\ \A x \in S : /\ SumFunction(f) = f[x] + SumFunction(Without(f, x))
                           /\ SumFunction(Without(f, x)) \in Nat
<1>1. PICK g : Adds(f, S, g) /\ SumFunction(f) = g[S]
    BY SumUnfolds
<1>2. /\ g[{}] = 0 /\ \A T \in SUBSET S : g[T] \in Nat
      /\ \A x \in S : g[S] = f[x] + g[S \ {x}]
    <2>1. DOMAIN f = S /\ S \in SUBSET S
        OBVIOUS
    <2>2. Adds(f, S, g)
        BY <1>1, <2>1
    <2>3. /\ g[{}] = 0 /\ \A T \in SUBSET S : g[T] \in Nat
          /\ \A T \in SUBSET S : \A x \in T : g[T] = f[x] + g[T \ {x}]
        BY <2>2, AddsAny
    <2> QED
        BY <2>1, <2>3
<1>3. ASSUME NEW x \in S
      PROVE  SumFunction(Without(f, x)) = g[S \ {x}]
    <2> DEFINE e == Without(f, x)
    <2>1. e \in [S \ {x} -> Nat] /\ \A y \in S \ {x} : e[y] = f[y]
        BY DEF Without
    <2>2. IsFiniteSet(S \ {x})
        BY FS_Subset
    <2> HIDE DEF e
    <2>3. PICK h : Adds(e, S \ {x}, h) /\ SumFunction(e) = h[S \ {x}]
        BY <2>1, <2>2, SumUnfolds
    <2>4. h[S \ {x}] = g[S \ {x}]
        BY <1>1, <2>1, <2>3, AddsSame
    <2> QED
        BY <2>3, <2>4 DEF e
<1> QED
    BY <1>1, <1>2, <1>3

\* The order does not matter: a sum over other names of the same is the same.
LEMMA SumRenamed ==
    ASSUME NEW S, IsFiniteSet(S), NEW T, NEW b \in Bijection(S, T), NEW f \in [T -> Nat]
    PROVE  SumFunction([x \in S |-> f[b[x]]]) = SumFunction(f)
<1> DEFINE Image(U) == {b[x] : x \in U}
           left(U) == [x \in U |-> f[b[x]]]
           right(U) == [y \in Image(U) |-> f[y]]
           bad == {U \in SUBSET S : SumFunction(left(U)) # SumFunction(right(U))}
<1>1. /\ b \in [S -> T] /\ Image(S) = T
      /\ \A x, y \in S : b[x] = b[y] => x = y
    BY DEF Bijection, Injection, IsInjective, Surjection
<1>2. ASSUME NEW U \in SUBSET S
      PROVE  /\ IsFiniteSet(U) /\ IsFiniteSet(Image(U))
             /\ left(U) \in [U -> Nat] /\ right(U) \in [Image(U) -> Nat]
    <2>1. IsFiniteSet(U)
        BY FS_Subset
    <2>2. IsFiniteSet(T)
        BY FS_Bijection DEF ExistsBijection
    <2>3. Image(U) \in SUBSET T
        BY <1>1
    <2>4. IsFiniteSet(Image(U))
        BY <2>2, <2>3, FS_Subset
    <2> QED
        BY <1>1, <2>1, <2>3, <2>4
<1>3. ASSUME NEW U \in SUBSET S, NEW x \in U
      PROVE  /\ Without(left(U), x) = left(U \ {x})
             /\ Without(right(U), b[x]) = right(U \ {x})
             /\ b[x] \in Image(U) /\ left(U)[x] = f[b[x]] /\ right(U)[b[x]] = f[b[x]]
    <2>1. Image(U) \ {b[x]} = Image(U \ {x})
        BY <1>1
    <2>2. Without(left(U), x) = left(U \ {x})
        BY DEF Without
    <2>3. Without(right(U), b[x]) = right(U \ {x})
        BY <2>1 DEF Without
    <2> QED
        BY <2>2, <2>3
<1>4. bad = {}
    <2> SUFFICES ASSUME bad # {} PROVE FALSE
        OBVIOUS
    <2>1. bad \in SUBSET SUBSET S
        OBVIOUS
    <2>2. PICK U \in bad : \A x \in U : U \ {x} \notin bad
        <3> HIDE DEF bad
        <3> QED
            BY <2>1, SmallestSubset
    <2> HIDE DEF left, right, Image
    <2>3. CASE U = {}
        <3>1. Image(U) = {}
            BY <2>3 DEF Image
        <3>2. SumFunction(left(U)) = 0 /\ SumFunction(right(U)) = 0
            BY <1>2, <2>3, <3>1, SumStep
        <3> QED
            BY <3>2
    <2>4. CASE U # {}
        <3>1. PICK x \in U : TRUE
            BY <2>4
        <3>2. SumFunction(left(U \ {x})) = SumFunction(right(U \ {x}))
            BY <2>2, <3>1
        <3>3. U \in SUBSET S /\ IsFiniteSet(U) /\ IsFiniteSet(Image(U))
              /\ left(U) \in [U -> Nat] /\ right(U) \in [Image(U) -> Nat]
            BY <1>2
        <3>4. SumFunction(left(U)) = left(U)[x] + SumFunction(Without(left(U), x))
            BY <3>1, <3>3, SumStep
        <3>5. b[x] \in Image(U)
            BY <1>3, <3>1
        <3>6. SumFunction(right(U)) = right(U)[b[x]] + SumFunction(Without(right(U), b[x]))
            BY <3>3, <3>5, SumStep
        <3>7. /\ Without(left(U), x) = left(U \ {x}) /\ Without(right(U), b[x]) = right(U \ {x})
              /\ left(U)[x] = right(U)[b[x]]
            BY <1>3, <3>1
        <3> QED
            BY <3>2, <3>4, <3>6, <3>7
    <2> QED
        BY <2>3, <2>4
<1>5. SumFunction(left(S)) = SumFunction(right(S))
    BY <1>4
<1>6. right(S) = f
    BY <1>1
<1> QED
    BY <1>5, <1>6

-----------------------------------------------------------------------------
(* The list of starting waypoints.                                             *)

LEMMA LookForBound ==
    ASSUME computers \in 0 .. MaxComputers
    PROVE  LookFor \in 0 .. MaxPlayers /\ N + computers <= LookFor
<1>1. N \in Nat /\ MaxPlayers \in Nat /\ N + computers \in 0 .. MaxPlayers
    BY StartAssumption, FS_CardinalityType DEF N
<1>2. MinWaypoints \in 0 .. MaxPlayers
    <2> DEFINE S == {i \in Waypoints : \A j \in 0 .. i : Valid(j)}
    <2>1. IsFiniteSet(Waypoints) /\ Cardinality(Waypoints) = MaxPlayers
        BY <1>1, FS_Interval DEF Waypoints
    <2>2. S \in SUBSET Waypoints
        OBVIOUS
    <2> HIDE DEF S
    <2>3. Cardinality(S) <= MaxPlayers /\ Cardinality(S) \in Nat
        BY <2>1, <2>2, FS_Subset, FS_CardinalityType
    <2> QED
        BY <1>1, <2>3 DEF MinWaypoints, S
<1>3. \A a, b \in 0 .. MaxPlayers : Max({a, b}) \in {a, b} /\ Max({a, b}) >= b
    <2> TAKE a, b \in 0 .. MaxPlayers
    <2>1. \E x \in {a, b} : \A y \in {a, b} : x >= y
        <3>1. CASE a >= b
            BY <3>1
        <3>2. CASE ~(a >= b)
            BY <3>2
        <3> QED
            BY <3>1, <3>2
    <2>2. Max({a, b}) \in {a, b} /\ \A y \in {a, b} : Max({a, b}) >= y
        BY <2>1 DEF Max
    <2> QED
        BY <2>2
<1>4. Max({MinWaypoints, N + computers}) \in {MinWaypoints, N + computers}
      /\ Max({MinWaypoints, N + computers}) >= N + computers
    BY <1>1, <1>2, <1>3
<1> QED
    BY <1>1, <1>2, <1>4 DEF LookFor

\* The loop over the waypoints: what is in the list after each.
Longer(found, k) ==
    IF k = 0 THEN <<>>
    ELSE IF Valid(k - 1) THEN Append(found[k - 1], scenario.waypoint[k - 1])
    ELSE found[k - 1]
Lengthens(found) == found = [k \in 0 .. LookFor |-> Longer(found, k)]

LEMMA LoopEnds ==
    ASSUME LookFor \in Nat
    PROVE  \E found : Lengthens(found)
<1> DEFINE Upto(n, found) == \A k \in 0 .. n : found[k] = Longer(found, k)
           bad == {n \in Nat : \A found : ~Upto(n, found)}
<1>1. bad = {}
    <2> SUFFICES ASSUME bad # {} PROVE FALSE
        OBVIOUS
    <2>1. PICK n \in bad : \A k \in bad : n <= k
        <3>1. bad \in SUBSET Nat
            OBVIOUS
        <3> HIDE DEF bad
        <3> QED
            BY <3>1, LeastNatural
    <2>2. CASE n = 0
        <3>1. Upto(0, [k \in {0} |-> <<>>])
            BY DEF Longer
        <3> QED
            BY <2>2, <3>1
    <2>3. CASE n # 0
        <3>1. n \in Nat /\ n - 1 \in Nat /\ ~(n <= n - 1)
            BY <2>3
        <3>2. PICK found : Upto(n - 1, found)
            BY <2>1, <3>1
        <3> DEFINE more == [k \in 0 .. n |-> Longer(found, k)]
        <3>3. ASSUME NEW k \in 0 .. n PROVE more[k] = Longer(more, k)
            <4>1. CASE k = 0
                BY <4>1 DEF Longer
            <4>2. CASE k # 0
                <5>1. k - 1 \in 0 .. n - 1 /\ k - 1 \in 0 .. n
                    BY <3>1, <4>2
                <5>2. more[k - 1] = found[k - 1]
                    BY <3>2, <5>1
                <5> QED
                    BY <4>2, <5>2 DEF Longer
            <4> QED
                BY <4>1, <4>2
        <3>4. Upto(n, more)
            BY <3>3
        <3> QED
            BY <3>4
    <2> QED
        BY <2>2, <2>3
<1>2. PICK found : Upto(LookFor, found)
    BY <1>1
<1> DEFINE all == [k \in 0 .. LookFor |-> found[k]]
<1>3. ASSUME NEW k \in 0 .. LookFor PROVE all[k] = Longer(all, k)
    <2>1. found[k] = Longer(found, k)
        BY <1>2
    <2>2. k # 0 => k - 1 \in 0 .. LookFor
        OBVIOUS
    <2> QED
        BY <2>1, <2>2 DEF Longer
<1>4. all = [k \in 0 .. LookFor |-> Longer(all, k)]
    BY <1>3
<1> QED
    BY <1>4 DEF Lengthens

LEMMA ListUnfolds ==
    ASSUME LookFor \in Nat
    PROVE  \E found : Lengthens(found) /\ FoundWaypoints = found[LookFor]
<1> DEFINE found == CHOOSE found : Lengthens(found)
<1>1. Lengthens(found)
    BY LoopEnds, Zenon
<1>2. FoundWaypoints = found[LookFor]
    BY DEF FoundWaypoints, Lengthens, Longer
<1> QED
    BY <1>1, <1>2

\* The list holds cells, and no more than were looked for.
LEMMA ListIsTyped ==
    ASSUME computers \in 0 .. MaxComputers, scenario \in [waypoint : Maps, official : BOOLEAN]
    PROVE  FoundWaypoints \in Seq(Cells) /\ Len(FoundWaypoints) <= LookFor
<1>1. LookFor \in 0 .. MaxPlayers /\ MaxPlayers \in Nat
    BY LookForBound, StartAssumption
<1>2. scenario.waypoint \in [Waypoints -> Cells \cup {NoCell}]
    BY DEF Maps
<1>3. PICK found : Lengthens(found) /\ FoundWaypoints = found[LookFor]
    BY <1>1, ListUnfolds
<1>4. \A k \in 0 .. LookFor : found[k] = Longer(found, k)
    BY <1>3 DEF Lengthens
<1> DEFINE Good(k) == found[k] \in Seq(Cells) /\ Len(found[k]) <= k
           bad == {k \in 0 .. LookFor : ~Good(k)}
<1>5. bad = {}
    <2> SUFFICES ASSUME bad # {} PROVE FALSE
        OBVIOUS
    <2>1. PICK k \in bad : \A j \in bad : k <= j
        <3>1. bad \in SUBSET Nat
            BY <1>1
        <3> HIDE DEF bad
        <3> QED
            BY <3>1, LeastNatural
    <2>2. k \in Nat /\ k \in 0 .. LookFor /\ LookFor \in Nat
        BY <1>1
    <2>3. k # 0
        <3>1. found[0] = <<>>
            BY <1>1, <1>4 DEF Longer
        <3>2. Good(0)
            BY <3>1
        <3> QED
            BY <2>1, <3>2
    <2>4. k - 1 \in 0 .. LookFor /\ k - 1 \in Nat /\ ~(k <= k - 1)
        BY <2>2, <2>3
    <2>5. found[k - 1] \in Seq(Cells) /\ Len(found[k - 1]) <= k - 1
        BY <2>1, <2>4
    <2>6. CASE Valid(k - 1)
        <3>1. k - 1 \in Waypoints
            BY <1>1, <2>2, <2>4 DEF Waypoints
        <3>2. scenario.waypoint[k - 1] \in Cells
            BY <1>2, <2>6, <3>1 DEF Valid
        <3>3. found[k] = Append(found[k - 1], scenario.waypoint[k - 1])
            BY <1>4, <2>2, <2>3, <2>6 DEF Longer
        <3>4. found[k] \in Seq(Cells) /\ Len(found[k]) = Len(found[k - 1]) + 1
            BY <2>5, <3>2, <3>3
        <3> QED
            BY <2>2, <2>4, <2>5, <3>4
    <2>7. CASE ~Valid(k - 1)
        <3>1. found[k] = found[k - 1]
            BY <1>4, <2>2, <2>3, <2>7 DEF Longer
        <3> QED
            BY <2>2, <2>4, <2>5, <3>1
    <2> QED
        BY <2>6, <2>7
<1> QED
    BY <1>1, <1>3, <1>5

-----------------------------------------------------------------------------
(* The starting positions.  What holds of the world of one machine.            *)

World ==
    [used : SUBSET Colors, houses : Seq(House), waypts : Seq(Cells), taken : SUBSET Nat,
     start : Seq(Cells \cup {NoCell}), spawn : Seq(Waypoints \cup {NoWaypoint}),
     building : SUBSET Nat]

Placed(w) ==
    /\ w \in World
    /\ w.taken \subseteq DOMAIN w.waypts
    /\ w.building \subseteq DOMAIN w.start
    /\ Len(w.spawn) = Len(w.start) /\ Len(w.start) <= Len(w.houses)

(* Before the first house gets its position.                                   *)
Unplaced(w) == w.taken = {} /\ w.start = <<>> /\ w.spawn = <<>> /\ w.building = {}

(* A house starts at a position that is taken, and its spawn point is the      *)
(* waypoint there; a passive house has neither.                                *)
Started(w, h) ==
    IF w.houses[h].owner = Native THEN w.spawn[h] = NoWaypoint
    ELSE /\ \E i \in w.taken : w.start[h] = w.waypts[i]
         /\ w.spawn[h] = SpawnPoint(w.start[h])

Settled(w) ==
    /\ \A h \in DOMAIN w.start : Started(w, h)
    /\ \A i \in w.taken : \E h \in Active(w) : w.start[h] = w.waypts[i]

(* While a position is free nobody shares one.                                 *)
Alone(w) ==
    Injective(w.waypts) /\ w.taken # DOMAIN w.waypts =>
        \A g, h \in Active(w) : w.start[g] = w.start[h] => g = h

Before(w, h) == {g \in Active(w) : g < h}
FreeFor(w, h) == {w.waypts[i] : i \in DOMAIN w.waypts} \ {w.start[g] : g \in Before(w, h)}
Far(w, h, c) == SumFunction([g \in Before(w, h) |-> Distance(c, w.start[g])])
FurthestOf(w, h) ==
    FreeFor(w, h) # {} =>
        /\ w.start[h] \in FreeFor(w, h)
        /\ \A c \in FreeFor(w, h) : Far(w, h, c) <= Far(w, h, w.start[h])
Apart(w) == Injective(w.waypts) => \A h \in Active(w) : FurthestOf(w, h)

(* Machines differ only in the houses that build by themselves.                *)
Alike(u, w) ==
    /\ u.used = w.used /\ u.houses = w.houses /\ u.waypts = w.waypts
    /\ u.taken = w.taken /\ u.start = w.start /\ u.spawn = w.spawn

WithWaypts(w, ws) == [w EXCEPT !.waypts = ws]

Phases == {"players", "computers", "waypoints", "search", "starts", "done", "undefined"}

PlacingBegun == phase \in {"starts", "done", "undefined"}

Seated(m) ==
    /\ desk[m].house \in 0 .. N
    /\ phase = "players" => Len(world[m].houses) = Cardinality(desk[m].assigned)

Good(m) ==
    /\ Seated(m)
    /\ Placed(world[m])
    /\ ~PlacingBegun => Unplaced(world[m])
    /\ Settled(world[m]) /\ Alone(world[m]) /\ Apart(world[m])

AllAlike == \A m, n \in Players : Alike(world[m], world[n])

StartInv ==
    /\ IInv
    /\ list \in [Players -> [1 .. N -> Players]]
    /\ computers \in 0 .. MaxComputers
    /\ scenario \in [waypoint : Maps, official : BOOLEAN]
    /\ phase \in Phases
    /\ missing \in 0 .. MaxPlayers
    /\ AllAlike
    /\ \A m \in Players : Good(m)

-----------------------------------------------------------------------------
(* Maxima, spawn points and scores.                                            *)

(* A finite set of naturals that is not empty has a greatest element.          *)
LEMMA GreatestNatural ==
    ASSUME NEW S \in SUBSET Nat, IsFiniteSet(S), S # {}
    PROVE  Max(S) \in S /\ \A y \in S : Max(S) >= y
<1> DEFINE bad == {T \in SUBSET S : T # {} /\ \A x \in T : \E y \in T : ~(x >= y)}
<1>1. bad = {}
    <2> SUFFICES ASSUME bad # {} PROVE FALSE
        OBVIOUS
    <2>1. bad \in SUBSET SUBSET S
        OBVIOUS
    <2>2. PICK T \in bad : \A x \in T : T \ {x} \notin bad
        <3> HIDE DEF bad
        <3> QED
            BY <2>1, SmallestSubset
    <2>3. PICK x \in T : TRUE
        OBVIOUS
    <2>4. T \in SUBSET Nat /\ \A k \in T : \E l \in T : ~(k >= l)
        OBVIOUS
    <2>5. T \ {x} # {}
        <3>1. PICK l \in T : ~(x >= l)
            BY <2>3, <2>4
        <3>2. l # x
            BY <2>3, <2>4, <3>1
        <3> QED
            BY <3>1, <3>2
    <2>6. PICK y \in T \ {x} : \A z \in T \ {x} : y >= z
        BY <2>2, <2>3, <2>5
    <2>7. x \in Nat /\ y \in Nat /\ y \in T
        BY <2>3, <2>4, <2>6
    <2>8. CASE y >= x
        BY <2>4, <2>6, <2>7, <2>8
    <2>9. CASE ~(y >= x)
        <3>1. \A z \in T : x >= z
            BY <2>4, <2>6, <2>7, <2>9
        <3> QED
            BY <2>3, <2>4, <3>1
    <2> QED
        BY <2>8, <2>9
<1>2. \E x \in S : \A y \in S : x >= y
    BY <1>1
<1> QED
    BY <1>2 DEF Max

(* A cell has at most one waypoint, and that is its spawn point.               *)
LEMMA SpawnPointAt ==
    ASSUME scenario \in [waypoint : Maps, official : BOOLEAN], NEW c \in Cells
    PROVE  /\ SpawnPoint(c) \in Waypoints \cup {NoWaypoint}
           /\ \A i \in Waypoints : SpawnPoint(c) = i <=> scenario.waypoint[i] = c
<1> DEFINE at == {i \in Waypoints : scenario.waypoint[i] = c}
<1>1. /\ scenario.waypoint \in [Waypoints -> Cells \cup {NoCell}]
      /\ \A i, j \in Waypoints :
           scenario.waypoint[i] = scenario.waypoint[j] /\ scenario.waypoint[i] # NoCell => i = j
    BY DEF Maps
<1>2. c # NoCell /\ NoWaypoint \notin Waypoints /\ Waypoints \in SUBSET Nat
    BY StartAssumption DEF NoWaypoint, Waypoints
<1>3. \A i, j \in at : i = j
    BY <1>1, <1>2
<1>4. CASE at = {}
    <2>1. SpawnPoint(c) = NoWaypoint
        BY <1>4 DEF SpawnPoint
    <2> QED
        BY <1>2, <1>4, <2>1
<1>5. CASE at # {}
    <2>1. PICK k \in at : TRUE
        BY <1>5
    <2>2. at = {k}
        BY <1>3, <2>1
    <2>3. Min({k}) = k
        <3>1. k \in Nat
            BY <1>2, <2>1
        <3>2. \A x \in {k} : \A y \in {k} : x <= y
            BY <3>1
        <3> QED
            BY <3>2 DEF Min
    <2>4. SpawnPoint(c) = k
        BY <1>5, <2>2, <2>3 DEF SpawnPoint
    <2> QED
        BY <2>1, <2>2, <2>4
<1> QED
    BY <1>4, <1>5

LEMMA Listed ==
    ASSUME NEW C, NEW s \in Seq(C)
    PROVE  /\ Len(s) \in Nat /\ DOMAIN s = 1 .. Len(s) /\ IsFiniteSet(DOMAIN s)
           /\ \A k \in DOMAIN s : s[k] \in C
<1>1. Len(s) \in Nat /\ DOMAIN s = 1 .. Len(s) /\ \A k \in DOMAIN s : s[k] \in C
    OBVIOUS
<1>2. IsFiniteSet(1 .. Len(s))
    BY <1>1, FS_Interval
<1> QED
    BY <1>1, <1>2

(* What there is to take, and what is taken.                                   *)
LEMMA Positions ==
    ASSUME NEW w, Placed(w)
    PROVE  /\ w.waypts \in Seq(Cells) /\ w.taken \in SUBSET DOMAIN w.waypts
           /\ DOMAIN w.waypts = 1 .. Len(w.waypts) /\ Len(w.waypts) \in Nat
           /\ IsFiniteSet(DOMAIN w.waypts) /\ IsFiniteSet(w.taken)
           /\ \A k \in DOMAIN w.waypts : w.waypts[k] \in Cells /\ w.waypts[k] \in Nat
<1>1. w.waypts \in Seq(Cells) /\ w.taken \in SUBSET DOMAIN w.waypts
    BY DEF Placed, World
<1>2. /\ Len(w.waypts) \in Nat /\ DOMAIN w.waypts = 1 .. Len(w.waypts)
      /\ IsFiniteSet(DOMAIN w.waypts) /\ \A k \in DOMAIN w.waypts : w.waypts[k] \in Cells
    BY <1>1, Listed
<1>3. IsFiniteSet(w.taken)
    BY <1>1, <1>2, FS_Subset
<1>4. Cells \subseteq Nat
    BY StartAssumption
<1> QED
    BY <1>1, <1>2, <1>3, <1>4

LEMMA DistanceTyped ==
    ASSUME NEW a \in Nat, NEW b \in Nat
    PROVE  Distance(a, b) \in Nat /\ (Distance(a, b) = 0 => a = b)
BY DEF Distance

(* The score of a position is 0 if it is taken, and positive if it is not in   *)
(* the cell of every taken one.                                                *)
LEMMA ScoreTyped ==
    ASSUME NEW w, Placed(w), NEW i \in DOMAIN w.waypts
    PROVE  /\ Score(w, i) \in Nat
           /\ i \in w.taken => Score(w, i) = 0
           /\ i \notin w.taken /\ (\E t \in w.taken : w.waypts[t] # w.waypts[i]) => Score(w, i) > 0
<1>1. w.taken \in SUBSET DOMAIN w.waypts /\ IsFiniteSet(w.taken)
    BY Positions
<1>2. \A k \in DOMAIN w.waypts : w.waypts[k] \in Nat
    BY Positions
<1>3. IsFiniteSet(w.taken)
    BY <1>1
<1> DEFINE f == [t \in w.taken |-> Distance(w.waypts[i], w.waypts[t])]
<1>4. f \in [w.taken -> Nat]
    BY <1>1, <1>2, DistanceTyped
<1>5. CASE i \in w.taken
    BY <1>5 DEF Score
<1>6. CASE i \notin w.taken
    <2>1. Score(w, i) = SumFunction(f)
        BY <1>6 DEF Score
    <2>2. \A t \in w.taken : f[t] = Distance(w.waypts[i], w.waypts[t])
        OBVIOUS
    <2> HIDE DEF f
    <2>3. SumFunction(f) \in Nat
        BY <1>3, <1>4, SumStep
    <2>4. ASSUME NEW t \in w.taken, w.waypts[t] # w.waypts[i] PROVE SumFunction(f) > 0
        <3>1. f[t] \in Nat /\ f[t] # 0
            BY <1>1, <1>2, <2>2, <2>4, DistanceTyped
        <3>2. SumFunction(f) = f[t] + SumFunction(Without(f, t)) /\ SumFunction(Without(f, t)) \in Nat
            BY <1>3, <1>4, SumStep
        <3> QED
            BY <3>1, <3>2
    <2> QED
        BY <1>6, <2>1, <2>3, <2>4
<1> QED
    BY <1>5, <1>6

(* Furthest is a position; it is a free one, and the best of them, if there is *)
(* one and all positions are in cells of their own.                            *)
LEMMA FurthestScores ==
    ASSUME NEW w, Placed(w), w.taken # {}
    PROVE  /\ Furthest(w) \in DOMAIN w.waypts
           /\ Injective(w.waypts) /\ w.taken # DOMAIN w.waypts =>
                /\ Furthest(w) \notin w.taken
                /\ \A i \in DOMAIN w.waypts : Score(w, i) <= Score(w, Furthest(w))
<1> DEFINE scores == {Score(w, i) : i \in DOMAIN w.waypts}
           top == Max(scores)
           best == {i \in DOMAIN w.waypts : Score(w, i) = top}
<1>1. /\ w.taken \in SUBSET DOMAIN w.waypts /\ IsFiniteSet(DOMAIN w.waypts)
      /\ DOMAIN w.waypts = 1 .. Len(w.waypts) /\ Len(w.waypts) \in Nat
    BY Positions
<1>2. scores \in SUBSET Nat /\ scores # {}
    <2>1. \A i \in DOMAIN w.waypts : Score(w, i) \in Nat
        BY ScoreTyped
    <2> QED
        BY <1>1, <2>1
<1>3. IsFiniteSet(scores)
    <2> DEFINE f == [i \in DOMAIN w.waypts |-> Score(w, i)]
    <2>1. f \in Surjection(DOMAIN w.waypts, scores)
        BY DEF Surjection
    <2> HIDE DEF f, scores
    <2> QED
        BY <1>1, <2>1, FS_Surjection
<1>4. top \in scores /\ \A y \in scores : top >= y
    <2> HIDE DEF scores
    <2> QED
        BY <1>2, <1>3, GreatestNatural
<1>5. best \in SUBSET Nat /\ best # {} /\ best \in SUBSET DOMAIN w.waypts
    <2>1. top \in scores
        BY <1>4
    <2> HIDE DEF top
    <2>2. PICK i \in DOMAIN w.waypts : Score(w, i) = top
        BY <2>1
    <2>3. i \in best /\ best \in SUBSET DOMAIN w.waypts
        BY <2>2
    <2>4. DOMAIN w.waypts \in SUBSET Nat
        BY <1>1
    <2> QED
        BY <2>3, <2>4
<1>6. Min(best) \in best
    <2> HIDE DEF best
    <2>1. \E x \in best : \A y \in best : x <= y
        BY <1>5, LeastNatural
    <2> QED
        BY <2>1 DEF Min
<1>7. Furthest(w) = IF top = 0 THEN Len(w.waypts) ELSE Min(best)
    BY DEF Furthest
<1>8. Furthest(w) \in DOMAIN w.waypts
    <2>1. Len(w.waypts) \in DOMAIN w.waypts
        BY <1>1
    <2> QED
        BY <1>5, <1>6, <1>7, <2>1
<1>9. ASSUME Injective(w.waypts), w.taken # DOMAIN w.waypts
      PROVE  /\ Furthest(w) \notin w.taken
             /\ \A i \in DOMAIN w.waypts : Score(w, i) <= Score(w, Furthest(w))
    <2>1. PICK i \in DOMAIN w.waypts : i \notin w.taken
        BY <1>1, <1>9
    <2>2. PICK t \in w.taken : TRUE
        OBVIOUS
    <2>3. w.waypts[t] # w.waypts[i]
        BY <1>1, <1>9, <2>1, <2>2 DEF Injective
    <2>4. Score(w, i) > 0 /\ Score(w, i) \in Nat
        BY <2>1, <2>2, <2>3, ScoreTyped
    <2>5. top \in Nat /\ top # 0
        BY <1>2, <1>4, <2>4
    <2>6. Score(w, Furthest(w)) = top
        BY <1>6, <1>7, <2>5
    <2>7. Furthest(w) \notin w.taken
        BY <1>8, <2>5, <2>6, ScoreTyped
    <2>8. ASSUME NEW j \in DOMAIN w.waypts PROVE Score(w, j) <= Score(w, Furthest(w))
        <3>1. Score(w, j) \in Nat /\ Score(w, j) \in scores
            BY ScoreTyped
        <3> QED
            BY <1>4, <2>5, <2>6, <3>1
    <2> QED
        BY <2>7, <2>8
<1> QED
    BY <1>8, <1>9

(* The score of a free position is the sum of its distances to the houses that *)
(* have started, since these are one to one with the positions taken.          *)
LEMMA ScoreIsFar ==
    ASSUME NEW w, Placed(w), Settled(w), Alone(w), Injective(w.waypts),
           NEW i \in DOMAIN w.waypts, i \notin w.taken
    PROVE  Score(w, i) = SumFunction([g \in Active(w) |-> Distance(w.waypts[i], w.start[g])])
<1> DEFINE f == [t \in w.taken |-> Distance(w.waypts[i], w.waypts[t])]
           b == [g \in Active(w) |-> CHOOSE t \in w.taken : w.start[g] = w.waypts[t]]
<1>1. /\ w.taken \in SUBSET DOMAIN w.waypts /\ IsFiniteSet(w.taken)
      /\ \A k \in DOMAIN w.waypts : w.waypts[k] \in Nat
    BY Positions
<1>2. IsFiniteSet(Active(w))
    <2>1. w.start \in Seq(Cells \cup {NoCell})
        BY DEF Placed, World
    <2>2. IsFiniteSet(DOMAIN w.start)
        BY <2>1, Listed
    <2> QED
        BY <2>2, FS_Subset DEF Active
<1>3. ASSUME NEW g \in Active(w)
      PROVE  b[g] \in w.taken /\ w.start[g] = w.waypts[b[g]]
    <2>1. \E t \in w.taken : w.start[g] = w.waypts[t]
        BY DEF Settled, Started, Active
    <2> QED
        BY <2>1
<1>4. \A g, h \in Active(w) : b[g] = b[h] => g = h
    <2>1. w.taken # DOMAIN w.waypts
        OBVIOUS
    <2> HIDE DEF b
    <2> QED
        BY <1>3, <2>1 DEF Alone
<1>5. ASSUME NEW t \in w.taken PROVE \E g \in Active(w) : b[g] = t
    <2>1. PICK g \in Active(w) : w.start[g] = w.waypts[t]
        BY DEF Settled
    <2> HIDE DEF b
    <2>2. b[g] \in w.taken /\ w.waypts[b[g]] = w.waypts[t]
        BY <1>3, <2>1
    <2> QED
        BY <1>1, <2>2 DEF Injective
<1>6. b \in Bijection(Active(w), w.taken)
    <2>1. b \in [Active(w) -> w.taken]
        BY <1>3
    <2> HIDE DEF b
    <2> QED
        BY <1>4, <1>5, <2>1 DEF Bijection, Injection, Surjection, IsInjective
<1>7. f \in [w.taken -> Nat]
    BY <1>1, DistanceTyped
<1>8. SumFunction([g \in Active(w) |-> f[b[g]]]) = SumFunction(f)
    <2> HIDE DEF f, b
    <2> QED
        BY <1>2, <1>6, <1>7, SumRenamed
<1>9. [g \in Active(w) |-> f[b[g]]] = [g \in Active(w) |-> Distance(w.waypts[i], w.start[g])]
    <2>1. ASSUME NEW g \in Active(w) PROVE f[b[g]] = Distance(w.waypts[i], w.start[g])
        <3>1. b[g] \in w.taken /\ w.start[g] = w.waypts[b[g]]
            BY <1>3
        <3> HIDE DEF b
        <3> QED
            BY <3>1
    <2> HIDE DEF f, b
    <2> QED
        BY <2>1
<1>10. Score(w, i) = SumFunction(f)
    BY DEF Score
<1> QED
    BY <1>8, <1>9, <1>10

-----------------------------------------------------------------------------
(* What an operation does to the positions a machine knows.                    *)

LEMMA UnplacedSettled ==
    ASSUME NEW w, Unplaced(w)
    PROVE  Settled(w) /\ Alone(w) /\ Apart(w)
<1>1. DOMAIN w.start = {} /\ w.taken = {}
    BY DEF Unplaced
<1>2. Active(w) = {}
    BY <1>1 DEF Active
<1> QED
    BY <1>1, <1>2 DEF Settled, Alone, Apart

(* Nothing of this looks at the houses that build by themselves.               *)
LEMMA AlikeSettled ==
    ASSUME NEW w, NEW u, Alike(u, w), Settled(w), Alone(w), Apart(w)
    PROVE  Settled(u) /\ Alone(u) /\ Apart(u)
<1>1. /\ u.houses = w.houses /\ u.waypts = w.waypts /\ u.taken = w.taken
      /\ u.start = w.start /\ u.spawn = w.spawn
    BY DEF Alike
<1>2. Active(u) = Active(w)
    BY <1>1 DEF Active
<1>3. Settled(u)
    BY <1>1, <1>2 DEF Settled, Started
<1>4. Alone(u)
    BY <1>1, <1>2 DEF Alone
<1>5. Apart(u)
    <2>1. \A h : Before(u, h) = Before(w, h)
        BY <1>2 DEF Before
    <2>2. \A h : FreeFor(u, h) = FreeFor(w, h)
        BY <1>1, <2>1 DEF FreeFor
    <2>3. \A h, c : Far(u, h, c) = Far(w, h, c)
        BY <1>1, <2>1 DEF Far
    <2>4. \A h : FurthestOf(w, h) => FurthestOf(u, h)
        BY <1>1, <2>2, <2>3 DEF FurthestOf
    <2> QED
        BY <1>1, <1>2, <2>4 DEF Apart
<1> QED
    BY <1>3, <1>4, <1>5

(* The next house gets its start and its spawn point.                          *)
Grows(w, u, c, p) ==
    /\ u.houses = w.houses /\ u.waypts = w.waypts
    /\ u.start = Append(w.start, c) /\ u.spawn = Append(w.spawn, p)

LEMMA GrowsBy ==
    ASSUME NEW w, Placed(w), Len(w.start) < Len(w.houses), NEW u, NEW c, NEW p, Grows(w, u, c, p)
    PROVE  LET n == Len(w.start) + 1 IN
           /\ n \in Nat /\ n \notin DOMAIN w.start /\ DOMAIN u.start = DOMAIN w.start \cup {n}
           /\ n <= Len(w.houses) /\ n \in DOMAIN w.houses
           /\ u.start[n] = c /\ u.spawn[n] = p
           /\ \A h \in DOMAIN w.start :
                h < n /\ u.start[h] = w.start[h] /\ u.spawn[h] = w.spawn[h]
           /\ w.houses[n].owner = Native => Active(u) = Active(w)
           /\ w.houses[n].owner # Native => Active(u) = Active(w) \cup {n}
           /\ Len(u.spawn) = Len(u.start) /\ Len(u.start) = n
<1> DEFINE n == Len(w.start) + 1
<1>1. PICK C, D, E : w.start \in Seq(C) /\ w.spawn \in Seq(D) /\ w.houses \in Seq(E)
    BY DEF Placed, World
<1>2. Len(w.spawn) = Len(w.start)
    BY DEF Placed
<1>3. u.start = Append(w.start, c) /\ u.spawn = Append(w.spawn, p) /\ u.houses = w.houses
    BY DEF Grows
<1>4. /\ Len(w.start) \in Nat /\ DOMAIN w.start = 1 .. Len(w.start)
      /\ DOMAIN u.start = 1 .. n /\ Len(u.start) = n
      /\ u.start[n] = c /\ \A h \in 1 .. Len(w.start) : u.start[h] = w.start[h]
    BY <1>1, <1>3
<1>5. /\ DOMAIN w.spawn = 1 .. Len(w.start) /\ Len(u.spawn) = n
      /\ u.spawn[n] = p /\ \A h \in 1 .. Len(w.start) : u.spawn[h] = w.spawn[h]
    BY <1>1, <1>2, <1>3
<1>6. Len(w.houses) \in Nat /\ DOMAIN w.houses = 1 .. Len(w.houses)
    BY <1>1
<1>7. n \in Nat /\ n \notin DOMAIN w.start /\ DOMAIN u.start = DOMAIN w.start \cup {n}
    BY <1>4
<1>8. n <= Len(w.houses) /\ n \in DOMAIN w.houses
    BY <1>4, <1>6
<1>9. \A h \in DOMAIN w.start : h < n
    BY <1>4
<1> HIDE DEF n
<1>10. /\ w.houses[n].owner = Native => Active(u) = Active(w)
       /\ w.houses[n].owner # Native => Active(u) = Active(w) \cup {n}
    BY <1>3, <1>7 DEF Active
<1> QED
    BY <1>4, <1>5, <1>7, <1>8, <1>9, <1>10 DEF n

(* The houses that have started are where they were, as far apart as before.   *)
LEMMA GrowsApart ==
    ASSUME NEW w, Placed(w), Len(w.start) < Len(w.houses), NEW u, NEW c, NEW p, Grows(w, u, c, p)
    PROVE  /\ \A h \in Active(w) : FurthestOf(w, h) => FurthestOf(u, h)
           /\ LET n == Len(w.start) + 1 IN
              /\ Before(u, n) = Active(w)
              /\ FreeFor(u, n) = {w.waypts[i] : i \in DOMAIN w.waypts} \ {w.start[g] : g \in Active(w)}
              /\ \A x : Far(u, n, x) = SumFunction([g \in Active(w) |-> Distance(x, w.start[g])])
<1> DEFINE n == Len(w.start) + 1
<1>1. /\ n \notin DOMAIN w.start
      /\ \A h \in DOMAIN w.start : h < n /\ u.start[h] = w.start[h]
      /\ Active(u) = Active(w) \/ Active(u) = Active(w) \cup {n}
      /\ n \in Nat
    BY GrowsBy
<1>2. Active(w) \subseteq DOMAIN w.start /\ u.waypts = w.waypts
    BY DEF Active, Grows
<1>3. DOMAIN w.start \subseteq Nat
    <2>1. PICK C : w.start \in Seq(C)
        BY DEF Placed, World
    <2> QED
        BY <2>1, Listed
<1>4. \A g \in Active(w) : u.start[g] = w.start[g] /\ g < n /\ g \in Nat
    BY <1>1, <1>2, <1>3
<1> HIDE DEF n
<1>5. Before(u, n) = Active(w)
    <2>1. ~(n < n)
        BY <1>1
    <2> QED
        BY <1>1, <1>4, <2>1 DEF Before
<1>6. \A h \in Active(w) : Before(u, h) = Before(w, h)
    <2>1. \A h \in Active(w) : ~(n < h)
        BY <1>1, <1>4
    <2> QED
        BY <1>1, <2>1 DEF Before
<1>7. ASSUME NEW h, NEW B, Before(u, h) = B, B \subseteq Active(w)
      PROVE  /\ FreeFor(u, h) = {w.waypts[i] : i \in DOMAIN w.waypts} \ {w.start[g] : g \in B}
             /\ \A x : Far(u, h, x) = SumFunction([g \in B |-> Distance(x, w.start[g])])
    <2>1. \A g \in B : u.start[g] = w.start[g]
        BY <1>4, <1>7
    <2>2. {u.start[g] : g \in B} = {w.start[g] : g \in B}
        BY <2>1
    <2>3. \A x : [g \in B |-> Distance(x, u.start[g])] = [g \in B |-> Distance(x, w.start[g])]
        BY <2>1
    <2>4. FreeFor(u, h) = {w.waypts[i] : i \in DOMAIN w.waypts} \ {w.start[g] : g \in B}
        BY <1>2, <1>7, <2>2 DEF FreeFor
    <2>5. \A x : Far(u, h, x) = SumFunction([g \in B |-> Distance(x, w.start[g])])
        BY <1>7, <2>3 DEF Far
    <2> QED
        BY <2>4, <2>5
<1>8. ASSUME NEW h \in Active(w), FurthestOf(w, h) PROVE FurthestOf(u, h)
    <2>1. Before(u, h) = Before(w, h) /\ Before(w, h) \subseteq Active(w)
        BY <1>6 DEF Before
    <2>2. FreeFor(u, h) = FreeFor(w, h) /\ \A x : Far(u, h, x) = Far(w, h, x)
        BY <1>7, <2>1 DEF FreeFor, Far
    <2> QED
        BY <1>4, <1>8, <2>2 DEF FurthestOf
<1>9. /\ FreeFor(u, n) = {w.waypts[i] : i \in DOMAIN w.waypts} \ {w.start[g] : g \in Active(w)}
      /\ \A x : Far(u, n, x) = SumFunction([g \in Active(w) |-> Distance(x, w.start[g])])
    BY <1>5, <1>7
<1> QED
    BY <1>5, <1>8, <1>9 DEF n

(* A house that is not passive starts from the position that is drawn for the  *)
(* first, and from the furthest afterwards.                                    *)
LEMMA SettleSettles ==
    ASSUME scenario \in [waypoint : Maps, official : BOOLEAN],
           NEW w, Placed(w), Len(w.start) < Len(w.houses),
           Settled(w), Alone(w), Apart(w),
           w.houses[Len(w.start) + 1].owner # Native,
           NEW i \in DOMAIN w.waypts, w.taken # {} => i = Furthest(w)
    PROVE  LET u == Settle(w, i) IN
             /\ Grows(w, u, w.waypts[i], SpawnPoint(w.waypts[i]))
             /\ Placed(u) /\ Settled(u) /\ Alone(u) /\ Apart(u)
             /\ u.used = w.used /\ u.building = w.building
<1> DEFINE n == Len(w.start) + 1
           c == w.waypts[i]
           u == Settle(w, i)
<1>1. /\ w.taken \in SUBSET DOMAIN w.waypts /\ DOMAIN w.waypts \subseteq Nat
      /\ c \in Cells
    <2>1. /\ w.taken \in SUBSET DOMAIN w.waypts /\ c \in Cells
          /\ DOMAIN w.waypts = 1 .. Len(w.waypts) /\ Len(w.waypts) \in Nat
        BY Positions
    <2>2. 1 .. Len(w.waypts) \subseteq Nat
        BY <2>1
    <2> QED
        BY <2>1, <2>2
<1>2. /\ u \in World /\ u.used = w.used /\ u.houses = w.houses /\ u.waypts = w.waypts
      /\ u.building = w.building /\ u.taken = w.taken \cup {i}
      /\ u.start = Append(w.start, c) /\ u.spawn = Append(w.spawn, SpawnPoint(c))
    <2>1. SpawnPoint(c) \in Waypoints \cup {NoWaypoint}
        BY <1>1, SpawnPointAt
    <2>2. /\ w \in World /\ w.start \in Seq(Cells \cup {NoCell})
          /\ w.spawn \in Seq(Waypoints \cup {NoWaypoint})
        BY DEF Placed, World
    <2>3. u = [w EXCEPT !.taken = w.taken \cup {i}, !.start = Append(w.start, c),
                        !.spawn = Append(w.spawn, SpawnPoint(c))]
        BY DEF Settle
    <2> HIDE DEF c, u
    <2>4. Append(w.start, c) \in Seq(Cells \cup {NoCell})
        BY <1>1, <2>2
    <2>5. Append(w.spawn, SpawnPoint(c)) \in Seq(Waypoints \cup {NoWaypoint})
        BY <2>1, <2>2
    <2>6. w.taken \cup {i} \in SUBSET Nat
        BY <1>1
    <2> DEFINE ts == w.taken \cup {i}
               s == Append(w.start, c)
               p == Append(w.spawn, SpawnPoint(c))
    <2>7. w \in World /\ ts \in SUBSET Nat /\ s \in Seq(Cells \cup {NoCell})
          /\ p \in Seq(Waypoints \cup {NoWaypoint})
          /\ u = [w EXCEPT !.taken = ts, !.start = s, !.spawn = p]
        BY <2>2, <2>3, <2>4, <2>5, <2>6
    <2> HIDE DEF ts, s, p
    <2>8. /\ u \in World
          /\ u.used = w.used /\ u.houses = w.houses /\ u.waypts = w.waypts
          /\ u.building = w.building /\ u.taken = ts /\ u.start = s /\ u.spawn = p
        BY <2>7 DEF World
    <2> QED
        BY <2>8 DEF ts, s, p
<1>3. Grows(w, u, c, SpawnPoint(c))
    BY <1>2 DEF Grows
<1> HIDE DEF u
<1>4. /\ n \notin DOMAIN w.start /\ DOMAIN u.start = DOMAIN w.start \cup {n}
      /\ n <= Len(w.houses) /\ u.start[n] = c /\ u.spawn[n] = SpawnPoint(c)
      /\ \A h \in DOMAIN w.start : u.start[h] = w.start[h] /\ u.spawn[h] = w.spawn[h]
      /\ Active(u) = Active(w) \cup {n}
      /\ Len(u.spawn) = Len(u.start) /\ Len(u.start) = n
    BY <1>3, GrowsBy
<1>5. Active(w) \subseteq DOMAIN w.start
    BY DEF Active
<1>6. Placed(u)
    <2>1. w.building \subseteq DOMAIN w.start
        BY DEF Placed
    <2> QED
        BY <1>1, <1>2, <1>4, <2>1 DEF Placed
<1>7. Settled(u)
    <2>1. ASSUME NEW h \in DOMAIN u.start PROVE Started(u, h)
        <3>1. CASE h = n
            BY <1>2, <1>4, <3>1 DEF Started
        <3>2. CASE h # n
            <4>1. h \in DOMAIN w.start /\ Started(w, h)
                BY <1>4, <3>2 DEF Settled
            <4>2. u.start[h] = w.start[h] /\ u.spawn[h] = w.spawn[h]
                BY <1>4, <4>1
            <4> QED
                BY <1>2, <4>1, <4>2 DEF Started
        <3> QED
            BY <3>1, <3>2
    <2>2. ASSUME NEW t \in u.taken PROVE \E h \in Active(u) : u.start[h] = u.waypts[t]
        <3>1. CASE t = i
            BY <1>2, <1>4, <3>1
        <3>2. CASE t # i
            <4>1. PICK h \in Active(w) : w.start[h] = w.waypts[t]
                BY <1>2, <3>2 DEF Settled
            <4> QED
                BY <1>2, <1>4, <1>5, <4>1
        <3> QED
            BY <3>1, <3>2
    <2> QED
        BY <2>1, <2>2 DEF Settled
\* The active houses are the starts of what is taken.
<1>8. \A h \in Active(w) : \E t \in w.taken : w.start[h] = w.waypts[t]
    BY DEF Settled, Started, Active
<1>9. ASSUME Injective(w.waypts), w.taken # DOMAIN w.waypts
      PROVE  i \notin w.taken /\ \A h \in Active(w) : w.start[h] # c
    <2>1. i \notin w.taken
        BY <1>9, FurthestScores
    <2> QED
        BY <1>1, <1>8, <1>9, <2>1 DEF Injective
<1>10. Alone(u)
    <2> SUFFICES ASSUME Injective(u.waypts), u.taken # DOMAIN u.waypts,
                        NEW g \in Active(u), NEW h \in Active(u), u.start[g] = u.start[h]
                 PROVE  g = h
        BY DEF Alone
    <2>1. Injective(w.waypts) /\ w.taken # DOMAIN w.waypts
        BY <1>1, <1>2
    <2>2. \A k \in Active(w) : w.start[k] # c
        BY <1>9, <2>1
    <2>3. \A k \in Active(w) : u.start[k] = w.start[k]
        BY <1>4, <1>5
    <2>4. CASE g = n \/ h = n
        BY <1>4, <2>2, <2>3, <2>4
    <2>5. CASE g \in Active(w) /\ h \in Active(w)
        BY <2>1, <2>3, <2>5 DEF Alone
    <2> QED
        BY <1>4, <2>4, <2>5
<1>11. Apart(u)
    <2> SUFFICES ASSUME Injective(w.waypts), NEW h \in Active(u) PROVE FurthestOf(u, h)
        BY <1>2 DEF Apart
    <2>1. CASE h \in Active(w)
        <3>1. FurthestOf(w, h)
            BY <2>1 DEF Apart
        <3> QED
            BY <1>3, <2>1, <3>1, GrowsApart
    <2>2. CASE h = n
        <3> DEFINE free == {w.waypts[k] : k \in DOMAIN w.waypts} \ {w.start[g] : g \in Active(w)}
                   far(x) == SumFunction([g \in Active(w) |-> Distance(x, w.start[g])])
        <3>1. FreeFor(u, n) = free /\ \A x : Far(u, n, x) = far(x)
            BY <1>3, GrowsApart
        <3> SUFFICES ASSUME free # {} PROVE c \in free /\ \A x \in free : far(x) <= far(c)
            <4>1. u.start[h] = c
                BY <1>4, <2>2
            <4> HIDE DEF n, c, free, far
            <4>2. FreeFor(u, h) = free /\ \A x : Far(u, h, x) = far(x)
                BY <2>2, <3>1
            <4> QED
                BY <4>1, <4>2 DEF FurthestOf
        <3>2. w.taken # DOMAIN w.waypts
            <4>1. PICK k \in DOMAIN w.waypts : \A g \in Active(w) : w.start[g] # w.waypts[k]
                OBVIOUS
            <4>2. k \notin w.taken
                BY <4>1 DEF Settled
            <4> QED
                BY <4>2
        <3>3. i \notin w.taken /\ c \in free
            BY <1>9, <3>2
        <3>4. ASSUME NEW k \in DOMAIN w.waypts, w.waypts[k] \in free
              PROVE  far(w.waypts[k]) <= far(c)
            <4>1. k \notin w.taken
                <5>1. \A g \in Active(w) : w.start[g] # w.waypts[k]
                    BY <3>4
                <5> QED
                    BY <5>1 DEF Settled
            <4>2. Score(w, k) = far(w.waypts[k]) /\ Score(w, i) = far(c)
                BY <3>3, <4>1, ScoreIsFar
            <4>3. Score(w, k) \in Nat /\ Score(w, i) \in Nat
                BY ScoreTyped
            <4>4. CASE w.taken = {}
                <5>1. Active(w) = {}
                    BY <1>8, <4>4
                <5>2. far(w.waypts[k]) = far(c)
                    <6> DEFINE none == [g \in {} |-> 0]
                    <6>1. \A x : [g \in Active(w) |-> Distance(x, w.start[g])] = none
                        BY <5>1
                    <6> QED
                        BY <6>1
                <5> QED
                    BY <4>2, <4>3, <5>2
            <4>5. CASE w.taken # {}
                <5>1. i = Furthest(w) /\ \A j \in DOMAIN w.waypts : Score(w, j) <= Score(w, Furthest(w))
                    BY <3>2, <4>5, FurthestScores
                <5>2. Score(w, k) <= Score(w, i)
                    BY <5>1
                <5> QED
                    BY <4>2, <5>2
            <4> QED
                BY <4>4, <4>5
        <3> QED
            BY <3>3, <3>4
    <2> QED
        BY <1>4, <2>1, <2>2
<1> QED
    BY <1>2, <1>3, <1>6, <1>7, <1>10, <1>11 DEF u

(* A passive house starts nowhere.                                             *)
LEMMA SkipSettles ==
    ASSUME NEW w, Placed(w), Len(w.start) < Len(w.houses),
           Settled(w), Alone(w), Apart(w), w.houses[Len(w.start) + 1].owner = Native
    PROVE  LET u == SkipPassive(w) IN Placed(u) /\ Settled(u) /\ Alone(u) /\ Apart(u)
<1> DEFINE n == Len(w.start) + 1
           u == SkipPassive(w)
<1>1. /\ u \in World /\ u.used = w.used /\ u.houses = w.houses /\ u.waypts = w.waypts
      /\ u.building = w.building /\ u.taken = w.taken
      /\ u.start = Append(w.start, NoCell) /\ u.spawn = Append(w.spawn, NoWaypoint)
    <2> DEFINE s == Append(w.start, NoCell)
               p == Append(w.spawn, NoWaypoint)
    <2>1. /\ w \in World /\ w.start \in Seq(Cells \cup {NoCell})
          /\ w.spawn \in Seq(Waypoints \cup {NoWaypoint})
        BY DEF Placed, World
    <2>2. s \in Seq(Cells \cup {NoCell}) /\ p \in Seq(Waypoints \cup {NoWaypoint})
        BY <2>1
    <2>3. u = [w EXCEPT !.start = s, !.spawn = p]
        BY DEF SkipPassive
    <2> HIDE DEF s, p, u
    <2>4. /\ u \in World /\ u.used = w.used /\ u.houses = w.houses /\ u.waypts = w.waypts
          /\ u.building = w.building /\ u.taken = w.taken /\ u.start = s /\ u.spawn = p
        BY <2>1, <2>2, <2>3 DEF World
    <2> QED
        BY <2>4 DEF s, p
<1> HIDE DEF u
<1>2. Grows(w, u, NoCell, NoWaypoint)
    BY <1>1 DEF Grows
<1>3. /\ n \notin DOMAIN w.start /\ DOMAIN u.start = DOMAIN w.start \cup {n}
      /\ n <= Len(w.houses) /\ u.spawn[n] = NoWaypoint
      /\ \A h \in DOMAIN w.start : u.start[h] = w.start[h] /\ u.spawn[h] = w.spawn[h]
      /\ Active(u) = Active(w)
      /\ Len(u.spawn) = Len(u.start) /\ Len(u.start) = n
    BY <1>2, GrowsBy
<1>4. \A h \in Active(w) : u.start[h] = w.start[h]
    BY <1>3 DEF Active
<1>5. Placed(u)
    <2>1. w.taken \subseteq DOMAIN w.waypts /\ w.building \subseteq DOMAIN w.start
        BY DEF Placed
    <2> QED
        BY <1>1, <1>3, <2>1 DEF Placed
<1>6. Settled(u)
    <2>1. ASSUME NEW h \in DOMAIN u.start PROVE Started(u, h)
        <3>1. CASE h = n
            BY <1>1, <1>3, <3>1 DEF Started
        <3>2. CASE h # n
            <4>1. h \in DOMAIN w.start /\ Started(w, h)
                BY <1>3, <3>2 DEF Settled
            <4>2. u.start[h] = w.start[h] /\ u.spawn[h] = w.spawn[h]
                BY <1>3, <4>1
            <4> QED
                BY <1>1, <4>1, <4>2 DEF Started
        <3> QED
            BY <3>1, <3>2
    <2>2. \A t \in u.taken : \E h \in Active(u) : u.start[h] = u.waypts[t]
        <3> TAKE t \in u.taken
        <3>1. PICK h \in Active(w) : w.start[h] = w.waypts[t]
            BY <1>1 DEF Settled
        <3> QED
            BY <1>1, <1>3, <1>4, <3>1
    <2> QED
        BY <2>1, <2>2 DEF Settled
<1>7. Alone(u)
    BY <1>1, <1>3, <1>4 DEF Alone
<1>8. Apart(u)
    <2>1. \A h \in Active(w) : FurthestOf(w, h) => FurthestOf(u, h)
        BY <1>2, GrowsApart
    <2> QED
        BY <1>1, <1>3, <2>1 DEF Apart
<1> QED
    BY <1>5, <1>6, <1>7, <1>8 DEF u

(* Whether a base builds by itself changes nothing else.                       *)
LEMMA BaseSettles ==
    ASSUME NEW m, NEW w, Placed(w), NEW h \in DOMAIN w.start
    PROVE  Placed(PlaceBase(m, w, h)) /\ Alike(PlaceBase(m, w, h), w)
<1> DEFINE more == w.building \cup {h}
<1>1. w \in World /\ w.start \in Seq(Cells \cup {NoCell}) /\ w.building \in SUBSET DOMAIN w.start
    BY DEF Placed, World
<1>2. DOMAIN w.start = 1 .. Len(w.start) /\ Len(w.start) \in Nat
    BY <1>1, Listed
<1>3. more \in SUBSET Nat /\ more \subseteq DOMAIN w.start
    BY <1>1, <1>2
<1>4. PlaceBase(m, w, h) = w \/ PlaceBase(m, w, h) = [w EXCEPT !.building = more]
    BY DEF PlaceBase
<1> HIDE DEF more
<1> DEFINE u == [w EXCEPT !.building = more]
<1>5. /\ u \in World /\ u.used = w.used /\ u.houses = w.houses /\ u.waypts = w.waypts
      /\ u.building = more /\ u.taken = w.taken /\ u.start = w.start /\ u.spawn = w.spawn
    BY <1>1, <1>3 DEF World
<1> HIDE DEF u
<1>6. Placed(u) /\ Alike(u, w)
    BY <1>3, <1>5 DEF Placed, Alike
<1>7. Alike(w, w)
    BY DEF Alike
<1> QED
    BY <1>4, <1>6, <1>7 DEF u

(* One pass of the loop over Houses.                                           *)
LEMMA PassSettles ==
    ASSUME scenario \in [waypoint : Maps, official : BOOLEAN],
           NEW m \in Players, NEW pick \in DOMAIN world[m].waypts,
           Placed(world[m]), Len(world[m].start) < Len(world[m].houses),
           Settled(world[m]), Alone(world[m]), Apart(world[m])
    PROVE  LET u == NextHouse(m, pick) IN Placed(u) /\ Settled(u) /\ Alone(u) /\ Apart(u)
<1> DEFINE w == world[m]
           h == Len(w.start) + 1
           i == IF w.taken = {} THEN pick ELSE Furthest(w)
<1>1. CASE w.houses[h].owner = Native
    <2>1. NextHouse(m, pick) = SkipPassive(w)
        BY <1>1 DEF NextHouse
    <2> QED
        BY <1>1, <2>1, SkipSettles
<1>2. CASE w.houses[h].owner # Native
    <2> DEFINE v == Settle(w, i)
    <2>1. NextHouse(m, pick) = PlaceBase(m, v, h)
        BY <1>2 DEF NextHouse
    <2>2. i \in DOMAIN w.waypts /\ (w.taken # {} => i = Furthest(w))
        BY FurthestScores
    <2>3. /\ Grows(w, v, w.waypts[i], SpawnPoint(w.waypts[i]))
          /\ Placed(v) /\ Settled(v) /\ Alone(v) /\ Apart(v)
        <3> HIDE DEF w, i
        <3>1. /\ Placed(w) /\ Len(w.start) < Len(w.houses) /\ Settled(w) /\ Alone(w) /\ Apart(w)
              /\ w.houses[Len(w.start) + 1].owner # Native
            BY <1>2 DEF w
        <3> QED
            BY <2>2, <3>1, SettleSettles
    <2> HIDE DEF v
    <2>4. h \in DOMAIN v.start
        BY <2>3, GrowsBy
    <2>5. Placed(PlaceBase(m, v, h)) /\ Alike(PlaceBase(m, v, h), v)
        BY <2>3, <2>4, BaseSettles
    <2> QED
        BY <2>1, <2>3, <2>5, AlikeSettled
<1> QED
    BY <1>1, <1>2

(* Machines that know the same houses and positions go on with the same.       *)
LEMMA FurthestAlike ==
    ASSUME NEW u, NEW w, Alike(u, w)
    PROVE  Furthest(u) = Furthest(w)
<1>1. u.waypts = w.waypts /\ u.taken = w.taken
    BY DEF Alike
<1>2. \A i : Score(u, i) = Score(w, i)
    BY <1>1 DEF Score
<1>3. {Score(u, i) : i \in DOMAIN u.waypts} = {Score(w, i) : i \in DOMAIN w.waypts}
    BY <1>1, <1>2
<1>4. \A top : {i \in DOMAIN u.waypts : Score(u, i) = top} = {i \in DOMAIN w.waypts : Score(w, i) = top}
    BY <1>1, <1>2
<1> QED
    BY <1>1, <1>3, <1>4 DEF Furthest

LEMMA SettleAlike ==
    ASSUME NEW u \in World, NEW w \in World, Alike(u, w), NEW i
    PROVE  /\ Alike(Settle(u, i), Settle(w, i)) /\ Alike(SkipPassive(u), SkipPassive(w))
           /\ DOMAIN Settle(u, i) = DOMAIN u
BY DEF Settle, SkipPassive, Alike, World

LEMMA BaseAlike ==
    ASSUME NEW m, NEW n, NEW u, NEW w, Alike(u, w), NEW h,
           "building" \in DOMAIN u, "building" \in DOMAIN w
    PROVE  Alike(PlaceBase(m, u, h), PlaceBase(n, w, h))
BY DEF PlaceBase, Alike

LEMMA PassAlike ==
    ASSUME NEW m \in Players, NEW n \in Players, NEW pick,
           Placed(world[m]), Placed(world[n]), Alike(world[m], world[n])
    PROVE  Alike(NextHouse(m, pick), NextHouse(n, pick))
<1> DEFINE u == world[m]
           w == world[n]
           h == Len(w.start) + 1
           i == IF w.taken = {} THEN pick ELSE Furthest(w)
<1>1. /\ u \in World /\ w \in World /\ Alike(u, w)
      /\ u.start = w.start /\ u.houses = w.houses /\ u.taken = w.taken
    BY DEF Placed, Alike
<1>2. Furthest(u) = Furthest(w)
    BY FurthestAlike
<1>3. CASE w.houses[h].owner = Native
    <2>1. NextHouse(m, pick) = SkipPassive(u) /\ NextHouse(n, pick) = SkipPassive(w)
        BY <1>1, <1>3 DEF NextHouse
    <2> QED
        BY <1>1, <2>1, SettleAlike
<1>4. CASE w.houses[h].owner # Native
    <2>1. /\ NextHouse(m, pick) = PlaceBase(m, Settle(u, i), h)
          /\ NextHouse(n, pick) = PlaceBase(n, Settle(w, i), h)
        BY <1>1, <1>2, <1>4 DEF NextHouse
    <2>2. /\ Alike(Settle(u, i), Settle(w, i))
          /\ DOMAIN Settle(u, i) = DOMAIN u /\ DOMAIN Settle(w, i) = DOMAIN w
        <3>1. Alike(w, w)
            BY DEF Alike
        <3> QED
            BY <1>1, <3>1, SettleAlike
    <2>3. "building" \in DOMAIN u /\ "building" \in DOMAIN w
        BY <1>1 DEF World
    <2> QED
        BY <2>1, <2>2, <2>3, BaseAlike
<1> QED
    BY <1>3, <1>4

-----------------------------------------------------------------------------
(* The invariant of the starting positions.                                    *)

LEMMA EmptyPlaced == Placed(Empty) /\ Unplaced(Empty)
<1>1. Empty \in World
    BY DEF Empty, World
<1> QED
    BY <1>1 DEF Empty, Placed, Unplaced

(* Before the first position is given out, the rest may change.                *)
LEMMA StillUnplaced ==
    ASSUME NEW w, Unplaced(w), NEW u \in World,
           u.taken = w.taken, u.start = w.start, u.spawn = w.spawn, u.building = w.building
    PROVE  Placed(u) /\ Unplaced(u)
<1>1. Len(u.houses) \in Nat /\ Len(<<>>) = 0
    BY DEF World
<1> QED
    BY <1>1 DEF Placed, Unplaced

LEMMA HouseKeepsUnplaced ==
    ASSUME NEW w, Placed(w), Unplaced(w), NEW owner \in Players \cup {Computer, Native},
           NEW c \in Colors
    PROVE  Placed(AddHouse(w, owner, c)) /\ Unplaced(AddHouse(w, owner, c))
<1> DEFINE hs == Append(w.houses, [owner |-> owner, color |-> c])
           cs == w.used \cup {c}
<1>1. c # NoColor /\ [owner |-> owner, color |-> c] \in House
    BY StartAssumption DEF Colors, NoColor, House
<1>2. w.houses \in Seq(House) /\ w.used \in SUBSET Colors /\ w.waypts \in Seq(Cells)
    BY DEF Placed, World
<1>3. hs \in Seq(House) /\ cs \in SUBSET Colors
    BY <1>1, <1>2
<1>4. AddHouse(w, owner, c) = [w EXCEPT !.used = cs, !.houses = hs]
    BY <1>1 DEF AddHouse
<1> HIDE DEF hs, cs
<1> DEFINE u == [w EXCEPT !.used = cs, !.houses = hs]
<1>5. w \in World
    BY DEF Placed
<1>6. /\ u \in World /\ u.taken = w.taken /\ u.start = w.start
      /\ u.spawn = w.spawn /\ u.building = w.building
    BY <1>3, <1>5 DEF World
<1> HIDE DEF u
<1>7. Placed(u) /\ Unplaced(u)
    BY <1>6, StillUnplaced
<1> QED
    BY <1>4, <1>7 DEF u

LEMMA NativesKeepUnplaced ==
    ASSUME NEW w, Placed(w), Unplaced(w)
    PROVE  Placed(AddNatives(w)) /\ Unplaced(AddNatives(w))
<1> DEFINE more == [k \in 1 .. Natives |-> [owner |-> Native, color |-> NoColor]]
           hs == w.houses \o more
<1>1. more \in Seq(House)
    <2>1. [owner |-> Native, color |-> NoColor] \in House /\ Natives \in Nat
        BY StartAssumption DEF House
    <2> QED
        BY <2>1
<1>2. w.houses \in Seq(House) /\ w.used \in SUBSET Colors /\ w.waypts \in Seq(Cells)
    BY DEF Placed, World
<1>3. hs \in Seq(House)
    <2> HIDE DEF more
    <2> QED
        BY <1>1, <1>2, ConcatProperties
<1>4. AddNatives(w) = [w EXCEPT !.houses = hs]
    BY DEF AddNatives
<1> HIDE DEF hs
<1> DEFINE u == [w EXCEPT !.houses = hs]
<1>5. w \in World
    BY DEF Placed
<1>6. /\ u \in World /\ u.taken = w.taken /\ u.start = w.start
      /\ u.spawn = w.spawn /\ u.building = w.building
    BY <1>3, <1>5 DEF World
<1> HIDE DEF u
<1>7. Placed(u) /\ Unplaced(u)
    BY <1>6, StillUnplaced
<1> QED
    BY <1>4, <1>7 DEF u

LEMMA WaypointsKeepUnplaced ==
    ASSUME NEW w, Placed(w), Unplaced(w), NEW ws \in Seq(Cells)
    PROVE  Placed(WithWaypts(w, ws)) /\ Unplaced(WithWaypts(w, ws))
<1> DEFINE u == [w EXCEPT !.waypts = ws]
<1>1. w \in World
    BY DEF Placed
<1>2. /\ u \in World /\ u.taken = w.taken /\ u.start = w.start
      /\ u.spawn = w.spawn /\ u.building = w.building
    BY <1>1 DEF World
<1> HIDE DEF u
<1>3. Placed(u) /\ Unplaced(u)
    BY <1>2, StillUnplaced
<1> QED
    BY <1>3 DEF u, WithWaypts

(* Every game begins so.                                                       *)
LEMMA InitStart == Init => StartInv
<1> SUFFICES ASSUME Init PROVE StartInv
    OBVIOUS
<1>1. IInv
    BY InitReady
<1>2. /\ computers \in 0 .. MaxComputers /\ scenario \in [waypoint : Maps, official : BOOLEAN]
      /\ phase = "players" /\ missing = 0
    BY DEF Init
<1>3. missing \in 0 .. MaxPlayers /\ list \in [Players -> [1 .. N -> Players]]
    <2>1. list \in [Players -> UNION {Lists(m) : m \in Players}]
        BY DEF Init
    <2>2. \A m \in Players : Lists(m) \subseteq [1 .. N -> Players]
        BY DEF Lists
    <2> QED
        BY <1>2, <2>1, <2>2, StartAssumption
<1>4. ASSUME NEW m \in Players
      PROVE  /\ world[m] = Empty /\ Seated(m) /\ Placed(world[m]) /\ Unplaced(world[m])
             /\ Settled(world[m]) /\ Alone(world[m]) /\ Apart(world[m])
    <2>1. world[m] = Empty /\ desk[m] = [assigned |-> {}, house |-> 0]
        BY DEF Init
    <2>2. N \in Nat
        BY StartAssumption, FS_CardinalityType DEF N
    <2>3. Cardinality({}) = 0 /\ Len(<<>>) = 0
        BY FS_EmptySet
    <2>4. Seated(m)
        BY <2>1, <2>2, <2>3 DEF Seated, Empty
    <2> QED
        BY <2>1, <2>4, EmptyPlaced, UnplacedSettled
<1>5. AllAlike
    BY <1>4 DEF Alike, AllAlike
<1> QED
    BY <1>1, <1>2, <1>3, <1>4, <1>5 DEF StartInv, Good, Phases

(* Worlds that are alike stay so when the same is done to them.                *)
LEMMA OperationsAlike ==
    ASSUME NEW u \in World, NEW w \in World, Alike(u, w)
    PROVE  /\ \A owner, c : Alike(AddHouse(u, owner, c), AddHouse(w, owner, c))
           /\ \A c : Alike(ColorDrawn(u, c), ColorDrawn(w, c))
           /\ Alike(AddNatives(u), AddNatives(w))
           /\ \A ws : Alike(WithWaypts(u, ws), WithWaypts(w, ws))
<1>1. \A owner, c : Alike(AddHouse(u, owner, c), AddHouse(w, owner, c))
    BY DEF AddHouse, Alike, World
<1>2. \A c : Alike(ColorDrawn(u, c), ColorDrawn(w, c))
    BY <1>1 DEF ColorDrawn, Alike
<1>3. Alike(AddNatives(u), AddNatives(w))
    BY DEF AddNatives, Alike, World
<1>4. \A ws : Alike(WithWaypts(u, ws), WithWaypts(w, ws))
    BY DEF Alike, World, WithWaypts
<1> QED
    BY <1>1, <1>2, <1>3, <1>4

(* What holds of the next world holds after the step.                          *)
LEMMA NextGood ==
    ASSUME scenario' = scenario, NEW m \in Players, Seated(m)', Placed(world'[m]),
           ~PlacingBegun' => Unplaced(world'[m]),
           Settled(world'[m]), Alone(world'[m]), Apart(world'[m])
    PROVE  Good(m)'
<1>1. Settled(world[m])'
    BY DEF Settled, Started, SpawnPoint, Active
<1>2. Alone(world[m])' /\ Apart(world[m])'
    BY DEF Alone, Apart, FurthestOf, FreeFor, Far, Before, Active
<1>3. Placed(world[m])'
    BY DEF Placed, World
<1>4. ~PlacingBegun' => Unplaced(world[m])'
    BY DEF Unplaced
<1> QED
    BY <1>1, <1>2, <1>3, <1>4 DEF Good

LEMMA EarlyGood ==
    ASSUME scenario' = scenario, NEW m \in Players, Seated(m)',
           Placed(world'[m]), Unplaced(world'[m])
    PROVE  Good(m)'
BY NextGood, UnplacedSettled

LEMMA SameGood ==
    ASSUME scenario' = scenario, NEW m \in Players, Good(m), world'[m] = world[m],
           desk'[m] = desk[m], phase' = "players" => phase = "players", PlacingBegun => PlacingBegun'
    PROVE  Good(m)'
<1>1. Seated(m)'
    BY DEF Good, Seated
<1> QED
    BY <1>1, NextGood DEF Good

(* A machine assigns the next player: the same on all.                         *)
LEMMA AssignStart ==
    ASSUME StartInv, AssignPlayer
    PROVE  AllAlike' /\ \A m \in Players : Good(m)'
<1>1. /\ IInv /\ Lobby /\ phase = "players" /\ phase' = phase /\ scenario' = scenario
      /\ ~PlacingBegun /\ N \in Nat
    BY StartAssumption, FS_CardinalityType DEF StartInv, IInv, AssignPlayer, PlacingBegun, lobby, N
<1>2. PICK k \in Players : desk[k].assigned # DOMAIN list[k]
    BY DEF AssignPlayer
<1>3. Assigned(k) # Players
    <2>1. DOMAIN list[k] = 1 .. N
        BY <1>1 DEF Lobby, Lists
    <2>2. desk[k].assigned \subseteq 1 .. N
        BY <1>1 DEF IInv, Ready
    <2> QED
        BY <1>1, <1>2, <2>1, <2>2, AllAssigned
<1>4. ASSUME NEW m \in Players
      PROVE  /\ desk[m].assigned \subseteq 1 .. N /\ desk[m].assigned # 1 .. N
             /\ Assigned(m) = Assigned(k)
    <2>1. desk[m].assigned \subseteq 1 .. N /\ Assigned(m) = Assigned(k)
        BY <1>1 DEF IInv, Ready, InStep
    <2> QED
        BY <1>1, <1>3, <2>1, AllAssigned
<1> DEFINE p == list[k][LowestColor(k)]
<1>5. ASSUME NEW m \in Players PROVE list[m][LowestColor(m)] = p
    BY <1>1, <1>4, LowestSame
<1>6. p \in Players /\ color[p] \in Colors
    <2>1. p \in Players
        BY <1>1, <1>4, LowestIsLowest
    <2> QED
        BY <1>1, <2>1 DEF Lobby
<1> HIDE DEF p
<1>7. ASSUME NEW m \in Players PROVE world'[m] = AddHouse(world[m], p, color[p])
    BY <1>5 DEF AssignPlayer
<1>8. ASSUME NEW m \in Players
      PROVE  Placed(world[m]) /\ Unplaced(world[m]) /\ Seated(m) /\ world[m] \in World
    BY <1>1 DEF StartInv, Good, Placed
<1>9. AllAlike'
    <2>1. ASSUME NEW m \in Players, NEW n \in Players PROVE Alike(world'[m], world'[n])
        BY <1>7, <1>8, OperationsAlike DEF StartInv, AllAlike
    <2> QED
        BY <2>1 DEF AllAlike, Alike
<1>10. ASSUME NEW m \in Players PROVE Seated(m)'
    <2> DEFINE i == LowestColor(m)
               S == desk[m].assigned
               L == Len(world[m].houses)
    <2>1. i \in 1 .. N /\ i \notin S /\ S \subseteq 1 .. N
        BY <1>1, <1>4, LowestIsLowest
    <2>2. desk'[m] = TakeSeat(m, i)
        BY DEF AssignPlayer
    <2>3. Len(world'[m].houses) = L + 1 /\ L \in Nat
        <3>1. world[m] \in World
            BY <1>8
        <3>2. world[m].houses \in Seq(House)
            BY <3>1 DEF World
        <3>3. world'[m].houses = Append(world[m].houses, [owner |-> p, color |-> color[p]])
            BY <1>7, <3>1 DEF AddHouse, World
        <3> QED
            BY <3>2, <3>3
    <2>4. L = Cardinality(S) /\ desk[m].house \in 0 .. N
        BY <1>1, <1>8 DEF Seated
    <2> HIDE DEF i
    <2>5. IsFiniteSet(1 .. N) /\ Cardinality(1 .. N) = N
        BY <1>1, FS_Interval
    <2>6. IsFiniteSet(S) /\ Cardinality(S \cup {i}) = L + 1
        BY <2>1, <2>4, <2>5, FS_Subset, FS_AddElement
    <2>7. L + 1 <= N
        <3>1. S \cup {i} \subseteq 1 .. N
            BY <2>1
        <3>2. Cardinality(S \cup {i}) <= N
            BY <2>5, <3>1, FS_Subset
        <3> QED
            BY <2>6, <3>2
    <2>8. desk'[m].assigned = S \cup {i} /\ desk'[m].house \in {L + 1, desk[m].house}
        BY <2>2 DEF TakeSeat
    <2>9. desk'[m].house \in 0 .. N
        BY <1>1, <2>3, <2>4, <2>7, <2>8
    <2> QED
        BY <2>3, <2>6, <2>8, <2>9 DEF Seated
<1>11. ASSUME NEW m \in Players PROVE Good(m)'
    <2>1. Placed(world'[m]) /\ Unplaced(world'[m])
        BY <1>6, <1>7, <1>8, HouseKeepsUnplaced
    <2> QED
        BY <1>1, <1>10, <2>1, EarlyGood
<1> QED
    BY <1>9, <1>11

(* Before the positions are given out, all machines do the same to worlds that *)
(* are alike.                                                                  *)
LEMMA EarlyStart ==
    ASSUME StartInv, scenario' = scenario, desk' = desk, ~PlacingBegun,
           phase' # "players",
           \A m \in Players : Placed(world'[m]) /\ Unplaced(world'[m]),
           \A m, n \in Players : Alike(world'[m], world'[n])
    PROVE  AllAlike' /\ \A m \in Players : Good(m)'
<1>1. \A m \in Players : Seated(m)'
    BY DEF StartInv, Good, Seated
<1>2. \A m \in Players : Good(m)'
    BY <1>1, EarlyGood
<1>3. AllAlike'
    BY DEF AllAlike, Alike
<1> QED
    BY <1>2, <1>3

(* All machines give the next house its position.                              *)
LEMMA PlaceStart ==
    ASSUME StartInv, PlaceHouse
    PROVE  AllAlike' /\ \A m \in Players : Good(m)'
<1>1. phase = "starts" /\ phase' = phase /\ desk' = desk /\ scenario' = scenario
    BY DEF PlaceHouse, lobby
<1>2. PICK pick \in 1 .. Max({Len(world[m].waypts) : m \in Players}) :
        world' = [m \in Players |-> NextHouse(m, pick)]
    BY DEF PlaceHouse
<1>3. PICK k \in Players : Len(world[k].start) < Len(world[k].houses)
    BY DEF PlaceHouse
<1>4. ASSUME NEW m \in Players, NEW n \in Players PROVE Alike(world[m], world[n])
    BY DEF StartInv, AllAlike
<1>5. ASSUME NEW m \in Players
      PROVE  /\ Seated(m) /\ Placed(world[m])
             /\ Settled(world[m]) /\ Alone(world[m]) /\ Apart(world[m])
    BY DEF StartInv, Good
<1>6. ASSUME NEW m \in Players PROVE Len(world[m].start) < Len(world[m].houses)
    BY <1>3, <1>4 DEF Alike
<1>7. ASSUME NEW m \in Players PROVE pick \in DOMAIN world[m].waypts
    <2> DEFINE L == Len(world[m].waypts)
    <2>1. DOMAIN world[m].waypts = 1 .. L /\ L \in Nat
        BY <1>5, Positions
    <2>2. \A n \in Players : Len(world[n].waypts) = L
        BY <1>4 DEF Alike
    <2> HIDE DEF L
    <2>3. {Len(world[n].waypts) : n \in Players} = {L}
        BY <2>2
    <2>4. Max({L}) = L
        <3>1. \A x, y \in {L} : x >= y
            BY <2>1
        <3> QED
            BY <3>1 DEF Max
    <2> QED
        BY <2>1, <2>3, <2>4
<1>8. ASSUME NEW m \in Players PROVE Good(m)'
    <2>1. scenario \in [waypoint : Maps, official : BOOLEAN]
        BY DEF StartInv
    <2>2. world'[m] = NextHouse(m, pick)
        BY <1>2
    <2>3. /\ Placed(world'[m])
          /\ Settled(world'[m]) /\ Alone(world'[m]) /\ Apart(world'[m])
        BY <1>5, <1>6, <1>7, <2>1, <2>2, PassSettles
    <2>4. Seated(m)' /\ PlacingBegun'
        BY <1>1, <1>5 DEF Seated, PlacingBegun
    <2> QED
        BY <1>1, <2>3, <2>4, NextGood
<1>9. ASSUME NEW m \in Players, NEW n \in Players PROVE Alike(world'[m], world'[n])
    BY <1>2, <1>4, <1>5, PassAlike
<1>10. AllAlike'
    BY <1>9 DEF AllAlike, Alike
<1> QED
    BY <1>8, <1>10

(* Every step keeps the invariant.                                             *)
LEMMA StepStart == StartInv /\ [Next]_vars => StartInv'
<1> SUFFICES ASSUME StartInv, [Next]_vars PROVE StartInv'
    OBVIOUS
<1>1. IInv'
    BY StepReady DEF StartInv
<1>2. computers' = computers /\ scenario' = scenario /\ list' = list
    BY DEF Next, vars, lobby, AssignPlayer, PlayersAssigned, DrawColor, CreateNatives,
           ReadWaypoints, RandomStart, SearchDone, PlaceHouse, HousesPlaced, NoPosition, Over
<1>3. phase \in Phases /\ missing \in 0 .. MaxPlayers /\ MaxPlayers \in Nat
    BY StartAssumption DEF StartInv
<1>4. \A m, n \in Players : Alike(world[m], world[n])
    BY DEF StartInv, AllAlike
<1>5. ASSUME NEW m \in Players
      PROVE  Good(m) /\ world[m] \in World /\ Placed(world[m]) /\ (~PlacingBegun => Unplaced(world[m]))
    BY DEF StartInv, Good, Placed
<1>6. /\ list \in [Players -> [1 .. N -> Players]] /\ computers \in 0 .. MaxComputers
      /\ scenario \in [waypoint : Maps, official : BOOLEAN]
    BY DEF StartInv
<1>7. LookFor \in 0 .. MaxPlayers /\ FoundWaypoints \in Seq(Cells) /\ Len(FoundWaypoints) <= LookFor
    BY <1>6, LookForBound, ListIsTyped
<1> SUFFICES phase' \in Phases /\ missing' \in 0 .. MaxPlayers /\ AllAlike' /\ \A m \in Players : Good(m)'
    BY <1>1, <1>2, <1>6 DEF StartInv
<1>8. CASE AssignPlayer
    <2>1. phase' = phase /\ missing' = missing
        BY <1>8 DEF AssignPlayer
    <2> QED
        BY <1>3, <1>8, <2>1, AssignStart
<1>9. CASE PlaceHouse
    <2>1. phase' = phase /\ missing' = missing
        BY <1>9 DEF PlaceHouse
    <2> QED
        BY <1>3, <1>9, <2>1, PlaceStart
\* Steps that leave the worlds alone.
<1>10. ASSUME UNCHANGED <<world, desk>>, phase' = "players" => phase = "players",
              PlacingBegun => PlacingBegun'
       PROVE  AllAlike' /\ \A m \in Players : Good(m)'
    <2>1. \A m \in Players : Good(m)'
        BY <1>2, <1>5, <1>10, SameGood
    <2>2. AllAlike'
        BY <1>4, <1>10 DEF AllAlike, Alike
    <2> QED
        BY <2>1, <2>2
<1>11. CASE PlayersAssigned \/ SearchDone \/ HousesPlaced \/ NoPosition
    <2>1. /\ UNCHANGED <<world, desk, missing>> /\ phase' \in Phases
          /\ phase' # "players" /\ (PlacingBegun => PlacingBegun')
        BY <1>11 DEF PlayersAssigned, SearchDone, HousesPlaced, NoPosition, PlacingBegun, Phases
    <2> QED
        BY <1>3, <1>10, <2>1
<1>12. CASE Over \/ UNCHANGED vars
    <2>1. UNCHANGED <<world, desk, missing, phase>>
        BY <1>12 DEF Over, vars
    <2>2. PlacingBegun => PlacingBegun'
        BY <2>1 DEF PlacingBegun
    <2> QED
        BY <1>3, <1>10, <2>1, <2>2
<1>13. CASE DrawColor
    <2>1. phase = "computers" /\ UNCHANGED <<phase, desk, missing>> /\ ~PlacingBegun
        BY <1>13 DEF DrawColor, PlacingBegun
    <2>2. PICK c \in Colors : world' = [m \in Players |-> ColorDrawn(world[m], c)]
        BY <1>13 DEF DrawColor
    <2>3. ASSUME NEW m \in Players PROVE Placed(world'[m]) /\ Unplaced(world'[m])
        BY <1>5, <2>1, <2>2, HouseKeepsUnplaced DEF ColorDrawn
    <2>4. ASSUME NEW m \in Players, NEW n \in Players PROVE Alike(world'[m], world'[n])
        BY <1>4, <1>5, <2>2, OperationsAlike
    <2> QED
        BY <1>2, <1>3, <2>1, <2>3, <2>4, EarlyStart
<1>14. CASE CreateNatives
    <2>1. phase = "computers" /\ phase' = "waypoints" /\ UNCHANGED <<desk, missing>> /\ ~PlacingBegun
        BY <1>14 DEF CreateNatives, PlacingBegun
    <2>2. ASSUME NEW m \in Players PROVE world'[m] = AddNatives(world[m])
        BY <1>14 DEF CreateNatives
    <2>3. ASSUME NEW m \in Players PROVE Placed(world'[m]) /\ Unplaced(world'[m])
        BY <1>5, <2>1, <2>2, NativesKeepUnplaced
    <2>4. ASSUME NEW m \in Players, NEW n \in Players PROVE Alike(world'[m], world'[n])
        BY <1>4, <1>5, <2>2, OperationsAlike
    <2> QED
        BY <1>2, <1>3, <2>1, <2>3, <2>4, EarlyStart DEF Phases
<1>15. CASE ReadWaypoints
    <2>1. /\ phase = "waypoints" /\ phase' = "search" /\ UNCHANGED desk
          /\ missing' = LookFor - Len(FoundWaypoints) /\ ~PlacingBegun
        BY <1>15 DEF ReadWaypoints, PlacingBegun
    <2>2. ASSUME NEW m \in Players PROVE world'[m] = WithWaypts(world[m], FoundWaypoints)
        BY <1>15 DEF ReadWaypoints, WithWaypts
    <2>3. ASSUME NEW m \in Players PROVE Placed(world'[m]) /\ Unplaced(world'[m])
        BY <1>5, <1>7, <2>1, <2>2, WaypointsKeepUnplaced
    <2>4. ASSUME NEW m \in Players, NEW n \in Players PROVE Alike(world'[m], world'[n])
        BY <1>4, <1>5, <2>2, OperationsAlike
    <2>5. missing' \in 0 .. MaxPlayers
        BY <1>3, <1>7, <2>1
    <2> QED
        BY <1>2, <2>1, <2>3, <2>4, <2>5, EarlyStart DEF Phases
<1>16. CASE RandomStart
    <2>1. /\ phase = "search" /\ UNCHANGED <<phase, desk>> /\ missing' = missing - 1 /\ missing > 0
          /\ ~PlacingBegun
        BY <1>16 DEF RandomStart, PlacingBegun
    <2>2. missing' \in 0 .. MaxPlayers
        BY <1>3, <2>1
    <2>3. PICK c \in Cells \cup {NoCell} :
            world' = IF c = NoCell
                     THEN world
                     ELSE [m \in Players |-> [world[m] EXCEPT !.waypts = Append(@, c)]]
        BY <1>16 DEF RandomStart
    <2>4. CASE c = NoCell
        <3>1. PlacingBegun => PlacingBegun'
            BY <2>1
        <3> QED
            BY <1>3, <1>10, <2>1, <2>2, <2>3, <2>4, <3>1
    <2>5. CASE c # NoCell
        <3>1. ASSUME NEW m \in Players
              PROVE  world'[m] = WithWaypts(world[m], Append(world[m].waypts, c))
            BY <2>3, <2>5 DEF WithWaypts
        <3>2. ASSUME NEW m \in Players PROVE Placed(world'[m]) /\ Unplaced(world'[m])
            <4>1. world[m].waypts \in Seq(Cells)
                BY <1>5 DEF Placed, World
            <4>2. Append(world[m].waypts, c) \in Seq(Cells)
                BY <2>5, <4>1
            <4> QED
                BY <1>5, <2>1, <3>1, <4>2, WaypointsKeepUnplaced
        <3>3. ASSUME NEW m \in Players, NEW n \in Players PROVE Alike(world'[m], world'[n])
            <4>1. world[m].waypts = world[n].waypts
                BY <1>4 DEF Alike
            <4> QED
                BY <1>4, <1>5, <3>1, <4>1, OperationsAlike
        <3> QED
            BY <1>2, <1>3, <2>1, <2>2, <3>2, <3>3, EarlyStart
    <2> QED
        BY <2>4, <2>5
<1> QED
    BY <1>8, <1>9, <1>11, <1>12, <1>13, <1>14, <1>15, <1>16 DEF Next

LEMMA AlwaysStart == Spec => []StartInv
<1> QED
    BY InitStart, StepStart, PTL DEF Spec

(* Every variable keeps its type: positions that are given out are positions   *)
(* of the list, houses have at most one start, and no more are searched for    *)
(* than a game can have (TypeOK).                                              *)
THEOREM GameStartTypeCorrect == Spec => []TypeOK
<1>1. StartInv => TypeOK
    <2> SUFFICES ASSUME StartInv PROVE TypeOK
        OBVIOUS
    <2>1. /\ computers \in 0 .. MaxComputers
          /\ scenario \in [waypoint : Maps, official : BOOLEAN]
          /\ phase \in Phases /\ missing \in 0 .. MaxPlayers
        BY DEF StartInv
    <2>2. color \in [Players -> Colors]
        BY DEF StartInv, IInv, Lobby
    <2>3. list \in [Players -> [1 .. N -> Players]]
        BY DEF StartInv
    <2>4. ASSUME NEW m \in Players
          PROVE  /\ desk[m].assigned \subseteq 1 .. N /\ desk[m].house \in 0 .. N
                 /\ world[m].used \subseteq Colors
                 /\ world[m].houses \in Seq(House)
                 /\ world[m].waypts \in Seq(Cells)
                 /\ world[m].taken \subseteq DOMAIN world[m].waypts
                 /\ world[m].start \in Seq(Cells \cup {NoCell})
                 /\ world[m].spawn \in Seq(Waypoints \cup {NoWaypoint})
                 /\ world[m].building \subseteq DOMAIN world[m].start
        <3>1. Ready(m) /\ Seated(m) /\ Placed(world[m]) /\ world[m] \in World
            BY DEF StartInv, IInv, Good, Placed
        <3> QED
            BY <3>1 DEF Ready, Seated, Placed, World
    <2> QED
        BY <2>1, <2>2, <2>3, <2>4 DEF TypeOK, Phases
<1> QED
    BY <1>1, AlwaysStart, PTL

(* Houses start as far from those before them as the free positions allow, for *)
(* any number of houses and positions, on any map (FurthestApart).             *)
THEOREM StartsApart == Spec => []FurthestApart
<1>1. StartInv => FurthestApart
    BY DEF StartInv, Good, Apart, FurthestOf, FreeFor, Far, Before, FurthestApart
<1> QED
    BY <1>1, AlwaysStart, PTL

(* The spawn house of a waypoint is the house that started there, or nobody if *)
(* none did (SpawnHouseFound).                                                 *)
THEOREM SpawnHouseIsFound == Spec => []SpawnHouseFound
<1>1. StartInv => SpawnHouseFound
    <2> SUFFICES ASSUME StartInv, NEW m \in Players, NEW i \in Waypoints
                 PROVE  LET w == world[m] h == HouseAt(w, i) IN
                          /\ h # 0 => w.start[h] = scenario.waypoint[i]
                          /\ h = 0 => \A g \in Active(w) : w.start[g] # scenario.waypoint[i]
        BY DEF SpawnHouseFound
    <2> DEFINE w == world[m]
               at == {h \in DOMAIN w.spawn : w.spawn[h] = i}
    <2>1. Placed(w) /\ Settled(w) /\ scenario \in [waypoint : Maps, official : BOOLEAN]
        BY DEF StartInv, Good
    <2>2. /\ DOMAIN w.spawn = DOMAIN w.start /\ DOMAIN w.spawn \in SUBSET (Nat \ {0})
        <3>1. w.start \in Seq(Cells \cup {NoCell}) /\ w.spawn \in Seq(Waypoints \cup {NoWaypoint})
              /\ Len(w.spawn) = Len(w.start)
            BY <2>1 DEF Placed, World
        <3>2. /\ DOMAIN w.start = 1 .. Len(w.start) /\ DOMAIN w.spawn = 1 .. Len(w.spawn)
              /\ Len(w.start) \in Nat
            BY <3>1, Listed
        <3> QED
            BY <3>1, <3>2
    <2>3. i # NoWaypoint
        BY DEF Waypoints, NoWaypoint
    <2>4. ASSUME NEW g \in Active(w)
          PROVE  w.start[g] \in Cells /\ w.spawn[g] = SpawnPoint(w.start[g])
        <3>1. g \in DOMAIN w.start /\ w.houses[g].owner # Native
            BY DEF Active
        <3>2. PICK t \in w.taken : w.start[g] = w.waypts[t]
            BY <2>1, <3>1 DEF Settled, Started
        <3>3. w.waypts[t] \in Cells
            BY <2>1, Positions
        <3>4. w.spawn[g] = SpawnPoint(w.start[g])
            BY <2>1, <3>1 DEF Settled, Started
        <3> QED
            BY <3>2, <3>3, <3>4
    <2>5. ASSUME NEW g \in Active(w) PROVE w.spawn[g] = i <=> scenario.waypoint[i] = w.start[g]
        BY <2>1, <2>4, SpawnPointAt
    <2>6. ASSUME NEW h \in at PROVE h \in Active(w)
        <3>1. h \in DOMAIN w.start
            BY <2>2
        <3> QED
            BY <2>1, <2>3, <3>1 DEF Settled, Started, Active
    <2>7. CASE at = {}
        <3>1. HouseAt(w, i) = 0
            BY <2>7 DEF HouseAt
        <3>2. \A g \in Active(w) : g \in DOMAIN w.spawn
            BY <2>2 DEF Active
        <3> QED
            BY <2>5, <2>7, <3>1, <3>2
    <2>8. CASE at # {}
        <3>1. at \in SUBSET Nat /\ 0 \notin at
            BY <2>2
        <3>2. Min(at) \in at
            <4> HIDE DEF at
            <4>1. \E x \in at : \A y \in at : x <= y
                BY <2>8, <3>1, LeastNatural
            <4> QED
                BY <4>1 DEF Min
        <3>3. HouseAt(w, i) = Min(at)
            BY <2>8 DEF HouseAt
        <3> DEFINE h == Min(at)
        <3>4. h \in at /\ h # 0
            BY <3>1, <3>2
        <3> HIDE DEF h
        <3>5. w.start[h] = scenario.waypoint[i]
            BY <2>5, <2>6, <3>4
        <3> QED
            BY <3>3, <3>4, <3>5 DEF h
    <2> QED
        BY <2>7, <2>8
<1> QED
    BY <1>1, AlwaysStart, PTL
=============================================================================
