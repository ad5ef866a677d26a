------------------------- MODULE SpawnManagerProofs -------------------------
(***************************************************************************)
(* What holds of a spawn manager for every number of controls, aircraft,   *)
(* targets and houses and for all rates. The handlers are operators from a *)
(* record of the hangar's state to a record, so each gets a lemma of its   *)
(* own, and a step of Next is the lemmas of the handlers it runs.          *)
(***************************************************************************)
EXTENDS SpawnManager, TLAPS

\* The records the handlers work on.
MState == [spawnee : [Slots -> Aircraft \union {None}],
           status  : [Slots -> SlotStatus],
           reload  : [Slots -> Frames],
           mode    : Modes,
           target  : Objects,
           queued  : Objects,
           craft   : [Aircraft -> Craft],
           tracked : [Aircraft -> Nat]]

USE CountAssumption, RateAssumption, FlagAssumption, AmmoAssumption, KindAssumption
USE DEF CountAssumption, RateAssumption, FlagAssumption, AmmoAssumption, KindAssumption

------------------------------------------------------------------------------
\* The rates and 0 are frame counts.
LEMMA RatesAreFrames ==
    /\ 0 \in Frames
    /\ {RegenRate, ReloadRate, SpawnRate, LogicRate, TakeoffFrames} \subseteq Frames
BY DEF Frames

\* The record of the variables is one of MState.
LEMMA NowTyped == TypeOK => Now \in MState
BY DEF TypeOK, Now, MState

\* Kamikaze tracker: Add keeps the types.
\* What the handlers write into an aircraft keeps it one.
LEMMA CraftTyped ==
    ASSUME NEW c \in Craft
    PROVE  /\ [c EXCEPT !.kamikaze = TRUE, !.ammo = 1] \in Craft
           /\ [c EXCEPT !.ammo = 1, !.sent = TRUE] \in Craft
           /\ [c EXCEPT !.strength = 0] \in Craft
           /\ [c EXCEPT !.ammo = MaxAmmo, !.strength = 1] \in Craft
           /\ \A p \in Places : [c EXCEPT !.place = p] \in Craft
           /\ c.ammo > 0 => [c EXCEPT !.ammo = c.ammo - 1] \in Craft
<1>1. 1 \in 0..(MaxAmmo + 1) /\ MaxAmmo \in 0..(MaxAmmo + 1) /\ 0 \in 0..1 /\ 1 \in 0..1
  OBVIOUS
<1>2. [c EXCEPT !.kamikaze = TRUE, !.ammo = 1] \in Craft
  BY <1>1, Zenon DEF Craft
<1>3. [c EXCEPT !.ammo = 1, !.sent = TRUE] \in Craft
  BY <1>1, Zenon DEF Craft
<1>4. [c EXCEPT !.strength = 0] \in Craft
  BY <1>1, Zenon DEF Craft
<1>5. [c EXCEPT !.ammo = MaxAmmo, !.strength = 1] \in Craft
  BY <1>1, Zenon DEF Craft
<1>6. \A p \in Places : [c EXCEPT !.place = p] \in Craft
  BY Zenon DEF Craft
<1>7. c.ammo > 0 => [c EXCEPT !.ammo = c.ammo - 1] \in Craft
  BY DEF Craft
<1> QED BY <1>2, <1>3, <1>4, <1>5, <1>6, <1>7

LEMMA FreshTyped == Free \in Craft /\ \A h \in Houses : Fresh(h) \in Craft
BY DEF Free, Fresh, Craft, Places

LEMMA AddTyped == ASSUME NEW m \in MState, NEW S PROVE Add(m, S) \in MState
<1>1. /\ m.craft \in [Aircraft -> Craft]
      /\ m.tracked \in [Aircraft -> Nat]
  BY DEF MState
<1>2. ASSUME NEW a \in Aircraft
      PROVE  /\ [m.craft[a] EXCEPT !.kamikaze = TRUE, !.ammo = 1] \in Craft
             /\ [m.craft[a] EXCEPT !.strength = 0] \in Craft
             /\ m.craft[a] \in Craft
             /\ m.tracked[a] + 1 \in Nat /\ m.tracked[a] \in Nat
  <2>1. m.craft[a] \in Craft /\ m.tracked[a] \in Nat
    BY <1>1
  <2>2. m.tracked[a] + 1 \in Nat
    BY <2>1
  <2> QED BY <2>1, <2>2, CraftTyped, Zenon
<1>3. CASE MissileSpawn
  BY <1>2, <1>3 DEF MState, Add
<1>4. CASE ~MissileSpawn
  BY <1>2, <1>4 DEF MState, Add
<1> QED BY <1>3, <1>4

LEMMA UntrackTyped == ASSUME NEW m \in MState, NEW S PROVE Untrack(m, S) \in MState
BY DEF MState, Untrack

LEMMA DeleteMeTyped == ASSUME NEW m \in MState, NEW S PROVE DeleteMe(m, S) \in MState
<1> DEFINE n == Untrack(m, S)
<1>1. n \in MState /\ n.craft = m.craft
  BY UntrackTyped DEF Untrack, MState
<1>2. \A a \in Aircraft : m.craft[a] \in Craft /\ Free \in Craft
  BY FreshTyped DEF MState
<1>3. DeleteMe(m, S) = [n EXCEPT !.craft = [a \in Aircraft |->
                            IF a \in S THEN Free ELSE m.craft[a]]]
  BY DEF DeleteMe
<1> HIDE DEF n
<1> QED BY <1>1, <1>2, <1>3 DEF MState

LEMMA EmptiedTyped ==
    ASSUME NEW m \in MState, NEW S, NEW t \in Frames
    PROVE  Emptied(m, S, t) \in MState
BY DEF MState, Emptied, SlotStatus

LEMMA QueueTargetTyped ==
    ASSUME NEW m \in MState, NEW o \in Objects PROVE QueueTarget(m, o) \in MState
BY DEF MState, QueueTarget

LEMMA NextTargetTyped == ASSUME NEW m \in MState PROVE NextTarget(m) \in MState
BY DEF MState, NextTarget, Objects

LEMMA AbandonTargetTyped == ASSUME NEW m \in MState PROVE AbandonTarget(m) \in MState
<1> DEFINE S == IF MissileSpawn THEN With(m, {"Preparing"}) ELSE {}
           n == Emptied(Add(m, Crew(m, S)), S, RegenRate)
<1>1. n \in MState
  BY AddTyped, EmptiedTyped, RatesAreFrames
<1>2. AbandonTarget(m) = [n EXCEPT !.mode = "Idle", !.target = None, !.queued = None]
  BY DEF AbandonTarget
<1> HIDE DEF n
<1> QED BY <1>1, <1>2 DEF MState, Modes, Objects

LEMMA DetachSpawnsTyped ==
    ASSUME NEW m \in MState, NEW t \in Frames PROVE DetachSpawns(m, t) \in MState
BY AddTyped, UntrackTyped, DeleteMeTyped, EmptiedTyped DEF DetachSpawns

LEMMA DetachTyped ==
    ASSUME NEW m \in MState, NEW o, NEW t \in Frames PROVE Detach(m, o, t) \in MState
<1>1. [m EXCEPT !.target = None] \in MState /\ [m EXCEPT !.queued = None] \in MState
  BY DEF MState, Objects
<1> QED
  BY <1>1, AbandonTargetTyped, DetachSpawnsTyped, EmptiedTyped, RatesAreFrames DEF Detach

LEMMA LimboTyped ==
    ASSUME NEW m \in MState, NEW a PROVE Limbo(m, a) \in MState
<1> DEFINE n == DetachFromAll(m, a)
           c == IF m.craft[a].strength = 0 THEN Free
                ELSE [n.craft[a] EXCEPT !.place = "limbo"]
<1>1. n \in MState
  BY DetachTyped, UntrackTyped, RatesAreFrames DEF DetachFromAll
<1>2. a \in Aircraft => c \in Craft
  <2>1. a \in Aircraft => n.craft[a] \in Craft
    BY <1>1 DEF MState
  <2> QED BY <2>1, CraftTyped, FreshTyped DEF Places
<1>3. Limbo(m, a) = [n EXCEPT !.craft[a] = c]
  BY DEF Limbo
<1> HIDE DEF n, c
<1> QED BY <1>1, <1>2, <1>3 DEF MState

LEMMA VolleyTyped == TypeOK => Volley \in MState
<1> SUFFICES ASSUME TypeOK PROVE Volley \in MState
  OBVIOUS
<1> DEFINE S == With(Now, {"Preparing"})
           n == Add(Now, Crew(Now, S))
<1>1. Now \in MState /\ n \in MState
  BY NowTyped, AddTyped
<1>2. [n EXCEPT !.status = [i \in Slots |-> IF i \in S THEN "Takeoff" ELSE Now.status[i]],
                !.reload = [i \in Slots |-> IF i \in S THEN TakeoffFrames ELSE Now.reload[i]]]
        \in MState
  BY <1>1, RatesAreFrames DEF MState, SlotStatus
<1>3. LaunchMissiles(Now, S) \in MState
  BY <1>1, <1>2, EmptiedTyped, RatesAreFrames DEF LaunchMissiles
<1>4. [Now EXCEPT !.status = [i \in Slots |-> IF i \in S THEN "Attacking" ELSE status[i]]]
        \in MState
  BY <1>1 DEF MState, SlotStatus, Now
<1> QED BY <1>3, <1>4, AbandonTargetTyped DEF Volley

------------------------------------------------------------------------------
\* What a handler computes is what the variables become.
LEMMA BecomesNow == ASSUME NEW m \in MState, Becomes(m) PROVE Now' = m
BY DEF Becomes, Now, MState

\* TypeOK, in terms of the record.
ClockTypeOK ==
    /\ spawnTimer \in Frames
    /\ logicTimer \in Frames
    /\ cursor \in 0..(SpawnCount + 1)
    /\ grounded \in BOOLEAN

WorldTypeOK ==
    /\ owner \in {"active", "limbo", "dead"}
    /\ ownerHouse \in Houses
    /\ present \subseteq Targets

LEMMA TypeParts == TypeOK <=> Now \in MState /\ ClockTypeOK /\ WorldTypeOK
BY DEF TypeOK, Now, MState, ClockTypeOK, WorldTypeOK

LEMMA TypePartsNext == TypeOK' <=> Now' \in MState /\ ClockTypeOK' /\ WorldTypeOK'
BY DEF TypeOK, Now, MState, ClockTypeOK, WorldTypeOK

LEMMA InitTyped == Init => TypeOK
<1> SUFFICES ASSUME Init PROVE TypeOK
  OBVIOUS
<1>1. craft \in [Aircraft -> Craft]
  BY FreshTyped DEF Init
<1>2. reload \in [Slots -> Frames] /\ tracked \in [Aircraft -> Nat]
  BY RatesAreFrames DEF Init
<1>3. spawnTimer \in Frames /\ logicTimer \in Frames /\ cursor \in 0..(SpawnCount + 1)
  BY RatesAreFrames DEF Init
<1>4. spawnee \in [Slots -> Aircraft \union {None}] /\ status \in [Slots -> SlotStatus]
  BY DEF Init, SlotStatus
<1> QED BY <1>1, <1>2, <1>3, <1>4, Zenon DEF Init, TypeOK, Modes, Objects

\* A turn of the loop, and the end of it, keep the types of the clocks.
LEMMA TurnTyped ==
    ASSUME TypeOK, NEW i \in Slots, Turn(i), spawnTimer' \in Frames
    PROVE  ClockTypeOK' /\ WorldTypeOK'
BY DEF TypeOK, Turn, ClockTypeOK, WorldTypeOK, Slots, worldVars

\* Every turn computes a record of MState.
LEMMA ControlTurnTyped ==
    ASSUME TypeOK, NEW i \in Slots, ControlTurn(i)
    PROVE  Now' \in MState /\ spawnTimer' \in Frames
<1>0. Now \in MState /\ spawnTimer \in Frames /\ SpawnRate \in Frames
  BY NowTyped, RatesAreFrames DEF TypeOK
<1>1. CASE Scramble(i)
  <2> DEFINE m == [Now EXCEPT !.status[i] = "Preparing", !.craft[spawnee[i]].place = "air"]
  <2>1. m \in MState
    <3>1. \A a \in Aircraft : [Now.craft[a] EXCEPT !.place = "air"] \in Craft
      BY <1>0, CraftTyped DEF MState, Places
    <3> QED BY <1>0, <3>1 DEF MState, SlotStatus
  <2>2. Becomes(IF SpawnedMissile THEN NextTarget(m) ELSE m) /\ spawnTimer' = SpawnRate
    BY <1>1 DEF Scramble
  <2> HIDE DEF m
  <2> QED BY <1>0, <2>1, <2>2, NextTargetTyped, BecomesNow
<1>2. CASE Departed(i)
  BY <1>0, <1>2, DetachTyped, RatesAreFrames, BecomesNow DEF Departed
<1>3. CASE Gather(i) \/ Engage(i) \/ GoHome(i)
  <2>1. ASSUME NEW s \in SlotStatus
        PROVE [NextTarget(Now) EXCEPT !.status[i] = s] \in MState
    BY <1>0, NextTargetTyped DEF MState
  <2>2. \/ Becomes(NextTarget(Now))
        \/ Becomes([NextTarget(Now) EXCEPT !.status[i] = "Returning"])
        \/ Becomes([NextTarget(Now) EXCEPT !.status[i] = "Attacking"])
    BY <1>3 DEF Gather, Engage, GoHome
  <2>3. spawnTimer' = spawnTimer
    BY <1>3 DEF Gather, Engage, GoHome
  <2> QED BY <1>0, <2>1, <2>2, <2>3, NextTargetTyped, BecomesNow DEF SlotStatus
<1>4. CASE Land(i)
  <2> DEFINE m == [NextTarget(Now) EXCEPT !.status[i] = "Reloading", !.reload[i] = ReloadRate]
  <2>1. m \in MState
    BY <1>0, NextTargetTyped, RatesAreFrames DEF MState, SlotStatus
  <2>2. Becomes(Limbo(m, spawnee[i])) /\ spawnTimer' = spawnTimer
    BY <1>4 DEF Land
  <2> HIDE DEF m
  <2> QED BY <1>0, <2>1, <2>2, LimboTyped, BecomesNow
<1>5. CASE Rearm(i)
  <2> DEFINE m == [Now EXCEPT !.status[i] = "Idle", !.craft[spawnee[i]].ammo = MaxAmmo,
                              !.craft[spawnee[i]].strength = 1]
  <2>1. m \in MState
    <3>1. \A a \in Aircraft :
            [[Now.craft[a] EXCEPT !.ammo = MaxAmmo] EXCEPT !.strength = 1] \in Craft
      BY <1>0, CraftTyped DEF MState
    <3> QED BY <1>0, <3>1 DEF MState, SlotStatus
  <2> QED BY <1>0, <1>5, <2>1, BecomesNow DEF Rearm
<1>6. CASE Rebuild(i)
  <2>1. ASSUME NEW a \in Aircraft
        PROVE [Now EXCEPT !.status[i] = "Idle", !.spawnee[i] = a,
                          !.craft[a] = Fresh(ownerHouse)] \in MState
    BY <1>0, FreshTyped DEF MState, SlotStatus, TypeOK
  <2> QED BY <1>0, <1>6, <2>1, BecomesNow DEF Rebuild, FreeAircraft
<1>7. CASE Skip(i)
  BY <1>0, <1>7 DEF Skip, hangarVars, Now
<1> QED BY <1>1, <1>2, <1>3, <1>4, <1>5, <1>6, <1>7 DEF ControlTurn

LEMMA NoneIsObject == None \in Objects /\ Targets \subseteq Objects
BY DEF Objects

\* The second half of AI.
LEMMA ManagerTurnTyped ==
    ASSUME TypeOK, ManagerTurn PROVE TypeOK'
<1>0. Now \in MState
  BY NowTyped
<1>1. EndAI
  BY DEF ManagerTurn, ChooseTarget, Launch, HoldLaunch, CallOff, Cool
<1>2. ClockTypeOK' /\ WorldTypeOK'
  <2>1. 0 \in 0..(SpawnCount + 1)
    OBVIOUS
  <2>2. ClockTypeOK'
    BY <1>1, <2>1 DEF EndAI, TypeOK, ClockTypeOK
  <2>3. WorldTypeOK'
    BY <1>1 DEF EndAI, TypeOK, WorldTypeOK, worldVars
  <2> QED BY <2>2, <2>3
<1>3. Now' \in MState
  <2>1. CASE ChooseTarget
    <3>1. NextTarget(Now) \in MState
      BY <1>0, NextTargetTyped
    <3>2. [NextTarget(Now) EXCEPT !.mode = "Launching"] \in MState
      BY <3>1 DEF MState, Modes
    <3> QED BY <2>1, <3>1, <3>2, AbandonTargetTyped, BecomesNow DEF ChooseTarget
  <2>2. CASE Launch
    <3>1. [Volley EXCEPT !.mode = "Cooldown"] \in MState
      BY VolleyTyped DEF MState, Modes
    <3> QED BY <2>2, <3>1, BecomesNow DEF Launch
  <2>3. CASE HoldLaunch
    BY <1>0, <2>3 DEF HoldLaunch, hangarVars, Now
  <2>4. CASE CallOff
    BY <1>0, <2>4, AbandonTargetTyped, BecomesNow DEF CallOff
  <2>5. CASE Cool
    BY <1>0, <2>5 DEF Cool, Now, MState, Modes
  <2> QED BY <2>1, <2>2, <2>3, <2>4, <2>5 DEF ManagerTurn
<1> QED BY <1>2, <1>3, TypePartsNext

\* Orders, and what becomes of the owner and the targets: handlers between two AIs.
LEMMA OutsideTyped ==
    ASSUME TypeOK, Orders \/ OwnerFate \/ TargetFate PROVE TypeOK'
<1>0. Now \in MState /\ 0 \in Frames /\ RegenRate \in Frames
  BY NowTyped, RatesAreFrames
<1>1. ClockTypeOK'
  BY DEF Orders, FireAt, NewOrder, StopOrder, Ordered, OwnerFate, Captured, Stunned, Board,
         Unload, TargetFate, TargetLeaves, TargetComes, Outside, clockVars, TypeOK, ClockTypeOK
<1>2. WorldTypeOK'
  BY DEF Orders, FireAt, NewOrder, StopOrder, Ordered, OwnerFate, Captured, Stunned, Board,
         Unload, TargetFate, TargetLeaves, TargetComes, worldVars, TypeOK, WorldTypeOK
<1>3. Now' \in MState
  <2>1. CASE Orders
    BY <1>0, <2>1, QueueTargetTyped, AbandonTargetTyped, NoneIsObject, BecomesNow
    DEF Orders, FireAt, NewOrder, StopOrder, TypeOK
  <2>2. CASE OwnerFate
    <3>1. CASE \E h \in Houses : Captured(h)
      BY <1>0, <3>1, DetachSpawnsTyped, BecomesNow DEF Captured
    <3>2. CASE Stunned
      BY <1>0, <3>2, QueueTargetTyped, DetachSpawnsTyped, AbandonTargetTyped, DetachTyped,
         NoneIsObject, BecomesNow DEF Stunned
    <3>3. CASE Board
      BY <1>0, <3>3, DetachTyped, BecomesNow DEF Board
    <3>4. CASE Unload
      BY <1>0, <3>4 DEF Unload, hangarVars, Now
    <3> QED BY <2>2, <3>1, <3>2, <3>3, <3>4 DEF OwnerFate
  <2>3. CASE TargetFate
    <3> SUFFICES ASSUME NEW t \in Targets, TargetLeaves(t) \/ TargetComes(t)
                 PROVE  Now' \in MState
      BY <2>3 DEF TargetFate
    <3>1. CASE TargetLeaves(t)
      BY <1>0, <3>1, DetachTyped, BecomesNow DEF TargetLeaves
    <3>2. CASE TargetComes(t)
      BY <1>0, <3>2 DEF TargetComes, hangarVars, Now
    <3> QED BY <3>1, <3>2
  <2> QED BY <2>1, <2>2, <2>3
<1> QED BY <1>1, <1>2, <1>3, TypePartsNext

\* The aircraft, and the tracker that steers them.
LEMMA FlightTyped ==
    ASSUME TypeOK, AircraftFate \/ TrackerRound PROVE TypeOK'
<1>0. Now \in MState /\ 0 \in Frames
  BY NowTyped, RatesAreFrames
<1>1. ClockTypeOK' /\ WorldTypeOK'
  BY DEF AircraftFate, Shoot, ShotDown, Perish, TrackerRound, Outside, clockVars, worldVars,
         TypeOK, ClockTypeOK, WorldTypeOK
<1>2. Now' \in MState
  <2>1. ASSUME NEW a \in Aircraft, Shoot(a) \/ ShotDown(a) PROVE Now' \in MState
    <3>1. craft \in [Aircraft -> Craft] /\ craft[a] \in Craft
      BY DEF TypeOK
    <3>2. craft' \in [Aircraft -> Craft]
      <4>1. [craft[a] EXCEPT !.strength = 0] \in Craft
        BY <3>1, CraftTyped
      <4>2. craft[a].ammo > 0 => [craft[a] EXCEPT !.ammo = craft[a].ammo - 1] \in Craft
        BY <3>1, CraftTyped
      <4>3. \/ craft' = [craft EXCEPT ![a] = [craft[a] EXCEPT !.strength = 0]]
            \/ /\ craft[a].ammo > 0
               /\ craft' = [craft EXCEPT ![a] = [craft[a] EXCEPT !.ammo = craft[a].ammo - 1]]
        BY <2>1 DEF Shoot, ShotDown
      <4> QED BY <3>1, <4>1, <4>2, <4>3
    <3> QED BY <1>0, <2>1, <3>2 DEF Shoot, ShotDown, Now, MState
  <2>2. ASSUME NEW a \in Aircraft, Perish(a) PROVE Now' \in MState
    <3> DEFINE m == IF owner = "dead" THEN Untrack(Now, {a}) ELSE DetachFromAll(Now, a)
    <3>1. m \in MState
      BY <1>0, UntrackTyped, DetachTyped DEF DetachFromAll
    <3>2. Becomes([m EXCEPT !.craft[a] = Free])
      BY <2>2 DEF Perish
    <3> HIDE DEF m
    <3>3. [m EXCEPT !.craft[a] = Free] \in MState
      BY <3>1, FreshTyped DEF MState
    <3> QED BY <3>2, <3>3, BecomesNow
  <2>3. CASE TrackerRound
    <3>1. \A a \in Aircraft : /\ craft[a] \in Craft
                              /\ [craft[a] EXCEPT !.ammo = 1, !.sent = TRUE] \in Craft
      BY CraftTyped DEF TypeOK
    <3>2. craft' \in [Aircraft -> Craft]
      BY <2>3, <3>1 DEF TrackerRound, TrackerAI
    <3> QED BY <1>0, <2>3, <3>2 DEF TrackerRound, TrackerAI, Now, MState
  <2> QED BY <2>1, <2>2, <2>3 DEF AircraftFate
<1> QED BY <1>1, <1>2, TypePartsNext

\* Time.
LEMMA FrameTyped == ASSUME TypeOK, Frame PROVE TypeOK'
<1>1. \A n \in Frames : (IF n > 0 THEN n - 1 ELSE 0) \in Frames
  BY DEF Frames
<1>2. reload' \in [Slots -> Frames] /\ spawnTimer' \in Frames /\ logicTimer' \in Frames
  BY <1>1 DEF Frame, TypeOK
<1> QED BY <1>2 DEF Frame, TypeOK, worldVars

LEMMA AITyped == ASSUME TypeOK, AI PROVE TypeOK'
<1>0. Now \in MState /\ LogicRate \in Frames
  BY NowTyped, RatesAreFrames
<1>1. CASE BeginAI
  <2>1. Now' \in MState
    BY <1>0, <1>1, QueueTargetTyped, NoneIsObject, BecomesNow DEF BeginAI
  <2>2. ClockTypeOK' /\ WorldTypeOK'
    BY <1>0, <1>1 DEF BeginAI, TypeOK, ClockTypeOK, WorldTypeOK, worldVars
  <2> QED BY <2>1, <2>2, TypePartsNext
<1>2. ASSUME NEW i \in Slots, ControlTurn(i) PROVE TypeOK'
  <2>1. Turn(i)
    BY <1>2 DEF ControlTurn, Scramble, Departed, Gather, Engage, GoHome, Land, Rearm,
               Rebuild, Skip
  <2>2. Now' \in MState /\ ClockTypeOK' /\ WorldTypeOK'
    BY <1>2, <2>1, ControlTurnTyped, TurnTyped
  <2> QED BY <2>2, TypePartsNext
<1> QED BY <1>1, <1>2, ManagerTurnTyped DEF AI

\* Every variable keeps its type: the manager's fields, whichever handlers run and
\* call each other (TypeOK of SpawnManager).
THEOREM TypeCorrect == Spec => []TypeOK
<1>1. TypeOK /\ [Next]_vars => TypeOK'
  <2>1. TypeOK /\ UNCHANGED vars => TypeOK'
    BY DEF TypeOK, vars, hangarVars, worldVars, clockVars
  <2> QED BY <2>1, AITyped, OutsideTyped, FlightTyped, FrameTyped DEF Next
<1> QED BY <1>1, InitTyped, PTL DEF Spec

------------------------------------------------------------------------------
(***************************************************************************)
(* Sound: the controls and the aircraft agree. Three ways in which a       *)
(* handler leaves them so: it touches neither controls nor places, it      *)
(* moves an aircraft no control holds, or it moves one control together    *)
(* with its aircraft.                                                      *)
(***************************************************************************)
LEMMA SoundSame ==
    ASSUME NEW m \in MState, NEW n \in MState, Sound(m),
           n.spawnee = m.spawnee, n.status = m.status,
           \A a \in Aircraft : n.craft[a].place = m.craft[a].place
    PROVE  Sound(n)
BY DEF Sound, MState

LEMMA SoundElsewhere ==
    ASSUME NEW m \in MState, NEW n \in MState, Sound(m), NEW a,
           \A i \in Slots : m.spawnee[i] # a,
           n.spawnee = m.spawnee, n.status = m.status,
           \A b \in Aircraft \ {a} : n.craft[b].place = m.craft[b].place
    PROVE  Sound(n)
BY DEF Sound, MState

LEMMA SoundMove ==
    ASSUME NEW m \in MState, NEW n \in MState, Sound(m),
           NEW i \in Slots, NEW s \in SlotStatus \ {"Dead"}, m.status[i] # "Dead",
           n.spawnee = m.spawnee, n.status = [m.status EXCEPT ![i] = s],
           n.craft[m.spawnee[i]].place =
               IF s \in {"Idle", "Reloading"} THEN "limbo" ELSE "air",
           \A b \in Aircraft \ {m.spawnee[i]} : n.craft[b].place = m.craft[b].place
    PROVE  Sound(n)
<1>1. ASSUME NEW j \in Slots, j # i
      PROVE  n.status[j] = m.status[j] /\ n.spawnee[j] = m.spawnee[j]
  BY <1>1 DEF MState
<1>2. n.status[i] = s
  BY DEF MState
<1>3. m.spawnee[i] \in Aircraft /\ m.spawnee[i] # None
  BY DEF Sound, MState
<1>4. ASSUME NEW j \in Slots, j # i, m.spawnee[j] # None
      PROVE  n.craft[m.spawnee[j]].place = m.craft[m.spawnee[j]].place
  BY <1>3, <1>4 DEF Sound, MState
<1> QED BY <1>1, <1>2, <1>3, <1>4 DEF Sound

LEMMA EmptiedSound ==
    ASSUME NEW m \in MState, Sound(m), NEW S, NEW t \in Frames
    PROVE  Sound(Emptied(m, S, t))
BY DEF Sound, Emptied, MState

LEMMA AddKeepsPlaces ==
    ASSUME NEW m \in MState, NEW S
    PROVE  /\ Add(m, S).spawnee = m.spawnee
           /\ Add(m, S).status = m.status
           /\ \A a \in Aircraft : Add(m, S).craft[a].place = m.craft[a].place
BY DEF Add, MState, Craft

LEMMA TargetsKeepPlaces ==
    ASSUME NEW m \in MState, Sound(m), NEW o \in Objects
    PROVE  Sound(QueueTarget(m, o)) /\ Sound(NextTarget(m))
BY DEF Sound, QueueTarget, NextTarget, MState

LEMMA AbandonTargetSound ==
    ASSUME NEW m \in MState, Sound(m) PROVE Sound(AbandonTarget(m))
<1> DEFINE S == IF MissileSpawn THEN With(m, {"Preparing"}) ELSE {}
           k == Add(m, Crew(m, S))
           n == Emptied(k, S, RegenRate)
<1>1. k \in MState /\ Sound(k)
  BY AddTyped, AddKeepsPlaces, SoundSame
<1>2. n \in MState /\ Sound(n)
  BY <1>1, EmptiedTyped, EmptiedSound, RatesAreFrames
<1>3. AbandonTarget(m) = [n EXCEPT !.mode = "Idle", !.target = None, !.queued = None]
  BY DEF AbandonTarget
<1> HIDE DEF n
<1>4. /\ AbandonTarget(m).spawnee = n.spawnee /\ AbandonTarget(m).status = n.status
      /\ AbandonTarget(m).craft = n.craft
  BY <1>2, <1>3 DEF MState
<1> QED BY <1>2, <1>4, AbandonTargetTyped, SoundSame

LEMMA DeleteMeKeepsControls ==
    ASSUME NEW m \in MState, NEW S
    PROVE  DeleteMe(m, S).spawnee = m.spawnee /\ DeleteMe(m, S).status = m.status
<1> DEFINE u == Untrack(m, S)
<1>1. u \in MState /\ u.spawnee = m.spawnee /\ u.status = m.status
  BY UntrackTyped DEF Untrack, MState
<1>2. DeleteMe(m, S) = [u EXCEPT !.craft = [a \in Aircraft |->
                                    IF a \in S THEN Free ELSE m.craft[a]]]
  BY DEF DeleteMe
<1> HIDE DEF u
<1> QED BY <1>1, <1>2 DEF MState

\* Detach_Spawns leaves no control with an aircraft.
LEMMA DetachSpawnsSound ==
    ASSUME NEW m \in MState, Sound(m), NEW t \in Frames
    PROVE  /\ Sound(DetachSpawns(m, t))
           /\ \A i \in Slots : DetachSpawns(m, t).status[i] = "Dead"
<1> DEFINE docked == With(m, {"Idle", "Reloading"})
           takeoff == With(m, {"Takeoff"})
           flying == With(m, {"Preparing", "Attacking", "Returning"})
           S == docked \union takeoff \union flying
           u == Untrack(m, Crew(m, takeoff))
           gone == DeleteMe(u, Crew(m, docked \union takeoff))
           n == Add(gone, Crew(m, flying))
<1>1. n.spawnee = m.spawnee /\ n.status = m.status
  <2>1. u \in MState /\ u.spawnee = m.spawnee /\ u.status = m.status
    BY UntrackTyped DEF Untrack, MState
  <2>2. gone \in MState /\ gone.spawnee = m.spawnee /\ gone.status = m.status
    <3> HIDE DEF u
    <3> QED BY <2>1, DeleteMeTyped, DeleteMeKeepsControls
  <2> HIDE DEF gone
  <2> QED BY <2>2, AddKeepsPlaces
<1>2. \A i \in Slots : i \notin S => m.status[i] = "Dead" /\ m.spawnee[i] = None
  BY DEF With, Sound, MState, SlotStatus
<1>3. DetachSpawns(m, t) = Emptied(n, S, t)
  BY DEF DetachSpawns
<1>4. n \in MState
  BY UntrackTyped, DeleteMeTyped, AddTyped
<1> HIDE DEF n, S
<1>5. \A i \in Slots : /\ DetachSpawns(m, t).status[i] = "Dead"
                      /\ DetachSpawns(m, t).spawnee[i] = None
  BY <1>1, <1>2, <1>3, <1>4 DEF Emptied, MState
<1> QED BY <1>5 DEF Sound

LEMMA DetachSound ==
    ASSUME NEW m \in MState, Sound(m), NEW o, NEW t \in Frames
    PROVE  Sound(Detach(m, o, t))
<1>1. /\ [m EXCEPT !.target = None] \in MState /\ Sound([m EXCEPT !.target = None])
      /\ [m EXCEPT !.queued = None] \in MState /\ Sound([m EXCEPT !.queued = None])
  BY DEF MState, Objects, Sound
<1> QED
  BY <1>1, AbandonTargetSound, DetachSpawnsSound, DetachSpawnsTyped, EmptiedSound,
     RatesAreFrames DEF Detach

\* For an aircraft Detach is only its last branch: neither target nor owner is one.
LEMMA DetachAircraft ==
    ASSUME NEW m \in MState, NEW a \in Aircraft, NEW t \in Frames
    PROVE  Detach(m, a, t) =
               Emptied(m, {i \in Slots : m.spawnee[i] = a /\ Lost(m, a)}, RegenRate)
<1>1. m.target # a /\ m.queued # a /\ a # Owner
  BY ObjectAssumption, NoneAssumption
     DEF MState, Objects, ObjectAssumption, NoneAssumption
<1> QED BY <1>1 DEF Detach

\* When a lost aircraft leaves the game, its control goes with it.
LEMMA LostLeaves ==
    ASSUME NEW m \in MState, NEW a \in Aircraft, Lost(m, a)
    PROVE  /\ DetachFromAll(m, a) \in MState
           /\ DetachFromAll(m, a).spawnee =
                  [i \in Slots |-> IF m.spawnee[i] = a THEN None ELSE m.spawnee[i]]
           /\ DetachFromAll(m, a).status =
                  [i \in Slots |-> IF m.spawnee[i] = a THEN "Dead" ELSE m.status[i]]
           /\ DetachFromAll(m, a).craft = m.craft
<1> DEFINE S == {i \in Slots : m.spawnee[i] = a /\ Lost(m, a)}
           n == Emptied(m, S, RegenRate)
<1>0. 0 \in Frames /\ RegenRate \in Frames
  BY RatesAreFrames
<1>1. n \in MState
  BY <1>0, EmptiedTyped
<1>2. /\ n.spawnee = [i \in Slots |-> IF i \in S THEN None ELSE m.spawnee[i]]
      /\ n.status = [i \in Slots |-> IF i \in S THEN "Dead" ELSE m.status[i]]
      /\ n.craft = m.craft
  BY DEF Emptied, MState
<1>3. DetachFromAll(m, a) = Untrack(n, {a})
  BY <1>0, DetachAircraft DEF DetachFromAll
<1>4. \A i \in Slots : i \in S <=> m.spawnee[i] = a
  OBVIOUS
<1> HIDE DEF n, S
<1>5. /\ Untrack(n, {a}) \in MState
      /\ Untrack(n, {a}).spawnee = n.spawnee
      /\ Untrack(n, {a}).status = n.status
      /\ Untrack(n, {a}).craft = n.craft
  BY <1>1, UntrackTyped DEF Untrack, MState
<1> QED BY <1>2, <1>3, <1>4, <1>5

\* Until then it keeps its control.
LEMMA KeptStays ==
    ASSUME NEW m \in MState, NEW a \in Aircraft, ~Lost(m, a)
    PROVE  /\ DetachFromAll(m, a) \in MState
           /\ DetachFromAll(m, a).spawnee = m.spawnee
           /\ DetachFromAll(m, a).status = m.status
           /\ DetachFromAll(m, a).craft = m.craft
<1> DEFINE n == Emptied(m, {}, RegenRate)
<1>0. 0 \in Frames /\ RegenRate \in Frames
  BY RatesAreFrames
<1>1. n \in MState
  BY <1>0, EmptiedTyped
<1>2. n.spawnee = m.spawnee /\ n.status = m.status /\ n.craft = m.craft
  BY DEF Emptied, MState
<1>3. DetachFromAll(m, a) = Untrack(n, {a})
  <2>1. {i \in Slots : m.spawnee[i] = a /\ Lost(m, a)} = {}
    OBVIOUS
  <2> QED BY <1>0, <2>1, DetachAircraft DEF DetachFromAll
<1> HIDE DEF n
<1>4. /\ Untrack(n, {a}) \in MState
      /\ Untrack(n, {a}).spawnee = n.spawnee
      /\ Untrack(n, {a}).status = n.status
      /\ Untrack(n, {a}).craft = n.craft
  BY <1>1, UntrackTyped DEF Untrack, MState
<1> QED BY <1>2, <1>3, <1>4

LEMMA SoundDrop ==
    ASSUME NEW m \in MState, NEW n \in MState, Sound(m), NEW a \in Aircraft,
           n.spawnee = [i \in Slots |-> IF m.spawnee[i] = a THEN None ELSE m.spawnee[i]],
           n.status = [i \in Slots |-> IF m.spawnee[i] = a THEN "Dead" ELSE m.status[i]],
           \A b \in Aircraft \ {a} : n.craft[b].place = m.craft[b].place
    PROVE  Sound(n)
BY NoneAssumption DEF NoneAssumption, Sound, MState

\* Case Returning: a wreck that comes home leaves its control, whatever status
\* the control was given before Limbo.
LEMMA LandSound ==
    ASSUME NEW k \in MState, Sound(k), NEW i \in Slots, k.status[i] = "Returning"
    PROVE  Sound(Limbo([k EXCEPT !.status[i] = "Reloading", !.reload[i] = ReloadRate],
                       k.spawnee[i]))
<1> DEFINE m == [k EXCEPT !.status[i] = "Reloading", !.reload[i] = ReloadRate]
           a == k.spawnee[i]
           n == DetachFromAll(m, a)
           p == Limbo(m, a)
<1>0. a \in Aircraft
  BY NoneAssumption DEF NoneAssumption, Sound, MState
<1>1. /\ m \in MState
      /\ m.spawnee = k.spawnee
      /\ m.status = [k.status EXCEPT ![i] = "Reloading"]
      /\ m.craft = k.craft
  <2>1. /\ [k.status EXCEPT ![i] = "Reloading"] \in [Slots -> SlotStatus]
        /\ [k.reload EXCEPT ![i] = ReloadRate] \in [Slots -> Frames]
    BY RatesAreFrames DEF MState, SlotStatus
  <2> QED BY <2>1, Zenon DEF MState
<1>2. p \in MState
  BY <1>0, <1>1, LimboTyped
<1> SUFFICES Sound(p)
  OBVIOUS
<1> HIDE DEF m
<1>3. n \in MState /\ n.craft = k.craft
  BY <1>0, <1>1, LostLeaves, KeptStays
<1>4. /\ p.spawnee = n.spawnee
      /\ p.status = n.status
      /\ \A b \in Aircraft \ {a} : p.craft[b] = k.craft[b]
      /\ k.craft[a].strength # 0 => p.craft[a].place = "limbo"
  <2> DEFINE c == IF m.craft[a].strength = 0 THEN Free
                  ELSE [n.craft[a] EXCEPT !.place = "limbo"]
  <2>1. p = [n EXCEPT !.craft[a] = c]
    BY DEF Limbo
  <2>2. k.craft[a].strength # 0 => c.place = "limbo"
    BY <1>0, <1>1, <1>3 DEF MState, Craft
  <2> HIDE DEF c, n, p
  <2> QED BY <1>0, <1>3, <2>1, <2>2 DEF MState
<1> HIDE DEF p
<1>5. CASE Lost(m, a)
  <2>1. \A j \in Slots : k.spawnee[j] # a => m.status[j] = k.status[j]
    BY <1>1 DEF MState
  <2>2. /\ n.spawnee = [j \in Slots |-> IF m.spawnee[j] = a THEN None ELSE m.spawnee[j]]
        /\ n.status = [j \in Slots |-> IF m.spawnee[j] = a THEN "Dead" ELSE m.status[j]]
    BY <1>0, <1>1, <1>5, LostLeaves
  <2> HIDE DEF n
  <2>3. p.spawnee = [j \in Slots |-> IF k.spawnee[j] = a THEN None ELSE k.spawnee[j]]
    BY <1>1, <1>4, <2>2
  <2>4. p.status = [j \in Slots |-> IF k.spawnee[j] = a THEN "Dead" ELSE k.status[j]]
    BY <1>1, <1>4, <2>1, <2>2
  <2>5. \A b \in Aircraft \ {a} : p.craft[b].place = k.craft[b].place
    BY <1>4
  <2> HIDE DEF a
  <2> QED BY <1>0, <1>2, <2>3, <2>4, <2>5, SoundDrop
<1>6. CASE ~Lost(m, a)
  <2>1. k.craft[a].strength # 0
    BY <1>1, <1>6 DEF Lost
  <2>2. p.craft[a].place = "limbo"
    BY <1>4, <2>1
  <2>3. p.spawnee = k.spawnee /\ p.status = [k.status EXCEPT ![i] = "Reloading"]
    BY <1>0, <1>1, <1>4, <1>6, KeptStays
  <2>4. \A b \in Aircraft \ {a} : p.craft[b].place = k.craft[b].place
    BY <1>4
  <2> QED BY <1>2, <2>2, <2>3, <2>4, SoundMove DEF SlotStatus
<1> QED BY <1>5, <1>6

\* The end of an aircraft: it is a wreck, a kamikaze or a missile.
LEMMA PerishSound ==
    ASSUME NEW m \in MState, Sound(m), NEW a \in Aircraft, Lost(m, a)
    PROVE  /\ [DetachFromAll(m, a) EXCEPT !.craft[a] = Free] \in MState
           /\ Sound([DetachFromAll(m, a) EXCEPT !.craft[a] = Free])
<1> DEFINE n == DetachFromAll(m, a)
           p == [n EXCEPT !.craft[a] = Free]
<1>1. /\ n \in MState
      /\ n.spawnee = [i \in Slots |-> IF m.spawnee[i] = a THEN None ELSE m.spawnee[i]]
      /\ n.status = [i \in Slots |-> IF m.spawnee[i] = a THEN "Dead" ELSE m.status[i]]
      /\ n.craft = m.craft
  BY LostLeaves
<1> HIDE DEF n
<1>2. /\ p \in MState
      /\ p.spawnee = n.spawnee
      /\ p.status = n.status
      /\ \A b \in Aircraft \ {a} : p.craft[b] = m.craft[b]
  BY <1>1, FreshTyped DEF MState
<1> HIDE DEF p
<1>3. Sound(p)
  BY <1>1, <1>2, SoundDrop
<1> QED BY <1>2, <1>3 DEF n, p

------------------------------------------------------------------------------
\* The steps of the specification, one lemma for each part of Next.
LEMMA SoundTurn ==
    ASSUME TypeOK, Sound(Now), Now' \in MState,
           NEW i \in Slots, NEW s \in SlotStatus \ {"Dead"}, status[i] # "Dead",
           spawnee' = spawnee, status' = [status EXCEPT ![i] = s],
           craft'[spawnee[i]].place = IF s \in {"Idle", "Reloading"} THEN "limbo" ELSE "air",
           \A b \in Aircraft \ {spawnee[i]} : craft'[b].place = craft[b].place
    PROVE  Sound(Now')
<1>1. /\ Now.spawnee = spawnee /\ Now.status = status /\ Now.craft = craft
      /\ Now'.spawnee = spawnee' /\ Now'.status = status' /\ Now'.craft = craft'
  BY DEF Now
<1>2. /\ Now'.spawnee = Now.spawnee
      /\ Now'.status = [Now.status EXCEPT ![i] = s]
      /\ Now'.craft[Now.spawnee[i]].place =
            IF s \in {"Idle", "Reloading"} THEN "limbo" ELSE "air"
      /\ \A b \in Aircraft \ {Now.spawnee[i]} : Now'.craft[b].place = Now.craft[b].place
      /\ Now.status[i] # "Dead"
  BY <1>1
<1> QED BY <1>2, NowTyped, SoundMove

LEMMA ControlTurnSound ==
    ASSUME TypeOK, Sound(Now), NEW i \in Slots, ControlTurn(i)
    PROVE  Sound(Now')
<1>0. Now \in MState /\ Now' \in MState /\ 0 \in Frames
  BY NowTyped, ControlTurnTyped, RatesAreFrames
<1>1. /\ Now.spawnee = spawnee /\ Now.status = status /\ Now.craft = craft
      /\ Now'.spawnee = spawnee' /\ Now'.status = status' /\ Now'.craft = craft'
  BY DEF Now
<1>2. status[i] # "Dead" => spawnee[i] \in Aircraft
  BY <1>0, <1>1 DEF Sound, MState
<1>3. craft \in [Aircraft -> Craft]
  BY DEF TypeOK
<1>4. ASSUME NEW m, m \in MState, Sound(m), Becomes(m) PROVE Sound(Now')
  BY <1>4, BecomesNow
<1>5. CASE Scramble(i)
  <2>1. /\ spawnee' = spawnee /\ status' = [status EXCEPT ![i] = "Preparing"]
        /\ craft' = [craft EXCEPT ![spawnee[i]] = [craft[spawnee[i]] EXCEPT !.place = "air"]]
        /\ status[i] = "Idle"
    BY <1>5 DEF Scramble, Becomes, Now, NextTarget
  <2>2. craft'[spawnee[i]].place = "air"
    BY <1>2, <1>3, <2>1 DEF Craft
  <2>3. \A b \in Aircraft \ {spawnee[i]} : craft'[b].place = craft[b].place
    BY <1>3, <2>1
  <2>4. "Preparing" \in SlotStatus \ {"Dead"}
    BY DEF SlotStatus
  <2> QED BY <1>0, <2>1, <2>2, <2>3, <2>4, SoundTurn
<1>6. CASE Departed(i)
  BY <1>0, <1>6, DetachTyped, DetachSound, BecomesNow DEF Departed
<1>7. CASE Gather(i) \/ Engage(i) \/ GoHome(i)
  <2>1. /\ spawnee' = spawnee /\ craft' = craft
        /\ \/ status' = status
           \/ \E s \in {"Returning", "Attacking"} : status' = [status EXCEPT ![i] = s]
        /\ status[i] \in {"Preparing", "Attacking", "Returning"}
    BY <1>7 DEF Gather, Engage, GoHome, Becomes, Now, NextTarget
  <2>2. craft[spawnee[i]].place = "air"
    BY <1>1, <1>2, <2>1, NoneAssumption DEF NoneAssumption, Sound
  <2>3. CASE status' = status
    BY <1>0, <1>1, <2>1, <2>3, SoundSame
  <2>4. ASSUME NEW s \in {"Returning", "Attacking"}, status' = [status EXCEPT ![i] = s]
        PROVE Sound(Now')
    <3>1. s \in SlotStatus \ {"Dead"} /\ s \notin {"Idle", "Reloading"}
      BY DEF SlotStatus
    <3> QED BY <1>0, <2>1, <2>2, <2>4, <3>1, SoundTurn
  <2> QED BY <2>1, <2>3, <2>4
<1>8. CASE Land(i)
  <2> DEFINE k == NextTarget(Now)
             m == [k EXCEPT !.status[i] = "Reloading", !.reload[i] = ReloadRate]
  <2>1. /\ k \in MState /\ Sound(k)
        /\ k.spawnee = spawnee /\ k.status = status
    <3>1. k \in MState /\ Sound(k)
      BY <1>0, NextTargetTyped, TargetsKeepPlaces, NoneIsObject
    <3>2. k.spawnee = spawnee /\ k.status = status
      BY DEF NextTarget, Now
    <3> QED BY <3>1, <3>2
  <2>2. Becomes(Limbo(m, k.spawnee[i])) /\ status[i] = "Returning"
    BY <1>8, <2>1 DEF Land
  <2>3. m \in MState
    <3> HIDE DEF k
    <3> QED BY <2>1, RatesAreFrames DEF MState, SlotStatus
  <2>4. Sound(Limbo(m, k.spawnee[i])) /\ Limbo(m, k.spawnee[i]) \in MState
    BY <2>1, <2>2, <2>3, LandSound, LimboTyped
  <2> HIDE DEF k, m
  <2> QED BY <1>4, <2>2, <2>4
<1>9. CASE Rearm(i)
  <2>1. /\ spawnee' = spawnee /\ status' = [status EXCEPT ![i] = "Idle"]
        /\ craft' = [craft EXCEPT ![spawnee[i]] =
              [[craft[spawnee[i]] EXCEPT !.ammo = MaxAmmo] EXCEPT !.strength = 1]]
        /\ status[i] = "Reloading"
    BY <1>2, <1>3, <1>9 DEF Rearm, Becomes, Now
  <2>2. craft[spawnee[i]].place = "limbo"
    BY <1>1, <1>2, <2>1, NoneAssumption DEF NoneAssumption, Sound
  <2>3. craft'[spawnee[i]].place = "limbo"
    BY <1>2, <1>3, <2>1, <2>2 DEF Craft
  <2>4. \A b \in Aircraft \ {spawnee[i]} : craft'[b].place = craft[b].place
    BY <1>3, <2>1
  <2>5. "Idle" \in SlotStatus \ {"Dead"}
    BY DEF SlotStatus
  <2> QED BY <1>0, <2>1, <2>3, <2>4, <2>5, SoundTurn
<1>10. CASE Rebuild(i)
  <2>1. PICK a \in FreeAircraft :
            /\ spawnee' = [spawnee EXCEPT ![i] = a]
            /\ status' = [status EXCEPT ![i] = "Idle"]
            /\ craft' = [craft EXCEPT ![a] = Fresh(ownerHouse)]
    BY <1>10 DEF Rebuild, Becomes, Now
  <2>2. a \in Aircraft /\ craft[a].place = "free" /\ a # None
    BY NoneAssumption DEF FreeAircraft, NoneAssumption
  <2>3. \A j \in Slots : spawnee[j] # a
    BY <1>1, <2>2 DEF Sound
  <2>4. craft'[a].place = "limbo" /\ \A b \in Aircraft \ {a} : craft'[b] = craft[b]
    BY <1>3, <2>1, <2>2 DEF Fresh
  <2>5. /\ spawnee'[i] = a /\ status'[i] = "Idle"
        /\ \A j \in Slots \ {i} : spawnee'[j] = spawnee[j] /\ status'[j] = status[j]
    BY <2>1 DEF TypeOK
  <2> QED BY <1>0, <1>1, <2>2, <2>3, <2>4, <2>5 DEF Sound, MState
<1>11. CASE Skip(i)
  BY <1>0, <1>1, <1>11, SoundSame DEF Skip, hangarVars
<1> QED BY <1>5, <1>6, <1>7, <1>8, <1>9, <1>10, <1>11 DEF ControlTurn

\* A launch: the aircraft that are preparing take off or attack.
LEMMA VolleySound ==
    ASSUME TypeOK, Sound(Now) PROVE Volley \in MState /\ Sound(Volley)
<1> DEFINE S == With(Now, {"Preparing"})
           n == Add(Now, Crew(Now, S))
           m == LaunchMissiles(Now, S)
<1>0. Now \in MState /\ Volley \in MState /\ TakeoffFrames \in Frames
  BY NowTyped, VolleyTyped, RatesAreFrames
<1>1. \A i \in S : i \in Slots /\ Now.status[i] = "Preparing"
  BY DEF With
<1>2. /\ n \in MState /\ n.spawnee = Now.spawnee /\ n.status = Now.status /\ Sound(n)
      /\ \A a \in Aircraft : n.craft[a].place = Now.craft[a].place
  BY <1>0, AddTyped, AddKeepsPlaces, SoundSame
<1> HIDE DEF S, n
<1>3. m \in MState /\ Sound(m)
  <2>1. CASE SpawnedMissile
    <3> DEFINE f == [i \in Slots |-> IF i \in S THEN "Takeoff" ELSE Now.status[i]]
               g == [i \in Slots |-> IF i \in S THEN TakeoffFrames ELSE Now.reload[i]]
    <3>1. m = [n EXCEPT !.status = f, !.reload = g]
      BY <2>1 DEF LaunchMissiles, n
    <3>2. f \in [Slots -> SlotStatus] /\ g \in [Slots -> Frames]
      BY <1>0 DEF MState, SlotStatus
    <3> HIDE DEF m, f, g
    <3>3. m \in MState /\ m.spawnee = n.spawnee /\ m.craft = n.craft /\ m.status = f
      BY <1>2, <3>1, <3>2 DEF MState
    <3>4. m.status = [i \in Slots |-> IF i \in S THEN "Takeoff" ELSE Now.status[i]]
      BY <3>3 DEF f
    <3> QED BY <1>1, <1>2, <3>3, <3>4 DEF Sound
  <2>2. CASE ~SpawnedMissile
    <3>1. m = Emptied(n, S, RegenRate)
      BY <2>2 DEF LaunchMissiles, n
    <3> QED BY <1>2, <3>1, EmptiedTyped, EmptiedSound, RatesAreFrames
  <2> QED BY <2>1, <2>2
<1>4. CASE MissileSpawn /\ S # {}
  <2>1. Volley = AbandonTarget(m)
    BY <1>4 DEF Volley, S
  <2> HIDE DEF m
  <2> QED BY <1>0, <1>3, <2>1, AbandonTargetSound
<1>5. CASE ~(MissileSpawn /\ S # {})
  <2> DEFINE v == [Now EXCEPT !.status =
                      [i \in Slots |-> IF i \in S THEN "Attacking" ELSE status[i]]]
  <2>1. Volley = v
    BY <1>5 DEF Volley, S
  <2>2. /\ v.spawnee = Now.spawnee /\ v.craft = Now.craft
        /\ v.status = [i \in Slots |-> IF i \in S THEN "Attacking" ELSE Now.status[i]]
    BY DEF Now
  <2> HIDE DEF v
  <2> QED BY <1>0, <1>1, <2>1, <2>2 DEF Sound
<1> QED BY <1>4, <1>5

LEMMA ManagerTurnSound ==
    ASSUME TypeOK, Sound(Now), ManagerTurn PROVE Sound(Now')
<1>0. Now \in MState /\ Now' \in MState
  BY NowTyped, ManagerTurnTyped, TypePartsNext
<1>1. CASE ChooseTarget
  <2>1. NextTarget(Now) \in MState /\ Sound(NextTarget(Now))
    BY <1>0, NextTargetTyped, TargetsKeepPlaces, NoneIsObject
  <2>2. /\ [NextTarget(Now) EXCEPT !.mode = "Launching"] \in MState
        /\ Sound([NextTarget(Now) EXCEPT !.mode = "Launching"])
    BY <2>1 DEF MState, Modes, Sound
  <2> QED BY <1>1, <2>1, <2>2, AbandonTargetTyped, AbandonTargetSound, BecomesNow
          DEF ChooseTarget
<1>2. CASE Launch
  <2> DEFINE v == Volley
  <2>1. v \in MState /\ Sound(v)
    BY VolleySound
  <2>2. Becomes([v EXCEPT !.mode = "Cooldown"])
    BY <1>2 DEF Launch
  <2> HIDE DEF v
  <2>3. [v EXCEPT !.mode = "Cooldown"] \in MState /\ Sound([v EXCEPT !.mode = "Cooldown"])
    BY <2>1 DEF MState, Modes, Sound
  <2> QED BY <2>2, <2>3, BecomesNow
<1>3. CASE HoldLaunch \/ Cool
  <2>1. /\ Now'.spawnee = Now.spawnee /\ Now'.status = Now.status
        /\ Now'.craft = Now.craft
    BY <1>3 DEF HoldLaunch, Cool, hangarVars, Now
  <2> QED BY <1>0, <2>1, SoundSame
<1>4. CASE CallOff
  BY <1>0, <1>4, AbandonTargetTyped, AbandonTargetSound, BecomesNow DEF CallOff
<1> QED BY <1>1, <1>2, <1>3, <1>4 DEF ManagerTurn

LEMMA OrdersSound ==
    ASSUME TypeOK, Sound(Now), Orders \/ TargetFate PROVE Sound(Now')
<1>0. Now \in MState /\ 0 \in Frames
  BY NowTyped, RatesAreFrames
<1>1. CASE Orders
  <2>1. ASSUME NEW o \in Objects
        PROVE  QueueTarget(Now, o) \in MState /\ Sound(QueueTarget(Now, o))
    BY <1>0, QueueTargetTyped, TargetsKeepPlaces
  <2> QED BY <1>0, <1>1, <2>1, AbandonTargetTyped, AbandonTargetSound, NoneIsObject,
             BecomesNow DEF Orders, FireAt, NewOrder, StopOrder
<1>2. ASSUME NEW t \in Targets, TargetLeaves(t) PROVE Sound(Now')
  BY <1>0, <1>2, DetachTyped, DetachSound, BecomesNow DEF TargetLeaves
<1>3. ASSUME NEW t \in Targets, TargetComes(t) PROVE Sound(Now')
  BY <1>3 DEF TargetComes, hangarVars, Now
<1> QED BY <1>1, <1>2, <1>3 DEF TargetFate

\* A wreck, a kamikaze or a missile that comes down takes its control along: this
\* needs the owner to be there, or to have left no control with an aircraft.
LEMMA FlightSound ==
    ASSUME TypeOK, Sound(Now), AircraftFate \/ TrackerRound,
           owner = "dead" => \A i \in Slots : status[i] = "Dead"
    PROVE  Sound(Now')
<1>0. Now \in MState /\ Now' \in MState
  BY NowTyped, FlightTyped, TypePartsNext
<1>1. /\ Now.spawnee = spawnee /\ Now.status = status /\ Now.craft = craft
      /\ Now'.spawnee = spawnee' /\ Now'.status = status' /\ Now'.craft = craft'
      /\ craft \in [Aircraft -> Craft]
  BY DEF Now, TypeOK
<1>2. ASSUME NEW a \in Aircraft, Shoot(a) \/ ShotDown(a) PROVE Sound(Now')
  <2>1. \A b \in Aircraft : craft'[b].place = craft[b].place
    BY <1>1, <1>2 DEF Shoot, ShotDown, Craft
  <2> QED BY <1>0, <1>1, <1>2, <2>1, SoundSame DEF Shoot, ShotDown
<1>3. CASE TrackerRound
  <2>1. \A b \in Aircraft : craft'[b].place = craft[b].place
    BY <1>1, <1>3 DEF TrackerRound, TrackerAI, Craft
  <2> QED BY <1>0, <1>1, <1>3, <2>1, SoundSame DEF TrackerRound
<1>4. ASSUME NEW a \in Aircraft, Perish(a) PROVE Sound(Now')
  <2>1. CASE owner = "dead"
    <3> DEFINE u == Untrack(Now, {a})
               p == [u EXCEPT !.craft[a] = Free]
    <3>1. u \in MState /\ u.spawnee = spawnee /\ u.status = status /\ u.craft = craft
      BY <1>0, UntrackTyped DEF Untrack, Now
    <3>2. Becomes(p)
      BY <1>4, <2>1 DEF Perish
    <3> HIDE DEF u
    <3>3. /\ p \in MState /\ p.spawnee = spawnee /\ p.status = status
          /\ \A b \in Aircraft \ {a} : p.craft[b] = craft[b]
      BY <3>1, FreshTyped DEF MState
    <3>4. \A i \in Slots : spawnee[i] # a
      BY <1>1, <2>1, NoneAssumption DEF NoneAssumption, Sound
    <3> HIDE DEF p
    <3>5. Sound(p)
      BY <1>0, <1>1, <3>3, <3>4, SoundElsewhere
    <3> QED BY <3>2, <3>3, <3>5, BecomesNow
  <2>2. CASE owner # "dead"
    <3>1. Lost(Now, a)
      BY <1>1, <1>4 DEF Perish, Lost
    <3>2. Becomes([DetachFromAll(Now, a) EXCEPT !.craft[a] = Free])
      BY <1>4, <2>2 DEF Perish
    <3> QED BY <1>0, <3>1, <3>2, PerishSound, BecomesNow
  <2> QED BY <2>1, <2>2
<1> QED BY <1>2, <1>3, <1>4 DEF AircraftFate

\* The handlers of a dying owner run on controls that are Dead by then, and leave
\* them so.
AllDead(m) == \A i \in Slots : m.status[i] = "Dead"

LEMMA HandlersKeepDead ==
    ASSUME NEW m \in MState, AllDead(m), NEW o, NEW t \in Frames
    PROVE  AllDead(AbandonTarget(m)) /\ AllDead(Detach(m, o, t))
<1>0. RegenRate \in Frames
  BY RatesAreFrames
<1>1. ASSUME NEW k \in MState, AllDead(k), NEW S, NEW r \in Frames
      PROVE  Emptied(k, S, r) \in MState /\ AllDead(Emptied(k, S, r))
  BY <1>1, EmptiedTyped DEF Emptied, AllDead, MState
<1>2. ASSUME NEW k \in MState, AllDead(k) PROVE AllDead(AbandonTarget(k))
  <2> DEFINE S == IF MissileSpawn THEN With(k, {"Preparing"}) ELSE {}
             n == Emptied(Add(k, Crew(k, S)), S, RegenRate)
  <2>1. n \in MState /\ AllDead(n)
    BY <1>0, <1>1, <1>2, AddTyped, AddKeepsPlaces DEF AllDead
  <2>2. AbandonTarget(k) = [n EXCEPT !.mode = "Idle", !.target = None, !.queued = None]
    BY DEF AbandonTarget
  <2> HIDE DEF n
  <2> QED BY <2>1, <2>2 DEF AllDead, MState
<1>3. /\ [m EXCEPT !.target = None] \in MState /\ AllDead([m EXCEPT !.target = None])
      /\ [m EXCEPT !.queued = None] \in MState /\ AllDead([m EXCEPT !.queued = None])
  BY DEF MState, Objects, AllDead
<1>4. DetachSpawns(m, t) \in MState /\ AllDead(DetachSpawns(m, t))
  <2> DEFINE S == With(m, {"Idle", "Reloading"}) \union With(m, {"Takeoff"})
                    \union With(m, {"Preparing", "Attacking", "Returning"})
             u == Untrack(m, Crew(m, With(m, {"Takeoff"})))
             gone == DeleteMe(u, Crew(m, With(m, {"Idle", "Reloading"})
                                          \union With(m, {"Takeoff"})))
             n == Add(gone, Crew(m, With(m, {"Preparing", "Attacking", "Returning"})))
  <2> HIDE DEF S, u, gone, n
  <2>1. DetachSpawns(m, t) = Emptied(n, S, t)
    BY DEF DetachSpawns, S, u, gone, n
  <2>2. u \in MState /\ u.status = m.status
    BY UntrackTyped DEF Untrack, MState, u
  <2>3. gone \in MState /\ gone.status = m.status
    BY <2>2, DeleteMeTyped, DeleteMeKeepsControls DEF gone
  <2>4. n \in MState /\ AllDead(n)
    BY <2>3, AddTyped, AddKeepsPlaces DEF n, AllDead
  <2> QED BY <1>1, <2>1, <2>4
<1> QED BY <1>0, <1>1, <1>2, <1>3, <1>4 DEF Detach

LEMMA OwnerFateSound ==
    ASSUME TypeOK, Sound(Now), OwnerFate
    PROVE  Sound(Now') /\ (owner' = "dead" => AllDead(Now') \/ UNCHANGED <<owner, status>>)
<1>0. Now \in MState /\ 0 \in Frames /\ RegenRate \in Frames
  BY NowTyped, RatesAreFrames
<1>1. ASSUME NEW h \in Houses, Captured(h) PROVE Sound(Now') /\ owner' # "dead"
  BY <1>0, <1>1, DetachSpawnsTyped, DetachSpawnsSound, BecomesNow DEF Captured
<1>2. CASE Stunned
  <2> DEFINE q == QueueTarget(Now, None)
             d == DetachSpawns(q, RegenRate)
             b == AbandonTarget(d)
             e == Detach(b, Owner, RegenRate)
  <2>1. q \in MState /\ Sound(q)
    BY <1>0, QueueTargetTyped, TargetsKeepPlaces, NoneIsObject
  <2> HIDE DEF q
  <2>2. d \in MState /\ Sound(d) /\ AllDead(d)
    BY <1>0, <2>1, DetachSpawnsTyped, DetachSpawnsSound DEF AllDead
  <2> HIDE DEF d
  <2>3. b \in MState /\ Sound(b) /\ AllDead(b)
    BY <1>0, <2>2, AbandonTargetTyped, AbandonTargetSound, HandlersKeepDead
  <2> HIDE DEF b
  <2>4. e \in MState /\ Sound(e) /\ AllDead(e)
    BY <1>0, <2>3, DetachTyped, DetachSound, HandlersKeepDead
  <2>5. Becomes(e)
    BY <1>2 DEF Stunned, q, d, b
  <2> HIDE DEF e
  <2> QED BY <2>4, <2>5, BecomesNow
<1>3. CASE Board
  BY <1>0, <1>3, DetachTyped, DetachSound, BecomesNow DEF Board
<1>4. CASE Unload
  BY <1>0, <1>4 DEF Unload, hangarVars, Now
<1> QED BY <1>1, <1>2, <1>3, <1>4 DEF OwnerFate

------------------------------------------------------------------------------
(***************************************************************************)
(* Sound is inductive only together with two facts about the owner: AI     *)
(* runs for an owner on the map, and a dead owner's manager has no         *)
(* aircraft left. Without the second, an aircraft that perishes after its  *)
(* owner would stay in its control, because no Detach clears it any more.  *)
(***************************************************************************)
SoundInv ==
    /\ TypeOK
    /\ SlotsSound
    /\ cursor # 0 => owner = "active"
    /\ owner = "dead" => \A i \in Slots : status[i] = "Dead"

LEMMA SoundPrime == SlotsSound' <=> Sound(Now')
BY DEF SlotsSound, Sound, Now

LEMMA InitSound == Init => SoundInv
<1> SUFFICES ASSUME Init PROVE SoundInv
  OBVIOUS
<1>1. TypeOK
  BY InitTyped
<1>2. Sound(Now)
  BY NoneAssumption DEF Init, Sound, Now, NoneAssumption, Fresh
<1> QED BY <1>1, <1>2 DEF SoundInv, SlotsSound, Init

LEMMA AIActive ==
    ASSUME SoundInv, AI PROVE owner = "active" /\ UNCHANGED worldVars
<1>1. CASE BeginAI
  BY <1>1 DEF BeginAI
<1>2. ASSUME NEW i \in Slots, ControlTurn(i) PROVE owner = "active" /\ UNCHANGED worldVars
  <2>1. Turn(i)
    BY <1>2 DEF ControlTurn, Scramble, Departed, Gather, Engage, GoHome, Land, Rearm,
               Rebuild, Skip
  <2>2. i # 0
    BY DEF Slots
  <2> QED BY <2>1, <2>2 DEF Turn, SoundInv
<1>3. CASE ManagerTurn
  <2>1. EndAI
    BY <1>3 DEF ManagerTurn, ChooseTarget, Launch, HoldLaunch, CallOff, Cool
  <2>2. SpawnCount + 1 # 0
    OBVIOUS
  <2> QED BY <2>1, <2>2 DEF EndAI, SoundInv
<1> QED BY <1>1, <1>2, <1>3 DEF AI

LEMMA NextSound == ASSUME SoundInv, Next PROVE SoundInv'
<1>0. /\ TypeOK /\ Sound(Now) /\ Now \in MState
      /\ owner = "dead" => \A i \in Slots : status[i] = "Dead"
  BY NowTyped DEF SoundInv, SlotsSound
<1>1. TypeOK'
  BY <1>0, AITyped, OutsideTyped, FlightTyped, FrameTyped DEF Next
<1>2. Sound(Now')
  <2>1. CASE AI
    <3>1. CASE BeginAI
      BY <1>0, <3>1, QueueTargetTyped, TargetsKeepPlaces, NoneIsObject, BecomesNow DEF BeginAI
    <3> QED BY <1>0, <2>1, <3>1, ControlTurnSound, ManagerTurnSound DEF AI
  <2>2. CASE Frame
    BY <1>0, <2>2 DEF Frame, Sound, Now
  <2> QED BY <1>0, <2>1, <2>2, OrdersSound, OwnerFateSound, FlightSound DEF Next
<1>3. cursor' # 0 => owner' = "active"
  <2>1. CASE AI
    BY <2>1, AIActive DEF worldVars
  <2>2. CASE Orders \/ OwnerFate \/ TargetFate \/ AircraftFate \/ TrackerRound \/ Frame
    BY <2>2 DEF Orders, FireAt, NewOrder, StopOrder, Ordered, OwnerFate, Captured, Stunned,
       Board, Unload, TargetFate, TargetLeaves, TargetComes, AircraftFate, Shoot, ShotDown,
       Perish, TrackerRound, Frame, Outside, clockVars
  <2> QED BY <2>1, <2>2 DEF Next
<1>4. owner' = "dead" => \A i \in Slots : status'[i] = "Dead"
  <2>1. CASE OwnerFate
    BY <1>0, <2>1, OwnerFateSound DEF AllDead, Now
  <2>2. CASE ~OwnerFate /\ owner = "dead"
    <3>1. status' = status
      <4>1. CASE \E a \in Aircraft : Perish(a)
        BY <1>0, <2>2, <4>1 DEF Perish, Becomes, Untrack, Now
      <4>2. ~AI
        BY <2>2, AIActive
      <4> QED BY <2>2, <4>1, <4>2 DEF Next, Orders, FireAt, NewOrder, StopOrder, Ordered,
              TargetFate, TargetLeaves, TargetComes, AircraftFate, Shoot, ShotDown,
              TrackerRound, Frame, Becomes, Now, hangarVars
    <3> QED BY <1>0, <2>2, <3>1
  <2>3. CASE ~OwnerFate /\ owner # "dead"
    <3>1. owner' = owner
      BY <2>3, AIActive DEF Next, Orders, FireAt, NewOrder, StopOrder, Ordered, TargetFate,
         TargetLeaves, TargetComes, AircraftFate, Shoot, ShotDown, Perish, TrackerRound,
         Frame, worldVars
    <3> QED BY <2>3, <3>1
  <2> QED BY <2>1, <2>2, <2>3
<1> QED BY <1>1, <1>2, <1>3, <1>4, SoundPrime DEF SoundInv

\* Whatever order the handlers run in and re-enter each other, the controls and the
\* aircraft agree: a control is Dead exactly when it has no aircraft, its aircraft
\* exists and is docked exactly while its status says so, and no two controls share
\* one (SlotsSound of SpawnManager).
THEOREM SlotsAreSound == Spec => []SlotsSound
<1>1. SoundInv /\ UNCHANGED vars => SoundInv'
  BY DEF SoundInv, TypeOK, SlotsSound, Sound, Now, vars, hangarVars, worldVars, clockVars
<1>2. SoundInv => SlotsSound
  BY DEF SoundInv
<1> QED BY <1>1, <1>2, InitSound, NextSound, PTL DEF Spec
=============================================================================
