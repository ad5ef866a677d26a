---------------------------- MODULE SpawnManager ----------------------------
(***************************************************************************)
(* One SpawnManagerClass object: the hangar of a unit or building that     *)
(* launches aircraft or rockets (src/src/new/spawnmanager/spawnmanager.cpp),*)
(* with the hooks that call it and the aircraft it flies.                  *)
(*                                                                         *)
(* AI() runs over the controls in a loop and then over the manager's own   *)
(* status; the model gives each turn of the loop a step, numbered by       *)
(* cursor, so that what one turn leaves is seen by the next. Everything    *)
(* else the engine does happens between two calls of AI (cursor = 0), as   *)
(* in the single-threaded game loop, except for what AI itself calls back: *)
(* Limbo and Detach re-enter the manager and are part of the step.         *)
(*                                                                         *)
(* The handlers that loop and call each other (Detach, Abandon_Target,     *)
(* Detach_Spawns) are operators from a record of the state to a record;    *)
(* Becomes makes that record the next state.                               *)
(***************************************************************************)
EXTENDS KamikazeTracker

CONSTANTS
    SpawnCount,      \* SpawnsNumber=: how many controls there are
    SpawnedMissile,  \* the aircraft type has a RocketType
    RegenRate,       \* the four rates, in frames
    ReloadRate,
    SpawnRate,
    LogicRate,
    TakeoffFrames,   \* the RocketType's PauseFrames + TiltFrames
    Targets,         \* things of the map the owner can be ordered to attack
    Owner            \* the unit or building itself

ASSUME CountAssumption == SpawnCount \in Nat
ASSUME RateAssumption ==
    /\ {RegenRate, ReloadRate, SpawnRate, TakeoffFrames} \subseteq Nat
    /\ LogicRate \in Nat \ {0}   \* AI runs once a frame, so that 0 acts like 1
ASSUME KindAssumption == SpawnedMissile \in BOOLEAN
ASSUME ObjectAssumption ==
    /\ None \notin Targets \union {Owner}
    /\ Owner \notin Targets \union Aircraft
    /\ Targets \intersect Aircraft = {}

VARIABLES
    spawnee,     \* SpawnControls[i]->Spawnee
    status,      \* SpawnControls[i]->Status
    reload,      \* SpawnControls[i]->ReloadTimer, frames left
    mode,        \* the manager's own Status
    target,      \* Target
    queued,      \* QueuedTarget
    spawnTimer,
    logicTimer,
    cursor,      \* 0 outside AI; i in control i; SpawnCount + 1 after the loop
    grounded,    \* in this AI: ion storm, EMP, or a missile launcher on the move
    owner,       \* whether the owner is on the map, off it, or gone
    ownerHouse,
    present      \* the Targets that exist and are on the map

hangarVars == <<spawnee, status, reload, mode, target, queued, craft, tracked>>
worldVars == <<owner, ownerHouse, present>>
clockVars == <<spawnTimer, logicTimer, cursor, grounded>>
vars == <<hangarVars, worldVars, clockVars>>

Slots == 1..SpawnCount
SlotStatus == {"Idle", "Takeoff", "Preparing", "Attacking", "Returning",
               "Reloading", "Dead"}
Modes == {"Idle", "Launching", "Cooldown"}
Objects == Targets \union {None}
Frames == 0..(RegenRate + ReloadRate + SpawnRate + LogicRate + TakeoffFrames)

TypeOK ==
    /\ spawnee \in [Slots -> Aircraft \union {None}]
    /\ status \in [Slots -> SlotStatus]
    /\ reload \in [Slots -> Frames]
    /\ mode \in Modes
    /\ target \in Objects
    /\ queued \in Objects
    /\ craft \in [Aircraft -> Craft]
    /\ tracked \in [Aircraft -> Nat]
    /\ spawnTimer \in Frames
    /\ logicTimer \in Frames
    /\ cursor \in 0..(SpawnCount + 1)
    /\ grounded \in BOOLEAN
    /\ owner \in {"active", "limbo", "dead"}
    /\ ownerHouse \in Houses
    /\ present \subseteq Targets

------------------------------------------------------------------------------
\* The state in flight, and its return to the variables.
Now == [spawnee |-> spawnee, status |-> status, reload |-> reload, mode |-> mode,
        target |-> target, queued |-> queued, craft |-> craft, tracked |-> tracked]

Becomes(m) ==
    /\ spawnee' = m.spawnee
    /\ status' = m.status
    /\ reload' = m.reload
    /\ mode' = m.mode
    /\ target' = m.target
    /\ queued' = m.queued
    /\ craft' = m.craft
    /\ tracked' = m.tracked

\* The controls with one of the statuses st.
With(m, st) == {i \in Slots : m.status[i] \in st}

\* The aircraft in the controls S.
Crew(m, S) == {m.spawnee[i] : i \in S}

\* Control i, for i in S, has no aircraft and waits t frames for the next one.
Emptied(m, S, t) ==
    [m EXCEPT
        !.spawnee = [i \in Slots |-> IF i \in S THEN None ELSE m.spawnee[i]],
        !.status = [i \in Slots |-> IF i \in S THEN "Dead" ELSE m.status[i]],
        !.reload = [i \in Slots |-> IF i \in S THEN t ELSE m.reload[i]]]

\* Mutant: the current target is queued again.
QueueTargetAlways(m, o) == [m EXCEPT !.queued = o]

QueueTarget(m, o) ==
    IF o # m.target THEN [m EXCEPT !.queued = o] ELSE m

NextTarget(m) ==
    IF m.queued = None THEN m
    ELSE [m EXCEPT !.target = m.queued, !.queued = None]

\* Mutant: rockets that are taking off are handed over a second time.
AbandonTargetInTakeoff(m) ==
    LET S == IF MissileSpawn THEN With(m, {"Preparing", "Takeoff"}) ELSE {}
    IN [Emptied(Add(m, Crew(m, S)), S, RegenRate) EXCEPT
            !.mode = "Idle", !.target = None, !.queued = None]

(***************************************************************************)
(* Abandon_Target. A missile that is still preparing goes to the tracker   *)
(* and leaves its control through Detach, which by then finds it a         *)
(* kamikaze.                                                               *)
(***************************************************************************)
AbandonTarget(m) ==
    LET S == IF MissileSpawn THEN With(m, {"Preparing"}) ELSE {}
    IN [Emptied(Add(m, Crew(m, S)), S, RegenRate) EXCEPT
            !.mode = "Idle", !.target = None, !.queued = None]

\* Mutant: the docked aircraft are dropped but not deleted.
DetachSpawnsUndeleted(m, regen) ==
    LET takeoff == With(m, {"Takeoff"})
        flying == With(m, {"Preparing", "Attacking", "Returning"})
    IN Emptied(Add(DeleteMe(m, Crew(m, takeoff)), Crew(m, flying)),
               With(m, SlotStatus), regen)

\* Mutant: only the docked aircraft are dropped.
DetachSpawnsDocked(m, regen) ==
    LET docked == With(m, {"Idle", "Reloading"})
    IN Emptied(DeleteMe(m, Crew(m, docked)), docked, regen)

(***************************************************************************)
(* Detach_Spawns, with regen = 0 for an owner that lives on. Docked        *)
(* aircraft and rockets taking off are deleted, the rest is handed to the  *)
(* tracker. The Detach that Delete_Me and On_Death call back finds the     *)
(* control already Dead, and what it writes is overwritten.                *)
(***************************************************************************)
DetachSpawns(m, regen) ==
    LET docked == With(m, {"Idle", "Reloading"})
        takeoff == With(m, {"Takeoff"})
        flying == With(m, {"Preparing", "Attacking", "Returning"})
        gone == DeleteMe(Untrack(m, Crew(m, takeoff)), Crew(m, docked \union takeoff))
    IN Emptied(Add(gone, Crew(m, flying)), docked \union takeoff \union flying, regen)

(***************************************************************************)
(* Detach(o): o is leaving the map or the game. An aircraft that is        *)
(* neither a wreck, nor a kamikaze, nor a missile keeps its control: it    *)
(* has landed.                                                             *)
(***************************************************************************)
Lost(m, a) ==
    \/ m.craft[a].strength = 0
    \/ m.craft[a].kamikaze
    \/ SpawnedMissile

Detach(m, o, regen) ==
    IF m.target = o THEN
        LET untargeted == [m EXCEPT !.target = None]
        IN IF m.queued = None THEN AbandonTarget(untargeted) ELSE untargeted
    ELSE IF m.queued = o THEN
        [m EXCEPT !.queued = None]
    ELSE IF o = Owner THEN
        AbandonTarget(DetachSpawns(m, regen))
    ELSE
        Emptied(m, {i \in Slots : m.spawnee[i] = o /\ Lost(m, o)}, RegenRate)

\* Detach_This_From_All for an aircraft: the manager first, then the tracker.
DetachFromAll(m, a) == Untrack(Detach(m, a, 0), {a})

(***************************************************************************)
(* Limbo of an aircraft that has come home. A wreck does not survive it.   *)
(***************************************************************************)
Limbo(m, a) ==
    LET n == DetachFromAll(m, a)
    IN [n EXCEPT !.craft[a] =
            IF m.craft[a].strength = 0 THEN Free
            ELSE [n.craft[a] EXCEPT !.place = "limbo"]]

ActiveCount == Cardinality({i \in Slots : status[i] # "Dead"})

\* Preparing_Count() > 0.
SomePreparing ==
    \E i \in Slots :
        \/ status[i] = "Takeoff"
        \/ status[i] = "Preparing" /\ MissileSpawn /\ craft[spawnee[i]].place = "air"

------------------------------------------------------------------------------
Init ==
    /\ ownerHouse \in Houses
    /\ \E crew \in [Slots -> Aircraft] :
        /\ \A i, j \in Slots : crew[i] = crew[j] => i = j
        /\ spawnee = crew
        /\ craft = [a \in Aircraft |->
               IF a \in {crew[i] : i \in Slots} THEN Fresh(ownerHouse) ELSE Free]
    /\ status = [i \in Slots |-> "Idle"]
    /\ reload = [i \in Slots |-> 0]
    /\ mode = "Idle"
    /\ target = None
    /\ queued = None
    /\ tracked = [a \in Aircraft |-> 0]
    /\ spawnTimer = 0
    /\ logicTimer = 0
    /\ cursor = 0
    /\ grounded = FALSE
    /\ owner = "active"
    /\ present = Targets

------------------------------------------------------------------------------
(***************************************************************************)
(* AI. A turn that only skips its control leaves the hangar as it is.      *)
(*                                                                         *)
(* PoolSuffices is a bound of the model: a pass waits until enough         *)
(* addresses are free for every dead control to get its new aircraft.      *)
(***************************************************************************)
FreeAircraft == {a \in Aircraft : craft[a].place = "free"}

PoolSuffices ==
    Cardinality({i \in Slots : status[i] = "Dead"}) <= Cardinality(FreeAircraft)

BeginAI ==
    /\ cursor = 0
    /\ owner = "active"
    /\ logicTimer = 0
    /\ PoolSuffices
    /\ cursor' = 1
    /\ logicTimer' = LogicRate
    /\ \E emp \in BOOLEAN, stormOrMoving \in BOOLEAN :
        /\ grounded' = (emp \/ stormOrMoving)
        /\ Becomes(IF emp THEN QueueTarget(Now, None) ELSE Now)
    /\ UNCHANGED <<worldVars, spawnTimer>>

Turn(i) ==
    /\ cursor = i
    /\ cursor' = i + 1
    /\ UNCHANGED <<worldVars, logicTimer, grounded>>

\* Mutant: aircraft start only while no launch is under way.
MayScrambleIdle == target # None /\ spawnTimer = 0 /\ mode = "Idle" /\ ~grounded

MayScramble ==
    /\ target # None
    /\ spawnTimer = 0
    /\ mode # "Cooldown"
    /\ ~grounded

\* Case Idle: the aircraft leaves the hangar.
Scramble(i) ==
    /\ Turn(i)
    /\ status[i] = "Idle"
    /\ MayScramble
    /\ spawnTimer' = SpawnRate
    /\ LET out == [Now EXCEPT !.status[i] = "Preparing",
                              !.craft[spawnee[i]].place = "air"]
       IN Becomes(IF SpawnedMissile THEN NextTarget(out) ELSE out)

\* Case Takeoff: the rocket has left the launcher.
Departed(i) ==
    /\ Turn(i)
    /\ status[i] = "Takeoff"
    /\ reload[i] = 0
    /\ Becomes(Detach(Now, spawnee[i], 0))
    /\ UNCHANGED spawnTimer

\* Case Preparing: an aircraft without a target goes home.
Gather(i) ==
    /\ Turn(i)
    /\ status[i] = "Preparing"
    /\ ~SpawnedMissile
    /\ LET m == NextTarget(Now)
       IN Becomes(IF m.target = None THEN [m EXCEPT !.status[i] = "Returning"] ELSE m)
    /\ UNCHANGED spawnTimer

\* Mutant: the ammunition is not looked at.
EngageUnarmed(i) ==
    /\ Turn(i)
    /\ status[i] = "Attacking"
    /\ LET m == NextTarget(Now)
       IN Becomes(IF m.target # None THEN m ELSE [m EXCEPT !.status[i] = "Returning"])
    /\ UNCHANGED spawnTimer

\* Case Attacking: on with it, or home when out of ammunition or targets.
Engage(i) ==
    /\ Turn(i)
    /\ status[i] = "Attacking"
    /\ LET m == NextTarget(Now)
       IN Becomes(IF craft[spawnee[i]].ammo > 0 /\ m.target # None THEN m
                  ELSE [m EXCEPT !.status[i] = "Returning"])
    /\ UNCHANGED spawnTimer

\* Case Returning: back to the attack, still on the way, or landed. The status
\* is set before Limbo, whose Detach overrules it when the aircraft is a wreck.
GoHome(i) ==
    /\ Turn(i)
    /\ status[i] = "Returning"
    /\ LET m == NextTarget(Now)
       IN \/ /\ craft[spawnee[i]].ammo > 0 /\ m.target # None
             /\ Becomes([m EXCEPT !.status[i] = "Attacking"])
          \/ /\ ~(craft[spawnee[i]].ammo > 0 /\ m.target # None)
             /\ Becomes(m)
    /\ UNCHANGED spawnTimer

\* Mutant: the status is set after Limbo.
LandLate(i) ==
    /\ Turn(i)
    /\ status[i] = "Returning"
    /\ LET m == NextTarget(Now)
       IN /\ ~(craft[spawnee[i]].ammo > 0 /\ m.target # None)
          /\ Becomes([Limbo(m, spawnee[i]) EXCEPT !.status[i] = "Reloading",
                                                 !.reload[i] = ReloadRate])
    /\ UNCHANGED spawnTimer

Land(i) ==
    /\ Turn(i)
    /\ status[i] = "Returning"
    /\ LET m == NextTarget(Now)
       IN /\ ~(craft[spawnee[i]].ammo > 0 /\ m.target # None)
          /\ Becomes(Limbo([m EXCEPT !.status[i] = "Reloading",
                                    !.reload[i] = ReloadRate], spawnee[i]))
    /\ UNCHANGED spawnTimer

\* Case Reloading: ready again.
Rearm(i) ==
    /\ Turn(i)
    /\ status[i] = "Reloading"
    /\ reload[i] = 0
    /\ Becomes([Now EXCEPT !.status[i] = "Idle",
                          !.craft[spawnee[i]].ammo = MaxAmmo,
                          !.craft[spawnee[i]].strength = 1])
    /\ UNCHANGED spawnTimer

\* Mutant: the status stays Dead.
RebuildDead(i) ==
    /\ Turn(i)
    /\ status[i] = "Dead"
    /\ reload[i] = 0
    /\ \E a \in FreeAircraft :
        Becomes([Now EXCEPT !.spawnee[i] = a, !.craft[a] = Fresh(ownerHouse)])
    /\ UNCHANGED spawnTimer

\* Case Dead: a new aircraft, of the owner's house of now.
Rebuild(i) ==
    /\ Turn(i)
    /\ status[i] = "Dead"
    /\ reload[i] = 0
    /\ \E a \in FreeAircraft :
        Becomes([Now EXCEPT !.status[i] = "Idle", !.spawnee[i] = a,
                            !.craft[a] = Fresh(ownerHouse)])
    /\ UNCHANGED spawnTimer

Skip(i) ==
    /\ Turn(i)
    /\ \/ status[i] = "Idle" /\ ~MayScramble
       \/ status[i] \in {"Takeoff", "Reloading", "Dead"} /\ reload[i] > 0
       \/ status[i] = "Preparing" /\ SpawnedMissile
    /\ UNCHANGED <<hangarVars, spawnTimer>>

ControlTurn(i) ==
    \/ Scramble(i) \/ Departed(i) \/ Gather(i) \/ Engage(i)
    \/ GoHome(i) \/ Land(i) \/ Rearm(i) \/ Rebuild(i) \/ Skip(i)

------------------------------------------------------------------------------
\* The second half of AI.
EndAI ==
    /\ cursor = SpawnCount + 1
    /\ cursor' = 0
    /\ grounded' = FALSE
    /\ UNCHANGED <<worldVars, spawnTimer, logicTimer>>

\* Manager Idle: begin a launch, or give up a target out of range.
ChooseTarget ==
    /\ EndAI
    /\ mode = "Idle"
    /\ LET m == NextTarget(Now)
       IN \E inRange \in BOOLEAN :
            Becomes(IF m.target = None THEN m
                    ELSE IF inRange THEN [m EXCEPT !.mode = "Launching"]
                    ELSE AbandonTarget(m))

LaunchReady == \A i \in Slots : status[i] \in {"Preparing", "Dead"}

\* Mutant: missiles without a RocketType stay in their control.
LaunchMissilesKept(m, S) == Add(m, Crew(m, S))

(***************************************************************************)
(* Manager Launching, with every control Preparing or Dead. Missiles go to *)
(* the tracker, and rockets take off while other missiles leave their      *)
(* control at once; aircraft attack. A missile launcher then drops the     *)
(* target.                                                                 *)
(***************************************************************************)
LaunchMissiles(m, S) ==
    LET away == Add(m, Crew(m, S))
    IN IF SpawnedMissile
       THEN [away EXCEPT
                !.status = [i \in Slots |->
                    IF i \in S THEN "Takeoff" ELSE m.status[i]],
                !.reload = [i \in Slots |->
                    IF i \in S THEN TakeoffFrames ELSE m.reload[i]]]
       ELSE Emptied(away, S, RegenRate)

Volley ==
    LET S == With(Now, {"Preparing"})
    IN IF MissileSpawn /\ S # {}
       THEN AbandonTarget(LaunchMissiles(Now, S))
       ELSE [Now EXCEPT !.status = [i \in Slots |->
                IF i \in S THEN "Attacking" ELSE status[i]]]

Launch ==
    /\ EndAI
    /\ mode = "Launching"
    /\ target # None
    /\ LaunchReady
    /\ Becomes([Volley EXCEPT !.mode = "Cooldown"])

HoldLaunch ==
    /\ EndAI
    /\ mode = "Launching"
    /\ target # None
    /\ ~LaunchReady
    /\ UNCHANGED hangarVars

CallOff ==
    /\ EndAI
    /\ mode = "Launching"
    /\ target = None
    /\ Becomes(AbandonTarget(Now))

Cool ==
    /\ EndAI
    /\ mode = "Cooldown"
    /\ mode' = IF \E i \in Slots : status[i] \in {"Attacking", "Returning"}
               THEN "Cooldown" ELSE "Idle"
    /\ UNCHANGED <<spawnee, status, reload, target, queued, craft, tracked>>

ManagerTurn == ChooseTarget \/ Launch \/ HoldLaunch \/ CallOff \/ Cool

------------------------------------------------------------------------------
\* Between two calls of AI. The manager goes with its owner.
Outside ==
    /\ cursor = 0
    /\ UNCHANGED clockVars

Ordered ==
    /\ Outside
    /\ owner = "active"
    /\ UNCHANGED worldVars

\* Fire_At, once Can_Fire allows it.
FireAt(o) ==
    /\ Ordered
    /\ o \in present
    /\ ~SomePreparing
    /\ ActiveCount > 0
    /\ Becomes(QueueTarget(Now, o))

\* TechnoClass::Assign_Target: any new order withdraws the queued target.
NewOrder ==
    /\ Ordered
    /\ Becomes(QueueTarget(Now, None))

\* The IDLE event, and a shot that Can_Fire refuses for good.
StopOrder ==
    /\ Ordered
    /\ Becomes(AbandonTarget(Now))

\* Mutant: the aircraft stay with the hangar.
CapturedWhole(h) ==
    /\ Outside
    /\ owner = "active"
    /\ h # ownerHouse
    /\ ownerHouse' = h
    /\ UNCHANGED <<hangarVars, owner, present>>

Captured(h) ==
    /\ Outside
    /\ owner = "active"
    /\ h # ownerHouse
    /\ Becomes(DetachSpawns(Now, 0))
    /\ ownerHouse' = h
    /\ UNCHANGED <<owner, present>>

\* Stun of a destroyed owner, Detach_All and the destructor.
Stunned ==
    /\ Outside
    /\ owner \in {"active", "limbo"}
    /\ Becomes(Detach(AbandonTarget(DetachSpawns(QueueTarget(Now, None), RegenRate)),
                      Owner, RegenRate))
    /\ owner' = "dead"
    /\ UNCHANGED <<ownerHouse, present>>

\* The owner boards a transport: Limbo detaches it from everything, itself too.
Board ==
    /\ Outside
    /\ owner = "active"
    /\ Becomes(Detach(Now, Owner, 0))
    /\ owner' = "limbo"
    /\ UNCHANGED <<ownerHouse, present>>

Unload ==
    /\ Outside
    /\ owner = "limbo"
    /\ owner' = "active"
    /\ UNCHANGED <<hangarVars, ownerHouse, present>>

TargetLeaves(t) ==
    /\ Outside
    /\ t \in present
    /\ present' = present \ {t}
    /\ Becomes(IF owner = "dead" THEN Now ELSE Detach(Now, t, 0))
    /\ UNCHANGED <<owner, ownerHouse>>

TargetComes(t) ==
    /\ Outside
    /\ t \in Targets \ present
    /\ present' = present \union {t}
    /\ UNCHANGED <<hangarVars, owner, ownerHouse>>

------------------------------------------------------------------------------
\* The aircraft between two frames.
Shoot(a) ==
    /\ Outside
    /\ craft[a].place = "air" /\ craft[a].ammo > 0
    /\ \E i \in Slots : spawnee[i] = a /\ status[i] = "Attacking"
    /\ craft' = [craft EXCEPT ![a].ammo = @ - 1]
    /\ UNCHANGED <<spawnee, status, reload, mode, target, queued, tracked, worldVars>>

ShotDown(a) ==
    /\ Outside
    /\ craft[a].place = "air" /\ craft[a].strength = 1
    /\ craft' = [craft EXCEPT ![a].strength = 0]
    /\ UNCHANGED <<spawnee, status, reload, mode, target, queued, tracked, worldVars>>

\* A wreck comes down, a kamikaze hits its cell, a rocket explodes.
Perish(a) ==
    /\ Outside
    /\ craft[a].place = "air"
    /\ \/ craft[a].strength = 0
       \/ craft[a].kamikaze /\ craft[a].sent
       \/ SpawnedMissile
    /\ LET m == IF owner = "dead" THEN Untrack(Now, {a}) ELSE DetachFromAll(Now, a)
       IN Becomes([m EXCEPT !.craft[a] = Free])
    /\ UNCHANGED worldVars

TrackerRound ==
    /\ Outside
    /\ TrackerAI
    /\ UNCHANGED <<spawnee, status, reload, mode, target, queued, worldVars>>

\* A frame passes; every frame calls AI, which acts when logicTimer is out.
Frame ==
    /\ cursor = 0
    /\ owner = "active" => logicTimer > 0
    /\ reload' = [i \in Slots |-> IF reload[i] > 0 THEN reload[i] - 1 ELSE 0]
    /\ spawnTimer' = IF spawnTimer > 0 THEN spawnTimer - 1 ELSE 0
    /\ logicTimer' = IF logicTimer > 0 THEN logicTimer - 1 ELSE 0
    /\ UNCHANGED <<spawnee, status, mode, target, queued, craft, tracked,
                   worldVars, cursor, grounded>>

------------------------------------------------------------------------------
AI == BeginAI \/ (\E i \in Slots : ControlTurn(i)) \/ ManagerTurn

Orders ==
    \/ \E o \in Targets : FireAt(o)
    \/ NewOrder
    \/ StopOrder

OwnerFate == (\E h \in Houses : Captured(h)) \/ Stunned \/ Board \/ Unload

TargetFate == \E t \in Targets : TargetLeaves(t) \/ TargetComes(t)

AircraftFate == \E a \in Aircraft : Shoot(a) \/ ShotDown(a) \/ Perish(a)

Next == AI \/ Orders \/ OwnerFate \/ TargetFate \/ AircraftFate \/ TrackerRound \/ Frame

Spec == Init /\ [][Next]_vars

------------------------------------------------------------------------------
\* Every control has an aircraft that exists, and is Dead exactly when it has
\* none; the aircraft is off the map exactly while docked, and flies for no
\* other control. Order of the statements around Limbo, spawnmanager.cpp:566-575.
Sound(m) ==
    \A i \in Slots :
        /\ m.spawnee[i] = None <=> m.status[i] = "Dead"
        /\ m.spawnee[i] # None =>
              /\ m.craft[m.spawnee[i]].place =
                    IF m.status[i] \in {"Idle", "Reloading"} THEN "limbo" ELSE "air"
              /\ \A j \in Slots : m.spawnee[j] = m.spawnee[i] => j = i

SlotsSound == Sound(Now)

\* No aircraft is left off the map without a control that can bring it back:
\* Detach_Spawns deletes the docked ones, spawnmanager.cpp:794-799.
NoneForgotten ==
    \A a \in Aircraft : craft[a].place = "limbo" => \E i \in Slots : spawnee[i] = a

\* The tracker steers aircraft that exist, each once, and all the kamikazes
\* (kamikazetracker.cpp:191-256); a control still holds one only during Takeoff.
TrackerSound ==
    \A a \in Aircraft :
        /\ tracked[a] = IF craft[a].kamikaze THEN 1 ELSE 0
        /\ craft[a].kamikaze => craft[a].place = "air"
        /\ \A i \in Slots : spawnee[i] = a => (craft[a].kamikaze <=> status[i] = "Takeoff")

\* The manager never keeps a target that has left the map. Detach clears only
\* one of Target and QueuedTarget (spawnmanager.cpp:887-899), so they must differ.
TargetsPresent ==
    owner # "dead" => {target, queued} \subseteq present \union {None}

\* The controls fly for the house that owns the spawner, also after a capture:
\* technoext_hooks.cpp:2671-2686.
Allegiance ==
    \A i \in Slots : spawnee[i] # None => craft[spawnee[i]].house = ownerHouse

Abstract == INSTANCE Hangar WITH
    where <- [i \in Slots |->
                IF status[i] \in {"Idle", "Reloading"} THEN "docked"
                ELSE IF status[i] = "Dead" THEN "gone" ELSE "out"],
    occupant <- spawnee

\* The manager implements the abstract hangar.
ImplementsHangar == Abstract!Spec

------------------------------------------------------------------------------
(***************************************************************************)
(* Fairness. The game loop runs frames, AI and the tracker without end,    *)
(* and while it waits for memory (PoolSuffices) what must come down does.  *)
(*                                                                         *)
(* In flight an aircraft also uses its ammunition, arrives if it goes home *)
(* again and again, and comes down once it is a wreck, a sent kamikaze or  *)
(* a rocket. That fairness is strong, because a pass of AI interrupts what *)
(* the aircraft do.                                                        *)
(***************************************************************************)
Fairness ==
    /\ WF_vars(Frame)
    /\ WF_vars(AI)
    /\ WF_vars(TrackerRound)
    /\ WF_vars(\E a \in Aircraft : Perish(a))

FlightFairness ==
    /\ SF_vars(TrackerRound)
    /\ SF_vars(\E a \in Aircraft : Shoot(a))
    /\ \A a \in Aircraft : SF_vars(Perish(a))
    /\ \A i \in Slots : SF_vars(Land(i))

\* Ion storms, EMP and the owner's own driving end often enough to start.
StartFairness == SF_vars(BeginAI /\ ~grounded')

FlightSpec == Spec /\ Fairness /\ FlightFairness

VolleySpec == FlightSpec /\ StartFairness

\* A dead control gets a new aircraft, as long as the spawner is on the map:
\* case Dead of AI, spawnmanager.cpp:608-628.
Regenerates ==
    \A i \in Slots :
        (status[i] = "Dead" /\ owner = "active") ~> (status[i] # "Dead" \/ owner # "active")

\* After a launch the manager becomes ready for the next one: Cooldown waits for
\* the aircraft that are attacking or returning, spawnmanager.cpp:734-749.
CooldownEnds ==
    (mode = "Cooldown" /\ owner = "active") ~> (mode # "Cooldown" \/ owner # "active")

\* An aircraft let go as a kamikaze comes down, because the tracker keeps sending
\* it: kamikazetracker.cpp:215-236.
KamikazesEnd == \A a \in Aircraft : craft[a].kamikaze ~> ~craft[a].kamikaze

\* A launch waits until all controls are Preparing or Dead (spawnmanager.cpp:661-670),
\* and the ones that are ready wait for the ones that reload. They do not wait
\* for ever, once nobody shoots them down any more.
Peace == <>[](\A a \in Aircraft : craft[a].place = "air" => craft[a].strength = 1)

VolleyLeaves ==
    Peace => ((mode = "Launching" /\ owner = "active")
                 ~> (mode # "Launching" \/ owner # "active"))
==============================================================================
