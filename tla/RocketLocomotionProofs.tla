------------------------ MODULE RocketLocomotionProofs ------------------------
(* Theorems about RocketLocomotion, for any RocketTypes.                        *)
EXTENDS RocketLocomotion, TLAPS

(* MissionTimer never shows more than it was set to, and a pause that is out    *)
(* is left in the same frame.                                                   *)
TimerFits ==
    /\ In("Pause") => timer <= type.PauseFrames /\ (acted => timer > 0)
    /\ mission \in {"Tilt", "VerticalTakeOff"} => timer <= type.TiltFrames
    /\ ~dest => In("None")

(* The manager never counts less than the rocket has to wait.                   *)
Ahead == control = "Takeoff" /\ briefed => dest /\ Remaining <= takeoff

LaunchInv == TypeOK /\ TimerFits /\ Ahead

USE TypeAssumption

LEMMA TypeFields ==
    TypeOK => /\ type.PauseFrames \in Nat
              /\ type.TiltFrames \in Nat
              /\ type.IsCruiseMissile \in BOOLEAN
  BY DEF TypeOK

LEMMA LessType == ASSUME NEW t \in Nat PROVE Less(t) \in Nat /\ Less(t) <= t
  BY DEF Less

-------------------------------------------------------------------------------
LEMMA ProcessTyped == TypeOK /\ Process => TypeOK'
<1> SUFFICES ASSUME TypeOK, Process PROVE TypeOK'
  OBVIOUS
<1> USE TypeFields DEF TypeOK, Process, FliesOn, Lost, Explode, Move, Wait, Depart,
                       In, Missions, flight, hold
<1>1. CASE Idle
  BY <1>1 DEF Idle
<1>2. CASE Pause
  BY <1>2 DEF Pause
<1>3. CASE Tilt
  BY <1>3 DEF Tilt
<1>4. CASE VerticalTakeOff
  BY <1>4 DEF VerticalTakeOff
<1>5. CASE GainAltitude
  BY <1>5 DEF GainAltitude
<1>6. CASE Cruise
  BY <1>6 DEF Cruise
<1>7. CASE CloseIn
  BY <1>7 DEF CloseIn
<1>8. CASE Hit
  BY <1>8 DEF Hit
<1>9. Idle \/ Pause \/ Tilt \/ VerticalTakeOff \/ GainAltitude \/ Cruise \/ CloseIn \/ Hit
  BY Zenon DEF Process
<1> QED
  BY ONLY <1>1, <1>2, <1>3, <1>4, <1>5, <1>6, <1>7, <1>8, <1>9

LEMMA TypeInitial == Init => TypeOK
<1>1. 0 \in Nat /\ 1 \in 0..1
  OBVIOUS
<1> QED
  BY <1>1, Zenon DEF Init, TypeOK, Missions

LEMMA TypeStep == TypeOK /\ [Next]_vars => TypeOK'
<1> SUFFICES ASSUME TypeOK, [Next]_vars PROVE TypeOK'
  OBVIOUS
<1>1. CASE Process
  BY <1>1, ProcessTyped
<1>2. CASE Tick
  BY <1>2, LessType DEF Tick, TypeOK
<1>3. CASE MoveTo
  BY <1>3, TypeFields DEF MoveTo, TypeOK, Missions, hold
<1>4. CASE Launch
  BY <1>4, TypeFields DEF Launch, Elsewhere, TypeOK, flight
<1>5. CASE Departed
  BY <1>5 DEF Departed, Elsewhere, TypeOK, flight
<1>6. CASE AbandonTarget
  BY <1>6 DEF AbandonTarget, Elsewhere, TypeOK, flight
<1>7. CASE DetachSpawns
  BY <1>7 DEF DetachSpawns, Elsewhere, TypeOK, flight
<1>8. CASE ShotDown
  BY <1>8 DEF ShotDown, TypeOK, flight, hold
<1>9. CASE UNCHANGED vars
  BY <1>9 DEF vars, flight, hold, TypeOK
<1> QED
  BY <1>1, <1>2, <1>3, <1>4, <1>5, <1>6, <1>7, <1>8, <1>9 DEF Next, Manager

(* Every variable keeps its type; in particular no timer goes below zero, in    *)
(* whatever frame the rocket and the manager have their turns.                  *)
THEOREM TypeCorrect == Spec => []TypeOK
  BY TypeInitial, TypeStep, PTL DEF Spec

-------------------------------------------------------------------------------
LEMMA LaunchInitial == Init => LaunchInv
  BY TypeInitial DEF Init, LaunchInv, TimerFits, Ahead, In

(* A turn of the rocket: what it has to wait does not grow.                     *)
LEMMA ProcessAhead ==
    ASSUME LaunchInv, Process PROVE TimerFits' /\ Ahead'
<1> USE TypeFields DEF LaunchInv, TypeOK, TimerFits, Ahead, Remaining, Waiting, In,
                       Process, FliesOn, Lost, Explode, Move, flight, hold
<1>1. CASE Idle
  BY <1>1 DEF Idle
<1>2. CASE Pause /\ timer > 0
  BY <1>2 DEF Pause, Wait
<1>3. CASE Pause /\ timer = 0 /\ type.IsCruiseMissile
  <2>1. mission' = "VerticalTakeOff" /\ timer' = type.TiltFrames /\ type' = type
    BY <1>3 DEF Pause, Wait
  <2>2. Remaining' = Remaining
    BY <1>3, <2>1 DEF Pause, Wait
  <2> QED
    BY <1>3, <2>1, <2>2 DEF Pause, Wait
<1>4. CASE Pause /\ timer = 0 /\ ~type.IsCruiseMissile
  BY <1>4 DEF Pause, Wait
<1>5. CASE (Tilt \/ VerticalTakeOff) /\ timer > 0
  BY <1>5 DEF Tilt, VerticalTakeOff, Wait, Depart
<1>6. CASE (Tilt \/ VerticalTakeOff) /\ timer = 0
  BY <1>6 DEF Tilt, VerticalTakeOff, Wait, Depart
<1>7. CASE GainAltitude \/ Cruise \/ CloseIn \/ Hit
  BY <1>7 DEF GainAltitude, Cruise, CloseIn, Hit
<1> QED
  BY <1>1, <1>2, <1>3, <1>4, <1>5, <1>6, <1>7, TypeFields DEF Process, Pause, Tilt, VerticalTakeOff

(* A frame: both timers run, as far as they are not out. The rocket's is not    *)
(* out in a pause, since the rocket had its turn.                               *)
LEMMA TickAhead ==
    ASSUME LaunchInv, Tick PROVE TimerFits' /\ Ahead'
<1> USE TypeFields DEF LaunchInv, TypeOK, TimerFits, Ahead, Remaining, Waiting, In, Tick, Less
<1>1. CASE In("Pause")
  BY <1>1
<1>2. CASE mission \in {"Tilt", "VerticalTakeOff"}
  BY <1>2
<1>3. CASE ~Waiting
  BY <1>3
<1> QED
  BY <1>1, <1>2, <1>3

LEMMA LaunchStep == LaunchInv /\ [Next]_vars => LaunchInv'
<1> SUFFICES ASSUME LaunchInv, [Next]_vars PROVE TimerFits' /\ Ahead'
  BY TypeStep DEF LaunchInv
<1>1. CASE Process
  BY <1>1, ProcessAhead
<1>2. CASE Tick
  BY <1>2, TickAhead
<1>3. CASE MoveTo
  BY <1>3, TypeFields DEF MoveTo, LaunchInv, TypeOK, TimerFits, Ahead, In, hold
<1>4. CASE Launch
  BY <1>4, TypeFields DEF Launch, Elsewhere, LaunchInv, TypeOK, TimerFits, Ahead,
                          Remaining, Waiting, In, flight
<1>5. CASE Departed \/ AbandonTarget \/ DetachSpawns
  BY <1>5 DEF Departed, AbandonTarget, DetachSpawns, Elsewhere, LaunchInv, TimerFits,
              Ahead, In, flight
<1>6. CASE ShotDown \/ UNCHANGED vars
  BY <1>6 DEF ShotDown, vars, LaunchInv, TimerFits, Ahead, Remaining, Waiting, In, flight, hold
<1> QED
  BY <1>1, <1>2, <1>3, <1>4, <1>5, <1>6 DEF Next, Manager

LetGo == (control = "Takeoff" /\ briefed /\ control' = "none" /\ fate' = "alive")
           => Remaining = 0

(* Only the end of the manager's timer lets a rocket in takeoff go alive.       *)
LEMMA LetGoStep == LaunchInv /\ [Next]_vars => [LetGo]_vars
<1> SUFFICES ASSUME LaunchInv, Next, control = "Takeoff", briefed,
                    control' = "none", fate' = "alive"
             PROVE  Remaining = 0
  BY DEF LetGo
<1>1. Departed
  <2>1. fate = "alive"
    BY DEF Next, Manager, Process, Tick, MoveTo, Launch, Departed, AbandonTarget,
           DetachSpawns, Elsewhere, ShotDown
  <2>2. ~Process
    BY <2>1 DEF Process, Idle, Pause, Tilt, VerticalTakeOff, GainAltitude, Cruise, CloseIn,
                Hit, Wait, Depart, Move, FliesOn, Lost, Explode, hold
  <2>3. ~Tick /\ ~MoveTo /\ ~ShotDown
    BY DEF Tick, MoveTo, ShotDown, hold
  <2> QED
    BY <2>2, <2>3 DEF Next, Manager, Launch, AbandonTarget, DetachSpawns
<1>2. takeoff = 0 /\ Remaining <= takeoff
  BY <1>1 DEF Departed, LaunchInv, Ahead
<1>3. Remaining \in Nat
  BY TypeFields DEF LaunchInv, TypeOK, Remaining
<1> QED
  BY <1>2, <1>3

(* When the manager lets a rocket go that had its destination at launch, the    *)
(* rocket has nothing left to wait, for any numbers of frames.                  *)
THEOREM RocketsAreReady == Spec => LetGoWhenDone
<1>1. Spec => []LaunchInv
  BY LaunchInitial, LaunchStep, PTL DEF Spec
<1>2. [][LetGo]_vars <=> LetGoWhenDone
  BY PTL DEF LetGo, LetGoWhenDone
<1> QED
  BY <1>1, <1>2, LetGoStep, PTL DEF Spec
=============================================================================
