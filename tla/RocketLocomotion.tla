--------------------------- MODULE RocketLocomotion ---------------------------
(***************************************************************************)
(* One rocket from its launcher to its end                                 *)
(* (src/src/new/locomotion/rocketlocomotion.cpp), and the control of the   *)
(* spawn manager that launches it, which never looks at the locomotor and  *)
(* counts the frames of the takeoff by a timer of its own                  *)
(* (src/src/new/spawnmanager/spawnmanager.cpp).                            *)
(*                                                                         *)
(* The model keeps the missions, the timers and who holds the rocket.  Its *)
(* course is left open: facing, pitch, speed, height and distance are no   *)
(* variables, and every test of them may come out either way.              *)
(***************************************************************************)
EXTENDS Integers

CONSTANT RocketTypes   \* the RocketTypes, of which the model keeps three fields

ASSUME TypeAssumption ==
    RocketTypes \subseteq [PauseFrames : Nat, TiltFrames : Nat, IsCruiseMissile : BOOLEAN]

VARIABLES
    type,        \* the RocketType
    mission,     \* MissionState
    timer,       \* MissionTimer, frames left
    dest,        \* whether it has its DestinationCoord
    strength,
    fate,        \* what became of the rocket
    control,     \* Status of the control it is in, or "none"
    takeoff,     \* the control's ReloadTimer, frames left
    briefed,     \* history: it had its destination when it was launched
    acted        \* Process has run in this frame

flight == <<type, mission, timer, dest>>
hold == <<control, takeoff, briefed>>
vars == <<flight, strength, fate, hold, acted>>

Missions == {"None", "Pause", "Tilt", "GainingAltitude", "Flight", "ClosingIn",
             "VerticalTakeOff"}

Waiting == mission \in {"Pause", "Tilt", "VerticalTakeOff"}

\* A timer may be pending, but never be less than out.
TypeOK ==
    /\ type \in RocketTypes
    /\ mission \in Missions
    /\ timer \in Nat
    /\ dest \in BOOLEAN
    /\ strength \in 0..1
    /\ fate \in {"alive", "exploded", "removed"}
    /\ control \in {"Preparing", "Takeoff", "none"}
    /\ takeoff \in Nat
    /\ briefed \in BOOLEAN
    /\ acted \in BOOLEAN

------------------------------------------------------------------------------
\* The manager has put the rocket on its launcher, before or after the rocket's
\* turn in this frame.
Init ==
    /\ type \in RocketTypes
    /\ mission = "None"
    /\ timer = 0
    /\ dest = FALSE
    /\ strength = 1
    /\ fate = "alive"
    /\ control = "Preparing"
    /\ takeoff = 0
    /\ briefed = FALSE
    /\ acted \in BOOLEAN

In(m) == mission = m

FliesOn == UNCHANGED <<fate, hold>>

\* Delete_Me, by which the control loses the rocket.
Lost(how) ==
    /\ fate' = how
    /\ control' = "none"
    /\ UNCHANGED <<takeoff, briefed>>

Explode == Lost("exploded")

\* The last part of Process: a rocket that was shot explodes, if it moves at all.
Move == FliesOn \/ (strength = 0 /\ Explode)

\* Nothing is done until MissionTimer has expired.
Wait ==
    /\ timer > 0
    /\ UNCHANGED flight
    /\ FliesOn

\* Mutant: the mission stays what it was.
DepartNot ==
    /\ timer = 0
    /\ UNCHANGED flight
    /\ FliesOn

\* The end of Tilt and VerticalTakeOff.
Depart ==
    /\ timer = 0
    /\ mission' = "GainingAltitude"
    /\ UNCHANGED <<type, timer, dest>>
    /\ FliesOn

Idle ==
    /\ In("None")
    /\ UNCHANGED flight
    /\ FliesOn

\* Case Pause. What follows is VerticalTakeOff or GainingAltitude, never Tilt.
Pause ==
    /\ In("Pause")
    /\ \/ Wait
       \/ /\ timer = 0
          /\ mission' = IF type.IsCruiseMissile THEN "VerticalTakeOff"
                                                ELSE "GainingAltitude"
          /\ timer' = type.TiltFrames
          /\ UNCHANGED <<type, dest>>
          /\ FliesOn

Tilt == In("Tilt") /\ (Wait \/ Depart)

VerticalTakeOff == In("VerticalTakeOff") /\ (Wait \/ Depart)

\* Case GainingAltitude, for ever or until it is high enough.
GainAltitude ==
    /\ In("GainingAltitude")
    /\ mission' \in {"GainingAltitude", "Flight"}
    /\ UNCHANGED <<type, timer, dest>>
    /\ Move

\* Case Flight: it goes on or is close enough. Off the map it is deleted, but
\* Process goes on with it to the end.
Cruise ==
    /\ In("Flight")
    /\ mission' \in {"Flight", "ClosingIn"}
    /\ UNCHANGED <<type, timer, dest>>
    /\ Move \/ Lost("removed")

\* Case ClosingIn.
CloseIn ==
    /\ In("ClosingIn")
    /\ UNCHANGED flight
    /\ Move

\* The ground in Flight, and Time_To_Explode in Flight and ClosingIn.
Hit ==
    /\ mission \in {"Flight", "ClosingIn"}
    /\ UNCHANGED flight
    /\ Explode

\* Process, which the game calls once a frame.
Process ==
    /\ fate = "alive"
    /\ ~acted
    /\ \/ Idle \/ Pause \/ Tilt \/ VerticalTakeOff \/ GainAltitude
       \/ Cruise \/ CloseIn \/ Hit
    /\ acted' = TRUE
    /\ UNCHANGED strength

Less(t) == IF t > 0 THEN t - 1 ELSE 0

\* Mutant: the timer runs on when it is out.
TickOn ==
    /\ fate = "alive"
    /\ acted
    /\ acted' = FALSE
    /\ timer' = timer - 1
    /\ takeoff' = Less(takeoff)
    /\ UNCHANGED <<type, mission, dest, strength, fate, control, briefed>>

\* The next frame, for the timers of the rocket and of its control.
Tick ==
    /\ fate = "alive"
    /\ acted
    /\ acted' = FALSE
    /\ timer' = Less(timer)
    /\ takeoff' = Less(takeoff)
    /\ UNCHANGED <<type, mission, dest, strength, fate, control, briefed>>

------------------------------------------------------------------------------
\* Move_To, which listens once. The manager gives the rocket its destination as
\* soon as it is on the launcher (spawnmanager.cpp:421-426); if the game passes it
\* on later, or the tracker is the first to give one, it may be any time later.
MoveTo ==
    /\ fate = "alive"
    /\ ~dest
    /\ dest' = TRUE
    /\ IF type.PauseFrames > 0
       THEN mission' = "Pause" /\ timer' = type.PauseFrames
       ELSE mission' = "Tilt" /\ timer' = type.TiltFrames
    /\ UNCHANGED <<type, strength, fate, hold, acted>>

Elsewhere ==
    /\ fate = "alive"
    /\ UNCHANGED <<flight, strength, acted>>

\* Mutant: the manager counts the pause only.
LaunchShort ==
    /\ Elsewhere
    /\ control = "Preparing"
    /\ control' = "Takeoff"
    /\ takeoff' = type.PauseFrames
    /\ briefed' = dest
    /\ UNCHANGED fate

\* The launch of the volley, once all the other rockets are on their launchers.
Launch ==
    /\ Elsewhere
    /\ control = "Preparing"
    /\ control' = "Takeoff"
    /\ takeoff' = type.PauseFrames + type.TiltFrames
    /\ briefed' = dest
    /\ UNCHANGED fate

\* Case Takeoff of the manager: the rocket is let go.
Departed ==
    /\ Elsewhere
    /\ control = "Takeoff"
    /\ takeoff = 0
    /\ control' = "none"
    /\ UNCHANGED <<fate, takeoff, briefed>>

\* Abandon_Target hands a rocket that is Preparing to the kamikaze tracker.
AbandonTarget ==
    /\ Elsewhere
    /\ control = "Preparing"
    /\ control' = "none"
    /\ UNCHANGED <<fate, takeoff, briefed>>

\* Detach_Spawns, when the launcher is captured, destroyed or carried off.
DetachSpawns ==
    /\ Elsewhere
    /\ control \in {"Preparing", "Takeoff"}
    /\ fate' = IF control = "Takeoff" THEN "removed" ELSE fate
    /\ control' = "none"
    /\ UNCHANGED <<takeoff, briefed>>

ShotDown ==
    /\ fate = "alive"
    /\ strength = 1
    /\ strength' = 0
    /\ UNCHANGED <<flight, fate, hold, acted>>

Manager == Launch \/ Departed \/ AbandonTarget \/ DetachSpawns

Next == Process \/ Tick \/ MoveTo \/ Manager \/ ShotDown

Spec == Init /\ [][Next]_vars

\* Frames never end, and Process runs in each.
FairSpec == Spec /\ WF_vars(Process) /\ WF_vars(Tick)

------------------------------------------------------------------------------
\* The frames the rocket has still to wait on its launcher.
Remaining ==
    IF In("Pause") THEN timer + (IF type.IsCruiseMissile THEN type.TiltFrames ELSE 0)
    ELSE IF Waiting THEN timer ELSE 0

\* "The rocket is taking off (handled by the locomotor), so wait until it's done,
\* then let it go" (spawnmanager.cpp:441): two timers that know nothing of each
\* other, started at different moments, of which the rocket's is set a second time
\* on the way, and may be late by its turn in the frame. When the manager's is out,
\* nothing is left to wait of the rocket's, if it had its destination at launch.
LetGoWhenDone ==
    [][(control = "Takeoff" /\ briefed /\ control' = "none" /\ fate' = "alive")
         => Remaining = 0]_vars

\* A rocket that has its destination leaves its launcher or ends there: no sequence
\* of pauses and tilts waits for ever, whatever the manager does meanwhile
\* (rocketlocomotion.cpp:241, 259, 445). How it goes on from there is not said.
WaitEnds == dest ~> ~Waiting \/ fate # "alive"
=============================================================================
