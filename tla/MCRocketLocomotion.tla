-------------------------- MODULE MCRocketLocomotion --------------------------
(* Instances of RocketLocomotion for TLC. *)
EXTENDS RocketLocomotion

\* All combinations: with and without a pause, a tilt and a vertical takeoff.
Types == [PauseFrames : 0..2, TiltFrames : 0..2, IsCruiseMissile : BOOLEAN]
=============================================================================
