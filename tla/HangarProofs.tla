---------------------------- MODULE HangarProofs ----------------------------
(***************************************************************************)
(* More about a spawn manager, for every number of controls, aircraft,     *)
(* targets and houses and for all rates: none of its aircraft is forgotten *)
(* or tracked twice, all fly for the present owner, no target outlives its *)
(* object, and the manager implements the abstract Hangar. As in           *)
(* SpawnManagerProofs, a handler gets a lemma on the records it works on,  *)
(* and a step of Next is the lemmas of the handlers it runs.               *)
(***************************************************************************)
EXTENDS SpawnManagerProofs

USE CountAssumption, RateAssumption, FlagAssumption, AmmoAssumption, KindAssumption
USE DEF CountAssumption, RateAssumption, FlagAssumption, AmmoAssumption, KindAssumption

------------------------------------------------------------------------------
(***************************************************************************)
(* The aircraft of a record: TrackerSound, NoneForgotten and Allegiance to *)
(* the house h, with what SlotsSound says of their controls. An aircraft   *)
(* that lands and leaves its control at once would be forgotten; rockets   *)
(* would, but never come home, as long as their type is a missile, which   *)
(* docs/New-Features-and-Enhancements.md demands of it.                    *)
(***************************************************************************)
RocketsAreMissiles == SpawnedMissile => MissileSpawn

Steered(m) ==
    \A a \in Aircraft :
        /\ m.tracked[a] = IF m.craft[a].kamikaze THEN 1 ELSE 0
        /\ m.craft[a].kamikaze => m.craft[a].place = "air"
        /\ \A i \in Slots : m.spawnee[i] = a =>
              (m.craft[a].kamikaze <=> m.status[i] = "Takeoff")

Tended(m) ==
    RocketsAreMissiles =>
        \A a \in Aircraft : m.craft[a].place = "limbo" => \E i \in Slots : m.spawnee[i] = a

Loyal(m, h) ==
    \A i \in Slots : m.spawnee[i] # None => m.craft[m.spawnee[i]].house = h

NoSortie(m) ==
    RocketsAreMissiles /\ SpawnedMissile =>
        \A i \in Slots : m.status[i] \notin {"Attacking", "Returning"}

Fit(m, h) == Sound(m) /\ Steered(m) /\ Tended(m) /\ Loyal(m, h) /\ NoSortie(m)

Docked == {"Idle", "Reloading"}
Flying == {"Preparing", "Attacking", "Returning"}

\* What the handlers change of targets, modes and timers does not matter.
LEMMA FitSame ==
    ASSUME NEW m \in MState, NEW n \in MState, NEW h, Fit(m, h),
           n.spawnee = m.spawnee, n.status = m.status,
           n.craft = m.craft, n.tracked = m.tracked
    PROVE  Fit(n, h)
BY SoundSame DEF Fit, Steered, Tended, Loyal, NoSortie

\* Controls whose aircraft are in the air can be emptied.
LEMMA EmptiedFit ==
    ASSUME NEW m \in MState, NEW h, Fit(m, h), NEW S, NEW t \in Frames,
           \A i \in Slots : i \in S => m.status[i] \notin Docked
    PROVE  Emptied(m, S, t) \in MState /\ Fit(Emptied(m, S, t), h)
<1> DEFINE n == Emptied(m, S, t)
<1>1. n \in MState /\ Sound(n)
  BY EmptiedTyped, EmptiedSound DEF Fit
<1>2. /\ n.craft = m.craft /\ n.tracked = m.tracked
      /\ n.spawnee = [i \in Slots |-> IF i \in S THEN None ELSE m.spawnee[i]]
      /\ n.status = [i \in Slots |-> IF i \in S THEN "Dead" ELSE m.status[i]]
  BY DEF Emptied, MState
<1> HIDE DEF n
<1>3. ASSUME NEW a \in Aircraft, NEW i \in Slots, n.spawnee[i] = a
      PROVE  i \notin S /\ n.spawnee[i] = m.spawnee[i] /\ n.status[i] = m.status[i]
  BY <1>2, <1>3, NoneAssumption DEF NoneAssumption
<1>4. Steered(n)
  BY <1>2, <1>3 DEF Fit, Steered
<1>5. Tended(n)
  <2> SUFFICES ASSUME RocketsAreMissiles, NEW a \in Aircraft, m.craft[a].place = "limbo"
               PROVE  \E i \in Slots : n.spawnee[i] = a
    BY <1>2 DEF Tended
  <2>1. PICK i \in Slots : m.spawnee[i] = a
    BY DEF Fit, Tended
  <2>2. m.status[i] \in Docked
    BY <2>1, NoneAssumption DEF NoneAssumption, Fit, Sound, Docked
  <2> QED BY <1>2, <2>1, <2>2
<1>6. Loyal(n, h)
  BY <1>2 DEF Fit, Loyal
<1>7. NoSortie(n)
  BY <1>2 DEF Fit, NoSortie
<1> QED BY <1>1, <1>4, <1>5, <1>6, <1>7 DEF Fit, n

\* What Add writes into an aircraft.
LEMMA CraftEffect ==
    ASSUME NEW c \in Craft
    PROVE  /\ [c EXCEPT !.kamikaze = TRUE, !.ammo = 1].place = c.place
           /\ [c EXCEPT !.kamikaze = TRUE, !.ammo = 1].house = c.house
           /\ [c EXCEPT !.kamikaze = TRUE, !.ammo = 1].kamikaze = TRUE
           /\ [c EXCEPT !.strength = 0].place = c.place
           /\ [c EXCEPT !.strength = 0].house = c.house
           /\ [c EXCEPT !.strength = 0].kamikaze = c.kamikaze
BY DEF Craft

\* What Add does to the fields the invariants look at.
LEMMA AddEffect ==
    ASSUME NEW m \in MState, NEW C
    PROVE  /\ Add(m, C) \in MState
           /\ Add(m, C).spawnee = m.spawnee /\ Add(m, C).status = m.status
           /\ \A a \in Aircraft :
                 /\ Add(m, C).craft[a].place = m.craft[a].place
                 /\ Add(m, C).craft[a].house = m.craft[a].house
                 /\ MissileSpawn /\ a \in C =>
                       /\ Add(m, C).craft[a].kamikaze = TRUE
                       /\ Add(m, C).tracked[a] = m.tracked[a] + 1
                 /\ ~(MissileSpawn /\ a \in C) =>
                       /\ Add(m, C).craft[a].kamikaze = m.craft[a].kamikaze
                       /\ Add(m, C).tracked[a] = m.tracked[a]
<1>1. Add(m, C) \in MState
  BY AddTyped
<1>2. CASE MissileSpawn
  <2>1. /\ Add(m, C).craft = [a \in Aircraft |->
                     IF a \in C THEN [m.craft[a] EXCEPT !.kamikaze = TRUE, !.ammo = 1]
                               ELSE m.craft[a]]
        /\ Add(m, C).tracked =
              [a \in Aircraft |-> IF a \in C THEN m.tracked[a] + 1 ELSE m.tracked[a]]
        /\ Add(m, C).spawnee = m.spawnee /\ Add(m, C).status = m.status
    BY <1>2 DEF Add, MState
  <2> SUFFICES ASSUME NEW a \in Aircraft
               PROVE  /\ Add(m, C).craft[a].place = m.craft[a].place
                      /\ Add(m, C).craft[a].house = m.craft[a].house
                      /\ a \in C => /\ Add(m, C).craft[a].kamikaze = TRUE
                                    /\ Add(m, C).tracked[a] = m.tracked[a] + 1
                      /\ a \notin C => /\ Add(m, C).craft[a].kamikaze = m.craft[a].kamikaze
                                       /\ Add(m, C).tracked[a] = m.tracked[a]
    BY <1>1, <1>2, <2>1
  <2>2. m.craft[a] \in Craft
    BY DEF MState
  <2>3. CASE a \in C
    <3>1. Add(m, C).craft[a] = [m.craft[a] EXCEPT !.kamikaze = TRUE, !.ammo = 1]
      BY <2>1, <2>3
    <3> QED BY <2>1, <2>2, <2>3, <3>1, CraftEffect
  <2>4. CASE a \notin C
    BY <2>1, <2>4
  <2> QED BY <2>3, <2>4
<1>3. CASE ~MissileSpawn
  <2>1. /\ Add(m, C).craft = [a \in Aircraft |->
                     IF a \in C THEN [m.craft[a] EXCEPT !.strength = 0] ELSE m.craft[a]]
        /\ Add(m, C).tracked = m.tracked
        /\ Add(m, C).spawnee = m.spawnee /\ Add(m, C).status = m.status
    BY <1>3 DEF Add, MState
  <2>2. \A a \in Aircraft : m.craft[a] \in Craft
    BY DEF MState
  <2>3. ASSUME NEW a \in Aircraft
        PROVE  /\ Add(m, C).craft[a].place = m.craft[a].place
               /\ Add(m, C).craft[a].house = m.craft[a].house
               /\ Add(m, C).craft[a].kamikaze = m.craft[a].kamikaze
    BY <2>1, <2>2, CraftEffect, Zenon
  <2> QED BY <1>1, <1>3, <2>1, <2>3
<1> QED BY <1>2, <1>3

\* Aircraft that fly by themselves can be let go, by Add and then Detach.
LEMMA ReleaseFit ==
    ASSUME NEW m \in MState, NEW h, Fit(m, h), NEW S \in SUBSET Slots, NEW t \in Frames,
           \A i \in S : m.status[i] \in Flying
    PROVE  /\ Emptied(Add(m, Crew(m, S)), S, t) \in MState
           /\ Fit(Emptied(Add(m, Crew(m, S)), S, t), h)
<1> DEFINE C == Crew(m, S)
           k == Add(m, C)
           n == Emptied(k, S, t)
<1>1. /\ k \in MState /\ k.spawnee = m.spawnee /\ k.status = m.status
      /\ \A a \in Aircraft :
            /\ k.craft[a].place = m.craft[a].place
            /\ k.craft[a].house = m.craft[a].house
            /\ MissileSpawn /\ a \in C =>
                  k.craft[a].kamikaze = TRUE /\ k.tracked[a] = m.tracked[a] + 1
            /\ ~(MissileSpawn /\ a \in C) =>
                  k.craft[a].kamikaze = m.craft[a].kamikaze /\ k.tracked[a] = m.tracked[a]
  BY AddEffect
<1>2. \A a \in Aircraft : a \in C =>
         \E i \in S : m.spawnee[i] = a /\ m.status[i] \in Flying /\ m.craft[a].place = "air"
  BY NoneAssumption DEF NoneAssumption, Crew, Fit, Sound, Flying
<1>3. \A i \in Slots : m.spawnee[i] \in C /\ m.spawnee[i] # None => i \in S
  BY DEF Crew, Fit, Sound
<1> HIDE DEF C, k
<1>4. n \in MState /\ Sound(n)
  <2>1. Sound(k)
    BY <1>1, SoundSame DEF Fit
  <2> QED BY <1>1, <2>1, EmptiedTyped, EmptiedSound
<1>5. /\ n.craft = k.craft /\ n.tracked = k.tracked
      /\ n.spawnee = [i \in Slots |-> IF i \in S THEN None ELSE m.spawnee[i]]
      /\ n.status = [i \in Slots |-> IF i \in S THEN "Dead" ELSE m.status[i]]
  BY <1>1 DEF Emptied, MState
<1> HIDE DEF n
<1>6. Steered(n)
  <2> SUFFICES ASSUME NEW a \in Aircraft
               PROVE  /\ n.tracked[a] = IF n.craft[a].kamikaze THEN 1 ELSE 0
                      /\ n.craft[a].kamikaze => n.craft[a].place = "air"
                      /\ \A i \in Slots : n.spawnee[i] = a =>
                            (n.craft[a].kamikaze <=> n.status[i] = "Takeoff")
    BY DEF Steered
  <2>0. a # None
    BY NoneAssumption DEF NoneAssumption
  <2>1. CASE MissileSpawn /\ a \in C
    <3>1. m.tracked[a] = 0 /\ m.craft[a].place = "air"
      BY <1>2, <2>1 DEF Fit, Steered, Flying
    <3>2. \A i \in Slots : n.spawnee[i] # a
      BY <1>3, <1>5, <2>0, <2>1
    <3> QED BY <1>1, <1>5, <2>1, <3>1, <3>2
  <2>2. CASE ~(MissileSpawn /\ a \in C)
    <3>1. \A i \in Slots : n.spawnee[i] = a => m.spawnee[i] = a /\ n.status[i] = m.status[i]
      BY <1>5, <2>0
    <3>2. /\ n.craft[a].kamikaze = m.craft[a].kamikaze /\ n.tracked[a] = m.tracked[a]
          /\ n.craft[a].place = m.craft[a].place
      BY <1>1, <1>5, <2>2
    <3> QED BY <3>1, <3>2 DEF Fit, Steered
  <2> QED BY <2>1, <2>2
<1>7. Tended(n)
  <2> SUFFICES ASSUME RocketsAreMissiles, NEW a \in Aircraft, m.craft[a].place = "limbo"
               PROVE  \E i \in Slots : n.spawnee[i] = a
    BY <1>1, <1>5 DEF Tended
  <2>1. PICK i \in Slots : m.spawnee[i] = a
    BY DEF Fit, Tended
  <2>2. i \notin S
    BY <2>1, NoneAssumption DEF NoneAssumption, Fit, Sound, Flying
  <2> QED BY <1>5, <2>1, <2>2
<1>8. Loyal(n, h)
  <2> SUFFICES ASSUME NEW i \in Slots, n.spawnee[i] # None
               PROVE  n.craft[n.spawnee[i]].house = h
    BY DEF Loyal
  <2>1. n.spawnee[i] = m.spawnee[i] /\ m.spawnee[i] \in Aircraft
    BY <1>5 DEF MState
  <2> QED BY <1>1, <1>5, <2>1 DEF Fit, Loyal
<1>9. NoSortie(n)
  BY <1>5 DEF Fit, NoSortie
<1> QED BY <1>4, <1>6, <1>7, <1>8, <1>9 DEF Fit, n, k, C

LEMMA AbandonTargetFit ==
    ASSUME NEW m \in MState, NEW h, Fit(m, h)
    PROVE  AbandonTarget(m) \in MState /\ Fit(AbandonTarget(m), h)
<1> DEFINE S == IF MissileSpawn THEN With(m, {"Preparing"}) ELSE {}
           n == Emptied(Add(m, Crew(m, S)), S, RegenRate)
<1>1. S \in SUBSET Slots /\ \A i \in S : m.status[i] \in Flying
  BY DEF With, Flying
<1> HIDE DEF S
<1>2. n \in MState /\ Fit(n, h)
  BY <1>1, ReleaseFit, RatesAreFrames
<1>3. AbandonTarget(m) = [n EXCEPT !.mode = "Idle", !.target = None, !.queued = None]
  BY DEF AbandonTarget, S
<1> HIDE DEF n
<1>4. /\ AbandonTarget(m).spawnee = n.spawnee /\ AbandonTarget(m).status = n.status
      /\ AbandonTarget(m).craft = n.craft /\ AbandonTarget(m).tracked = n.tracked
  BY <1>2, <1>3 DEF MState
<1> QED BY <1>2, <1>4, AbandonTargetTyped, FitSame

LEMMA UntrackEffect ==
    ASSUME NEW m \in MState, NEW C
    PROVE  /\ Untrack(m, C) \in MState
           /\ Untrack(m, C).spawnee = m.spawnee /\ Untrack(m, C).status = m.status
           /\ Untrack(m, C).craft = m.craft
           /\ \A a \in Aircraft : Untrack(m, C).tracked[a] =
                 IF a \in C /\ m.tracked[a] > 0 THEN m.tracked[a] - 1 ELSE m.tracked[a]
BY UntrackTyped DEF Untrack, MState

LEMMA DeleteMeEffect ==
    ASSUME NEW m \in MState, NEW C
    PROVE  /\ DeleteMe(m, C) \in MState
           /\ DeleteMe(m, C).spawnee = m.spawnee /\ DeleteMe(m, C).status = m.status
           /\ \A a \in Aircraft :
                 /\ DeleteMe(m, C).craft[a] = IF a \in C THEN Free ELSE m.craft[a]
                 /\ DeleteMe(m, C).tracked[a] =
                       IF a \in C /\ m.tracked[a] > 0 THEN m.tracked[a] - 1 ELSE m.tracked[a]
<1> DEFINE n == Untrack(m, C)
<1>1. /\ n \in MState /\ n.spawnee = m.spawnee /\ n.status = m.status
      /\ \A a \in Aircraft : n.tracked[a] =
            IF a \in C /\ m.tracked[a] > 0 THEN m.tracked[a] - 1 ELSE m.tracked[a]
  BY UntrackEffect
<1>2. DeleteMe(m, C) = [n EXCEPT !.craft = [a \in Aircraft |->
                            IF a \in C THEN Free ELSE m.craft[a]]]
  BY DEF DeleteMe
<1> HIDE DEF n
<1> QED BY <1>1, <1>2, DeleteMeTyped DEF MState

\* Detach_Spawns: the docked aircraft and the rockets that take off are gone, the
\* others are let go, and no control is left to serve any house.
LEMMA DetachSpawnsFit ==
    ASSUME NEW m \in MState, NEW h, Fit(m, h), NEW t \in Frames, NEW g
    PROVE  /\ DetachSpawns(m, t) \in MState /\ Fit(DetachSpawns(m, t), g)
           /\ \A i \in Slots : DetachSpawns(m, t).status[i] = "Dead"
<1> DEFINE docked == With(m, {"Idle", "Reloading"})
           takeoff == With(m, {"Takeoff"})
           flying == With(m, {"Preparing", "Attacking", "Returning"})
           u == Untrack(m, Crew(m, takeoff))
           gone == DeleteMe(u, Crew(m, docked \union takeoff))
           away == Crew(m, flying)
           k == Add(gone, away)
           n == DetachSpawns(m, t)
<1>1. /\ u \in MState /\ u.craft = m.craft
      /\ \A a \in Aircraft : u.tracked[a] =
            IF a \in Crew(m, takeoff) /\ m.tracked[a] > 0 THEN m.tracked[a] - 1 ELSE m.tracked[a]
  BY UntrackEffect
<1> HIDE DEF u
<1>2. /\ gone \in MState
      /\ \A a \in Aircraft :
           /\ gone.craft[a] = IF a \in Crew(m, docked \union takeoff) THEN Free ELSE m.craft[a]
           /\ gone.tracked[a] =
                 IF a \in Crew(m, docked \union takeoff) /\ u.tracked[a] > 0
                 THEN u.tracked[a] - 1 ELSE u.tracked[a]
  BY <1>1, DeleteMeEffect
<1> HIDE DEF gone, away
<1>3. /\ k \in MState
      /\ \A a \in Aircraft :
            /\ k.craft[a].place = gone.craft[a].place
            /\ MissileSpawn /\ a \in away =>
                  k.craft[a].kamikaze = TRUE /\ k.tracked[a] = gone.tracked[a] + 1
            /\ ~(MissileSpawn /\ a \in away) =>
                  k.craft[a].kamikaze = gone.craft[a].kamikaze /\ k.tracked[a] = gone.tracked[a]
  <2>1. gone \in MState
    BY <1>2
  <2> QED BY <2>1, AddEffect
<1>4. n \in MState /\ Sound(n) /\ \A i \in Slots : n.status[i] = "Dead"
  BY DetachSpawnsTyped, DetachSpawnsSound DEF Fit
<1>5. n.craft = k.craft /\ n.tracked = k.tracked
  <2> DEFINE S == docked \union takeoff \union flying
  <2>1. n = Emptied(k, S, t)
    BY DEF DetachSpawns, k, gone, away, u
  <2> HIDE DEF S, k, n
  <2> QED BY <1>3, <2>1 DEF Emptied, MState
<1> HIDE DEF k
<1>6. \A i \in Slots : n.spawnee[i] = None
  BY <1>4 DEF Sound, MState
<1> HIDE DEF n
<1>7. ASSUME NEW a \in Aircraft
      PROVE  /\ a \in Crew(m, takeoff) => m.craft[a].kamikaze = TRUE /\ m.tracked[a] = 1
             /\ a \in Crew(m, docked) => m.tracked[a] = 0 /\ a \notin Crew(m, takeoff)
             /\ a \in Crew(m, flying) =>
                  /\ m.craft[a].kamikaze = FALSE /\ m.tracked[a] = 0 /\ m.craft[a].place = "air"
                  /\ a \notin Crew(m, docked \union takeoff) /\ a \notin Crew(m, takeoff)
             /\ a \in Crew(m, docked \union takeoff) <=>
                  a \in Crew(m, docked) \/ a \in Crew(m, takeoff)
             /\ (\E i \in Slots : m.spawnee[i] = a) <=>
                  a \in Crew(m, docked \union takeoff) \/ a \in Crew(m, flying)
  <2>0. m.craft[a].kamikaze \in BOOLEAN /\ a # None
    BY NoneAssumption DEF NoneAssumption, MState, Craft
  <2>1. ASSUME NEW i \in Slots, m.spawnee[i] = a
        PROVE  /\ m.status[i] # "Dead"
               /\ m.craft[a].place = IF m.status[i] \in {"Idle", "Reloading"} THEN "limbo" ELSE "air"
               /\ \A j \in Slots : m.spawnee[j] = a => j = i
               /\ m.craft[a].kamikaze <=> m.status[i] = "Takeoff"
    BY <2>0, <2>1 DEF Fit, Sound, Steered
  <2>2. m.tracked[a] = IF m.craft[a].kamikaze THEN 1 ELSE 0
    BY DEF Fit, Steered
  <2>3. CASE \E i \in Slots : m.spawnee[i] = a
    <3>1. PICK i \in Slots : m.spawnee[i] = a
      BY <2>3
    <3>2. \A s : (a \in Crew(m, With(m, s)) <=> m.status[i] \in s)
      BY <2>1, <3>1 DEF Crew, With
    <3>3. a \in Crew(m, docked \union takeoff) <=> a \in Crew(m, docked) \/ a \in Crew(m, takeoff)
      BY DEF Crew
    <3>4. m.status[i] \in SlotStatus
      BY DEF MState
    <3> HIDE DEF docked, takeoff, flying
    <3>5. /\ a \in Crew(m, takeoff) <=> m.status[i] = "Takeoff"
          /\ a \in Crew(m, docked) <=> m.status[i] \in {"Idle", "Reloading"}
          /\ a \in Crew(m, flying) <=> m.status[i] \in {"Preparing", "Attacking", "Returning"}
      BY <3>2 DEF docked, takeoff, flying
    <3> QED BY <2>0, <2>1, <2>2, <2>3, <3>1, <3>3, <3>4, <3>5 DEF SlotStatus
  <2>4. CASE ~\E i \in Slots : m.spawnee[i] = a
    <3>1. \A S \in SUBSET Slots : a \notin Crew(m, S)
      BY <2>4 DEF Crew
    <3>2. {docked, takeoff, flying, docked \union takeoff} \subseteq SUBSET Slots
      BY DEF With
    <3> HIDE DEF docked, takeoff, flying
    <3> QED BY <2>4, <3>1, <3>2
  <2> QED BY <2>3, <2>4
<1>8. Free.place = "free" /\ Free.kamikaze = FALSE
  BY DEF Free
<1> HIDE DEF docked, takeoff, flying
<1>9. ASSUME NEW a \in Aircraft
      PROVE  /\ k.tracked[a] = IF k.craft[a].kamikaze THEN 1 ELSE 0
             /\ k.craft[a].kamikaze => k.craft[a].place = "air"
             /\ RocketsAreMissiles => k.craft[a].place # "limbo"
  <2>0. a \in away <=> a \in Crew(m, flying)
    BY DEF away
  <2>1. CASE a \in Crew(m, docked \union takeoff)
    <3>1. gone.craft[a] = Free /\ a \notin away
      BY <1>2, <1>7, <2>0, <2>1
    <3>2. gone.tracked[a] = 0
      <4>1. u.tracked[a] = 0
        <5>1. CASE a \in Crew(m, takeoff)
          <6>1. m.tracked[a] = 1
            BY <1>7, <5>1
          <6> QED BY <1>1, <5>1, <6>1
        <5>2. CASE a \notin Crew(m, takeoff)
          <6>1. m.tracked[a] = 0
            BY <1>7, <2>1, <5>2
          <6> QED BY <1>1, <5>2, <6>1
        <5> QED BY <5>1, <5>2
      <4> QED BY <1>2, <4>1
    <3>3. /\ k.craft[a].place = "free" /\ k.tracked[a] = 0
          /\ k.craft[a].kamikaze = FALSE
      BY <1>3, <1>8, <3>1, <3>2
    <3> QED BY <3>3
  <2>2. CASE a \in Crew(m, flying)
    <3>1. /\ gone.craft[a] = m.craft[a] /\ gone.tracked[a] = 0
          /\ m.craft[a].kamikaze = FALSE /\ m.craft[a].place = "air"
      BY <1>1, <1>2, <1>7, <2>2
    <3>2. CASE MissileSpawn
      <4>1. k.craft[a].kamikaze = TRUE /\ k.tracked[a] = 1 /\ k.craft[a].place = "air"
        BY <1>3, <2>0, <2>2, <3>1, <3>2
      <4> QED BY <4>1
    <3>3. CASE ~MissileSpawn
      <4>1. k.craft[a].kamikaze = FALSE /\ k.tracked[a] = 0 /\ k.craft[a].place = "air"
        BY <1>3, <3>1, <3>3
      <4> QED BY <4>1
    <3> QED BY <3>2, <3>3
  <2>3. CASE a \notin Crew(m, docked \union takeoff) /\ a \notin Crew(m, flying)
    <3>1. a \notin Crew(m, takeoff) /\ ~\E i \in Slots : m.spawnee[i] = a
      BY <1>7, <2>3
    <3>2. /\ k.craft[a].place = m.craft[a].place /\ k.craft[a].kamikaze = m.craft[a].kamikaze
          /\ k.tracked[a] = m.tracked[a]
      BY <1>1, <1>2, <1>3, <2>0, <2>3, <3>1
    <3> QED BY <3>1, <3>2 DEF Fit, Steered, Tended
  <2> QED BY <2>1, <2>2, <2>3
<1>10. Steered(n) /\ Tended(n) /\ Loyal(n, g) /\ NoSortie(n)
  <2>1. Steered(n)
    BY <1>5, <1>6, <1>9, NoneAssumption DEF NoneAssumption, Steered
  <2> QED BY <1>4, <1>5, <1>6, <1>9, <2>1 DEF Tended, Loyal, NoSortie
<1> QED BY <1>4, <1>10 DEF Fit, n

\* What happens to the aircraft between two frames leaves their place, their
\* house and who steers them.
LEMMA FitAlike ==
    ASSUME NEW m \in MState, NEW n \in MState, NEW h, Fit(m, h),
           n.spawnee = m.spawnee, n.status = m.status, n.tracked = m.tracked,
           \A a \in Aircraft : /\ n.craft[a].place = m.craft[a].place
                               /\ n.craft[a].house = m.craft[a].house
                               /\ n.craft[a].kamikaze = m.craft[a].kamikaze
    PROVE  Fit(n, h)
<1>1. Sound(n)
  BY SoundSame DEF Fit
<1>2. Loyal(n, h)
  BY DEF Fit, Loyal, MState
<1> QED BY <1>1, <1>2 DEF Fit, Steered, Tended, NoSortie

\* An aircraft goes, with its control if it still had one.
LEMMA GoneFit ==
    ASSUME NEW m \in MState, NEW n \in MState, NEW h, Fit(m, h), NEW a \in Aircraft,
           n.spawnee = [i \in Slots |-> IF m.spawnee[i] = a THEN None ELSE m.spawnee[i]],
           n.status = [i \in Slots |-> IF m.spawnee[i] = a THEN "Dead" ELSE m.status[i]],
           n.craft[a] = Free, \A b \in Aircraft \ {a} : n.craft[b] = m.craft[b],
           \A b \in Aircraft : n.tracked[b] =
               IF b = a /\ m.tracked[b] > 0 THEN m.tracked[b] - 1 ELSE m.tracked[b]
    PROVE  Fit(n, h)
<1>0. a # None /\ \A i \in Slots : n.spawnee[i] # a
  BY NoneAssumption DEF NoneAssumption
<1>1. Sound(n)
  BY SoundDrop DEF Fit
<1>2. Steered(n)
  <2>1. /\ n.tracked[a] = 0 /\ n.craft[a].kamikaze = FALSE
    <3>1. m.tracked[a] = 0 \/ m.tracked[a] = 1
      BY DEF Fit, Steered
    <3> QED BY <3>1 DEF Free
  <2>2. ASSUME NEW b \in Aircraft, b # a
        PROVE  /\ n.tracked[b] = IF n.craft[b].kamikaze THEN 1 ELSE 0
               /\ n.craft[b].kamikaze => n.craft[b].place = "air"
               /\ \A i \in Slots : n.spawnee[i] = b =>
                     (n.craft[b].kamikaze <=> n.status[i] = "Takeoff")
    <3>1. n.tracked[b] = m.tracked[b] /\ n.craft[b] = m.craft[b]
      BY <2>2
    <3>2. \A i \in Slots : n.spawnee[i] = b => m.spawnee[i] = b /\ n.status[i] = m.status[i]
      BY <2>2, NoneAssumption DEF NoneAssumption
    <3> QED BY <3>1, <3>2 DEF Fit, Steered
  <2>3. /\ n.tracked[a] = IF n.craft[a].kamikaze THEN 1 ELSE 0
        /\ n.craft[a].kamikaze => n.craft[a].place = "air"
        /\ \A i \in Slots : n.spawnee[i] = a =>
              (n.craft[a].kamikaze <=> n.status[i] = "Takeoff")
    BY <1>0, <2>1
  <2> QED BY <2>2, <2>3 DEF Steered
<1>3. Tended(n)
  <2> SUFFICES ASSUME RocketsAreMissiles, NEW b \in Aircraft, n.craft[b].place = "limbo"
               PROVE  \E i \in Slots : n.spawnee[i] = b
    BY DEF Tended
  <2>1. b # a /\ m.craft[b].place = "limbo"
    BY DEF Free
  <2>2. PICK i \in Slots : m.spawnee[i] = b
    BY <2>1 DEF Fit, Tended
  <2> QED BY <2>1, <2>2
<1>4. Loyal(n, h)
  <2> SUFFICES ASSUME NEW i \in Slots, n.spawnee[i] # None
               PROVE  n.craft[n.spawnee[i]].house = h
    BY DEF Loyal
  <2>1. n.spawnee[i] = m.spawnee[i] /\ n.spawnee[i] \in Aircraft \ {a}
    BY DEF MState
  <2> QED BY <2>1 DEF Fit, Loyal
<1>5. NoSortie(n)
  BY DEF Fit, NoSortie
<1> QED BY <1>1, <1>2, <1>3, <1>4, <1>5 DEF Fit

\* A control goes on with its aircraft.
LEMMA MoveFit ==
    ASSUME NEW m \in MState, NEW n \in MState, NEW h, Fit(m, h), NEW i \in Slots,
           NEW s \in SlotStatus \ {"Dead", "Takeoff"}, m.status[i] \notin {"Dead", "Takeoff"},
           s \in {"Attacking", "Returning"} =>
               m.status[i] \in {"Attacking", "Returning"} \/ ~SpawnedMissile,
           n.spawnee = m.spawnee, n.status = [m.status EXCEPT ![i] = s],
           n.tracked = m.tracked,
           n.craft[m.spawnee[i]].place = IF s \in Docked THEN "limbo" ELSE "air",
           \A b \in Aircraft \ {m.spawnee[i]} : n.craft[b].place = m.craft[b].place,
           \A b \in Aircraft : /\ n.craft[b].house = m.craft[b].house
                               /\ n.craft[b].kamikaze = m.craft[b].kamikaze
    PROVE  Fit(n, h)
<1> DEFINE a == m.spawnee[i]
<1>0. a \in Aircraft
  BY DEF Fit, Sound, MState
<1>1. Sound(n)
  BY SoundMove DEF Fit, Docked
<1>2. Steered(n)
  <2>1. m.craft[a].kamikaze <=> FALSE
    BY <1>0 DEF Fit, Steered
  <2>2. ASSUME NEW b \in Aircraft, NEW j \in Slots, n.spawnee[j] = b
        PROVE  n.craft[b].kamikaze <=> n.status[j] = "Takeoff"
    <3>1. m.craft[b].kamikaze <=> m.status[j] = "Takeoff"
      BY <2>2 DEF Fit, Steered
    <3>2. m.status[j] = "Takeoff" <=> n.status[j] = "Takeoff"
      BY DEF MState
    <3> QED BY <3>1, <3>2
  <2>3. ASSUME NEW b \in Aircraft, n.craft[b].kamikaze PROVE n.craft[b].place = "air"
    <3>1. m.craft[b].kamikaze
      BY <2>3
    <3>2. m.craft[b].place = "air" /\ b # a
      BY <2>1, <3>1 DEF Fit, Steered
    <3> QED BY <3>2
  <2>4. \A b \in Aircraft : n.tracked[b] = IF n.craft[b].kamikaze THEN 1 ELSE 0
    BY DEF Fit, Steered
  <2> QED BY <2>2, <2>3, <2>4 DEF Steered
<1>3. Tended(n)
  <2> SUFFICES ASSUME RocketsAreMissiles, NEW b \in Aircraft, n.craft[b].place = "limbo"
               PROVE  \E j \in Slots : n.spawnee[j] = b
    BY DEF Tended
  <2>1. CASE b = a
    BY <2>1
  <2>2. CASE b # a
    BY <2>2 DEF Fit, Tended
  <2> QED BY <2>1, <2>2
<1>4. Loyal(n, h)
  BY DEF Fit, Loyal, MState
<1>5. NoSortie(n)
  BY DEF Fit, NoSortie, MState
<1> QED BY <1>1, <1>2, <1>3, <1>4, <1>5 DEF Fit

\* Detach of the owner or of a target: no aircraft is meant.
LEMMA DetachFit ==
    ASSUME NEW m \in MState, NEW h, Fit(m, h), NEW o \in Targets \union {Owner},
           NEW t \in Frames
    PROVE  Detach(m, o, t) \in MState /\ Fit(Detach(m, o, t), h)
<1> DEFINE k == [m EXCEPT !.target = None]
           q == [m EXCEPT !.queued = None]
<1>1. k \in MState /\ Fit(k, h) /\ q \in MState /\ Fit(q, h)
  <2>1. /\ k \in MState /\ k.spawnee = m.spawnee /\ k.status = m.status
        /\ k.craft = m.craft /\ k.tracked = m.tracked
        /\ q \in MState /\ q.spawnee = m.spawnee /\ q.status = m.status
        /\ q.craft = m.craft /\ q.tracked = m.tracked
    BY DEF MState, Objects
  <2> HIDE DEF k, q
  <2> QED BY <2>1, FitSame
<1>2. AbandonTarget(k) \in MState /\ Fit(AbandonTarget(k), h)
  <2> HIDE DEF k
  <2> QED BY <1>1, AbandonTargetFit
<1>3. /\ AbandonTarget(DetachSpawns(m, t)) \in MState
      /\ Fit(AbandonTarget(DetachSpawns(m, t)), h)
  BY DetachSpawnsFit, AbandonTargetFit
<1>4. /\ Emptied(m, {i \in Slots : m.spawnee[i] = o /\ Lost(m, o)}, RegenRate) \in MState
      /\ Fit(Emptied(m, {i \in Slots : m.spawnee[i] = o /\ Lost(m, o)}, RegenRate), h)
  <2>1. \A i \in Slots : m.spawnee[i] = o => m.spawnee[i] = None
    BY ObjectAssumption DEF ObjectAssumption, MState
  <2>2. o # None
    BY ObjectAssumption DEF ObjectAssumption
  <2>3. \A i \in Slots : i \notin {j \in Slots : m.spawnee[j] = o /\ Lost(m, o)}
    BY <2>1, <2>2
  <2> QED BY <2>3, EmptiedFit, RatesAreFrames
<1> QED BY <1>1, <1>2, <1>3, <1>4 DEF Detach

LEMMA QueueFit ==
    ASSUME NEW m \in MState, NEW h, Fit(m, h), NEW o \in Objects
    PROVE  /\ QueueTarget(m, o) \in MState /\ Fit(QueueTarget(m, o), h)
           /\ NextTarget(m) \in MState /\ Fit(NextTarget(m), h)
<1>1. QueueTarget(m, o) \in MState /\ NextTarget(m) \in MState
  BY QueueTargetTyped, NextTargetTyped
<1>2. \A n \in {QueueTarget(m, o), NextTarget(m)} :
         /\ n.spawnee = m.spawnee /\ n.status = m.status
         /\ n.craft = m.craft /\ n.tracked = m.tracked
  BY DEF QueueTarget, NextTarget, MState
<1> QED BY <1>1, <1>2, FitSame

\* Detach_This_From_All for an aircraft takes one control of the tracker.
LEMMA DetachTracked ==
    ASSUME NEW m \in MState, NEW a \in Aircraft
    PROVE  \A b \in Aircraft : DetachFromAll(m, a).tracked[b] =
               IF b = a /\ m.tracked[b] > 0 THEN m.tracked[b] - 1 ELSE m.tracked[b]
<1> DEFINE S == {i \in Slots : m.spawnee[i] = a /\ Lost(m, a)}
           n == Emptied(m, S, RegenRate)
<1>0. 0 \in Frames /\ RegenRate \in Frames
  BY RatesAreFrames
<1>1. n \in MState /\ n.tracked = m.tracked
  <2>1. n \in MState
    BY <1>0, EmptiedTyped
  <2>2. n.tracked = m.tracked
    BY DEF Emptied, MState
  <2> QED BY <2>1, <2>2
<1>2. DetachFromAll(m, a) = Untrack(n, {a})
  BY <1>0, DetachAircraft DEF DetachFromAll
<1> HIDE DEF n
<1> QED BY <1>1, <1>2, UntrackEffect

\* The end of an aircraft, with an owner and without.
LEMMA PerishFit ==
    ASSUME NEW m \in MState, NEW h, Fit(m, h), NEW a \in Aircraft, Lost(m, a)
    PROVE  /\ [DetachFromAll(m, a) EXCEPT !.craft[a] = Free] \in MState
           /\ Fit([DetachFromAll(m, a) EXCEPT !.craft[a] = Free], h)
<1> DEFINE n == DetachFromAll(m, a)
           p == [n EXCEPT !.craft[a] = Free]
<1>1. /\ n \in MState
      /\ n.spawnee = [i \in Slots |-> IF m.spawnee[i] = a THEN None ELSE m.spawnee[i]]
      /\ n.status = [i \in Slots |-> IF m.spawnee[i] = a THEN "Dead" ELSE m.status[i]]
      /\ n.craft = m.craft
      /\ \A b \in Aircraft : n.tracked[b] =
            IF b = a /\ m.tracked[b] > 0 THEN m.tracked[b] - 1 ELSE m.tracked[b]
  BY LostLeaves, DetachTracked
<1> HIDE DEF n
<1>2. /\ p \in MState
      /\ p.spawnee = n.spawnee /\ p.status = n.status /\ p.tracked = n.tracked
      /\ p.craft[a] = Free /\ \A b \in Aircraft \ {a} : p.craft[b] = m.craft[b]
  BY <1>1, FreshTyped DEF MState
<1> HIDE DEF p
<1>3. Fit(p, h)
  BY <1>1, <1>2, GoneFit
<1> QED BY <1>2, <1>3 DEF n, p

LEMMA OrphanFit ==
    ASSUME NEW m \in MState, NEW h, Fit(m, h), NEW a \in Aircraft,
           \A i \in Slots : m.status[i] = "Dead"
    PROVE  /\ [Untrack(m, {a}) EXCEPT !.craft[a] = Free] \in MState
           /\ Fit([Untrack(m, {a}) EXCEPT !.craft[a] = Free], h)
<1> DEFINE n == Untrack(m, {a})
           p == [n EXCEPT !.craft[a] = Free]
<1>1. /\ n \in MState /\ n.spawnee = m.spawnee /\ n.status = m.status /\ n.craft = m.craft
      /\ \A b \in Aircraft : n.tracked[b] =
            IF b = a /\ m.tracked[b] > 0 THEN m.tracked[b] - 1 ELSE m.tracked[b]
  BY UntrackEffect
<1> HIDE DEF n
<1>2. /\ p \in MState
      /\ p.spawnee = n.spawnee /\ p.status = n.status /\ p.tracked = n.tracked
      /\ p.craft[a] = Free /\ \A b \in Aircraft \ {a} : p.craft[b] = m.craft[b]
  BY <1>1, FreshTyped DEF MState
<1>3. \A i \in Slots : m.spawnee[i] # a
  BY NoneAssumption DEF NoneAssumption, Fit, Sound
<1>4. /\ p.spawnee = [i \in Slots |-> IF m.spawnee[i] = a THEN None ELSE m.spawnee[i]]
      /\ p.status = [i \in Slots |-> IF m.spawnee[i] = a THEN "Dead" ELSE m.status[i]]
  BY <1>1, <1>2, <1>3 DEF MState
<1> HIDE DEF p
<1>5. Fit(p, h)
  BY <1>1, <1>2, <1>4, GoneFit
<1> QED BY <1>2, <1>5 DEF n, p

\* Case Returning: the status is set before Limbo, whose Detach overrules it when
\* the aircraft is a wreck; then Limbo is the end of it.
LEMMA LandFit ==
    ASSUME NEW k \in MState, NEW h, Fit(k, h), NEW i \in Slots, k.status[i] = "Returning"
    PROVE  Fit(Limbo([k EXCEPT !.status[i] = "Reloading", !.reload[i] = ReloadRate],
                     k.spawnee[i]), h)
<1> DEFINE m == [k EXCEPT !.status[i] = "Reloading", !.reload[i] = ReloadRate]
           a == k.spawnee[i]
           n == DetachFromAll(m, a)
           p == Limbo(m, a)
<1>0. /\ a \in Aircraft /\ \A j \in Slots : k.spawnee[j] = a => j = i
      /\ k.craft[a] \in Craft /\ k.tracked[a] = 0 /\ k.craft[a].kamikaze = FALSE
  <2>1. /\ a \in Aircraft /\ a # None
        /\ \A j \in Slots : k.spawnee[j] = a => j = i
    BY DEF Fit, Sound, MState
  <2>2. k.craft[a] \in Craft
    BY <2>1 DEF MState
  <2>3. k.craft[a].kamikaze = FALSE
    BY <2>1, <2>2 DEF Fit, Steered, Craft
  <2> QED BY <2>1, <2>2, <2>3 DEF Fit, Steered
<1>1. /\ m \in MState
      /\ m.spawnee = k.spawnee /\ m.craft = k.craft /\ m.tracked = k.tracked
      /\ m.status = [k.status EXCEPT ![i] = "Reloading"]
  <2>1. /\ [k.status EXCEPT ![i] = "Reloading"] \in [Slots -> SlotStatus]
        /\ [k.reload EXCEPT ![i] = ReloadRate] \in [Slots -> Frames]
    BY RatesAreFrames DEF MState, SlotStatus
  <2> QED BY <2>1, Zenon DEF MState
<1>2. p \in MState
  BY <1>0, <1>1, LimboTyped
<1> SUFFICES Fit(p, h)
  OBVIOUS
<1> HIDE DEF m
<1>3. /\ n \in MState /\ n.craft = k.craft
      /\ \A b \in Aircraft : n.tracked[b] =
            IF b = a /\ k.tracked[b] > 0 THEN k.tracked[b] - 1 ELSE k.tracked[b]
  <2>1. n \in MState /\ n.craft = k.craft
    BY <1>0, <1>1, LostLeaves, KeptStays
  <2>2. \A b \in Aircraft : n.tracked[b] =
           IF b = a /\ m.tracked[b] > 0 THEN m.tracked[b] - 1 ELSE m.tracked[b]
    BY <1>0, <1>1, DetachTracked
  <2> HIDE DEF n
  <2> QED BY <1>1, <2>1, <2>2
<1>4. /\ p.spawnee = n.spawnee /\ p.status = n.status /\ p.tracked = n.tracked
      /\ \A b \in Aircraft \ {a} : p.craft[b] = k.craft[b]
      /\ k.craft[a].strength = 0 => p.craft[a] = Free
      /\ k.craft[a].strength # 0 => p.craft[a] = [k.craft[a] EXCEPT !.place = "limbo"]
  <2> DEFINE c == IF m.craft[a].strength = 0 THEN Free
                  ELSE [n.craft[a] EXCEPT !.place = "limbo"]
  <2>1. p = [n EXCEPT !.craft[a] = c]
    BY DEF Limbo
  <2>2. /\ k.craft[a].strength = 0 => c = Free
        /\ k.craft[a].strength # 0 => c = [k.craft[a] EXCEPT !.place = "limbo"]
    BY <1>1, <1>3
  <2> HIDE DEF c, n, p
  <2> QED BY <1>0, <1>3, <2>1, <2>2 DEF MState
<1>5. [k.craft[a] EXCEPT !.place = "limbo"].place = "limbo"
      /\ [k.craft[a] EXCEPT !.place = "limbo"].house = k.craft[a].house
      /\ [k.craft[a] EXCEPT !.place = "limbo"].kamikaze = k.craft[a].kamikaze
  BY <1>0 DEF Craft
<1> HIDE DEF p
<1>6. Lost(m, a) =>
         /\ p.spawnee = [j \in Slots |-> IF k.spawnee[j] = a THEN None ELSE k.spawnee[j]]
         /\ p.status = [j \in Slots |-> IF k.spawnee[j] = a THEN "Dead" ELSE k.status[j]]
  <2> SUFFICES ASSUME Lost(m, a)
               PROVE  /\ p.spawnee = [j \in Slots |->
                                        IF k.spawnee[j] = a THEN None ELSE k.spawnee[j]]
                      /\ p.status = [j \in Slots |->
                                        IF k.spawnee[j] = a THEN "Dead" ELSE k.status[j]]
    OBVIOUS
  <2>1. /\ n.spawnee = [j \in Slots |-> IF m.spawnee[j] = a THEN None ELSE m.spawnee[j]]
        /\ n.status = [j \in Slots |-> IF m.spawnee[j] = a THEN "Dead" ELSE m.status[j]]
    BY <1>0, <1>1, LostLeaves
  <2>2. \A j \in Slots : k.spawnee[j] # a => m.status[j] = k.status[j]
    BY <1>1 DEF MState
  <2> HIDE DEF n
  <2> QED BY <1>1, <1>4, <2>1, <2>2
<1>7. CASE k.craft[a].strength = 0
  <2>1. Lost(m, a)
    BY <1>1, <1>7 DEF Lost
  <2>2. \A b \in Aircraft : p.tracked[b] =
           IF b = a /\ k.tracked[b] > 0 THEN k.tracked[b] - 1 ELSE k.tracked[b]
    BY <1>3, <1>4
  <2> QED BY <1>0, <1>2, <1>4, <1>6, <1>7, <2>1, <2>2, GoneFit
<1>8. CASE k.craft[a].strength # 0 /\ Lost(m, a)
  <2>0. SpawnedMissile
    BY <1>0, <1>1, <1>8 DEF Lost
  <2>1. /\ p.craft[a].place = "limbo" /\ p.craft[a].kamikaze = FALSE
    BY <1>0, <1>4, <1>5, <1>8
  <2>2. \A b \in Aircraft : p.tracked[b] = k.tracked[b]
    BY <1>0, <1>3, <1>4
  <2>3. /\ p.spawnee = [j \in Slots |-> IF k.spawnee[j] = a THEN None ELSE k.spawnee[j]]
        /\ p.status = [j \in Slots |-> IF k.spawnee[j] = a THEN "Dead" ELSE k.status[j]]
    BY <1>6, <1>8
  <2> HIDE DEF a
  <2>4. Sound(p)
    BY <1>0, <1>2, <1>4, <2>3, SoundDrop DEF Fit
  <2>5. \A j \in Slots, b \in Aircraft : p.spawnee[j] = b =>
           k.spawnee[j] = b /\ b # a /\ p.status[j] = k.status[j]
    BY <2>3, NoneAssumption DEF NoneAssumption
  <2>6. Steered(p)
    <3> SUFFICES ASSUME NEW b \in Aircraft
                 PROVE  /\ p.tracked[b] = IF p.craft[b].kamikaze THEN 1 ELSE 0
                        /\ p.craft[b].kamikaze => p.craft[b].place = "air"
                        /\ \A j \in Slots : p.spawnee[j] = b =>
                              (p.craft[b].kamikaze <=> p.status[j] = "Takeoff")
      BY DEF Steered
    <3>1. CASE b = a
      BY <1>0, <2>1, <2>2, <2>5, <3>1
    <3>2. CASE b # a
      <4>1. p.craft[b] = k.craft[b]
        BY <1>4, <3>2
      <4> QED BY <2>2, <2>5, <4>1 DEF Fit, Steered
    <3> QED BY <3>1, <3>2
  <2>7. ~RocketsAreMissiles
    BY <2>0 DEF Fit, NoSortie
  <2>8. Loyal(p, h)
    <3> SUFFICES ASSUME NEW j \in Slots, p.spawnee[j] # None
                 PROVE  p.craft[p.spawnee[j]].house = h
      BY DEF Loyal
    <3>1. p.spawnee[j] \in Aircraft
      BY <1>2 DEF MState
    <3>2. k.spawnee[j] = p.spawnee[j] /\ p.craft[p.spawnee[j]] = k.craft[k.spawnee[j]]
      BY <1>4, <2>5, <3>1
    <3> QED BY <3>2 DEF Fit, Loyal
  <2> QED BY <2>4, <2>6, <2>7, <2>8 DEF Fit, Tended, NoSortie
<1>9. CASE k.craft[a].strength # 0 /\ ~Lost(m, a)
  <2>1. p.spawnee = k.spawnee /\ p.status = [k.status EXCEPT ![i] = "Reloading"]
    BY <1>0, <1>1, <1>4, <1>9, KeptStays
  <2>2. p.tracked = k.tracked
    <3>1. \A b \in Aircraft : p.tracked[b] = k.tracked[b]
      BY <1>0, <1>3, <1>4
    <3> QED BY <1>2, <3>1 DEF MState
  <2>3. /\ p.craft[a].place = "limbo"
        /\ \A b \in Aircraft \ {a} : p.craft[b].place = k.craft[b].place
        /\ \A b \in Aircraft : /\ p.craft[b].house = k.craft[b].house
                               /\ p.craft[b].kamikaze = k.craft[b].kamikaze
    BY <1>4, <1>5, <1>9
  <2>4. /\ "Reloading" \in SlotStatus \ {"Dead", "Takeoff"}
        /\ "Reloading" \notin {"Attacking", "Returning"}
    BY DEF SlotStatus
  <2> QED BY <1>2, <2>1, <2>2, <2>3, <2>4, MoveFit DEF Docked
<1> QED BY <1>7, <1>8, <1>9

\* A launch. Rockets start under the tracker's control, other missiles leave the
\* hangar, and the aircraft that attack are no rockets.
LEMMA RocketsAway ==
    ASSUME NEW m \in MState, NEW h, Fit(m, h), NEW S \in SUBSET Slots,
           \A i \in S : m.status[i] = "Preparing", MissileSpawn
    PROVE  LaunchMissiles(m, S) \in MState /\ Fit(LaunchMissiles(m, S), h)
<1>1. CASE ~SpawnedMissile
  <2>1. \A i \in S : m.status[i] \in Flying
    BY DEF Flying
  <2> QED BY <1>1, <2>1, ReleaseFit, RatesAreFrames DEF LaunchMissiles
<1>2. CASE SpawnedMissile
  <2> DEFINE C == Crew(m, S)
             k == Add(m, C)
             f == [i \in Slots |-> IF i \in S THEN "Takeoff" ELSE m.status[i]]
             g == [i \in Slots |-> IF i \in S THEN TakeoffFrames ELSE m.reload[i]]
             n == [k EXCEPT !.status = f, !.reload = g]
  <2>1. LaunchMissiles(m, S) = n
    BY <1>2 DEF LaunchMissiles
  <2>2. f \in [Slots -> SlotStatus] /\ g \in [Slots -> Frames]
    BY RatesAreFrames DEF MState, SlotStatus
  <2>3. /\ k \in MState /\ k.spawnee = m.spawnee
        /\ \A a \in Aircraft :
              /\ k.craft[a].place = m.craft[a].place
              /\ k.craft[a].house = m.craft[a].house
              /\ MissileSpawn /\ a \in C =>
                    k.craft[a].kamikaze = TRUE /\ k.tracked[a] = m.tracked[a] + 1
              /\ ~(MissileSpawn /\ a \in C) =>
                    k.craft[a].kamikaze = m.craft[a].kamikaze /\ k.tracked[a] = m.tracked[a]
    BY AddEffect
  <2>4. \A a \in Aircraft : a \in C =>
           \E i \in S : /\ m.spawnee[i] = a /\ m.craft[a].place = "air"
                        /\ \A j \in Slots : m.spawnee[j] = a => j = i
    <3> SUFFICES ASSUME NEW i \in S, m.spawnee[i] \in Aircraft
                 PROVE  /\ m.craft[m.spawnee[i]].place = "air"
                        /\ \A j \in Slots : m.spawnee[j] = m.spawnee[i] => j = i
      BY DEF Crew
    <3> QED BY NoneAssumption DEF NoneAssumption, Fit, Sound
  <2>5. \A i \in S : m.spawnee[i] \in C
    BY DEF Crew
  <2> HIDE DEF C, k, f, g
  <2>6. /\ n \in MState /\ n.spawnee = m.spawnee /\ n.craft = k.craft
        /\ n.tracked = k.tracked /\ n.status = f
    BY <2>2, <2>3 DEF MState
  <2>7. \A i \in Slots : n.status[i] = IF i \in S THEN "Takeoff" ELSE m.status[i]
    BY <2>6 DEF f
  <2> HIDE DEF n
  <2>8. Sound(n)
    <3>1. \A a \in Aircraft : n.craft[a].place = m.craft[a].place
      BY <2>3, <2>6
    <3>2. \A i \in Slots : /\ m.spawnee[i] \in Aircraft \union {None}
                           /\ n.spawnee[i] = m.spawnee[i]
                           /\ (n.status[i] = "Dead" <=> m.status[i] = "Dead")
                           /\ (n.status[i] \in {"Idle", "Reloading"} <=>
                                 m.status[i] \in {"Idle", "Reloading"})
      BY <2>6, <2>7 DEF MState
    <3> QED BY <3>1, <3>2 DEF Fit, Sound
  <2>9. Steered(n)
    <3> SUFFICES ASSUME NEW a \in Aircraft
                 PROVE  /\ n.tracked[a] = IF n.craft[a].kamikaze THEN 1 ELSE 0
                        /\ n.craft[a].kamikaze => n.craft[a].place = "air"
                        /\ \A i \in Slots : n.spawnee[i] = a =>
                              (n.craft[a].kamikaze <=> n.status[i] = "Takeoff")
      BY DEF Steered
    <3>1. CASE a \in C
      <4>1. PICK i \in S : /\ m.spawnee[i] = a /\ m.craft[a].place = "air"
                           /\ \A j \in Slots : m.spawnee[j] = a => j = i
        BY <2>4, <3>1
      <4>2. m.tracked[a] = 0
        BY <4>1 DEF Fit, Steered
      <4>3. n.craft[a].kamikaze = TRUE /\ n.tracked[a] = 1 /\ n.craft[a].place = "air"
        BY <2>3, <2>6, <3>1, <4>1, <4>2
      <4>4. \A j \in Slots : n.spawnee[j] = a => n.status[j] = "Takeoff"
        BY <2>6, <2>7, <4>1
      <4> QED BY <4>3, <4>4
    <3>2. CASE a \notin C
      <4>1. /\ n.craft[a].kamikaze = m.craft[a].kamikaze /\ n.tracked[a] = m.tracked[a]
            /\ n.craft[a].place = m.craft[a].place
        BY <2>3, <2>6, <3>2
      <4>2. \A i \in Slots : n.spawnee[i] = a =>
               m.spawnee[i] = a /\ n.status[i] = m.status[i]
        BY <2>5, <2>6, <2>7, <3>2
      <4> QED BY <4>1, <4>2 DEF Fit, Steered
    <3> QED BY <3>1, <3>2
  <2>10. Tended(n) /\ NoSortie(n)
    BY <2>3, <2>6, <2>7 DEF Fit, Tended, NoSortie
  <2>11. Loyal(n, h)
    <3> SUFFICES ASSUME NEW i \in Slots, n.spawnee[i] # None
                 PROVE  n.craft[n.spawnee[i]].house = h
      BY DEF Loyal
    <3>1. m.spawnee[i] = n.spawnee[i] /\ m.spawnee[i] \in Aircraft
      BY <2>6 DEF MState
    <3> QED BY <2>3, <2>6, <3>1 DEF Fit, Loyal
  <2> QED BY <2>1, <2>6, <2>8, <2>9, <2>10, <2>11 DEF Fit
<1> QED BY <1>1, <1>2

LEMMA VolleyFit ==
    ASSUME TypeOK, NEW h, Fit(Now, h)
    PROVE  Volley \in MState /\ Fit(Volley, h)
<1> DEFINE S == With(Now, {"Preparing"})
<1>0. Now \in MState /\ Volley \in MState
  BY NowTyped, VolleyTyped
<1>1. S \in SUBSET Slots /\ \A i \in S : Now.status[i] = "Preparing"
  BY DEF With
<1>2. CASE MissileSpawn /\ S # {}
  <2>1. Volley = AbandonTarget(LaunchMissiles(Now, S))
    BY <1>2 DEF Volley
  <2>2. LaunchMissiles(Now, S) \in MState /\ Fit(LaunchMissiles(Now, S), h)
    <3> HIDE DEF S
    <3> QED BY <1>0, <1>1, <1>2, RocketsAway
  <2> QED BY <2>1, <2>2, AbandonTargetFit
<1>3. CASE ~(MissileSpawn /\ S # {})
  <2> DEFINE v == [Now EXCEPT !.status =
                      [i \in Slots |-> IF i \in S THEN "Attacking" ELSE status[i]]]
  <2>1. Volley = v
    BY <1>3 DEF Volley
  <2> HIDE DEF S
  <2>2. /\ v.spawnee = Now.spawnee /\ v.craft = Now.craft /\ v.tracked = Now.tracked
        /\ v.status = [i \in Slots |-> IF i \in S THEN "Attacking" ELSE Now.status[i]]
    BY DEF Now
  <2> HIDE DEF v
  <2>3. Sound(v)
    BY <1>0, <1>1, <2>1, <2>2 DEF Fit, Sound
  <2>4. Steered(v)
    BY <1>1, <2>2 DEF Fit, Steered
  <2>5. Tended(v) /\ Loyal(v, h)
    BY <2>2 DEF Fit, Tended, Loyal
  <2>6. NoSortie(v)
    BY <1>3, <2>2 DEF Fit, NoSortie, RocketsAreMissiles
  <2> QED BY <1>0, <2>1, <2>3, <2>4, <2>5, <2>6 DEF Fit
<1> QED BY <1>2, <1>3

------------------------------------------------------------------------------
\* The steps of the specification, one lemma for each part of Next.
LEMMA NowFields ==
    /\ Now.spawnee = spawnee /\ Now.status = status /\ Now.craft = craft
    /\ Now.tracked = tracked /\ Now.target = target /\ Now.queued = queued
    /\ Now'.spawnee = spawnee' /\ Now'.status = status' /\ Now'.craft = craft'
    /\ Now'.tracked = tracked' /\ Now'.target = target' /\ Now'.queued = queued'
BY DEF Now

LEMMA BecomesFit ==
    ASSUME NEW m, m \in MState, NEW h, Fit(m, h), Becomes(m) PROVE Fit(Now', h)
BY BecomesNow

\* A turn that moves control i on to status s, and its aircraft to p.
LEMMA TurnFit ==
    ASSUME TypeOK, Now' \in MState, NEW h, Fit(Now, h), NEW i \in Slots,
           NEW s \in {"Idle", "Preparing", "Attacking", "Returning"},
           status[i] \notin {"Dead", "Takeoff"},
           s \in {"Attacking", "Returning"} =>
               status[i] \in {"Attacking", "Returning"} \/ ~SpawnedMissile,
           spawnee' = spawnee, status' = [status EXCEPT ![i] = s], tracked' = tracked,
           NEW c \in Craft, craft' = [craft EXCEPT ![spawnee[i]] = c],
           c.place = IF s = "Idle" THEN "limbo" ELSE "air",
           c.house = craft[spawnee[i]].house, c.kamikaze = craft[spawnee[i]].kamikaze
    PROVE  Fit(Now', h)
<1>0. Now \in MState /\ craft \in [Aircraft -> Craft]
  BY NowTyped DEF TypeOK
<1>1. spawnee[i] \in Aircraft
  BY <1>0, NowFields DEF Fit, Sound, MState
<1>2. /\ s \in SlotStatus \ {"Dead", "Takeoff"}
      /\ s \in Docked <=> s = "Idle"
  BY DEF SlotStatus, Docked
<1>3. craft'[spawnee[i]] = c /\ \A b \in Aircraft \ {spawnee[i]} : craft'[b] = craft[b]
  BY <1>0, <1>1
<1>4. \A b \in Aircraft : /\ craft'[b].house = craft[b].house
                          /\ craft'[b].kamikaze = craft[b].kamikaze
  BY <1>3
<1>5. \A b \in Aircraft \ {spawnee[i]} : craft'[b].place = craft[b].place
  BY <1>3
<1>6. craft'[spawnee[i]].place = IF s \in Docked THEN "limbo" ELSE "air"
  BY <1>2, <1>3
<1>7. /\ Now'.craft[Now.spawnee[i]].place = IF s \in Docked THEN "limbo" ELSE "air"
      /\ \A b \in Aircraft \ {Now.spawnee[i]} : Now'.craft[b].place = Now.craft[b].place
      /\ \A b \in Aircraft : /\ Now'.craft[b].house = Now.craft[b].house
                             /\ Now'.craft[b].kamikaze = Now.craft[b].kamikaze
      /\ Now'.spawnee = Now.spawnee /\ Now'.status = [Now.status EXCEPT ![i] = s]
      /\ Now'.tracked = Now.tracked /\ Now.status[i] \notin {"Dead", "Takeoff"}
      /\ s \in {"Attacking", "Returning"} =>
             Now.status[i] \in {"Attacking", "Returning"} \/ ~SpawnedMissile
  BY <1>4, <1>5, <1>6, NowFields
<1> QED BY <1>0, <1>2, <1>7, MoveFit

\* Case Dead: the new aircraft is of the house of the owner of now.
LEMMA RebuildFit ==
    ASSUME TypeOK, Now' \in MState, Fit(Now, ownerHouse), NEW i \in Slots, Rebuild(i)
    PROVE  Fit(Now', ownerHouse)
<1>0. Now \in MState /\ craft \in [Aircraft -> Craft]
  BY NowTyped DEF TypeOK
<1>1. PICK a \in FreeAircraft :
          /\ spawnee' = [spawnee EXCEPT ![i] = a]
          /\ status' = [status EXCEPT ![i] = "Idle"]
          /\ craft' = [craft EXCEPT ![a] = Fresh(ownerHouse)]
          /\ tracked' = tracked
  BY DEF Rebuild, Becomes, Now
<1>2. a \in Aircraft /\ craft[a].place = "free" /\ a # None
  BY NoneAssumption DEF FreeAircraft, NoneAssumption
<1>3. \A j \in Slots : spawnee[j] # a
  BY <1>2, NowFields DEF Fit, Sound
<1>4. /\ craft'[a].place = "limbo" /\ craft'[a].kamikaze = FALSE
      /\ craft'[a].house = ownerHouse
      /\ \A b \in Aircraft \ {a} : craft'[b] = craft[b]
  BY <1>0, <1>1, <1>2 DEF Fresh
<1>5. /\ spawnee'[i] = a /\ status'[i] = "Idle" /\ spawnee[i] = None /\ status[i] = "Dead"
      /\ \A j \in Slots \ {i} : spawnee'[j] = spawnee[j] /\ status'[j] = status[j]
  BY <1>1, NowFields DEF Rebuild, TypeOK, Fit, Sound
<1>6. tracked[a] = 0
  BY <1>2, NowFields DEF Fit, Steered
<1>7. Sound(Now')
  BY <1>0, <1>2, <1>3, <1>4, <1>5, NowFields DEF Fit, Sound, MState
<1>8. Steered(Now')
  <2> SUFFICES ASSUME NEW b \in Aircraft
               PROVE  /\ tracked'[b] = IF craft'[b].kamikaze THEN 1 ELSE 0
                      /\ craft'[b].kamikaze => craft'[b].place = "air"
                      /\ \A j \in Slots : spawnee'[j] = b =>
                            (craft'[b].kamikaze <=> status'[j] = "Takeoff")
    BY NowFields DEF Steered
  <2>1. CASE b = a
    <3>1. \A j \in Slots : spawnee'[j] = a => status'[j] = "Idle"
      BY <1>3, <1>5
    <3> QED BY <1>1, <1>4, <1>6, <2>1, <3>1
  <2>2. CASE b # a
    <3>1. /\ tracked[b] = IF craft[b].kamikaze THEN 1 ELSE 0
          /\ craft[b].kamikaze => craft[b].place = "air"
          /\ \A j \in Slots : spawnee[j] = b => (craft[b].kamikaze <=> status[j] = "Takeoff")
      BY NowFields DEF Fit, Steered
    <3>2. craft'[b] = craft[b] /\ tracked'[b] = tracked[b]
      BY <1>1, <1>4, <2>2
    <3>3. \A j \in Slots : spawnee'[j] = b => spawnee[j] = b /\ status'[j] = status[j]
      BY <1>5, <2>2
    <3> QED BY <3>1, <3>2, <3>3
  <2> QED BY <2>1, <2>2
<1>9. Tended(Now')
  <2> SUFFICES ASSUME RocketsAreMissiles, NEW b \in Aircraft, craft'[b].place = "limbo"
               PROVE  \E j \in Slots : spawnee'[j] = b
    BY NowFields DEF Tended
  <2>1. CASE b = a
    BY <1>5, <2>1
  <2>2. CASE b # a
    <3>1. PICK j \in Slots : spawnee[j] = b
      BY <1>4, <2>2, NowFields DEF Fit, Tended
    <3>2. j # i
      BY <1>5, <3>1, NoneAssumption DEF NoneAssumption
    <3> QED BY <1>5, <3>1, <3>2
  <2> QED BY <2>1, <2>2
<1>10. Loyal(Now', ownerHouse)
  <2> SUFFICES ASSUME NEW j \in Slots, spawnee'[j] # None
               PROVE  craft'[spawnee'[j]].house = ownerHouse
    BY NowFields DEF Loyal
  <2>1. CASE j = i
    BY <1>4, <1>5, <2>1
  <2>2. CASE j # i
    <3>1. spawnee'[j] = spawnee[j] /\ spawnee[j] \in Aircraft \ {a}
      BY <1>0, <1>3, <1>5, <2>2, NowFields DEF MState
    <3> QED BY <1>4, <3>1, NowFields DEF Fit, Loyal
  <2> QED BY <2>1, <2>2
<1>11. NoSortie(Now')
  BY <1>5, NowFields DEF Fit, NoSortie
<1> QED BY <1>7, <1>8, <1>9, <1>10, <1>11 DEF Fit

LEMMA ControlTurnFit ==
    ASSUME TypeOK, Fit(Now, ownerHouse), NEW i \in Slots, ControlTurn(i)
    PROVE  Fit(Now', ownerHouse)
<1>0. /\ Now \in MState /\ Now' \in MState /\ 0 \in Frames
      /\ craft \in [Aircraft -> Craft]
  BY NowTyped, ControlTurnTyped, RatesAreFrames DEF TypeOK
<1>1. status[i] # "Dead" =>
         /\ spawnee[i] \in Aircraft /\ craft[spawnee[i]] \in Craft
         /\ craft[spawnee[i]].place = IF status[i] \in Docked THEN "limbo" ELSE "air"
         /\ craft[spawnee[i]].kamikaze <=> status[i] = "Takeoff"
  <2>1. status[i] # "Dead" => spawnee[i] \in Aircraft /\ spawnee[i] # None
    BY <1>0, NowFields DEF Fit, Sound, MState
  <2> QED BY <1>0, <2>1, NowFields DEF Fit, Sound, Steered, Docked
<1>2. /\ NextTarget(Now) \in MState /\ Fit(NextTarget(Now), ownerHouse)
      /\ NextTarget(Now).spawnee = spawnee /\ NextTarget(Now).status = status
  <2>1. NextTarget(Now) \in MState /\ Fit(NextTarget(Now), ownerHouse)
    BY <1>0, QueueFit, NoneIsObject
  <2>2. NextTarget(Now).spawnee = spawnee /\ NextTarget(Now).status = status
    BY DEF NextTarget, Now
  <2> QED BY <2>1, <2>2
<1>3. CASE Scramble(i)
  <2> DEFINE c == [craft[spawnee[i]] EXCEPT !.place = "air"]
  <2>1. /\ spawnee' = spawnee /\ status' = [status EXCEPT ![i] = "Preparing"]
        /\ craft' = [craft EXCEPT ![spawnee[i]] = c] /\ tracked' = tracked
        /\ status[i] = "Idle"
    BY <1>3 DEF Scramble, Becomes, Now, NextTarget
  <2>2. c \in Craft
    BY <1>1, <2>1, CraftTyped DEF Places
  <2>3. /\ c.place = "air" /\ c.house = craft[spawnee[i]].house
        /\ c.kamikaze = craft[spawnee[i]].kamikaze
    BY <1>1, <2>1 DEF Craft
  <2> HIDE DEF c
  <2> QED BY <1>0, <2>1, <2>2, <2>3, TurnFit
<1>4. CASE Departed(i)
  <2>1. Becomes(Detach(Now, spawnee[i], 0)) /\ status[i] = "Takeoff"
    BY <1>4 DEF Departed
  <2>2. Detach(Now, spawnee[i], 0) = Emptied(Now,
            {j \in Slots : Now.spawnee[j] = spawnee[i] /\ Lost(Now, spawnee[i])}, RegenRate)
    BY <1>0, <1>1, <2>1, DetachAircraft
  <2>3. \A j \in Slots : Now.spawnee[j] = spawnee[i] => Now.status[j] \notin Docked
    BY <1>1, <2>1, NowFields DEF Fit, Steered, Docked
  <2>4. /\ Detach(Now, spawnee[i], 0) \in MState
        /\ Fit(Detach(Now, spawnee[i], 0), ownerHouse)
    BY <1>0, <2>2, <2>3, EmptiedFit, RatesAreFrames
  <2> QED BY <2>1, <2>4, BecomesFit
<1>5. CASE Gather(i) \/ Engage(i) \/ GoHome(i)
  <2>1. \/ Becomes(NextTarget(Now))
        \/ \E s \in {"Returning", "Attacking"} :
             /\ spawnee' = spawnee /\ status' = [status EXCEPT ![i] = s]
             /\ craft' = craft /\ tracked' = tracked
    BY <1>5 DEF Gather, Engage, GoHome, Becomes, Now, NextTarget
  <2>2. \/ status[i] = "Preparing" /\ ~SpawnedMissile
        \/ status[i] \in {"Attacking", "Returning"}
    BY <1>5 DEF Gather, Engage, GoHome
  <2>3. CASE Becomes(NextTarget(Now))
    BY <1>2, <2>3, BecomesFit
  <2>4. ASSUME NEW s \in {"Returning", "Attacking"},
               spawnee' = spawnee, status' = [status EXCEPT ![i] = s],
               craft' = craft, tracked' = tracked
        PROVE  Fit(Now', ownerHouse)
    <3> DEFINE c == craft[spawnee[i]]
    <3>1. c \in Craft /\ c.place = "air"
      BY <1>1, <2>2 DEF Docked
    <3>2. craft' = [craft EXCEPT ![spawnee[i]] = c]
      BY <1>0, <2>4
    <3>3. c.house = craft[spawnee[i]].house /\ c.kamikaze = craft[spawnee[i]].kamikaze
      OBVIOUS
    <3> HIDE DEF c
    <3> QED BY <1>0, <2>2, <2>4, <3>1, <3>2, <3>3, TurnFit
  <2> QED BY <2>1, <2>3, <2>4
<1>6. CASE Land(i)
  <2> DEFINE k == NextTarget(Now)
             m == [k EXCEPT !.status[i] = "Reloading", !.reload[i] = ReloadRate]
  <2>1. Becomes(Limbo(m, k.spawnee[i])) /\ status[i] = "Returning"
    BY <1>2, <1>6 DEF Land
  <2>2. m \in MState
    <3> HIDE DEF k
    <3> QED BY <1>2, RatesAreFrames DEF k, MState, SlotStatus
  <2>3. Limbo(m, k.spawnee[i]) \in MState /\ Fit(Limbo(m, k.spawnee[i]), ownerHouse)
    BY <1>2, <2>1, <2>2, LandFit, LimboTyped
  <2> HIDE DEF k, m
  <2> QED BY <2>1, <2>3, BecomesFit
<1>7. CASE Rearm(i)
  <2> DEFINE c == [[craft[spawnee[i]] EXCEPT !.ammo = MaxAmmo] EXCEPT !.strength = 1]
  <2>1. /\ spawnee' = spawnee /\ status' = [status EXCEPT ![i] = "Idle"]
        /\ craft' = [craft EXCEPT ![spawnee[i]] = c] /\ tracked' = tracked
        /\ status[i] = "Reloading"
    BY <1>0, <1>1, <1>7 DEF Rearm, Becomes, Now
  <2>2. c \in Craft
    BY <1>1, <2>1, CraftTyped
  <2>3. /\ c.place = "limbo" /\ c.house = craft[spawnee[i]].house
        /\ c.kamikaze = craft[spawnee[i]].kamikaze
    BY <1>1, <2>1 DEF Craft, Docked
  <2> HIDE DEF c
  <2> QED BY <1>0, <2>1, <2>2, <2>3, TurnFit
<1>8. CASE Rebuild(i)
  BY <1>0, <1>8, RebuildFit
<1>9. CASE Skip(i)
  BY <1>0, <1>9, NowFields, FitSame DEF Skip, hangarVars
<1> QED BY <1>3, <1>4, <1>5, <1>6, <1>7, <1>8, <1>9 DEF ControlTurn

LEMMA ManagerTurnFit ==
    ASSUME TypeOK, NEW h, Fit(Now, h), ManagerTurn PROVE Fit(Now', h)
<1>0. Now \in MState /\ Now' \in MState
  BY NowTyped, ManagerTurnTyped, TypePartsNext
<1>1. ASSUME NEW m \in MState, Fit(m, h), NEW s \in Modes
      PROVE  [m EXCEPT !.mode = s] \in MState /\ Fit([m EXCEPT !.mode = s], h)
  <2> DEFINE n == [m EXCEPT !.mode = s]
  <2>1. /\ n \in MState /\ n.spawnee = m.spawnee /\ n.status = m.status
        /\ n.craft = m.craft /\ n.tracked = m.tracked
    BY DEF MState
  <2> HIDE DEF n
  <2>2. n \in MState /\ Fit(n, h)
    BY <1>1, <2>1, FitSame
  <2> QED BY <2>2 DEF n
<1>2. CASE ChooseTarget
  <2>1. NextTarget(Now) \in MState /\ Fit(NextTarget(Now), h)
    BY <1>0, QueueFit, NoneIsObject
  <2>2. \/ Becomes(NextTarget(Now))
        \/ Becomes([NextTarget(Now) EXCEPT !.mode = "Launching"])
        \/ Becomes(AbandonTarget(NextTarget(Now)))
    BY <1>2 DEF ChooseTarget
  <2> QED BY <1>1, <2>1, <2>2, AbandonTargetFit, BecomesFit DEF Modes
<1>3. CASE Launch
  <2>1. Volley \in MState /\ Fit(Volley, h) /\ Becomes([Volley EXCEPT !.mode = "Cooldown"])
    BY <1>3, VolleyFit DEF Launch
  <2> QED BY <1>1, <2>1, BecomesFit DEF Modes
<1>4. CASE HoldLaunch \/ Cool
  BY <1>0, <1>4, NowFields, FitSame DEF HoldLaunch, Cool, hangarVars
<1>5. CASE CallOff
  BY <1>0, <1>5, AbandonTargetFit, BecomesFit DEF CallOff
<1> QED BY <1>2, <1>3, <1>4, <1>5 DEF ManagerTurn

LEMMA OrdersFit ==
    ASSUME TypeOK, NEW h, Fit(Now, h), Orders \/ TargetFate PROVE Fit(Now', h)
<1>0. Now \in MState /\ 0 \in Frames
  BY NowTyped, RatesAreFrames
<1>1. CASE Orders
  <2>1. ASSUME NEW o \in Objects
        PROVE  QueueTarget(Now, o) \in MState /\ Fit(QueueTarget(Now, o), h)
    BY <1>0, QueueFit
  <2>2. \/ \E o \in Objects : Becomes(QueueTarget(Now, o))
        \/ Becomes(AbandonTarget(Now))
    BY <1>1, NoneIsObject DEF Orders, FireAt, NewOrder, StopOrder
  <2> QED BY <1>0, <2>1, <2>2, AbandonTargetFit, BecomesFit
<1>2. ASSUME NEW t \in Targets, TargetLeaves(t) PROVE Fit(Now', h)
  <2>1. Becomes(Now) \/ Becomes(Detach(Now, t, 0))
    BY <1>2 DEF TargetLeaves
  <2> QED BY <1>0, <2>1, DetachFit, BecomesFit
<1>3. ASSUME NEW t \in Targets, TargetComes(t) PROVE Fit(Now', h)
  <2>1. Now' = Now
    BY <1>3 DEF TargetComes, hangarVars, Now
  <2> QED BY <2>1
<1> QED BY <1>1, <1>2, <1>3 DEF TargetFate

\* A captured hangar has no aircraft left to serve either house.
LEMMA OwnerFateFit ==
    ASSUME TypeOK, Fit(Now, ownerHouse), OwnerFate PROVE Fit(Now', ownerHouse')
<1>0. /\ Now \in MState /\ 0 \in Frames /\ RegenRate \in Frames
      /\ Owner \in Targets \union {Owner}
  BY NowTyped, RatesAreFrames
<1>1. ASSUME NEW g \in Houses, Captured(g) PROVE Fit(Now', ownerHouse')
  <2>1. Becomes(DetachSpawns(Now, 0)) /\ ownerHouse' = g
    BY <1>1 DEF Captured
  <2>2. DetachSpawns(Now, 0) \in MState /\ Fit(DetachSpawns(Now, 0), g)
    BY <1>0, DetachSpawnsFit
  <2>3. Fit(Now', g)
    BY <2>1, <2>2, BecomesFit
  <2> QED BY <2>1, <2>3
<1>2. CASE Stunned
  <2> DEFINE q == QueueTarget(Now, None)
             d == DetachSpawns(q, RegenRate)
             b == AbandonTarget(d)
             e == Detach(b, Owner, RegenRate)
  <2>1. q \in MState /\ Fit(q, ownerHouse)
    BY <1>0, QueueFit, NoneIsObject
  <2> HIDE DEF q
  <2>2. d \in MState /\ Fit(d, ownerHouse)
    BY <1>0, <2>1, DetachSpawnsFit
  <2> HIDE DEF d
  <2>3. b \in MState /\ Fit(b, ownerHouse)
    BY <2>2, AbandonTargetFit
  <2> HIDE DEF b
  <2>4. e \in MState /\ Fit(e, ownerHouse)
    BY <1>0, <2>3, DetachFit
  <2>5. Becomes(e) /\ ownerHouse' = ownerHouse
    BY <1>2 DEF Stunned, q, d, b
  <2> HIDE DEF e
  <2>6. Fit(Now', ownerHouse)
    BY <2>4, <2>5, BecomesFit
  <2> QED BY <2>5, <2>6
<1>3. CASE Board
  <2>1. Becomes(Detach(Now, Owner, 0)) /\ ownerHouse' = ownerHouse
    BY <1>3 DEF Board
  <2>2. Detach(Now, Owner, 0) \in MState /\ Fit(Detach(Now, Owner, 0), ownerHouse)
    BY <1>0, DetachFit
  <2>3. Fit(Now', ownerHouse)
    BY <2>1, <2>2, BecomesFit
  <2> QED BY <2>1, <2>3
<1>4. CASE Unload
  <2>1. Now' = Now /\ ownerHouse' = ownerHouse
    BY <1>4 DEF Unload, hangarVars, Now
  <2> QED BY <2>1
<1> QED BY <1>1, <1>2, <1>3, <1>4 DEF OwnerFate

LEMMA FlightFit ==
    ASSUME TypeOK, NEW h, Fit(Now, h), AircraftFate \/ TrackerRound,
           owner = "dead" => \A i \in Slots : status[i] = "Dead"
    PROVE  Fit(Now', h)
<1>0. Now \in MState /\ Now' \in MState /\ craft \in [Aircraft -> Craft]
  BY NowTyped, FlightTyped, TypePartsNext DEF TypeOK
<1>1. ASSUME spawnee' = spawnee, status' = status, tracked' = tracked,
             \A a \in Aircraft : /\ craft'[a].place = craft[a].place
                                 /\ craft'[a].house = craft[a].house
                                 /\ craft'[a].kamikaze = craft[a].kamikaze
      PROVE  Fit(Now', h)
  BY <1>0, <1>1, NowFields, FitAlike
<1>2. ASSUME NEW a \in Aircraft, Shoot(a) \/ ShotDown(a) PROVE Fit(Now', h)
  <2>1. \A b \in Aircraft : /\ craft'[b].place = craft[b].place
                            /\ craft'[b].house = craft[b].house
                            /\ craft'[b].kamikaze = craft[b].kamikaze
    BY <1>0, <1>2 DEF Shoot, ShotDown, Craft
  <2> QED BY <1>1, <1>2, <2>1 DEF Shoot, ShotDown
<1>3. CASE TrackerRound
  <2>1. \A b \in Aircraft : /\ craft'[b].place = craft[b].place
                            /\ craft'[b].house = craft[b].house
                            /\ craft'[b].kamikaze = craft[b].kamikaze
    BY <1>0, <1>3 DEF TrackerRound, TrackerAI, Craft
  <2> QED BY <1>1, <1>3, <2>1 DEF TrackerRound, TrackerAI
<1>4. ASSUME NEW a \in Aircraft, Perish(a) PROVE Fit(Now', h)
  <2>1. CASE owner = "dead"
    <3>1. Becomes([Untrack(Now, {a}) EXCEPT !.craft[a] = Free])
      BY <1>4, <2>1 DEF Perish
    <3>2. \A i \in Slots : Now.status[i] = "Dead"
      BY <2>1, NowFields
    <3> QED BY <1>0, <3>1, <3>2, OrphanFit, BecomesFit
  <2>2. CASE owner # "dead"
    <3>1. Lost(Now, a)
      BY <1>4, NowFields DEF Perish, Lost
    <3>2. Becomes([DetachFromAll(Now, a) EXCEPT !.craft[a] = Free])
      BY <1>4, <2>2 DEF Perish
    <3> QED BY <1>0, <3>1, <3>2, PerishFit, BecomesFit
  <2> QED BY <2>1, <2>2
<1> QED BY <1>2, <1>3, <1>4 DEF AircraftFate

------------------------------------------------------------------------------
(***************************************************************************)
(* The inductive invariant. TrackerSound alone is not inductive: that a    *)
(* control holds no kamikaze that is flying for it needs Sound, which in   *)
(* turn needs what SoundInv says of a dead owner. NoneForgotten needs that *)
(* rockets never sortie like aircraft.                                     *)
(***************************************************************************)
FitInv == SoundInv /\ Fit(Now, ownerHouse)

LEMMA InitFit == Init => FitInv
<1> SUFFICES ASSUME Init PROVE FitInv
  OBVIOUS
<1>1. SoundInv
  BY InitSound
<1>2. PICK crew \in [Slots -> Aircraft] :
          /\ spawnee = crew
          /\ craft = [a \in Aircraft |->
                 IF a \in {crew[i] : i \in Slots} THEN Fresh(ownerHouse) ELSE Free]
  BY DEF Init
<1>3. /\ \A i \in Slots : status[i] = "Idle" /\ spawnee[i] \in Aircraft
      /\ \A a \in Aircraft : tracked[a] = 0
  BY <1>2 DEF Init
<1>4. \A a \in Aircraft :
         /\ craft[a].kamikaze = FALSE
         /\ (\E i \in Slots : spawnee[i] = a) => craft[a].house = ownerHouse
         /\ craft[a].place = "limbo" => \E i \in Slots : spawnee[i] = a
  BY <1>2 DEF Fresh, Free
<1>5. Sound(Now)
  BY <1>1 DEF SoundInv, SlotsSound
<1>6. Steered(Now) /\ Tended(Now) /\ Loyal(Now, ownerHouse) /\ NoSortie(Now)
  BY <1>3, <1>4, NowFields DEF Steered, Tended, Loyal, NoSortie
<1> QED BY <1>1, <1>5, <1>6 DEF FitInv, Fit

LEMMA NextFit == ASSUME FitInv, Next PROVE FitInv'
<1>0. /\ TypeOK /\ Now \in MState /\ Fit(Now, ownerHouse) /\ SoundInv
      /\ owner = "dead" => \A i \in Slots : status[i] = "Dead"
  BY NowTyped DEF FitInv, SoundInv
<1>1. SoundInv'
  BY <1>0, NextSound
<1>2. Now' \in MState
  BY <1>1, TypePartsNext DEF SoundInv
<1>3. Fit(Now', ownerHouse')
  <2>1. CASE AI
    <3>0. ownerHouse' = ownerHouse
      BY <1>0, <2>1, AIActive DEF worldVars
    <3>1. CASE BeginAI
      <4>1. Becomes(QueueTarget(Now, None)) \/ Becomes(Now)
        BY <3>1 DEF BeginAI
      <4> QED BY <1>0, <3>0, <4>1, QueueFit, NoneIsObject, BecomesFit
    <3> QED BY <1>0, <2>1, <3>0, <3>1, ControlTurnFit, ManagerTurnFit DEF AI
  <2>2. CASE OwnerFate
    BY <1>0, <2>2, OwnerFateFit
  <2>3. CASE Orders \/ TargetFate
    <3>1. ownerHouse' = ownerHouse
      BY <2>3 DEF Orders, FireAt, NewOrder, StopOrder, Ordered, TargetFate, TargetLeaves,
         TargetComes, worldVars
    <3> QED BY <1>0, <2>3, <3>1, OrdersFit
  <2>4. CASE AircraftFate \/ TrackerRound
    <3>1. ownerHouse' = ownerHouse
      BY <2>4 DEF AircraftFate, Shoot, ShotDown, Perish, TrackerRound, worldVars
    <3> QED BY <1>0, <2>4, <3>1, FlightFit
  <2>5. CASE Frame
    <3>1. /\ spawnee' = spawnee /\ status' = status /\ craft' = craft /\ tracked' = tracked
          /\ ownerHouse' = ownerHouse
      BY <2>5 DEF Frame, worldVars
    <3> QED BY <1>0, <1>2, <3>1, NowFields, FitSame
  <2> QED BY <2>1, <2>2, <2>3, <2>4, <2>5 DEF Next
<1> QED BY <1>1, <1>3 DEF FitInv

THEOREM AircraftAreFit == Spec => []FitInv
<1>1. FitInv /\ UNCHANGED vars => FitInv'
  <2> SUFFICES ASSUME FitInv, UNCHANGED vars PROVE FitInv'
    OBVIOUS
  <2>1. Now' = Now /\ ownerHouse' = ownerHouse
    BY DEF vars, hangarVars, worldVars, Now
  <2>2. SoundInv'
    BY DEF FitInv, SoundInv, TypeOK, SlotsSound, Sound, Now, vars, hangarVars, worldVars,
           clockVars
  <2> QED BY <2>1, <2>2 DEF FitInv
<1> QED BY <1>1, InitFit, NextFit, PTL DEF Spec

\* The tracker steers aircraft that exist, each once, and all the kamikazes; a
\* control still holds one only during Takeoff (TrackerSound of SpawnManager).
THEOREM TrackerIsSound == Spec => []TrackerSound
<1>1. FitInv => TrackerSound
  BY NowFields DEF FitInv, Fit, Steered, TrackerSound
<1> QED BY <1>1, AircraftAreFit, PTL

\* The controls fly for the house that owns the spawner, also after a capture
\* (Allegiance of SpawnManager).
THEOREM HangarIsLoyal == Spec => []Allegiance
<1>1. FitInv => Allegiance
  BY NowFields DEF FitInv, Fit, Loyal, Allegiance
<1> QED BY <1>1, AircraftAreFit, PTL

\* No aircraft is left off the map without a control that can bring it back, as
\* long as an aircraft type with a RocketType is a missile (NoneForgotten of
\* SpawnManager): a rocket that was no missile would attack and come home like an
\* aircraft, and Detach would then empty the control it lands in.
THEOREM NoAircraftForgotten ==
    ASSUME RocketsAreMissiles PROVE Spec => []NoneForgotten
<1>1. FitInv => NoneForgotten
  BY NowFields DEF FitInv, Fit, Tended, NoneForgotten
<1> QED BY <1>1, AircraftAreFit, PTL

------------------------------------------------------------------------------
(***************************************************************************)
(* The targets. Detach(o) clears Target or QueuedTarget, never both, so o  *)
(* is gone from the manager only if they never are the same object:        *)
(* TargetsPresent is inductive only together with that.                    *)
(***************************************************************************)
Aims(m, P) ==
    /\ {m.target, m.queued} \subseteq P \union {None}
    /\ m.queued # None => m.queued # m.target

SameAim(m, n) == n.target = m.target /\ n.queued = m.queued

LEMMA HandlersKeepAim ==
    ASSUME NEW m \in MState, NEW S, NEW t \in Frames
    PROVE  /\ SameAim(m, Add(m, S)) /\ SameAim(m, Untrack(m, S))
           /\ SameAim(m, DeleteMe(m, S)) /\ SameAim(m, Emptied(m, S, t))
<1>1. SameAim(m, Add(m, S)) /\ SameAim(m, Untrack(m, S)) /\ SameAim(m, Emptied(m, S, t))
  BY DEF SameAim, Add, Untrack, Emptied, MState
<1>2. SameAim(m, DeleteMe(m, S))
  <2> DEFINE u == Untrack(m, S)
  <2>1. u \in MState
    BY UntrackTyped
  <2>2. DeleteMe(m, S) = [u EXCEPT !.craft = [a \in Aircraft |->
                                      IF a \in S THEN Free ELSE m.craft[a]]]
    BY DEF DeleteMe
  <2> HIDE DEF u
  <2>3. SameAim(u, DeleteMe(m, S))
    BY <2>1, <2>2 DEF SameAim, MState
  <2> QED BY <1>1, <2>3 DEF SameAim, u
<1> QED BY <1>1, <1>2

LEMMA SpawnsKeepAim ==
    ASSUME NEW m \in MState, NEW t \in Frames PROVE SameAim(m, DetachSpawns(m, t))
<1> DEFINE docked == With(m, {"Idle", "Reloading"})
           takeoff == With(m, {"Takeoff"})
           flying == With(m, {"Preparing", "Attacking", "Returning"})
           A == Crew(m, takeoff)
           B == Crew(m, docked \union takeoff)
           C == Crew(m, flying)
           S == docked \union takeoff \union flying
           u == Untrack(m, A)
           gone == DeleteMe(u, B)
           k == Add(gone, C)
<1>1. DetachSpawns(m, t) = Emptied(k, S, t)
  BY DEF DetachSpawns
<1> HIDE DEF docked, takeoff, flying, A, B, C, S
<1>2. u \in MState /\ SameAim(m, u)
  BY UntrackTyped, HandlersKeepAim
<1> HIDE DEF u
<1>3. gone \in MState /\ SameAim(u, gone)
  BY <1>2, DeleteMeTyped, HandlersKeepAim
<1> HIDE DEF gone
<1>4. k \in MState /\ SameAim(gone, k)
  BY <1>3, AddTyped, HandlersKeepAim
<1> HIDE DEF k
<1>5. SameAim(k, Emptied(k, S, t))
  BY <1>4, HandlersKeepAim
<1> QED BY <1>1, <1>2, <1>3, <1>4, <1>5 DEF SameAim

LEMMA AbandonAims ==
    ASSUME NEW m \in MState, NEW P
    PROVE  /\ AbandonTarget(m).target = None /\ AbandonTarget(m).queued = None
           /\ Aims(AbandonTarget(m), P)
<1> DEFINE S == IF MissileSpawn THEN With(m, {"Preparing"}) ELSE {}
           n == Emptied(Add(m, Crew(m, S)), S, RegenRate)
<1>1. n \in MState
  BY AddTyped, EmptiedTyped, RatesAreFrames
<1>2. AbandonTarget(m) = [n EXCEPT !.mode = "Idle", !.target = None, !.queued = None]
  BY DEF AbandonTarget
<1> HIDE DEF n
<1>3. AbandonTarget(m).target = None /\ AbandonTarget(m).queued = None
  BY <1>1, <1>2 DEF MState
<1> QED BY <1>3 DEF Aims

LEMMA QueueAims ==
    ASSUME NEW m \in MState, NEW P, Aims(m, P), NEW o \in P \union {None}
    PROVE  Aims(QueueTarget(m, o), P) /\ Aims(NextTarget(m), P)
BY DEF Aims, QueueTarget, NextTarget, MState

\* Whoever leaves, Detach takes it out of the manager.
LEMMA DetachAims ==
    ASSUME NEW m \in MState, NEW P, Aims(m, P), NEW o, o # None, NEW t \in Frames
    PROVE  Aims(Detach(m, o, t), P \ {o})
<1> DEFINE k == [m EXCEPT !.target = None]
           q == [m EXCEPT !.queued = None]
<1>1. /\ k \in MState /\ k.target = None /\ k.queued = m.queued
      /\ q \in MState /\ q.target = m.target /\ q.queued = None
  BY DEF MState, Objects
<1>2. CASE m.target = o /\ m.queued = None
  <2>1. Detach(m, o, t) = AbandonTarget(k)
    BY <1>2 DEF Detach
  <2> HIDE DEF k
  <2> QED BY <1>1, <2>1, AbandonAims
<1>3. CASE m.target = o /\ m.queued # None
  <2>1. Detach(m, o, t) = k
    BY <1>3 DEF Detach
  <2> HIDE DEF k
  <2> QED BY <1>1, <1>3, <2>1 DEF Aims
<1>4. CASE m.target # o /\ m.queued = o
  <2>1. Detach(m, o, t) = q
    BY <1>4 DEF Detach
  <2> HIDE DEF q
  <2> QED BY <1>1, <1>4, <2>1 DEF Aims
<1>5. CASE m.target # o /\ m.queued # o /\ o = Owner
  <2>1. Detach(m, o, t) = AbandonTarget(DetachSpawns(m, t))
    BY <1>5 DEF Detach
  <2> QED BY <2>1, DetachSpawnsTyped, AbandonAims
<1>6. CASE m.target # o /\ m.queued # o /\ o # Owner
  <2> DEFINE S == {i \in Slots : m.spawnee[i] = o /\ Lost(m, o)}
  <2>1. Detach(m, o, t) = Emptied(m, S, RegenRate)
    BY <1>6 DEF Detach
  <2> HIDE DEF S
  <2>2. SameAim(m, Emptied(m, S, RegenRate))
    BY HandlersKeepAim, RatesAreFrames
  <2> QED BY <1>6, <2>1, <2>2 DEF Aims, SameAim
<1> QED BY <1>2, <1>3, <1>4, <1>5, <1>6

LEMMA AircraftAims ==
    ASSUME NEW m \in MState, NEW P, Aims(m, P), NEW a \in Aircraft
    PROVE  Aims(DetachFromAll(m, a), P) /\ Aims(Limbo(m, a), P)
<1> DEFINE d == Detach(m, a, 0)
           n == DetachFromAll(m, a)
           p == Limbo(m, a)
<1>0. a # None /\ 0 \in Frames
  BY NoneAssumption, RatesAreFrames DEF NoneAssumption
<1>1. d \in MState /\ Aims(d, P \ {a})
  BY <1>0, DetachTyped, DetachAims
<1>2. n = Untrack(d, {a})
  BY DEF DetachFromAll
<1> HIDE DEF d
<1>3. SameAim(d, Untrack(d, {a})) /\ Untrack(d, {a}) \in MState
  BY <1>0, <1>1, HandlersKeepAim, UntrackTyped
<1>4. n \in MState /\ Aims(n, P)
  BY <1>1, <1>2, <1>3 DEF Aims, SameAim
<1>5. SameAim(n, p)
  <2> DEFINE c == IF m.craft[a].strength = 0 THEN Free
                  ELSE [n.craft[a] EXCEPT !.place = "limbo"]
  <2>1. p = [n EXCEPT !.craft[a] = c]
    BY DEF Limbo
  <2> HIDE DEF n, c, p
  <2> QED BY <1>4, <2>1 DEF SameAim, MState
<1> QED BY <1>4, <1>5 DEF Aims, SameAim

LEMMA BecomesAims ==
    ASSUME NEW m, Becomes(m), NEW P, Aims(m, P) PROVE Aims(Now', P)
BY DEF Becomes, Aims, Now

LEMMA ControlTurnAims ==
    ASSUME TypeOK, Sound(Now), Aims(Now, present), NEW i \in Slots, ControlTurn(i)
    PROVE  Aims(Now', present)
<1>0. Now \in MState /\ 0 \in Frames
  BY NowTyped, RatesAreFrames
<1>1. status[i] # "Dead" => spawnee[i] \in Aircraft
  BY <1>0, NowFields DEF Sound, MState
<1>2. /\ NextTarget(Now) \in MState /\ Aims(NextTarget(Now), present)
      /\ NextTarget(Now).spawnee = spawnee
  <2>1. NextTarget(Now) \in MState /\ Aims(NextTarget(Now), present)
    BY <1>0, NextTargetTyped, QueueAims
  <2>2. NextTarget(Now).spawnee = spawnee
    BY DEF NextTarget, Now
  <2> QED BY <2>1, <2>2
<1>3. CASE Scramble(i) \/ Gather(i) \/ Engage(i) \/ GoHome(i)
  <2>1. \/ target' = target /\ queued' = queued
        \/ target' = NextTarget(Now).target /\ queued' = NextTarget(Now).queued
    BY <1>3 DEF Scramble, Gather, Engage, GoHome, Becomes, NextTarget, Now
  <2> QED BY <1>2, <2>1, NowFields DEF Aims
<1>4. CASE Departed(i)
  <2>1. Becomes(Detach(Now, spawnee[i], 0)) /\ spawnee[i] \in Aircraft
    BY <1>1, <1>4 DEF Departed
  <2>2. Aims(Detach(Now, spawnee[i], 0), present \ {spawnee[i]})
    BY <1>0, <2>1, DetachAims, NoneAssumption DEF NoneAssumption
  <2>3. Aims(Detach(Now, spawnee[i], 0), present)
    BY <2>2 DEF Aims
  <2> QED BY <2>1, <2>3, BecomesAims
<1>5. CASE Land(i)
  <2> DEFINE k == NextTarget(Now)
             m == [k EXCEPT !.status[i] = "Reloading", !.reload[i] = ReloadRate]
  <2>1. Becomes(Limbo(m, k.spawnee[i])) /\ k.spawnee[i] \in Aircraft
    BY <1>1, <1>2, <1>5 DEF Land
  <2>2. m \in MState /\ SameAim(k, m)
    <3> HIDE DEF k
    <3> QED BY <1>2, RatesAreFrames DEF k, MState, SlotStatus, SameAim
  <2> HIDE DEF m
  <2>3. Aims(m, present)
    BY <1>2, <2>2 DEF Aims, SameAim
  <2>4. Aims(Limbo(m, k.spawnee[i]), present)
    BY <2>1, <2>2, <2>3, AircraftAims
  <2> QED BY <2>1, <2>4, BecomesAims
<1>6. CASE Rearm(i) \/ Rebuild(i) \/ Skip(i)
  <2>1. target' = target /\ queued' = queued
    BY <1>6 DEF Rearm, Rebuild, Skip, Becomes, Now, hangarVars
  <2> QED BY <2>1, NowFields DEF Aims
<1> QED BY <1>3, <1>4, <1>5, <1>6 DEF ControlTurn

LEMMA ManagerTurnAims ==
    ASSUME TypeOK, NEW P, Aims(Now, P), ManagerTurn PROVE Aims(Now', P)
<1>0. Now \in MState
  BY NowTyped
<1>1. CASE ChooseTarget
  <2>1. NextTarget(Now) \in MState /\ Aims(NextTarget(Now), P)
    BY <1>0, NextTargetTyped, QueueAims
  <2>2. Aims([NextTarget(Now) EXCEPT !.mode = "Launching"], P)
    BY <2>1 DEF Aims, MState
  <2> QED BY <1>1, <2>1, <2>2, AbandonAims, BecomesAims DEF ChooseTarget
<1>2. CASE Launch
  <2>1. Aims(Volley, P)
    <3> DEFINE S == With(Now, {"Preparing"})
    <3>1. CASE MissileSpawn /\ S # {}
      <4>1. Volley = AbandonTarget(LaunchMissiles(Now, S))
        BY <3>1 DEF Volley
      <4>2. LaunchMissiles(Now, S) \in MState
        <5> DEFINE k == Add(Now, Crew(Now, S))
        <5>1. k \in MState
          BY <1>0, AddTyped
        <5>2. Emptied(k, S, RegenRate) \in MState
          BY <5>1, EmptiedTyped, RatesAreFrames
        <5>3. [k EXCEPT
                 !.status = [i \in Slots |-> IF i \in S THEN "Takeoff" ELSE Now.status[i]],
                 !.reload = [i \in Slots |-> IF i \in S THEN TakeoffFrames ELSE Now.reload[i]]]
                   \in MState
          <6> HIDE DEF k, S
          <6> QED BY <1>0, <5>1, RatesAreFrames DEF MState, SlotStatus
        <5> QED BY <5>2, <5>3 DEF LaunchMissiles
      <4> QED BY <4>1, <4>2, AbandonAims
    <3>2. CASE ~(MissileSpawn /\ S # {})
      <4>1. Volley = [Now EXCEPT !.status =
                         [i \in Slots |-> IF i \in S THEN "Attacking" ELSE status[i]]]
        BY <3>2 DEF Volley
      <4> HIDE DEF S
      <4>2. SameAim(Now, Volley)
        BY <4>1 DEF SameAim, Now
      <4> QED BY <4>2 DEF Aims, SameAim
    <3> QED BY <3>1, <3>2
  <2>2. Volley \in MState
    BY VolleyTyped
  <2>3. Aims([Volley EXCEPT !.mode = "Cooldown"], P)
    BY <2>1, <2>2 DEF Aims, MState
  <2>4. Becomes([Volley EXCEPT !.mode = "Cooldown"])
    BY <1>2 DEF Launch
  <2> QED BY <2>3, <2>4, BecomesAims
<1>3. CASE HoldLaunch \/ Cool
  BY <1>3, NowFields DEF HoldLaunch, Cool, hangarVars, Aims
<1>4. CASE CallOff
  BY <1>0, <1>4, AbandonAims, BecomesAims DEF CallOff
<1> QED BY <1>1, <1>2, <1>3, <1>4 DEF ManagerTurn

AimInv == SoundInv /\ (owner # "dead" => Aims(Now, present))

LEMMA NextAims == ASSUME AimInv, Next PROVE AimInv'
<1>0. /\ SoundInv /\ TypeOK /\ Sound(Now) /\ Now \in MState
      /\ 0 \in Frames /\ RegenRate \in Frames
  BY NowTyped, RatesAreFrames DEF AimInv, SoundInv, SlotsSound
<1>1. SoundInv'
  BY <1>0, NextSound
<1>2. ASSUME owner' # "dead" PROVE Aims(Now', present')
  <2>1. CASE AI
    <3>1. owner = "active" /\ present' = present /\ Aims(Now, present)
      BY <1>0, <2>1, AIActive DEF AimInv, worldVars
    <3>2. CASE BeginAI
      <4>1. Becomes(QueueTarget(Now, None)) \/ Becomes(Now)
        BY <3>2 DEF BeginAI
      <4> QED BY <1>0, <3>1, <4>1, QueueAims, BecomesAims
    <3> QED BY <1>0, <2>1, <3>1, <3>2, ControlTurnAims, ManagerTurnAims DEF AI
  <2>2. CASE Orders
    <3>1. present' = present /\ Aims(Now, present)
      BY <2>2 DEF Orders, FireAt, NewOrder, StopOrder, Ordered, worldVars, AimInv
    <3>2. \/ \E o \in present \union {None} : Becomes(QueueTarget(Now, o))
          \/ Becomes(AbandonTarget(Now))
      BY <2>2 DEF Orders, FireAt, NewOrder, StopOrder
    <3> QED BY <1>0, <3>1, <3>2, QueueAims, AbandonAims, BecomesAims
  <2>3. ASSUME NEW g \in Houses, Captured(g) PROVE Aims(Now', present')
    <3>1. /\ Becomes(DetachSpawns(Now, 0)) /\ present' = present /\ Aims(Now, present)
      BY <2>3 DEF Captured, AimInv
    <3>2. Aims(DetachSpawns(Now, 0), present)
      BY <1>0, <3>1, SpawnsKeepAim DEF Aims, SameAim
    <3> QED BY <3>1, <3>2, BecomesAims
  <2>4. CASE Stunned
    BY <1>2, <2>4 DEF Stunned
  <2>5. CASE Board
    <3>1. Becomes(Detach(Now, Owner, 0)) /\ present' = present /\ Aims(Now, present)
      BY <2>5 DEF Board, AimInv
    <3>2. Aims(Detach(Now, Owner, 0), present \ {Owner})
      BY <1>0, <3>1, DetachAims, ObjectAssumption DEF ObjectAssumption
    <3>3. Aims(Detach(Now, Owner, 0), present)
      BY <3>2 DEF Aims
    <3> QED BY <3>1, <3>3, BecomesAims
  <2>6. CASE Unload \/ Frame
    <3>1. /\ target' = target /\ queued' = queued /\ present' = present
          /\ Aims(Now, present)
      BY <1>2, <2>6 DEF Unload, Frame, hangarVars, worldVars, AimInv
    <3> QED BY <3>1, NowFields DEF Aims
  <2>7. ASSUME NEW o \in Targets, TargetLeaves(o) PROVE Aims(Now', present')
    <3>1. /\ Becomes(Detach(Now, o, 0)) /\ present' = present \ {o} /\ Aims(Now, present)
      BY <1>2, <2>7 DEF TargetLeaves, AimInv
    <3>2. Aims(Detach(Now, o, 0), present \ {o})
      BY <1>0, <3>1, DetachAims, ObjectAssumption DEF ObjectAssumption
    <3> QED BY <3>1, <3>2, BecomesAims
  <2>8. ASSUME NEW o \in Targets, TargetComes(o) PROVE Aims(Now', present')
    <3>1. /\ target' = target /\ queued' = queued /\ present' = present \union {o}
          /\ Aims(Now, present)
      BY <1>2, <2>8 DEF TargetComes, hangarVars, AimInv
    <3> QED BY <3>1, NowFields DEF Aims
  <2>9. ASSUME NEW a \in Aircraft, Perish(a) PROVE Aims(Now', present')
    <3>1. /\ owner # "dead" /\ present' = present /\ Aims(Now, present)
          /\ Becomes([DetachFromAll(Now, a) EXCEPT !.craft[a] = Free])
      BY <1>2, <2>9 DEF Perish, worldVars, AimInv
    <3> DEFINE n == DetachFromAll(Now, a)
    <3>2. n \in MState /\ Aims(n, present)
      <4>1. Detach(Now, a, 0) \in MState
        BY <1>0, DetachTyped
      <4>2. n \in MState
        BY <4>1, UntrackTyped DEF DetachFromAll
      <4>3. Aims(n, present)
        BY <1>0, <3>1, AircraftAims
      <4> QED BY <4>2, <4>3
    <3> HIDE DEF n
    <3>3. Aims([n EXCEPT !.craft[a] = Free], present)
      BY <3>2 DEF Aims, MState
    <3> QED BY <3>1, <3>3, BecomesAims DEF n
  <2>10. CASE (\E a \in Aircraft : Shoot(a) \/ ShotDown(a)) \/ TrackerRound
    <3>1. /\ target' = target /\ queued' = queued /\ present' = present
          /\ Aims(Now, present)
      BY <1>2, <2>10 DEF Shoot, ShotDown, TrackerRound, TrackerAI, worldVars, AimInv
    <3> QED BY <3>1, NowFields DEF Aims
  <2> QED BY <2>1, <2>2, <2>3, <2>4, <2>5, <2>6, <2>7, <2>8, <2>9, <2>10
      DEF Next, OwnerFate, TargetFate, AircraftFate
<1> QED BY <1>1, <1>2 DEF AimInv

\* The manager never keeps a target that has left the map, although Detach clears
\* only one of Target and QueuedTarget (TargetsPresent of SpawnManager).
THEOREM NoTargetOutlived == Spec => []TargetsPresent
<1>1. Init => AimInv
  BY InitSound, NowFields DEF Init, AimInv, Aims
<1>2. AimInv /\ UNCHANGED vars => AimInv'
  <2> SUFFICES ASSUME AimInv, UNCHANGED vars PROVE AimInv'
    OBVIOUS
  <2>1. Now' = Now /\ owner' = owner /\ present' = present
    BY DEF vars, hangarVars, worldVars, Now
  <2>2. SoundInv'
    BY DEF AimInv, SoundInv, TypeOK, SlotsSound, Sound, Now, vars, hangarVars, worldVars,
           clockVars
  <2> QED BY <2>1, <2>2 DEF AimInv
<1>3. AimInv => TargetsPresent
  BY NowFields DEF AimInv, Aims, TargetsPresent
<1> QED BY <1>1, <1>2, <1>3, NextAims, PTL DEF Spec

------------------------------------------------------------------------------
(***************************************************************************)
(* The refinement of Hangar. What the handlers do to each other's results  *)
(* in the middle of a step is Yields: some controls whose aircraft are out *)
(* lose them, the others stay as they are. It can be chained, and a step   *)
(* that yields is Lose of the abstract hangar, for no bay at all if no     *)
(* control was lost.                                                       *)
(***************************************************************************)
WhereIs(s) ==
    IF s \in {"Idle", "Reloading"} THEN "docked" ELSE IF s = "Dead" THEN "gone" ELSE "out"

Stays(m, n, i) == n.spawnee[i] = m.spawnee[i] /\ WhereIs(n.status[i]) = WhereIs(m.status[i])

Goes(m, n, i) ==
    /\ WhereIs(m.status[i]) = "out"
    /\ WhereIs(n.status[i]) = "gone"
    /\ n.spawnee[i] = None

Yields(m, n) == \A i \in Slots : Stays(m, n, i) \/ Goes(m, n, i)

LEMMA YieldsChain ==
    ASSUME NEW m, NEW k, NEW n, Yields(m, k), Yields(k, n) PROVE Yields(m, n)
BY DEF Yields, Stays, Goes

LEMMA YieldsSame ==
    ASSUME NEW m, NEW n, n.spawnee = m.spawnee, n.status = m.status PROVE Yields(m, n)
BY DEF Yields, Stays

LEMMA EmptiedYields ==
    ASSUME NEW m \in MState, Sound(m), NEW S, NEW t,
           \A i \in Slots : i \in S => m.status[i] \notin {"Idle", "Reloading"}
    PROVE  Yields(m, Emptied(m, S, t))
<1> DEFINE n == Emptied(m, S, t)
<1>1. /\ n.spawnee = [i \in Slots |-> IF i \in S THEN None ELSE m.spawnee[i]]
      /\ n.status = [i \in Slots |-> IF i \in S THEN "Dead" ELSE m.status[i]]
  BY DEF Emptied, MState
<1> HIDE DEF n
<1> SUFFICES ASSUME NEW i \in Slots PROVE Stays(m, n, i) \/ Goes(m, n, i)
  BY DEF Yields, n
<1>2. CASE i \notin S
  BY <1>1, <1>2 DEF Stays
<1>3. CASE i \in S /\ m.status[i] = "Dead"
  <2>1. m.spawnee[i] = None
    BY <1>3 DEF Sound
  <2> QED BY <1>1, <1>3, <2>1 DEF Stays
<1>4. CASE i \in S /\ m.status[i] # "Dead"
  BY <1>1, <1>4 DEF Goes, WhereIs
<1> QED BY <1>2, <1>3, <1>4

\* Letting go aircraft that are out, by Add and Detach.
LEMMA ReleaseYields ==
    ASSUME NEW m \in MState, Sound(m), NEW C, NEW S, NEW t,
           \A i \in Slots : i \in S => m.status[i] \notin {"Idle", "Reloading"}
    PROVE  Yields(m, Emptied(Add(m, C), S, t))
<1> DEFINE k == Add(m, C)
<1>1. k \in MState /\ k.spawnee = m.spawnee /\ k.status = m.status /\ Sound(k)
  BY AddTyped, AddKeepsPlaces, SoundSame
<1> HIDE DEF k
<1>2. Yields(m, k)
  BY <1>1, YieldsSame
<1>3. Yields(k, Emptied(k, S, t))
  BY <1>1, EmptiedYields
<1> QED BY <1>2, <1>3, YieldsChain DEF k

LEMMA AbandonYields ==
    ASSUME NEW m \in MState, Sound(m) PROVE Yields(m, AbandonTarget(m))
<1> DEFINE S == IF MissileSpawn THEN With(m, {"Preparing"}) ELSE {}
           n == Emptied(Add(m, Crew(m, S)), S, RegenRate)
<1>1. \A i \in Slots : i \in S => m.status[i] \notin {"Idle", "Reloading"}
  BY DEF With
<1> HIDE DEF S
<1>2. n \in MState /\ Yields(m, n)
  BY <1>1, AddTyped, EmptiedTyped, RatesAreFrames, ReleaseYields
<1>3. AbandonTarget(m) = [n EXCEPT !.mode = "Idle", !.target = None, !.queued = None]
  BY DEF AbandonTarget, S
<1> HIDE DEF n
<1>4. AbandonTarget(m).spawnee = n.spawnee /\ AbandonTarget(m).status = n.status
  BY <1>2, <1>3 DEF MState
<1> QED BY <1>2, <1>4, YieldsSame, YieldsChain

LEMMA QueueYields ==
    ASSUME NEW m \in MState, NEW o PROVE Yields(m, QueueTarget(m, o)) /\ Yields(m, NextTarget(m))
<1>1. \A n \in {QueueTarget(m, o), NextTarget(m)} :
         n.spawnee = m.spawnee /\ n.status = m.status
  BY DEF QueueTarget, NextTarget, MState
<1> QED BY <1>1, YieldsSame

\* A target or an aircraft that is out leaves.
LEMMA DetachYields ==
    ASSUME NEW m \in MState, Sound(m), NEW o, o # Owner, NEW t,
           \A i \in Slots : m.spawnee[i] = o => m.status[i] \notin {"Idle", "Reloading"}
    PROVE  Yields(m, Detach(m, o, t))
<1> DEFINE k == [m EXCEPT !.target = None]
           q == [m EXCEPT !.queued = None]
<1>1. /\ k \in MState /\ k.spawnee = m.spawnee /\ k.status = m.status /\ Sound(k)
      /\ q.spawnee = m.spawnee /\ q.status = m.status
  BY DEF MState, Objects, Sound
<1> HIDE DEF k, q
<1>2. Yields(m, k) /\ Yields(m, q) /\ Yields(k, AbandonTarget(k))
  BY <1>1, YieldsSame, AbandonYields
<1>3. Yields(m, AbandonTarget(k))
  BY <1>2, YieldsChain
<1>4. Yields(m, Emptied(m, {i \in Slots : m.spawnee[i] = o /\ Lost(m, o)}, RegenRate))
  BY EmptiedYields
<1> QED BY <1>2, <1>3, <1>4 DEF Detach, k, q

LEMMA DetachFromAllYields ==
    ASSUME NEW m \in MState, Sound(m), NEW a \in Aircraft, m.craft[a].place = "air"
    PROVE  DetachFromAll(m, a) \in MState /\ Yields(m, DetachFromAll(m, a))
<1> DEFINE d == Detach(m, a, 0)
<1>1. \A i \in Slots : m.spawnee[i] = a => m.status[i] \notin {"Idle", "Reloading"}
  BY NoneAssumption DEF NoneAssumption, Sound
<1>2. d \in MState /\ Yields(m, d)
  BY <1>1, DetachTyped, DetachYields, RatesAreFrames, ObjectAssumption DEF ObjectAssumption
<1>3. DetachFromAll(m, a) = Untrack(d, {a})
  BY DEF DetachFromAll
<1> HIDE DEF d
<1>4. /\ Untrack(d, {a}) \in MState
      /\ Untrack(d, {a}).spawnee = d.spawnee /\ Untrack(d, {a}).status = d.status
  BY <1>2, UntrackEffect
<1> QED BY <1>2, <1>3, <1>4, YieldsSame, YieldsChain

LEMMA VolleyYields ==
    ASSUME TypeOK, Sound(Now) PROVE Yields(Now, Volley)
<1> DEFINE S == With(Now, {"Preparing"})
           m == LaunchMissiles(Now, S)
<1>0. Now \in MState
  BY NowTyped
<1>1. \A i \in Slots : i \in S => Now.status[i] = "Preparing"
  BY DEF With
<1>2. CASE ~(MissileSpawn /\ S # {})
  <2> DEFINE v == [Now EXCEPT !.status =
                      [i \in Slots |-> IF i \in S THEN "Attacking" ELSE status[i]]]
  <2>1. Volley = v
    BY <1>2 DEF Volley
  <2> HIDE DEF S
  <2>2. /\ v.spawnee = Now.spawnee
        /\ v.status = [i \in Slots |-> IF i \in S THEN "Attacking" ELSE Now.status[i]]
    BY DEF Now
  <2> HIDE DEF v
  <2> QED BY <1>1, <2>1, <2>2 DEF Yields, Stays, WhereIs
<1>3. CASE MissileSpawn /\ S # {}
  <2>1. Volley = AbandonTarget(m)
    BY <1>3 DEF Volley
  <2>2. m \in MState /\ Sound(m) /\ Yields(Now, m)
    <3>0. S \in SUBSET Slots
      BY DEF With
    <3> DEFINE C == Crew(Now, S)
               k == Add(Now, C)
               e == Emptied(k, S, RegenRate)
               f == [i \in Slots |-> IF i \in S THEN "Takeoff" ELSE Now.status[i]]
               g == [i \in Slots |-> IF i \in S THEN TakeoffFrames ELSE Now.reload[i]]
               r == [k EXCEPT !.status = f, !.reload = g]
    <3>1. /\ SpawnedMissile => m = r
          /\ ~SpawnedMissile => m = e
      BY DEF LaunchMissiles
    <3>2. f \in [Slots -> SlotStatus] /\ g \in [Slots -> Frames]
      BY <1>0, RatesAreFrames DEF MState, SlotStatus
    <3> HIDE DEF S, C, m
    <3>3. /\ k \in MState /\ k.spawnee = Now.spawnee /\ k.status = Now.status /\ Sound(k)
          /\ \A a \in Aircraft : k.craft[a].place = Now.craft[a].place
      BY <1>0, AddTyped, AddKeepsPlaces, SoundSame
    <3>4. CASE ~SpawnedMissile
      <4>1. e \in MState /\ Sound(e)
        BY <3>3, EmptiedTyped, EmptiedSound, RatesAreFrames
      <4>2. Yields(Now, e)
        BY <1>0, <1>1, ReleaseYields
      <4> QED BY <3>1, <3>4, <4>1, <4>2
    <3>5. CASE SpawnedMissile
      <4> HIDE DEF k, f, g
      <4>1. r \in MState /\ r.spawnee = Now.spawnee /\ r.craft = k.craft /\ r.status = f
        BY <3>2, <3>3 DEF MState
      <4>2. \A i \in Slots : r.status[i] = IF i \in S THEN "Takeoff" ELSE Now.status[i]
        BY <4>1 DEF f
      <4> HIDE DEF r
      <4>3. Sound(r)
        BY <1>0, <1>1, <3>3, <4>1, <4>2 DEF Sound, MState
      <4>4. Yields(Now, r)
        BY <1>1, <4>1, <4>2 DEF Yields, Stays, WhereIs
      <4> QED BY <3>1, <3>5, <4>1, <4>3, <4>4
    <3> QED BY <3>4, <3>5
  <2> HIDE DEF m
  <2> QED BY <2>1, <2>2, AbandonYields, YieldsChain
<1> QED BY <1>2, <1>3

\* Which step of the abstract hangar a step of the manager is.
LEMMA YieldsIsLose ==
    ASSUME TypeOK, TypeOK', Yields(Now, Now')
    PROVE  Abstract!Next
<1> DEFINE S == {i \in Slots : WhereIs(status[i]) = "out" /\ WhereIs(status'[i]) = "gone"}
<1>1. ASSUME NEW i \in Slots
      PROVE  /\ i \in S => WhereIs(status[i]) = "out" /\ WhereIs(status'[i]) = "gone"
                            /\ spawnee'[i] = None
             /\ i \notin S => WhereIs(status'[i]) = WhereIs(status[i])
                            /\ spawnee'[i] = spawnee[i]
  <2>1. \/ spawnee'[i] = spawnee[i] /\ WhereIs(status'[i]) = WhereIs(status[i])
        \/ /\ WhereIs(status[i]) = "out" /\ WhereIs(status'[i]) = "gone"
           /\ spawnee'[i] = None
    BY NowFields DEF Yields, Stays, Goes
  <2> QED BY <2>1
<1>2. PICK T \in SUBSET Abstract!Bays : T = S
  BY DEF Abstract!Bays, Slots
<1> HIDE DEF S
<1>3. spawnee' = [i \in Slots |-> IF i \in T THEN None ELSE spawnee[i]]
  BY <1>1, <1>2 DEF TypeOK
<1>4. Abstract!Lose(T)
  BY <1>1, <1>2, <1>3 DEF Abstract!Lose, Abstract!Vacate, Abstract!Bays, Slots, WhereIs
<1> QED BY <1>4 DEF Abstract!Next

LEMMA DeadIsDisband ==
    ASSUME TypeOK', Sound(Now'), AllDead(Now') PROVE Abstract!Next
<1>1. \A i \in Slots : status'[i] = "Dead" /\ spawnee'[i] = None
  BY NowFields DEF Sound, AllDead
<1>2. spawnee' = [i \in Slots |-> None]
  BY <1>1 DEF TypeOK
<1>3. Abstract!Disband
  BY <1>1, <1>2 DEF Abstract!Disband, Abstract!Vacate, Abstract!Bays, Slots
<1> QED BY <1>3 DEF Abstract!Next

LEMMA ControlTurnRefines ==
    ASSUME TypeOK, TypeOK', Sound(Now), NEW i \in Slots, ControlTurn(i)
    PROVE  Abstract!Next
<1>0. Now \in MState /\ 0 \in Frames
  BY NowTyped, RatesAreFrames
<1>1. status[i] # "Dead" => spawnee[i] \in Aircraft /\ spawnee[i] # None
  BY <1>0, NowFields DEF Sound, MState
<1>2. /\ NextTarget(Now) \in MState /\ Sound(NextTarget(Now)) /\ Yields(Now, NextTarget(Now))
      /\ NextTarget(Now).spawnee = spawnee /\ NextTarget(Now).status = status
      /\ NextTarget(Now).craft = craft
  <2>1. /\ NextTarget(Now) \in MState /\ Sound(NextTarget(Now))
        /\ Yields(Now, NextTarget(Now))
    BY <1>0, NextTargetTyped, TargetsKeepPlaces, QueueYields, NoneIsObject
  <2>2. /\ NextTarget(Now).spawnee = spawnee /\ NextTarget(Now).status = status
        /\ NextTarget(Now).craft = craft
    BY DEF NextTarget, Now
  <2> QED BY <2>1, <2>2
<1>3. CASE Scramble(i)
  <2>1. /\ spawnee' = spawnee /\ status' = [status EXCEPT ![i] = "Preparing"]
        /\ status[i] = "Idle"
    BY <1>3 DEF Scramble, Becomes, Now, NextTarget
  <2>2. /\ status'[i] = "Preparing"
        /\ \A j \in Slots \ {i} : status'[j] = status[j]
    BY <2>1 DEF TypeOK
  <2>3. Abstract!Sortie(i)
    BY <2>1, <2>2 DEF Abstract!Sortie, Slots
  <2> QED BY <2>3 DEF Abstract!Next, Abstract!Bays, Slots
<1>4. CASE Departed(i)
  <2>1. Becomes(Detach(Now, spawnee[i], 0)) /\ status[i] = "Takeoff"
    BY <1>4 DEF Departed
  <2>2. /\ spawnee[i] # Owner
        /\ \A j \in Slots : Now.spawnee[j] = spawnee[i] => j = i
    BY <1>1, <2>1, NowFields, ObjectAssumption DEF ObjectAssumption, Sound
  <2>3. Yields(Now, Detach(Now, spawnee[i], 0)) /\ Detach(Now, spawnee[i], 0) \in MState
    BY <1>0, <2>1, <2>2, NowFields, DetachTyped, DetachYields
  <2> QED BY <2>1, <2>3, BecomesNow, YieldsIsLose
<1>5. CASE Gather(i) \/ Engage(i) \/ GoHome(i)
  <2>1. /\ spawnee' = spawnee
        /\ \/ status' = status
           \/ \E s \in {"Returning", "Attacking"} : status' = [status EXCEPT ![i] = s]
        /\ status[i] \in {"Preparing", "Attacking", "Returning"}
    BY <1>5 DEF Gather, Engage, GoHome, Becomes, Now, NextTarget
  <2>2. \A j \in Slots : WhereIs(status'[j]) = WhereIs(status[j])
    <3>1. CASE status' = status
      BY <3>1
    <3>2. ASSUME NEW s \in {"Returning", "Attacking"}, status' = [status EXCEPT ![i] = s]
          PROVE  \A j \in Slots : WhereIs(status'[j]) = WhereIs(status[j])
      <4>1. status'[i] = s /\ \A j \in Slots \ {i} : status'[j] = status[j]
        BY <3>2 DEF TypeOK
      <4> QED BY <2>1, <4>1 DEF WhereIs
    <3> QED BY <2>1, <3>1, <3>2
  <2>3. Yields(Now, Now')
    BY <2>1, <2>2, NowFields DEF Yields, Stays
  <2> QED BY <2>3, YieldsIsLose
<1>6. CASE Land(i)
  <2> DEFINE k == NextTarget(Now)
             a == spawnee[i]
             m == [k EXCEPT !.status[i] = "Reloading", !.reload[i] = ReloadRate]
             p == Limbo(m, a)
  <2>1. Becomes(p) /\ status[i] = "Returning"
    BY <1>6 DEF Land
  <2>2. a \in Aircraft /\ \A j \in Slots : spawnee[j] = a => j = i
    BY <1>1, <2>1, NowFields DEF Sound
  <2>3. /\ m \in MState /\ m.spawnee = spawnee
        /\ m.status = [status EXCEPT ![i] = "Reloading"]
    <3> HIDE DEF k
    <3>1. /\ [k.status EXCEPT ![i] = "Reloading"] \in [Slots -> SlotStatus]
          /\ [k.reload EXCEPT ![i] = ReloadRate] \in [Slots -> Frames]
      BY <1>2, RatesAreFrames DEF k, MState, SlotStatus
    <3> QED BY <1>2, <3>1 DEF k, MState
  <2> HIDE DEF k, m
  <2>4. p.spawnee = DetachFromAll(m, a).spawnee /\ p.status = DetachFromAll(m, a).status
    <3> DEFINE n == DetachFromAll(m, a)
               c == IF m.craft[a].strength = 0 THEN Free
                    ELSE [n.craft[a] EXCEPT !.place = "limbo"]
    <3>1. n \in MState
      BY <2>2, <2>3, LostLeaves, KeptStays
    <3>2. p = [n EXCEPT !.craft[a] = c]
      BY DEF Limbo
    <3> HIDE DEF n, c, p
    <3> QED BY <3>1, <3>2 DEF MState, n
  <2>5. spawnee' = p.spawnee /\ status' = p.status
    BY <2>1 DEF Becomes
  <2>6. CASE Lost(m, a)
    <3>1. /\ spawnee' = [j \in Slots |-> IF spawnee[j] = a THEN None ELSE spawnee[j]]
          /\ status' = [j \in Slots |-> IF spawnee[j] = a THEN "Dead" ELSE m.status[j]]
      <4> DEFINE n == DetachFromAll(m, a)
      <4>1. /\ n.spawnee = [j \in Slots |-> IF m.spawnee[j] = a THEN None ELSE m.spawnee[j]]
            /\ n.status = [j \in Slots |-> IF m.spawnee[j] = a THEN "Dead" ELSE m.status[j]]
        BY <2>2, <2>3, <2>6, LostLeaves
      <4> HIDE DEF n, a, p
      <4> QED BY <2>3, <2>4, <2>5, <4>1 DEF n
    <3>2. \A j \in Slots : spawnee[j] # a => m.status[j] = status[j]
      BY <2>3 DEF TypeOK
    <3>3. Yields(Now, Now')
      BY <2>1, <2>2, <3>1, <3>2, NowFields DEF Yields, Stays, Goes, WhereIs
    <3> QED BY <3>3, YieldsIsLose
  <2>7. CASE ~Lost(m, a)
    <3>1. spawnee' = spawnee /\ status' = [status EXCEPT ![i] = "Reloading"]
      BY <2>2, <2>3, <2>4, <2>5, <2>7, KeptStays
    <3>2. /\ status'[i] = "Reloading"
          /\ \A j \in Slots \ {i} : status'[j] = status[j]
      BY <3>1 DEF TypeOK
    <3>3. Abstract!Recover(i)
      BY <2>1, <3>1, <3>2 DEF Abstract!Recover, Slots
    <3> QED BY <3>3 DEF Abstract!Next, Abstract!Bays, Slots
  <2> QED BY <2>6, <2>7
<1>7. CASE Rearm(i)
  <2>1. /\ spawnee' = spawnee /\ status' = [status EXCEPT ![i] = "Idle"]
        /\ status[i] = "Reloading"
    BY <1>7 DEF Rearm, Becomes, Now
  <2>2. status'[i] = "Idle" /\ \A j \in Slots \ {i} : status'[j] = status[j]
    BY <2>1 DEF TypeOK
  <2>3. Yields(Now, Now')
    BY <2>1, <2>2, NowFields DEF Yields, Stays, WhereIs
  <2> QED BY <2>3, YieldsIsLose
<1>8. CASE Rebuild(i)
  <2>1. PICK a \in FreeAircraft :
            /\ spawnee' = [spawnee EXCEPT ![i] = a]
            /\ status' = [status EXCEPT ![i] = "Idle"]
            /\ status[i] = "Dead"
    BY <1>8 DEF Rebuild, Becomes, Now
  <2>2. a \in Aircraft /\ craft[a].place = "free" /\ a # None
    BY NoneAssumption DEF FreeAircraft, NoneAssumption
  <2>3. \A j \in Slots : spawnee[j] # a
    BY <2>2, NowFields DEF Sound
  <2>4. status'[i] = "Idle" /\ \A j \in Slots \ {i} : status'[j] = status[j]
    BY <2>1 DEF TypeOK
  <2>5. Abstract!Rebuild(i)
    BY <2>1, <2>2, <2>3, <2>4 DEF Abstract!Rebuild, Abstract!Bays, Slots
  <2> QED BY <2>5 DEF Abstract!Next, Abstract!Bays, Slots
<1>9. CASE Skip(i)
  <2>1. Yields(Now, Now')
    BY <1>9, NowFields, YieldsSame DEF Skip, hangarVars
  <2> QED BY <2>1, YieldsIsLose
<1> QED BY <1>3, <1>4, <1>5, <1>6, <1>7, <1>8, <1>9 DEF ControlTurn

LEMMA ManagerTurnYields ==
    ASSUME TypeOK, Sound(Now), ManagerTurn PROVE Yields(Now, Now')
<1>0. Now \in MState
  BY NowTyped
<1>1. ASSUME NEW m, m \in MState, Yields(Now, m), Becomes(m) PROVE Yields(Now, Now')
  BY <1>1, BecomesNow
<1>2. CASE ChooseTarget
  <2> DEFINE k == NextTarget(Now)
  <2>1. k \in MState /\ Sound(k) /\ Yields(Now, k)
    BY <1>0, NextTargetTyped, TargetsKeepPlaces, QueueYields, NoneIsObject
  <2>2. \/ Becomes(k)
        \/ Becomes([k EXCEPT !.mode = "Launching"])
        \/ Becomes(AbandonTarget(k))
    BY <1>2 DEF ChooseTarget
  <2> HIDE DEF k
  <2>3. CASE Becomes(k)
    BY <1>1, <2>1, <2>3
  <2>4. CASE Becomes([k EXCEPT !.mode = "Launching"])
    <3>1. spawnee' = k.spawnee /\ status' = k.status
      BY <2>1, <2>4 DEF Becomes, MState
    <3>2. Yields(k, Now')
      BY <3>1, NowFields, YieldsSame
    <3> QED BY <2>1, <3>2, YieldsChain
  <2>5. CASE Becomes(AbandonTarget(k))
    <3>1. AbandonTarget(k) \in MState /\ Yields(k, AbandonTarget(k))
      BY <2>1, AbandonTargetTyped, AbandonYields
    <3>2. Yields(Now, AbandonTarget(k))
      BY <2>1, <3>1, YieldsChain
    <3> QED BY <1>1, <2>5, <3>1, <3>2
  <2> QED BY <2>2, <2>3, <2>4, <2>5
<1>3. CASE Launch
  <2> DEFINE v == Volley
  <2>1. v \in MState /\ Yields(Now, v) /\ Becomes([v EXCEPT !.mode = "Cooldown"])
    BY <1>3, VolleyTyped, VolleyYields DEF Launch
  <2> HIDE DEF v
  <2>2. spawnee' = v.spawnee /\ status' = v.status
    BY <2>1 DEF Becomes, MState
  <2>3. Yields(v, Now')
    BY <2>2, NowFields, YieldsSame
  <2> QED BY <2>1, <2>3, YieldsChain
<1>4. CASE HoldLaunch \/ Cool
  BY <1>4, NowFields, YieldsSame DEF HoldLaunch, Cool, hangarVars
<1>5. CASE CallOff
  <2>1. /\ AbandonTarget(Now) \in MState /\ Yields(Now, AbandonTarget(Now))
        /\ Becomes(AbandonTarget(Now))
    BY <1>0, <1>5, AbandonTargetTyped, AbandonYields DEF CallOff
  <2> QED BY <1>1, <2>1
<1> QED BY <1>2, <1>3, <1>4, <1>5 DEF ManagerTurn

LEMMA OutsideYields ==
    ASSUME SoundInv, Orders \/ TargetFate \/ AircraftFate \/ TrackerRound \/ Frame
    PROVE  Yields(Now, Now')
<1>0. /\ TypeOK /\ Sound(Now) /\ Now \in MState /\ 0 \in Frames
  BY NowTyped, RatesAreFrames DEF SoundInv, SlotsSound
<1>1. ASSUME NEW m, m \in MState, Yields(Now, m), Becomes(m) PROVE Yields(Now, Now')
  BY <1>1, BecomesNow
<1>2. CASE Orders
  <2>1. \/ \E o \in Objects : Becomes(QueueTarget(Now, o))
        \/ Becomes(AbandonTarget(Now))
    BY <1>2, NoneIsObject DEF Orders, FireAt, NewOrder, StopOrder
  <2>2. ASSUME NEW o \in Objects
        PROVE  QueueTarget(Now, o) \in MState /\ Yields(Now, QueueTarget(Now, o))
    BY <1>0, QueueTargetTyped, QueueYields
  <2>3. AbandonTarget(Now) \in MState /\ Yields(Now, AbandonTarget(Now))
    BY <1>0, AbandonTargetTyped, AbandonYields
  <2> QED BY <1>1, <2>1, <2>2, <2>3
<1>3. ASSUME NEW o \in Targets, TargetLeaves(o) PROVE Yields(Now, Now')
  <2>1. Becomes(Now) \/ Becomes(Detach(Now, o, 0))
    BY <1>3 DEF TargetLeaves
  <2>2. o # Owner /\ \A i \in Slots : Now.spawnee[i] # o
    BY <1>0, ObjectAssumption DEF ObjectAssumption, MState
  <2>3. Detach(Now, o, 0) \in MState /\ Yields(Now, Detach(Now, o, 0))
    BY <1>0, <2>2, DetachTyped, DetachYields
  <2>4. Yields(Now, Now)
    BY YieldsSame
  <2> QED BY <1>0, <1>1, <2>1, <2>3, <2>4
<1>4. CASE \/ \E o \in Targets : TargetComes(o)
           \/ \E a \in Aircraft : Shoot(a) \/ ShotDown(a)
           \/ TrackerRound \/ Frame
  BY <1>4, NowFields, YieldsSame
  DEF TargetComes, Shoot, ShotDown, TrackerRound, Frame, hangarVars
<1>5. ASSUME NEW a \in Aircraft, Perish(a) PROVE Yields(Now, Now')
  <2> DEFINE m == IF owner = "dead" THEN Untrack(Now, {a}) ELSE DetachFromAll(Now, a)
  <2>1. m \in MState /\ Yields(Now, m)
    <3>1. CASE owner = "dead"
      BY <1>0, <3>1, UntrackEffect, YieldsSame
    <3>2. CASE owner # "dead"
      <4>1. Now.craft[a].place = "air"
        BY <1>5, NowFields DEF Perish
      <4> QED BY <1>0, <3>2, <4>1, DetachFromAllYields
    <3> QED BY <3>1, <3>2
  <2>2. Becomes([m EXCEPT !.craft[a] = Free])
    BY <1>5 DEF Perish
  <2> HIDE DEF m
  <2>3. spawnee' = m.spawnee /\ status' = m.status
    BY <2>1, <2>2 DEF Becomes, MState
  <2>4. Yields(m, Now')
    BY <2>3, NowFields, YieldsSame
  <2> QED BY <2>1, <2>4, YieldsChain
<1> QED BY <1>2, <1>3, <1>4, <1>5 DEF TargetFate, AircraftFate

\* Losing the owner, or losing it to another house or a transport, empties the
\* hangar; unloading leaves it as it is.
LEMMA OwnerFateRefines ==
    ASSUME TypeOK, TypeOK', Sound(Now), Sound(Now'), OwnerFate PROVE Abstract!Next
<1>0. /\ Now \in MState /\ 0 \in Frames /\ RegenRate \in Frames
  BY NowTyped, RatesAreFrames
<1>1. ASSUME NEW m, m \in MState, AllDead(m), Becomes(m) PROVE Abstract!Next
  <2>1. Now' = m
    BY <1>1, BecomesNow
  <2>2. AllDead(Now')
    BY <1>1, <2>1
  <2> QED BY <2>2, DeadIsDisband
<1>2. ASSUME NEW g \in Houses, Captured(g) PROVE Abstract!Next
  <2>1. /\ DetachSpawns(Now, 0) \in MState /\ AllDead(DetachSpawns(Now, 0))
        /\ Becomes(DetachSpawns(Now, 0))
    BY <1>0, <1>2, DetachSpawnsTyped, DetachSpawnsSound DEF Captured, AllDead
  <2> QED BY <1>1, <2>1
<1>3. CASE Stunned
  <2> DEFINE q == QueueTarget(Now, None)
             d == DetachSpawns(q, RegenRate)
             b == AbandonTarget(d)
             e == Detach(b, Owner, RegenRate)
  <2>1. q \in MState /\ Sound(q)
    BY <1>0, QueueTargetTyped, TargetsKeepPlaces, NoneIsObject
  <2> HIDE DEF q
  <2>2. d \in MState /\ AllDead(d)
    BY <1>0, <2>1, DetachSpawnsTyped, DetachSpawnsSound DEF AllDead
  <2> HIDE DEF d
  <2>3. b \in MState /\ AllDead(b)
    BY <1>0, <2>2, AbandonTargetTyped, HandlersKeepDead
  <2> HIDE DEF b
  <2>4. e \in MState /\ AllDead(e)
    BY <1>0, <2>3, DetachTyped, HandlersKeepDead
  <2>5. Becomes(e)
    BY <1>3 DEF Stunned, q, d, b
  <2> HIDE DEF e
  <2> QED BY <1>1, <2>4, <2>5
<1>4. CASE Board
  <2> DEFINE d == DetachSpawns(Now, 0)
             e == Detach(Now, Owner, 0)
  <2>1. Now.target # Owner /\ Now.queued # Owner
    BY <1>0, ObjectAssumption DEF ObjectAssumption, MState, Objects
  <2>2. e = AbandonTarget(d)
    BY <2>1 DEF Detach
  <2>3. d \in MState /\ AllDead(d)
    BY <1>0, DetachSpawnsTyped, DetachSpawnsSound DEF AllDead
  <2> HIDE DEF d
  <2>4. e \in MState /\ AllDead(e) /\ Becomes(e)
    BY <1>0, <1>4, <2>2, <2>3, AbandonTargetTyped, HandlersKeepDead DEF Board
  <2> HIDE DEF e
  <2> QED BY <1>1, <2>4
<1>5. CASE Unload
  BY <1>5, NowFields, YieldsSame, YieldsIsLose DEF Unload, hangarVars
<1> QED BY <1>2, <1>3, <1>4, <1>5 DEF OwnerFate

LEMMA NextRefines == ASSUME SoundInv, Next PROVE Abstract!Next
<1>0. TypeOK /\ Sound(Now) /\ Now \in MState
  BY NowTyped DEF SoundInv, SlotsSound
<1>1. TypeOK' /\ Sound(Now')
  BY NextSound, SoundPrime DEF SoundInv
<1>2. CASE AI
  <2>1. CASE BeginAI
    <3>1. Becomes(QueueTarget(Now, None)) \/ Becomes(Now)
      BY <2>1 DEF BeginAI
    <3>2. Yields(Now, QueueTarget(Now, None)) /\ Yields(Now, Now)
      BY <1>0, QueueYields, YieldsSame
    <3>3. QueueTarget(Now, None) \in MState
      BY <1>0, QueueTargetTyped, NoneIsObject
    <3>4. Yields(Now, Now')
      BY <1>0, <3>1, <3>2, <3>3, BecomesNow
    <3> QED BY <1>0, <1>1, <3>4, YieldsIsLose
  <2> QED BY <1>0, <1>1, <1>2, <2>1, ControlTurnRefines, ManagerTurnYields, YieldsIsLose DEF AI
<1>3. CASE OwnerFate
  BY <1>0, <1>1, <1>3, OwnerFateRefines
<1>4. CASE Orders \/ TargetFate \/ AircraftFate \/ TrackerRound \/ Frame
  BY <1>0, <1>1, <1>4, OutsideYields, YieldsIsLose
<1> QED BY <1>2, <1>3, <1>4 DEF Next

\* The manager implements the abstract hangar: an aircraft flies for one bay, one
\* that is docked is lost only with the whole hangar, a bay that lost its aircraft
\* gets another (ImplementsHangar of SpawnManager).
THEOREM ManagerImplementsHangar == Spec => ImplementsHangar
<1>1. Init => Abstract!Init
  BY NowFields DEF Init, Abstract!Init, Abstract!Bays, Slots
<1>2. SoundInv /\ UNCHANGED vars => UNCHANGED Abstract!vars
  BY DEF vars, hangarVars, Abstract!vars
<1>3. Spec => []SoundInv
  <2>1. FitInv => SoundInv
    BY DEF FitInv
  <2> QED BY <2>1, AircraftAreFit, PTL
<1>4. SoundInv /\ [Next]_vars => [Abstract!Next]_(Abstract!vars)
  BY <1>2, NextRefines
<1> QED BY <1>1, <1>3, <1>4, PTL DEF Spec, ImplementsHangar, Abstract!Spec

=============================================================================
