# Vinifera in TLA+

Vinifera extends the engine of *Tiberian Sun*: it is loaded into the game's
process, replaces and patches functions of the engine, attaches an *extension*
object to every engine object, and adds new systems of its own. This directory
holds models of the systems whose state evolves in play, the instances TLC
checks, and proofs that TLAPS checks. Paths below are relative to the root of
the repository.

## 1. The system

The game is one thread. A *frame* runs the logic of every object, then the
queued events of all players, then drawing and input. There is no preemption:
what makes the code hard is the order in which frames, player orders, network
messages and deaths of objects arrive, and *re-entrance*: when an object leaves
the map or the game, `Detach_This_From_All` calls back every extension, often
in the middle of the function that caused it.

| Component | State | Operations | Hard behaviour |
|---|---|---|---|
| Spawn manager, `src/src/new/spawnmanager` | controls (aircraft, status, timer), target and queued target, own status, timers | `AI`, `Queue_Target`, `Abandon_Target`, `Next_Target`, `Detach`, `Detach_Spawns`, counts | re-entrance from `Limbo` and `Delete_Me`; orders, capture and loss of the owner in every phase of a launch |
| Kamikaze tracker, `src/src/new/kamikazetracker` | list of aircraft and cells | `Add`, `Detach`, `AI`, `Clear` | keeps raw pointers; called by the manager in mid-handler |
| Rocket locomotion, `src/src/new/locomotion/rocketlocomotion.cpp` | mission state, timers, pitch, speed, destination | `Process`, `Move_To`, `Explode` | phases skipped or never left; deletion inside `Process` |
| Aircraft tracker, `src/src/new/aircrafttracker` | 400 regions, working set, last cell of each object | `Track`, `Untrack`, `Update_Position`, `Fetch_Targets` | the list and the object's own memory of its cell must agree; ranges at borders |
| Beacons, `src/src/new/beacon` | beacons of each house, one replica per player; edit mode | place, delete, text, select, input | replicas that change each other by messages |
| Production, `src/src/extensions/house`, `factory`, `event` | factory of each kind, its object and queue | begin, suspend, abandon, place, `Update_Factories`, factory `AI` | loss of a factory building against orders in flight; money |
| Game start, `src/src/extensions/scenario/scenarioext.cpp` | players in the lobby; houses, colors, starting positions, spawn waypoints | `Assign_Houses`, `Build_Starting_Waypoint_List`, `Create_Units`, `House_At_Spawn_Point` | every machine computes it by itself, from a list of players in an order of its own |
| Main loop, `src/src/extensions/mainloop` | frame number, stepping, pending messages | the frame | global packets handled between frames |
| CnCNet 4 and 5, `src/src/cncnet` | output buffer, peers; packet queues | send, receive, message handler | partial sends, shared buffers |
| Swizzle and saved games, `src/src/new/swizzle`, `src/src/vinifera/vinifera_saveload.cpp` | requests and registrations of pointers, the flag of a load | save, load | registration before or after the request; memory that is reused; a load that fails |
| Extension registry, `src/src/extensions/extension.cpp` | extension of each object | make, fetch, destroy, detach | lifetime against the engine's objects, and across a load |
| Sidebar, `src/src/extensions/sidebar` | strips of cameos linked to factories | add, remove, link, abandon | events sent from a state that has changed when they are executed |
| Type classes, drawing, UI, debugging, hooking, vendored libraries | - | - | no evolving state of their own, or third-party |

How they interact: a `TechnoClassExtension` owns its spawn manager and calls
its `AI` each frame and its `Detach` for every object that leaves
(`technoext.cpp:180`, `technoext_hooks.cpp:647`); the intercept of
`Detach_This_From_All` then tells the kamikaze tracker
(`vinifera_hooks.cpp:67`). The manager hands missiles to the kamikaze tracker,
which gives them missions; missiles fly by the rocket locomotion, which enters
them in the aircraft tracker, where explosions look for what is in the air.
Beacons and the main loop share the network's global packets; production shares
factories with events and the sidebar.

What makes each component correct:

- *Spawn manager*: a control and its aircraft always agree; no aircraft is
  forgotten or shared; no target outlives its object; launches and cooldowns
  end; losses are replaced.
- *Kamikaze tracker*: exactly the living kamikazes are tracked, once each; each
  of them comes down.
- *Rocket locomotion*: phases in the documented order; a rocket leaves its
  launcher, and its control lets it go then and not before; it ends once.
- *Aircraft tracker*: an object is in the region of its last cell and in no
  other; a fetch finds everything in range.
- *Beacons*: replicas agree once the messages are delivered, and get no empty
  entries; limits hold on all of them; typing and selection fit together.
- *Production*: money spent is built or refunded; a house never uses a deleted
  factory; no order is lost, and what waits for an exit leaves.
- *Game start*: all machines make the same game; everyone gets his own house,
  color and start; triggers find the house that started at a waypoint.
- *Saved games and extensions*: every object has its own extension; a load
  brings back what was saved, wherever it is in memory.
- *Network*: every packet is sent or kept; nobody reads another packet's bytes.

PROJECT.json lists the hazards of each component at their lines.

## 2. Modules

| Module | What it is |
|---|---|
| `KamikazeTracker` | The aircraft as the manager and tracker see them, and the tracker's `Add`, `Detach` and `AI` |
| `SpawnManager` | One `SpawnManagerClass` with its owner, targets and aircraft; extends `KamikazeTracker` |
| `Hangar` | The abstract specification of a spawn manager |
| `MCSpawnManager` | Symmetry for TLC |
| `SpawnManagerProofs` | Theorems about `SpawnManager`: its types, and its controls |
| `HangarProofs` | More theorems about `SpawnManager`: its aircraft, its targets, and that it implements `Hangar`; extends `SpawnManagerProofs` |
| `RocketLocomotion` | One rocket, by its locomotor, with the control of the manager that launches it |
| `MCRocketLocomotion` | Types of rockets for TLC |
| `RocketLocomotionProofs` | Theorems about `RocketLocomotion` |
| `AircraftTracker` | The tracker, and the locomotors as they use it: fly, levitate, jumpjet, rocket |
| `MCAircraftTracker` | Maps for TLC |
| `AircraftTrackerProofs` | Theorems about `AircraftTracker` |
| `Beacons` | The `BeaconManager` of every player, their screens as far as beacons go, and the messages between them |
| `MCBeacons` | Two allies for TLC |
| `BeaconsProofs` | Theorems about `Beacons` |
| `SavedGame` | Objects, extensions, the swizzle manager, saving and loading |
| `Archive` | The abstract specification of saving and loading |
| `MCSavedGame` | Symmetry for TLC |
| `SavedGameProofs` | Theorems about `SavedGame`, and that it implements `Archive` |
| `Production` | The vehicle factory of a house, its war factories, the sidebar and the events |
| `MCProduction` | War factories that differ, for TLC |
| `ProductionProofs` | Theorems about `Production` |
| `GameStart` | The houses and starting positions of a new game, as every machine computes them |
| `MCGameStart` | Symmetry for TLC |
| `GameStartProofs` | Theorems about `GameStart` |

### Spawn manager: state

`spawnee`, `status`, `reload` are the fields of `SpawnControls[i]`; `mode` is
the manager's `Status`, `target` and `queued` its `Target` and `QueuedTarget`;
`spawnTimer` and `logicTimer` count frames left. `craft[a]` is the aircraft at
address `a`: place (free memory, off the map, in the air), strength (0 is a
wreck), ammunition, `IsKamikaze`, whether the tracker has sent it, house. An
address that becomes free can be handed out again, so a stale pointer shows as
one to somebody else's aircraft. `tracked[a]` counts the tracker's controls
that hold `a`; the code must keep it at 0 or 1. `owner` is on the map, in a
transport, or dead; `present` are the targets on the map.

### Spawn manager: actions

`AI` loops over the controls, and each turn sees what the turns before it left
in `Target`, `SpawnTimer` and the controls. The model gives each turn a step,
with `cursor` as the loop variable; `BeginAI` is what comes before the loop and
`ManagerTurn` what comes after. While `cursor # 0` nothing but the loop runs:
the code is not interrupted there. What it calls back (`Limbo`, `Delete_Me` and
`Detach` re-enter the manager) is computed inside the step.

| Code | Model |
|---|---|
| `AI`, cases of the switch | `Scramble`, `Departed`, `Gather`, `Engage`, `GoHome`/`Land`, `Rearm`, `Rebuild`, `Skip` |
| `AI`, second half | `ChooseTarget`, `Launch`, `HoldLaunch`, `CallOff`, `Cool` |
| `Queue_Target`, `Next_Target`, `Abandon_Target`, `Detach_Spawns`, `Detach` | operators of those names on a record of the state, composed as the code calls them |
| `_Spawner_Fire_At`, `Assign_Target`, the IDLE event | `FireAt`, `NewOrder`, `StopOrder` |
| capture, `_Stun` and the destructor, boarding a transport | `Captured`, `Stunned`, `Board`, `Unload` |
| the engine: targets, aircraft, time | `TargetLeaves`, `TargetComes`, `Shoot`, `ShotDown`, `Perish`, `TrackerRound`, `Frame` |

Choices the model leaves open: ion storms, EMP and whether a launcher drives
(`grounded`), range (`ChooseTarget`), when an aircraft arrives (`GoHome` or
`Land`), who shoots at what and when.

### Spawn manager: what is abstracted or left out

- The three sorts of spawned aircraft are instances: carrier aircraft
  (`MissileSpawn` and `SpawnedMissile` false), rockets (both true) and kamikaze
  drones (`MissileSpawn` only). A type with a `RocketType` and without
  `MissileSpawn=yes` contradicts `docs/New-Features-and-Enhancements.md:758`
  and is no instance: its rockets would be sent to attack like aircraft and,
  once landed, be dropped by `Detach` while off the map.
- `PoolSuffices` is a bound: AI waits while fewer addresses are free than there
  are dead controls. `LogicRate` is at least 1, since AI runs once a frame and 0
  acts like 1. `MaxAmmo` is not negative.
- The owner's own aircraft are not among the targets. `Detach` is an else-if
  chain (`spawnmanager.cpp:887`), so that for an aircraft that is also the
  target it clears only the target; whether a second `Detach` follows in the
  same death depends on the engine.
- The tracker's `UpdateTimer` and cells; saving and loading.

### Rocket locomotion

`mission` and `timer` are `MissionState` and `MissionTimer`, `dest` says whether
the rocket has its `DestinationCoord`, `strength` 0 is a rocket that was shot,
`fate` what became of it. `control` and `takeoff` are the status and
`ReloadTimer` of the control that holds the rocket. `briefed` notes that it had
its destination at launch, and `acted` that `Process` has run in this frame.

| Code | Model |
|---|---|
| `Process`, cases of the switch | `Idle`, `Pause`, `Tilt`, `VerticalTakeOff`, `GainAltitude`, `Cruise`, `CloseIn`; `Wait` and `Depart` are the two ends of Tilt and VerticalTakeOff |
| its explosions on the way, and its end (the move) | `Hit`; `Move` |
| `Move_To` | `MoveTo` |
| the frame counter, which the timers count by | `Tick` |
| `SpawnManagerClass::AI`, cases of the launch and of Takeoff; `Abandon_Target`, `Detach_Spawns` | `Launch`, `Departed`, `AbandonTarget`, `DetachSpawns` |

The manager counts the frames of the takeoff by itself and never looks at the
locomotor; the model interleaves the two in every order, with the launcher's
turn in a frame before or after the rocket's.

The course is left open. Facing, pitch, speed, height and distance are no
variables: `GainAltitude` may last for ever or end at any time, and so may
`Cruise`; either half of Flight may explode, or be deleted off the map. What the
code makes of `ROT`, `TurnRate`, `Acceleration` and `CloseEnoughFactor` cannot be
told apart by so coarse a model, and a rocket that circles round its
destination or waits at the edge of the map is among its behaviours. Nothing is
claimed of a rocket after its takeoff.

### Aircraft tracker

`entries[r][f]` counts the entries of the object `f` in `Regions[r]`, `last[f]`
is the `LastFlightCell` of its extension; `place`, `cell` and `phase` are what
the object is doing. `Track`, `Untrack`, `UpdatePosition` and `FetchTargets`
are operators of those names, and each patch or locomotor that calls one is an
action:

| Code | Model |
|---|---|
| `FlyLocomotionClass`: `_Take_Off`, the first `Movement_AI` patch, `Process_Landing` and the second `Movement_AI` patch | `TakeOff`, `Fly`, `TouchDown` |
| `LevitateLocomotionClass::State_AI` | `Fly` |
| `NewJumpjetLocomotionClass`: `Process_Grounded`, `Process_Ascent` and `Process_Cruise`, `Process_Descent` | `JumpjetUp`, `JumpjetFly`, `JumpjetDown` |
| `RocketLocomotionClass`: Tilt and VerticalTakeOff, the move, `Explode` | `RocketUp`, `RocketFly`, `RocketExplode` |
| `FootClass::Unlimbo`, `Limbo`, scenario start | `Unlimbo`, `Limbo`, `Clear` |

The positions are noted before the object moves, so that the tracker is a frame
late; nothing flies further than into the next cell within a frame. Which
objects move where, take off or land is open. Cells outside the map, and the
cells of region 0, at the corner of the isometric map where nothing flies, are
excluded by `CornerAssumption`: an object that was never tracked has
`CELL_NONE`, which counts to region 0, and if it entered that region by
`Update_Position` it would not be listed at all. `SizeAssumption` excludes maps
of fewer than 20 cells, where `Get_Region` divides by 0. Saving and loading are
left out, and the working set is what one explosion fetches and empties.

### Beacons

`beacons[p][h]` is `BeaconManager.Beacons[h]` on the machine of player `p`: an
entry of the map is `Absent`, a beacon, or `Null`, the empty `unique_ptr` that
`operator[]` makes. `frame[p]` is the frame `p` is in; machines may differ by
`MaxAhead` frames, and `doom[h]` is the frame in which the simulation defeats
`h`, for all of them. `placing`, `editing` and `line` are
`IsBeaconPlacementMode`, `IsEditingBeaconText` and the edit line of
`Session.Messages`. `channel[p][q]` holds the global messages under way.

| Code | Model |
|---|---|
| the beacon command, right click | `ModeOn`, `ModeOff` |
| `_Unselect_All`, by a click or another mode | `UnselectAll` |
| `Place_Beacon` of the player (ID -1), `Select_Beacon`, the delete command | `PlaceBeacon`, `PlaceNothing`, `SelectBeacon`, `DeleteBeacon` |
| `Begin_Message`, `Input` | `BeginLabel`, `BeginChat`, `EndLine` |
| `_IPX_Call_Back` | `ReceivePlace`, `ReceiveDelete`, `ReceiveText` |
| `_HouseClass_MPlayer_Defeated_Delete_Beacons_Patch` | `NextFrame` |
| a global message that is sent again | `Resend` |

The patch for the defeat of a house replaces `Session.ObiWan = true`, which makes
the player at the machine an observer: it runs on the machine of the defeated
player alone, and deletes his beacons there. The other machines keep them, and
`Is_Visible_To_Player` hides them.

Messages ask for an acknowledgement, and the connections, which are the game's,
send again what lacks it; whether one can then come after later ones, or twice,
is not to be seen in this repository, and nothing in the handlers would notice.
`Resend` lets it happen `MaxResent` times, and `resent` counts it. `OneSelected`
and `TypingEnds` hold all the same; `NoEmptyEntry` and `Shared` are claimed as
long as it has not happened, and need that: a label that comes before its beacon
makes an entry without one, and a `place` that comes twice brings a deleted
beacon back, or, after the label, takes the label away.

Assumed: a network session with fixed alliances; a player places one beacon at
most in a frame, since a second one would have the same ID; a machine with a `Null` entry stops, because `Draw`
follows every pointer in every frame. Every key may come at any time, also the
delete command while an edit line is open. A beacon's position is left out, so
that a click meets any visible beacon or none.

### Saved games and extensions

`mem` is memory by address: an object with its name and the pointer to its
extension, an extension with `ThisPtr` and one pointer to another object
(`link`, which stands for `NavalFactory` and the like), or free. Objects load
before extensions, blocks of a kind in any order and to any free address.
`requests` and `table` are the two tables of the swizzle manager, `performing`
is `Vinifera_PerformingLoad`. `Cleared` is memory after `Clear_Scenario`: each
object is deleted, and with it what it takes for its extension; extensions that
no object has are dropped from the lists by `Extension::Free_Heaps`, and count
as free. `wild` notes that this, or the writing of a pointer, hit memory that is
something else, or that a load began with ids or requests of an earlier one.

| Code | Model |
|---|---|
| constructor and destructor patches with `Extension_Make` and `Extension_Destroy`, `Detach` | `Create`, `Destroy` |
| `Vinifera_Put_All` | `SaveGame` |
| `Vinifera_Load_Game` up to `Clear_Scenario` | `BeginLoad` |
| `Vinifera_Load_Vector`, `Internal_Load` | `LoadObject`, `LoadExtension` |
| a read that fails in `Vinifera_Load_Vector` | `ReadFails` |
| `Extension::Request_Pointer_Remap`, the second `Reset` | `EndLoad` |
| a failure that `Vinifera_Get_All` reports: a missing scenario file or add-on, or a part other than the vectors of objects | `FailLoad` |

`Vinifera_Load_Vector` returns its `HRESULT` as a `bool`
(`vinifera_saveload.cpp:223`): an error becomes `true`, and `FAILED(true)` is
false. So an object that cannot be read does not make `Vinifera_Get_All` fail.
`ReadFails` goes on without it, or with what was made of it, notes it in
`short`, and the load ends like any other. It is assumed that what is read after
a failed read is again a saved block; a stream that is out of step could bring
anything.

Then `Process_Tables` may find a request that it cannot resolve. It says that
the game will return to the main menu, changes a copy of the context that is
never restored (`newswizzle.cpp:346`), and returns to the load with both tables
as they are. The game that follows has pointers that were not restored, and the
next load writes through the requests that were left; `EndLoad` and `BeginLoad`
do what the code does. (A build for the CnCNet client exits instead.)

Pointers of the game's own objects go through the same tables, and are left out.
`GoesOn` ends a behaviour that has spoilt its memory. With `AfterFailure = FALSE`
it also ends with the first load that fails, and no object is made or linked
after one that read too little (`Plays`): a bound, since saving, loading,
destroying and starting anew are what the leftovers meet. (With `AfterFailure`
the properties of `saved_game` hold with three addresses, too.) `ReadErrors`
says whether `ReadFails` may happen.

`Archive` is what a player relies on: a load brings back the world that was
saved last. The refinement maps memory to a function from the name of each
object to the name of the one it points to.

### Production

`state.factory` is the `FactoryClass` in the house's `UnitFactory` with its
extension: `object`, `balance`, `stage` (0 to `STEP_COUNT`), `queue`,
`suspended`, `onhold`, `different` (`Has_Changed`) and `holding`
(`IsHoldingExit`); `state.money` is `Available_Money`. `building[b]` is a war
factory: gone, on, off (no power), or being sold; `unloading` are those with
`MISSION_UNLOAD`. `events` are orders that were given and not yet executed.

| Code | Model |
|---|---|
| `Begin_Production`, `Abandon_Production`, `Update_Factories`, `_Start`, `_Abandon`, `_Resume_Queue`, `Who_Can_Build_Me` | operators of those names, composed as the code calls them |
| `FactoryClassExt::_AI` | `FactoryAI` |
| `StripClassExt::_AI`, `SelectClassExt::_Action` | `SidebarAI`, `LeftClick`, `RightClick` |
| `EventClassExt::Execute` | `ExecuteProduce`, `ExecuteSuspend`, `ExecuteAbandon` and the cases of `Place_Object`: `PlaceNothing`, `PlaceHold`, `PlaceWithoutPower`, `PlaceObject`, `PlaceFailed` |
| the patches that call `Update_Factories`, `_Detach_All` | `BuildingPlaced`, `TurnOn`, `TurnOff`, `BuildingLost` |

What stays the game's, and is modelled from its use, is `FactoryClass::Set`,
`Suspend`, `Completed`, `Cost_Per_Tick` and `Remove_From_Queue` (which removes
one vehicle), whether `Exit_Object` succeeds (either), income and the end of an
unloading. `CreationFails` says whether `Set` may fail to create an object.

Left out: buildings, aircraft, infantry and ships, which use other slots and,
for buildings, the placing by the player; houses of the computer; capture;
prerequisites (`_Sanitize_Queue`); a second machine, since events are executed
in the same order on all. A cameo is linked to the factory that has its type in
work.

### Game start

`color[p]` and `computers` are what was chosen in the lobby, `list[m]` is
`Session.Players` on the machine of `m`, `scenario` the waypoints of the map.
`world[m]` is what that machine makes of them: the colors in use, `Houses` with
their owners and colors, the list `waypts` of positions, which are taken, and
each house's start, spawn waypoint, and whether it builds by itself. `desk[m]`
holds the players it has assigned and `PlayerPtr`. `missing` counts positions
that are still to be found at random. A step is one pass of a loop on all
machines, with one draw of `Random_Pick`, whose seed they share.

| Code | Model |
|---|---|
| `Assign_Houses`, the loop over players | `AssignPlayer` with `LowestColor`, `AddHouse`, `TakeSeat`; `PlayersAssigned` |
| the loop over computers, Neutral and Special | `DrawColor`, `CreateNatives` |
| `Build_Starting_Waypoint_List` | `ReadWaypoints`, `RandomStart`, `SearchDone` |
| `Create_Units`, the start of each house | `PlaceHouse` with `Score`, `Furthest`, `Settle`, `PlaceBase`; `HousesPlaced` |
| the draw from an empty list | `NoPosition` |
| `Set_Spawn_Point`, `House_At_Spawn_Point` | `SpawnPoint`, `HouseAt` |

Assumed: a machine lists its own player first, because the code makes the house
of entry 0 the `PlayerPtr`; the lobby gives out each color once; no two
waypoints of a map are in one cell, while a random position may be in any; the
map has room for every base. `Is_Player_Control` is the game's, and taken for
"belongs to the player at this machine", as its other uses suggest. Cells are
on a line, since only their distances matter. This code runs in builds that are
not for the CnCNet client, which has a spawner of its own.

Left out are the starting units, their number, choice and placement, the kinds
of houses, and difficulty, credits and alliances, which are copied.

## 3. Runs

Two controls are enough for each hazard: one aircraft that waits for, blocks or
outlives another. Four addresses give two replacements while two former
aircraft are still coming down; two targets give a current and a queued one
that differ; two houses a captor. Rates of 0 to 2 frames let every timer be
both pending and out when the others fire. Aircraft, targets and houses are
interchangeable, so the safety runs use symmetry; the liveness runs do not.

| Run | Checks | Shows |
|---|---|---|
| `carrier` | `TypeOK`, `SlotsSound`, `NoneForgotten`, `TargetsPresent`, `Allegiance`, `ImplementsHangar` | aircraft that come and go: controls and aircraft agree, no aircraft is left off the map without a control, targets are on the map, all fly for the present owner, and the manager is a `Hangar` |
| `rocket` | `TrackerSound`, `ImplementsHangar` | rockets, which are in a control *and* tracked during takeoff, are released exactly once |
| `carrier_live` | `CooldownEnds`, `VolleyLeaves` | launches leave, and end |
| `drone_live` | `TrackerSound`, `KamikazesEnd`, `Regenerates` | kamikazes without takeoff, which leave at launch through `Detach` and can also come home: each is released once and comes down, and lost ones are replaced |
| `airspace` | `TypeOK`, `ListedOnce`, `FlyersFound` | regions and extensions agree; explosions find what flies within the width of the regions they fetch |
| `flight` | `TypeOK`, `LetGoWhenDone`, `WaitEnds` | the manager lets no rocket go before it is done on its launcher, and each leaves it or ends there |
| `beacons` | `TypeOK`, `OneSelected`, `TypingEnds`, `NoEmptyEntry`, `Shared` | selection and typing stay consistent; unless a message came late or twice, none is about a beacon that is not there, and the machines agree when nothing is under way |
| `beacon_limit` | `LimitKept`, violated | other players see more than `MaxBeacons` beacons of a house |
| `saved_game` | `TypeOK`, `Paired`, `CleanSlate`, `ImplementsArchive` | pointers survive a load into memory that is reused, and it is an `Archive`, as long as everything could be read; after objects that could not, pointers are still only to what they are taken for |
| `load_again` | `Reinitialised`, violated | after a load that failed, new objects have no extensions |
| `production` | `TypeOK`, `MoneyKept`, `StillBuildable`, `OrdersKept`, `HeldLeaves` | no credit and no order is lost, nothing is built without a war factory, and what waits for an exit leaves |
| `game_start` | `TypeOK`, `SameGame`, `OwnHouse`, `ColorsDiffer`, `FurthestApart`, `SpawnHouseFound` | the machines make the same game, and each house has a color and a start of its own, as far apart as their order allows, by which triggers find it |

The deadlock check is on in the runs of `SpawnManager` and `AircraftTracker`,
where time can always pass, and in `game_start`, where `Over` is the end. It is off in `flight`, since a rocket ends; in the
runs of `Beacons`, which end at `MaxFrame` or on a machine that has stopped; in
those of `SavedGame`, which end when memory is spoilt or a load fails; and in
`production`, where all bounds can be reached at once.

`drone_live` has one house, one target and no symmetry: its aircraft come and go
without takeoff, and what they are released from does not depend on whose they
are. `SlotsSound` is checked in `carrier` only, and proved for all three sorts of
aircraft.

`game_start` has two players, who list each other in two orders, one computer
and a passive house, on every map of up to four waypoints in four cells with
different distances; the third house is the first whose score adds up two
distances. Maps lack at most `MaxSearch` = 2 positions, so that a random one can
coincide with a waypoint or with another, or not be found. `NoPosition` is
reached on official maps without waypoints. It is checked without pre-placed construction yards (see the
findings).

`airspace` has 2 objects, which change their locomotor when they come back, and
4 rows of 4 regions of 2 by 2 cells, of which the strip crosses most; every
cell is next to a border, some are in regions at the border of the map and some
beyond `MapRect`. Ranges of 1 and 5 reach one and two regions. The objects do
not interact, but an entry of one must not be taken for one of the other.

`flight` has every combination of a pause and a tilt of 0 to 2 frames, with and
without a vertical takeoff: timers that are never set, out at once, and pending
while the other one fires.

`beacons` has two allies, one label, a limit of one beacon and two frames, in
the second of which either may be defeated, or neither. A limit of 1 makes each
second beacon push out the first; one message under way in each direction is
one more than the actions that send look at, which is what ordering needs (a
beacon with a label is two). One message comes late or twice, which is enough
for an empty entry (two under way would be needed for a `place` that undoes what
came after it); a constraint of the run, `LateOnly`, puts it into the last frame
and has no beacon placed after it. `beacon_limit` is the same instance without
that.

`saved_game` has four addresses for two objects with their extensions, so that
a full load uses every address again, for other blocks than the file's; and
one object can fail to load while the other, or both. `load_again` is the same
instance with `AfterFailure` and without `ReadErrors`.

`production` has two vehicles, of which one can be built by one war factory
only, so that losing it drops that vehicle and not the other. A cost of 2 in 3
steps makes steps that cost nothing and a step that cannot be paid; money for
two vehicles, two orders and two events are enough for one vehicle in work, one
in the queue, and a completed one that finds its war factory busy with the last.
Every object can be created (`CreationFails = FALSE`).

### Findings

Two runs show the code doing otherwise than a comment or the documentation
says.

- `beacon_limit`: `docs/User-Interface.md:89` says of `MaxBeacons` that "when
  the cap is reached, the oldest beacon will be deleted when a new beacon is
  placed". `Place_Beacon` deletes it on the machine of the player who places
  one (`beacon.cpp:454`), and tells nobody.
- `load_again`: "the scenario will have to be re-initialized" when a load fails
  (`vinifera_saveload.cpp:414`), but `Vinifera_PerformingLoad` stays set, and
  the objects of the next scenario get no extensions.

Other places where the models follow the code against its comments, or into
what nobody will have meant, without a run of their own:

- `Fetch_Targets` divides the range by 20, the number of regions in a row,
  where it needs their width (`aircrafttracker.cpp:108`): on most maps an
  explosion misses aircraft within its range.
- Rockets are entered in the tracker on their launcher, or not at all, and
  never updated (`rocketlocomotion.cpp:480`), but explosions look for "units
  that are in flight" there (`combatext_hooks.cpp:399`).
- "Regular rockets tilt up first" (`rocketlocomotion.cpp:237`), but Pause leads
  to GainingAltitude (line 241).
- `Detach_Spawns` removes "a rocket taking off" (`spawnmanager.cpp:779`) by the
  control's status, which may outlast the takeoff: a rocket that flies already is
  deleted with its launcher, although one "currently in flight" is to be detached
  only (line 785).
- Rockets "flown outside the map's bounds" are to be removed
  (`rocketlocomotion.cpp:391`), but line 489 never lets one get there.
- When a pointer of a saved game cannot be resolved, "The game will now return
  to the main menu" (`newswizzle.cpp:304`), and does not; and an object that cannot
  be read is no failure at all (see above). With `CleanSlate` claimed for such loads
  too, TLC finds a next load that writes through what was left.
- `_Resume_Queue` takes one vehicle from the queue and lets `Begin_Production`
  begin it (`factoryext_hooks.cpp:245`), which refuses what nothing can build any
  more and leaves it at that (`houseext.cpp:405`). A house that has a vehicle in
  work, another of its type and one of a second type waiting, and loses the only
  war factory for the first, is left with the second type in the queue and
  nothing in work, and no handler begins it. TLC finds this with `MaxOrders = 3`.
- `Update_Factories` goes on with its factory after `Begin_Production` may have
  deleted it (`houseext.cpp:728`, line 747), if an object cannot be created: with
  `CreationFails = TRUE` the model reaches `freed`, and stops.
- `IsHoldingExit` stays set when the vehicle that was held is abandoned and
  another takes its place; a click on that one, once suspended, orders another
  instead of going on with it (`houseext.cpp:437`).
- Place_Object does not set `IsHoldingExit` when no war factory has power
  (`houseext.cpp:608`): the completed vehicle waits for a click.
- A chat message that is typed while `IsEditingBeaconText` is still set, because
  its beacon is gone, is not sent (`mainloopext_hooks.cpp:549`).
- With pre-placed construction yards, "computer opponents will begin
  construction as soon as they start their base" (`scenarioext.cpp:1837`), but
  the test is `!Is_Player_Control()` (line 1842), which holds on each machine
  for the houses of all other people too. With `PrePlacedConYards = TRUE` TLC
  finds `SameGame` violated, if that function means the player at the machine.
- `PrePlacedConYards` "only has an effect if the unit count is set to 1"
  (`docs/Miscellaneous.md:41`); the code does not look at the unit count there
  (line 1814), and does for the automatic deployment (line 1892).
- "Only the first 4 waypoints are used if there are 4 or fewer players"
  (`scenarioext.cpp:1534`), but an official map uses as many as it has in
  sequence, up to 8.
- A random position can coincide with a waypoint, and two houses then start
  from one cell; `FurthestApart` leaves such maps out.

`Hangar` is what a player may rely on: a bay's aircraft is docked, out, or gone;
docked aircraft are lost only with the whole hangar; a lost one is replaced by
another, never the same, and no aircraft is in two bays. The refinement maps
Idle and Reloading to docked, Dead to gone and the rest to out.

### Fairness

The run of `RocketLocomotion` assumes that frames never end: `Process` and `Tick`
are weakly fair, as the engine calls the locomotor once a frame for every object
on the map. Nothing is assumed of the manager or of the rocket's course.

In `SpawnManager`, `Fairness` (weak, of frames, AI, the tracker's rounds and of some aircraft
coming down) is the game loop. `FlightFairness` is strong, since a pass of AI
interrupts what the aircraft do: an attacking aircraft uses up its ammunition,
one that keeps heading home arrives, a wreck or a kamikaze that was sent comes
down. `StartFairness` says that ion storms and EMP end, and that a driving
launcher stops, often enough. `CooldownEnds` and `KamikazesEnd` need the first two; `VolleyLeaves`
needs all, and holds under `Peace` only: if somebody for ever shoots down the
aircraft that gather, the launch for ever waits, as in the code.

In `Production`, events are executed (weak), a vehicle that leaves is out of the
war factory at last (weak), and the sidebar is run in every frame: strong,
because the model lets it wait while `MaxEvents` are under way, a bound the code
does not have. `HeldLeaves` needs all three. Nothing is assumed of the player,
of power or of money.

## 4. Proofs

`SpawnManagerProofs` proves for all values of the constants, under the named
assumptions of the two modules (rates are naturals, the kinds of objects are
disjoint):

- `TypeCorrect`: `Spec => []TypeOK`.
- `SlotsAreSound`: `Spec => []SlotsSound`.

A handler is an operator from a record of the state to a record, so each
operator has a lemma that it keeps the type (`...Typed`) and one that it keeps
`Sound` (`...Sound`); a step of `Next` is a few of these. `Sound` says of a
record that controls and aircraft agree. Three lemmas cover the ways to keep it:
nothing moves (`SoundSame`), an aircraft of no control moves (`SoundElsewhere`),
a control and its aircraft move together (`SoundMove`); `SoundDrop` covers a
control that loses its aircraft. The delicate step is `Land` (`LandSound`): the
status is set while the aircraft is still in the air, and `Limbo` either takes
it off the map or, if it is a wreck, empties the control again.

The inductive invariant is `SoundInv`: `TypeOK`, `SlotsSound`, that AI runs for
an owner on the map only, and that a dead owner's manager has only Dead
controls. The last is needed because nobody calls `Detach` on a manager that is
gone: an aircraft that then comes down would stay in its control.

`HangarProofs` proves under the same assumptions:

- `AircraftAreFit`: `Spec => []FitInv`, and from it
- `TrackerIsSound`: `Spec => []TrackerSound`,
- `HangarIsLoyal`: `Spec => []Allegiance`,
- `NoAircraftForgotten`: `Spec => []NoneForgotten`, if `RocketsAreMissiles`.
- `NoTargetOutlived`: `Spec => []TargetsPresent`.
- `ManagerImplementsHangar`: `Spec => ImplementsHangar`.

`FitInv` adds to `SoundInv` what the aircraft of a record must be: tracked once
exactly if a kamikaze, which is in the air and, if it still has a control, in a
takeoff (`Steered`); in a control if off the map (`Tended`); of the owner's
house (`Loyal`); and rockets never attack or return (`NoSortie`). They need each
other and `SoundInv`: that no aircraft is handed to the tracker twice rests on
its control, which lets go of it in the same step, and on no other control
having it; that none is forgotten rests on docked aircraft being all that is off
the map. `RocketsAreMissiles` says that a type with a
`RocketType` has `MissileSpawn=yes`, as
`docs/New-Features-and-Enhancements.md:758` demands; without it `Detach` empties
the control in which a rocket lands, and the rocket is forgotten.

`AimInv` says that, while the owner is not dead, target and queued target are
objects that are there. A handler moves an order from one to the other and can
be re-entered by `Detach` on the way, so the lemmas are about records again
(`...Aims`): none of the operators sets a target but from the other one, from
an order for a present object, or to nothing. A dead owner's manager is told of
nothing any more, and `TargetsPresent` leaves it out.

The refinement goes through `Yields`: in the middle of a handler every control
either is as before (`Stays`) or has gone from out to gone (`Goes`). Each of the
handlers yields, `Yields` is transitive, and a step of `AI` yields but for the
one control whose turn it is. What yields is a `Lose` of `Hangar`, that one
control's turn a `Sortie`, `Recover` or `Rebuild`, and the loss of the owner or
of its hangar a `Disband`.

`RocketLocomotionProofs` proves for any `RocketTypes`:

- `TypeCorrect`: `Spec => []TypeOK`.
- `RocketsAreReady`: `Spec => LetGoWhenDone`.

`LaunchInv` adds to the type what two timers that know nothing of each other have
in common. `TimerFits`: the rocket's never shows more than it was set to, and a
pause that is out is left in the same frame. `Ahead`: while the control is in
Takeoff, and the rocket had its destination at launch, the frames the rocket has
still to wait (`Remaining`, which counts the tilt that Pause will set) are no
more than those of the manager. Both count a frame at a time; what is delicate is
the frame in which the pause ends and the timer is set again, before or after the
manager's turn.

`AircraftTrackerProofs` proves for every map, number of regions and number of
objects, under `SideAssumption`, `SizeAssumption` and `CornerAssumption`:

- `TrackerTypeCorrect`: `Spec => []TypeOK`.
- `TrackedOnce`: `Spec => []ListedOnce`.
- `NoFlyerMissed`: `Spec => []FlyersFound`, with `RangeAssumption` (ranges are
  integers).

`TypeOK /\ ListedOnce` is inductive: without the type an object on the map
might be nowhere and be entered in region 0, and without `ListedOnce` an object
that `Unlimbo` puts on the map might be entered twice. `GetRegionType` shows
that `Get_Region` yields one of the regions for any cell. `EnterEntries` and
`RemoveEntries` say what one `Add` or `Delete` does, `TrackAgrees`,
`UntrackAgrees` and `UpdateAgrees` that the operators keep the regions and the
last cells in agreement, and `OneObject` that an action keeps the invariant if
it changes the tracker for one object that stays on the map or is tracked no
more. In `UpdateAgrees`, `CornerAssumption` is what makes the first
`Update_Position` of an untracked object enter it.

An object may be entered under the cell it left in this frame. `FollowInv` adds
that this is the same or an adjacent cell (`Beside`), and that an object which
does not fly is not entered. The rest is geometry: `BandsApart` bounds by how
many rows or columns of regions two coordinates are apart, with the division by
the width and the clipping at the borders, and `ReachedFrom` concludes that the
region of one cell is among those that `Fetch_Targets` visits around the other.

`BeaconsProofs` proves for all players, labels, alliances, limits and bounds,
under `BeaconAssumption` and `EntryAssumption`:

- `BeaconsTypeCorrect`: `Spec => []TypeOK`.
- `NeverTwoSelected`: `Spec => []OneSelected`.
- `TypingAlwaysEnds`: `Spec => []TypingEnds`.
- `NothingOvertakes`: `Spec => []NoEmptyEntry`.
- `BeaconsAreShared`: `Spec => []Shared`.

The inductive invariant `IInv` is `TypeOK`, `OneSelected` and `TypingEnds`,
divided by what they speak of: `Frames`, `Screens`, `Mail`, `Maps` and `Losses`
are types, and `Machines` says of each machine that its maps, its edit line and
its flag fit together. An action changes one
machine and adds to its channels, so the lemmas say what an operation does to
one machine's maps, and one lemma lifts that to all machines. `OneSelected` is
needed for `TypingEnds`: without it the label that `Set_Beacon_Text` clears
might not be the one that is half typed.

`SharedInv` is about the messages under way, of which there may be any number.
The view that one machine has of a house says of each beacon whether it is
there and with what label. `Brings(ch, v, w)` says that the messages `ch`,
executed one after the other, lead from the view `v` to `w`, and that each of
them finds the beacon it is about; the views on the way are a function from the
places in the channel, so that sending adds one at its end and receiving takes
one from its beginning. `Pairs` says of any two machines that the channel from
one to the other brings the other to what the house has (`Agrees`), except for
beacons lost to `MaxBeacons` and the label being typed. `Owns` says of a
machine's own beacons that an evicted one is older than the present frame: a
beacon placed now cannot be taken for it. A defeated player has no beacons left
on his own machine; what the others have of his is still brought to something by
the messages that are under way, so that none of them makes an empty entry. All
this is `SharedInv`, and `OrderlyInv` says that it holds until a message comes
late or twice. Both theorems follow: `Shared` for the empty channel, and `NoEmptyEntry` because a message whose
beacon is there makes no empty entry.

`SavedGameProofs` proves for any objects and addresses, of which there are
finitely many (`AddrAssumption`), where what stands for no object, file or name
is none (`NothingAssumption`):

- `SavedGameTypeCorrect`: `Spec => []TypeOK`.
- `EveryObjectHasItsOwn`: `Spec => [](~short => Paired)`.
- `NothingLeftOver`: `Spec => []CleanSlate`.
- `LoadBringsBack`: `Spec => ImplementsArchive`.

`LoadInv` holds until a load fails or an object cannot be read. The objects and
extensions of a game, and those of a file, are `WellMade`: they belong to each other one to one. During a
load, `Placed` says that what was read is in memory where the table says,
extensions with blank pointers, and nothing else is there; and `Asked` that the
requests are those of the pointers that were read, each with the id that the
file has for it. Then the last step, which writes every requested pointer from
the table, makes memory `WellMade` like the file. The refinement adds that the
world, which knows objects by their names, does not depend on the addresses
(`WorldOf` for memory, `WorldOn` for the file).

`ProductionProofs` proves under `ProductionAssumption`, for any vehicles, war
factories, costs, numbers of steps and bounds:

- `MoneyIsKept`: `Spec => []MoneyKept`.
- `NothingOutlivesItsFactory`: `Spec => []StillBuildable`.
- `ProductionTypeCorrect`: `Spec => []TypeOK`.
- `NoOrderIsLost`: `~CreationFails => (Spec => OrdersKept)`.

An operation of a house is a chain of operators on the record `state`. The
relation `Keeps(s, u, bs)` says that from `s` to `u` the types stay, no credit
is lost or made, and what is in work is the same, nothing, or can be built by
the buildings `bs`. Each operator has a lemma that it keeps, and `Keeps` is
transitive, so that an action is the chain of its operators. The inductive
invariant is the types the sums need, the sum of money, and `StillBuildable`.
`Serves(s, u, kept)` is the same for the types and the orders: `u` is a house,
and no fewer vehicles of the types in `kept` are in its queue and in work than
in `s`. `kept` is what can be built by a building that stands, less what is
abandoned; it is empty when the next vehicle cannot be created, which is why
`NoOrderIsLost` assumes that it can: `_Resume_Queue` takes a vehicle from the
queue before it begins it (`factoryext_hooks.cpp:240`), and nobody puts it back.
The lemmas on `Count` say
what appending, taking the first, taking out one, and the loop of
`Update_Factories` do to the number of places a type has in the queue; the loop
is a recursive function, and what it keeps follows by looking at the first
place where it would not. A factory that does not exist has no object and no
queue (`Works`): otherwise making a new one would lose orders.

`GameStartProofs` proves for any number of players, computers, colors and cells,
under `StartAssumption`:

- `EveryoneAtHome`: `Spec => []OwnHouse`.
- `NoColorTwice`: `Spec => []ColorsDiffer`.
- `OneGame`: `~PrePlacedConYards => (Spec => []SameGame)`.
- `GameStartTypeCorrect`: `Spec => []TypeOK`.
- `StartsApart`: `Spec => []FurthestApart`.
- `SpawnHouseIsFound`: `Spec => []SpawnHouseFound`.

The inductive invariant `IInv` says of the lobby that colors differ and every
list holds everyone once, with the machine's own player first (`Lobby`); that
the same people are assigned on all machines (`InStep`); and of each machine
(`Ready`) that the houses so far are those of the assigned people, the colors in
use are exactly those of houses, and `PlayerPtr` is the house of the own player
once he is assigned. `LowestSame` is the heart of `OneGame`: the player with the
lowest color among those left is the same person whatever the order of the
lists, although his place in them differs. That there is one is
`LeastNatural`, from the well-foundedness of the naturals.

`StartInv` goes on from `IInv` when the positions are given out. It says that the
machines are alike but for the houses that build by themselves (`AllAlike`), and
of each that every house so far starts at a position that is taken, with the
waypoint there as its spawn point, and that every position taken is somebody's
(`Settled`); that nobody shares a position while one is free (`Alone`); and that
each house was as far from those before it as any free position (`Apart`). The
code adds up distances to positions that are taken, the property those to houses
that started before: `Settled` and `Alone` make these a bijection, and
`SumRenamed` says that the sums are then equal. The sums are folds over a set,
which have no defined order; `SumUnfolds` and `AddsAny` show that taking any
element first gives the same. The list of positions is a loop over the
waypoints, written as a recursive function (`ListUnfolds`). With a position
that occurs twice, `Alone` fails, and so may `FurthestApart`, which leaves such
maps out.

Three theorems assume something beyond the assumptions of their module, and say
so in their statement: `NoAircraftForgotten` (`RocketsAreMissiles`),
`NoOrderIsLost` (`~CreationFails`), and `OneGame` (`~PrePlacedConYards`). The runs satisfy these hypotheses. With
`CreationFails` or `PrePlacedConYards` TLC finds the properties violated.

Model-checked only: liveness and fairness, which are outside this prover's
reach: `CooldownEnds`, `VolleyLeaves`, `KamikazesEnd`, `Regenerates`, `WaitEnds`,
`HeldLeaves`; and the part of `Paired` that is left when an object could not be
read. All other invariants and action properties of the passing runs and both
refinements are proved.

Some properties say less than one might think:

- `NoneForgotten` speaks of aircraft that are off the map, not of those in the
  air without a control.
- `VolleyLeaves` is checked with `SpawnRate = 0` and under `Peace`.
- `FlyersFound` takes the width of the regions that are fetched for the range,
  and leaves out rockets, which are not kept up to date.
- `Shared` leaves out beacons lost to `MaxBeacons` and players who have seen their
  own defeat.
- `OrdersKept` lets the vehicle go that is completed and told to leave, also when
  it cannot, as the code does.
- `SameGame` excludes pre-placed construction yards, and `FurthestApart` positions
  that coincide.

## 5. Not modelled, and plan

Not modelled: the main loop beyond its input and its events, since nearly
everything it calls is the game's; the network interfaces of CnCNet, a few
functions around Winsock without state of their own; rules and type classes, which are read once; the hundreds of
patches that change one function of the game each and whose other half is not
in the repository; drawing, user interface, diagnostics, start-up; the vendored
libraries, which are most of the lines.

What is left, in this order:

1. Production of buildings and of two houses, for capture, with the types of
   factories a house has, and the proofs of `Production` for several factories.
2. The starting units and where `Scan_Place_Object` puts them.
3. What holds of production when objects cannot be created.
