------------------------------ MODULE Production ------------------------------
(* The production of vehicles by a player's house: its factory (HouseClass's   *)
(* UnitFactory with FactoryClassExtension), the war factories it works for,    *)
(* the sidebar that sends the player's wishes as events, and the events, which *)
(* are executed in order but later than they were sent.  Vehicles leave a war  *)
(* factory under their own power; the placing of buildings is not part of it.  *)
EXTENDS Integers, Sequences, FiniteSets, SequencesExt

CONSTANTS
    Types,          \* vehicles
    Buildings,      \* war factories
    CanBuild,       \* which may build which (BuiltAt, ExclusiveFactory)
    Cost,           \* of a vehicle
    Steps,          \* STEP_COUNT
    Nobody,         \* no object
    CreationFails,  \* whether FactoryClass::Set may fail to create an object
    MaxMoney,       \* bound: all money that is ever earned
    MaxOrders,      \* bound: vehicles in work, in the queue and ordered
    MaxEvents       \* bound: events sent and not yet executed

ASSUME ProductionAssumption ==
    /\ Cost \in Nat /\ Steps \in Nat \ {0} /\ MaxMoney \in Nat
    /\ MaxOrders \in Nat /\ MaxEvents \in Nat
    /\ CanBuild \subseteq Buildings \X Types
    /\ CreationFails \in BOOLEAN
    /\ Nobody \notin Types

Factory == [exists : BOOLEAN, object : Types \cup {Nobody}, balance : 0 .. Cost, stage : 0 .. Steps,
            queue : Seq(Types), suspended : BOOLEAN, onhold : BOOLEAN,
            different : BOOLEAN, holding : BOOLEAN]
Event == [kind : {"produce", "abandon"}, type : Types] \cup [kind : {"suspend", "place"}]

(* A war factory is turned off when power is low; one that is sold still       *)
(* stands, but builds nothing.                                                 *)
Conditions == {"gone", "on", "off", "sold"}

VARIABLES
    state,      \* the factory, and the house's money
    building,   \* the condition of each war factory
    unloading,  \* the war factories with MISSION_UNLOAD: a vehicle is leaving
    events,     \* OutList and what has become of it, until it is executed
    earned,     \* history: all money the house ever had
    delivered,  \* history: vehicles that have left a war factory
    freed       \* a factory was used after it had been deleted

vars == <<state, building, unloading, events, earned, delivered, freed>>
history == <<earned, delivered>>

------------------------------------------------------------------------------
(* FactoryClass.  Set, Suspend, Completed, Has_Completed, Is_Building and       *)
(* Cost_Per_Tick are the game's.                                               *)

HasCompleted(f) == f.object # Nobody /\ f.stage = Steps
IsBuilding(f) == f.object # Nobody /\ ~f.suspended
CostPerTick(f) == IF f.stage < Steps THEN f.balance \div (Steps - f.stage) ELSE f.balance

NewFactory == [exists |-> TRUE, object |-> Nobody, balance |-> 0, stage |-> 0,
               queue |-> <<>>, suspended |-> FALSE, onhold |-> FALSE,
               different |-> FALSE, holding |-> FALSE]
NoFactory == [NewFactory EXCEPT !.exists = FALSE]

WithFactory(s, f) == [s EXCEPT !.factory = f]

\* with nothing in work (or when the queue goes on) an object is made, else it is queued
MakesObject(f, resume) == f.object = Nobody /\ (f.queue = <<>> \/ resume)
SetTo(f, t, resume) ==
    IF MakesObject(f, resume)
    THEN [f EXCEPT !.object = t, !.balance = Cost, !.stage = 0,
                   !.suspended = TRUE, !.different = TRUE]
    ELSE [f EXCEPT !.queue = Append(@, t)]

Suspended(f, hold) == IF f.suspended THEN f ELSE [f EXCEPT !.suspended = TRUE, !.onhold = hold]

\* _Start: without the money for a step it starts, and is not put on hold
Started(f, money, hold) ==
    IF f.object = Nobody \/ ~f.suspended \/ HasCompleted(f) THEN f
    ELSE LET g == [f EXCEPT !.suspended = FALSE] IN
         IF money < CostPerTick(g) THEN g
         ELSE IF hold THEN Suspended([g EXCEPT !.onhold = TRUE], TRUE)
         ELSE [g EXCEPT !.onhold = TRUE]

\* Mutant: the whole cost is refunded.
AbandonedFull(s) ==
    IF s.factory.object = Nobody THEN s
    ELSE [factory |-> [s.factory EXCEPT !.object = Nobody, !.balance = 0, !.stage = 0,
                                        !.suspended = TRUE, !.different = TRUE],
          money |-> s.money + Cost]

\* _Abandon: what was paid for the object is refunded
Abandoned(s) ==
    IF s.factory.object = Nobody THEN s
    ELSE [factory |-> [s.factory EXCEPT !.object = Nobody, !.balance = 0, !.stage = 0,
                                        !.suspended = TRUE, !.different = TRUE],
          money |-> s.money + (Cost - s.factory.balance)]

------------------------------------------------------------------------------
(* HouseClassExtension.  bs are the buildings that count at the moment; made   *)
(* says whether an object could be created.                                    *)

WhoCanBuild(bs, t, needsnopower) ==
    {b \in Buildings : /\ <<b, t>> \in CanBuild
                       /\ bs[b] \in (IF needsnopower THEN {"on"} ELSE {"on", "off"})}
CanBuildNow(bs, t) == WhoCanBuild(bs, t, TRUE) # {}
CanBuildAtAll(bs, t) == WhoCanBuild(bs, t, FALSE) # {}

BeginProduction(s, bs, t, resume, made) ==
    LET onhold == ~CanBuildNow(bs, t)
        f == IF s.factory.exists THEN s.factory ELSE NewFactory
        skipset == f.suspended /\ ~f.holding /\ f.object = t
        g == IF skipset THEN f ELSE SetTo(f, t, resume)
    IN IF onhold /\ ~(resume /\ CanBuildAtAll(bs, t)) THEN s
       ELSE IF ~skipset /\ MakesObject(f, resume) /\ ~made
            THEN WithFactory(s, IF f.queue = <<>> THEN NoFactory ELSE f)
       ELSE IF g.queue # <<>> /\ ~resume /\ ~skipset THEN WithFactory(s, g)
       ELSE WithFactory(s, Started(g, s.money, onhold))

\* _Resume_Queue: the next vehicle is taken from the queue and begun
ResumeQueue(s, bs, made) ==
    LET f == s.factory IN
    IF f.queue # <<>> /\ f.object = Nobody /\ f.suspended
    THEN BeginProduction(WithFactory(s, [f EXCEPT !.queue = Tail(@)]), bs, Head(f.queue), TRUE, made)
    ELSE s

\* what is in work is given up, and the next is begun
AbandonProduction(s, bs, made) ==
    LET a == Abandoned(s) IN
    IF a.factory.queue = <<>> THEN WithFactory(a, NoFactory) ELSE ResumeQueue(a, bs, made)

WithoutOne(queue, t) == RemoveAt(queue, CHOOSE i \in DOMAIN queue : queue[i] = t)

\* ... unless a vehicle of the type is in the queue, or another type is in work
AbandonType(s, bs, t, made) ==
    LET f == s.factory IN
    IF ~f.exists THEN s
    ELSE IF t \in Range(f.queue) THEN WithFactory(s, [f EXCEPT !.queue = WithoutOne(@, t)])
    ELSE IF f.object # t THEN s
    ELSE AbandonProduction(s, bs, made)

\* Mutant: a war factory that is only turned off does not count.
PurgedUnpowered(f, bs) ==
    LET Possible(t) == CanBuildNow(bs, t) IN [f EXCEPT !.queue = SelectSeq(@, Possible)]

\* Update_Factories, after a building came, went, or was turned on or off: the
\* vehicles that nothing can build any more are taken out of the queue
Purged(f, bs) ==
    LET kept[i \in 0 .. Len(f.queue)] ==
            IF i = 0 THEN <<>>
            ELSE IF CanBuildAtAll(bs, f.queue[i]) THEN Append(kept[i - 1], f.queue[i])
            ELSE kept[i - 1]
    IN [f EXCEPT !.queue = kept[Len(f.queue)]]

UpdateObject(s, bs, made) ==
    LET f == s.factory IN
    IF f.object = Nobody THEN s
    ELSE IF ~CanBuildAtAll(bs, f.object) THEN ResumeQueue(Abandoned(s), bs, made)
    ELSE IF ~CanBuildNow(bs, f.object) THEN WithFactory(s, Suspended(f, FALSE))
    ELSE IF f.suspended /\ ~f.onhold THEN WithFactory(s, Started(f, s.money, FALSE))
    ELSE s

\* the factory that is deleted on the way is still looked at, and deleted again
UsesFreed(s, bs, made) ==
    /\ s.factory.exists
    /\ ~UpdateObject(WithFactory(s, Purged(s.factory, bs)), bs, made).factory.exists

UpdateFactories(s, bs, made) ==
    IF ~s.factory.exists THEN s
    ELSE LET u == UpdateObject(WithFactory(s, Purged(s.factory, bs)), bs, made) IN
         IF u.factory.exists /\ u.factory.object = Nobody /\ u.factory.queue = <<>>
         THEN WithFactory(u, NoFactory) ELSE u

------------------------------------------------------------------------------
Made == IF CreationFails THEN BOOLEAN ELSE {TRUE}

Init ==
    /\ earned \in 0 .. MaxMoney
    /\ state = [factory |-> NoFactory, money |-> earned]
    /\ building \in [Buildings -> {"gone", "on"}]
    /\ unloading = {}
    /\ events = <<>>
    /\ delivered = 0
    /\ freed = FALSE

Earn ==
    /\ earned < MaxMoney
    /\ state' = [state EXCEPT !.money = @ + 1]
    /\ earned' = earned + 1
    /\ UNCHANGED <<building, unloading, events, delivered, freed>>

\* Mutant: a step that cannot be paid is not taken back.
StepTaken(f, money) ==
    LET g == [f EXCEPT !.stage = @ + 1]
        cost == CostPerTick(g)
        paid == IF cost > money THEN g ELSE [g EXCEPT !.balance = @ - cost]
    IN IF paid.stage = Steps THEN [paid EXCEPT !.suspended = TRUE, !.balance = 0] ELSE paid

\* one step, if it can be paid; the last one completes the object
Step(f, money) ==
    LET g == [f EXCEPT !.stage = @ + 1]
        cost == CostPerTick(g)
        paid == IF cost > money THEN f ELSE [g EXCEPT !.balance = @ - cost]
    IN IF paid.stage = Steps THEN [paid EXCEPT !.suspended = TRUE, !.balance = 0] ELSE paid

(* FactoryClass::AI, when the time for a step has come.                        *)
FactoryAI ==
    /\ IsBuilding(state.factory) /\ ~HasCompleted(state.factory)
    /\ LET f == state.factory
           g == Step(f, state.money)
       IN state' = [factory |-> [g EXCEPT !.different = TRUE],
                    money |-> state.money - (f.balance - g.balance)]
    /\ UNCHANGED <<building, unloading, events, history, freed>>

------------------------------------------------------------------------------
(* The sidebar.  A cameo is linked to the factory that has its type in work.   *)

Send(e) ==
    /\ Len(events) < MaxEvents
    /\ events' = Append(events, e)

Linked(t) == state.factory.object = t

(* StripClass::AI: a completed object is told to leave, once, and again and    *)
(* again while the factory holds it.                                           *)
SidebarAI ==
    /\ state.factory.object # Nobody
    /\ state.factory.different \/ state.factory.holding
    /\ state' = [state EXCEPT !.factory.different = FALSE]
    /\ IF HasCompleted(state.factory) THEN Send([kind |-> "place"]) ELSE UNCHANGED events
    /\ UNCHANGED <<building, unloading, history, freed>>

\* all that is in work, in the queue, or ordered and not yet executed
Outstanding ==
    LET IsOrder(e) == e.kind = "produce"
        f == state.factory
    IN Len(SelectSeq(events, IsOrder))
         + Len(f.queue) + (IF f.object = Nobody THEN 0 ELSE 1)

\* a left click on the cameo of t: build it, go on with it, or let it leave
LeftClick(t) ==
    /\ IF Linked(t) /\ ~state.factory.holding /\ HasCompleted(state.factory)
       THEN Send(IF CanBuildAtAll(building, t) THEN [kind |-> "place"]
                                               ELSE [kind |-> "abandon", type |-> t])
       ELSE Outstanding < MaxOrders /\ Send([kind |-> "produce", type |-> t])
    /\ UNCHANGED <<state, building, unloading, history, freed>>

\* a right click: put it on hold, or abandon what is on hold, completed or queued
RightClick(t) ==
    /\ IF Linked(t)
       THEN Send(IF IsBuilding(state.factory) THEN [kind |-> "suspend"]
                                              ELSE [kind |-> "abandon", type |-> t])
       ELSE /\ t \in Range(state.factory.queue)
            /\ Send([kind |-> "abandon", type |-> t])
    /\ UNCHANGED <<state, building, unloading, history, freed>>

------------------------------------------------------------------------------
(* EventClass::Execute.                                                        *)

Next1(kind) ==
    /\ events # <<>> /\ Head(events).kind = kind
    /\ events' = Tail(events)

ExecuteProduce ==
    /\ Next1("produce")
    /\ \E made \in Made :
         state' = BeginProduction(state, building, Head(events).type, FALSE, made)
    /\ UNCHANGED <<building, unloading, history, freed>>

ExecuteSuspend ==
    /\ Next1("suspend")
    /\ state' = IF state.factory.object = Nobody THEN state
                ELSE WithFactory(state, Suspended(state.factory, TRUE))
    /\ UNCHANGED <<building, unloading, history, freed>>

ExecuteAbandon ==
    /\ Next1("abandon")
    /\ \E made \in Made : state' = AbandonType(state, building, Head(events).type, made)
    /\ UNCHANGED <<building, unloading, history, freed>>

(* Place_Object: where no object is complete the event is ignored.             *)
Complete == HasCompleted(state.factory)
FreeToExit == WhoCanBuild(building, state.factory.object, FALSE) \ unloading
Exits == WhoCanBuild(building, state.factory.object, TRUE)

PlaceNothing ==
    /\ Next1("place")
    /\ ~Complete
    /\ UNCHANGED <<state, building, unloading, history, freed>>

\* Mutant: the sidebar is not told to try again.
PlaceLater ==
    /\ Next1("place")
    /\ Complete /\ FreeToExit = {}
    /\ UNCHANGED <<state, building, unloading, history, freed>>

\* every war factory has a vehicle leaving
PlaceHold ==
    /\ Next1("place")
    /\ Complete /\ FreeToExit = {}
    /\ state' = [state EXCEPT !.factory.holding = TRUE]
    /\ UNCHANGED <<building, unloading, history, freed>>

\* one is free, and none is on
PlaceWithoutPower ==
    /\ Next1("place")
    /\ Complete /\ FreeToExit # {} /\ Exits = {}
    /\ UNCHANGED <<state, building, unloading, history, freed>>

\* the vehicle leaves one that is not busy, and the next is begun
Placed(made) ==
    LET s == AbandonProduction(WithFactory(state, [state.factory EXCEPT !.object = Nobody]),
                               building, made)
    IN IF s.factory.exists THEN [s EXCEPT !.factory.holding = FALSE] ELSE s

PlaceObject ==
    /\ Next1("place")
    /\ Complete /\ FreeToExit # {}
    /\ \E b \in Exits \ unloading : unloading' = unloading \cup {b}
    /\ \E made \in Made : state' = Placed(made)
    /\ delivered' = delivered + 1
    /\ UNCHANGED <<building, earned, freed>>

\* Exit_Object fails, because the war factory is busy or its exit is blocked
PlaceFailed ==
    /\ Next1("place")
    /\ Complete /\ FreeToExit # {} /\ Exits # {}
    /\ \E made \in Made : state' = AbandonProduction(state, building, made)
    /\ UNCHANGED <<building, unloading, history, freed>>

------------------------------------------------------------------------------
(* The war factories.  Whenever one comes, goes or is turned on or off,        *)
(* Update_Factories is called.                                                 *)

Unloaded(b) ==
    /\ b \in unloading
    /\ unloading' = unloading \ {b}
    /\ UNCHANGED <<state, building, events, history, freed>>

Becomes(b, condition) == [building EXCEPT ![b] = condition]

BuildingUpdated(b, from, to) ==
    /\ building[b] = from
    /\ building' = Becomes(b, to)
    /\ \E made \in Made :
         /\ state' = UpdateFactories(state, Becomes(b, to), made)
         /\ freed' = UsesFreed(state, Becomes(b, to), made)
    /\ UNCHANGED <<unloading, events, history>>

BuildingPlaced(b) == BuildingUpdated(b, "gone", "on")
TurnOff(b) == BuildingUpdated(b, "on", "off")
TurnOn(b) == BuildingUpdated(b, "off", "on")

BuildingSold(b) ==
    /\ building[b] \in {"on", "off"} /\ b \notin unloading
    /\ building' = Becomes(b, "sold")
    /\ UNCHANGED <<state, unloading, events, history, freed>>

(* A building that is destroyed, or sold at last: Detach_All, with the building *)
(* as if in limbo, and then Update_Factories.                                  *)
DetachAll(s, bs, made) ==
    IF s.factory.object # Nobody /\ ~CanBuildAtAll(bs, s.factory.object)
    THEN AbandonProduction(s, bs, made) ELSE s

\* Mutant: it still counts.
BuildingLostEarly(b) ==
    /\ building[b] # "gone"
    /\ building' = Becomes(b, "gone")
    /\ \E made, made2 \in Made :
         LET s == DetachAll(state, building, made) IN
         /\ state' = UpdateFactories(s, building, made2)
         /\ freed' = UsesFreed(s, building, made2)
    /\ unloading' = unloading \ {b}
    /\ UNCHANGED <<events, history>>

BuildingLost(b) ==
    /\ building[b] # "gone"
    /\ building' = Becomes(b, "gone")
    /\ \E made, made2 \in Made :
         LET s == DetachAll(state, Becomes(b, "gone"), made) IN
         /\ state' = UpdateFactories(s, Becomes(b, "gone"), made2)
         /\ freed' = UsesFreed(s, Becomes(b, "gone"), made2)
    /\ unloading' = unloading \ {b}
    /\ UNCHANGED <<events, history>>

------------------------------------------------------------------------------
Player == \E t \in Types : LeftClick(t) \/ RightClick(t)
Execute ==
    \/ ExecuteProduce \/ ExecuteSuspend \/ ExecuteAbandon
    \/ PlaceNothing \/ PlaceHold \/ PlaceWithoutPower \/ PlaceObject \/ PlaceFailed
Base ==
    \E b \in Buildings :
        \/ Unloaded(b) \/ BuildingPlaced(b) \/ TurnOff(b) \/ TurnOn(b)
        \/ BuildingSold(b) \/ BuildingLost(b)

Next == ~freed /\ (Earn \/ FactoryAI \/ SidebarAI \/ Player \/ Execute \/ Base)

Spec == Init /\ [][Next]_vars

(* Every frame runs the sidebar and executes the events that are due, and a    *)
(* vehicle that leaves is out of the war factory at last.                      *)
Fairness ==
    /\ SF_vars(SidebarAI)
    /\ WF_vars(Execute)
    /\ \A b \in Buildings : WF_vars(Unloaded(b))
FairSpec == Spec /\ Fairness

------------------------------------------------------------------------------
TypeOK ==
    /\ state.factory \in Factory
    /\ state.money \in Nat
    /\ building \in [Buildings -> Conditions]
    /\ unloading \subseteq Buildings
    /\ events \in Seq(Event)
    /\ earned \in 0 .. MaxMoney
    /\ delivered \in Nat
    /\ freed \in BOOLEAN

(* No credit is lost or made: what the house ever had is what it has, what it  *)
(* has paid for the vehicle in work, and what the delivered vehicles cost.     *)
(* Production can be suspended, abandoned or completed, and its war factory    *)
(* lost, between any two steps that are paid.                                  *)
MoneyKept ==
    LET f == state.factory
        paid == IF f.object = Nobody THEN 0 ELSE Cost - f.balance
    IN state.money + paid + Cost * delivered = earned

(* What is in work could be built by a war factory that stands (or is being    *)
(* sold): it never outlives the last one, whatever was queued behind it.       *)
StillBuildable ==
    state.factory.object # Nobody =>
        \E b \in Buildings : <<b, state.factory.object>> \in CanBuild /\ building[b] # "gone"

(* A vehicle in the queue or in work is dropped only when it is completed and  *)
(* told to leave, its type is abandoned, or no war factory is left that could  *)
(* build it: no order is lost on the way from the queue to the war factory,    *)
(* when a war factory is lost, or when another vehicle leaves.                 *)
Ordered(f, t) ==
    Cardinality({i \in DOMAIN f.queue : f.queue[i] = t}) + (IF f.object = t THEN 1 ELSE 0)
OrdersKept ==
    [][\A t \in Types :
         Ordered(state'.factory, t) < Ordered(state.factory, t) =>
             \/ ~CanBuildAtAll(building', t)
             \/ events # <<>> /\ Head(events) = [kind |-> "abandon", type |-> t]
             \/ /\ events # <<>> /\ Head(events) = [kind |-> "place"]
                /\ t = state.factory.object /\ Complete]_vars

(* A vehicle that is told to leave while every war factory is busy leaves, is  *)
(* given up, or is left without a war factory that is on: it is tried again    *)
(* without the player's help.                                                  *)
TurnedAway == events # <<>> /\ Head(events).kind = "place" /\ Complete /\ FreeToExit = {}
HeldLeaves == TurnedAway /\ Exits # {} ~> ~Complete \/ Exits = {}
==============================================================================
