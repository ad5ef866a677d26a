--------------------------- MODULE ProductionProofs ---------------------------
(***************************************************************************)
(* What holds of a house's production for any vehicles, war factories,     *)
(* prices and numbers of steps, orders and events: no credit is lost or    *)
(* made, nothing is in work that no war factory could build, everything    *)
(* keeps its type, and no order is lost.                                   *)
(*                                                                         *)
(* All handlers are made of the same few operations, which change the      *)
(* factory and the money together.  A relation says what each of them      *)
(* preserves: Keeps for the money and what is in work, to which the queue  *)
(* does not matter, and Serves for the types and the orders.  Both are     *)
(* transitive, and the proof of a handler chains them along the operations *)
(* that the handler calls.                                                 *)
(***************************************************************************)
EXTENDS Production, TLAPS, FiniteSetTheorems, SequenceTheorems, WellFoundedInduction

IsFactory(f) ==
    /\ DOMAIN f = {"exists", "object", "balance", "stage", "queue",
                   "suspended", "onhold", "different", "holding"}
    /\ f.exists \in BOOLEAN
    /\ f.balance \in 0 .. Cost
    /\ f.stage \in 0 .. Steps
    /\ f.stage = Steps => f.balance = 0
    /\ ~f.exists => f.object = Nobody

IsState(s) ==
    /\ DOMAIN s = {"factory", "money"}
    /\ s.money \in Int
    /\ IsFactory(s.factory)

Paid(f) == IF f.object = Nobody THEN 0 ELSE Cost - f.balance
Worth(s) == s.money + Paid(s.factory)

\* From s to u, while the war factories are bs.
Keeps(s, u, bs) ==
    /\ IsState(u)
    /\ Worth(u) = Worth(s)
    /\ u.factory.object \in {s.factory.object, Nobody} \/ CanBuildAtAll(bs, u.factory.object)

LEMMA KeepsItself ==
    ASSUME NEW s, IsState(s), NEW bs
    PROVE  Keeps(s, s, bs)
BY DEF Keeps

LEMMA KeepsTransitively ==
    ASSUME NEW s, NEW u, NEW v, NEW bs, Keeps(s, u, bs), Keeps(u, v, bs)
    PROVE  Keeps(s, v, bs)
BY DEF Keeps

------------------------------------------------------------------------------
(* The operations of FactoryClass.                                             *)

LEMMA NewFactoryType == IsFactory(NewFactory) /\ NewFactory.exists /\ NewFactory.object = Nobody
BY ProductionAssumption DEF IsFactory, NewFactory

LEMMA NoFactoryType == IsFactory(NoFactory) /\ ~NoFactory.exists /\ NoFactory.object = Nobody
BY ProductionAssumption DEF IsFactory, NewFactory, NoFactory

LEMMA WithFactoryKeeps ==
    ASSUME NEW s, IsState(s), NEW f, IsFactory(f), NEW bs,
           Paid(f) = Paid(s.factory),
           f.object \in {s.factory.object, Nobody} \/ CanBuildAtAll(bs, f.object)
    PROVE  Keeps(s, WithFactory(s, f), bs) /\ WithFactory(s, f).factory = f
<1>1. /\ DOMAIN WithFactory(s, f) = {"factory", "money"}
      /\ WithFactory(s, f).factory = f
      /\ WithFactory(s, f).money = s.money
  BY DEF WithFactory, IsState
<1>2. IsState(WithFactory(s, f))
  BY <1>1 DEF IsState
<1>3. Worth(WithFactory(s, f)) = Worth(s)
  BY <1>1 DEF Worth
<1> QED
  BY <1>1, <1>2, <1>3 DEF Keeps

LEMMA SetToType ==
    ASSUME NEW f, IsFactory(f), f.exists, NEW t, NEW resume \in BOOLEAN
    PROVE  /\ IsFactory(SetTo(f, t, resume))
           /\ SetTo(f, t, resume).exists
           /\ Paid(SetTo(f, t, resume)) = Paid(f)
           /\ SetTo(f, t, resume).object \in {f.object, t}
<1>1. CASE MakesObject(f, resume)
  <2> DEFINE g == [f EXCEPT !.object = t, !.balance = Cost, !.stage = 0,
                            !.suspended = TRUE, !.different = TRUE]
  <2>1. SetTo(f, t, resume) = g
    BY <1>1 DEF SetTo
  <2>2. /\ DOMAIN g = DOMAIN f /\ g.exists = f.exists /\ g.object = t
        /\ g.balance = Cost /\ g.stage = 0
    BY DEF IsFactory
  <2> HIDE DEF g
  <2>3. IsFactory(g)
    BY <2>2, ProductionAssumption DEF IsFactory
  <2>4. Paid(g) = Paid(f)
    BY <1>1, <2>2, ProductionAssumption DEF MakesObject, Paid
  <2> QED
    BY <2>1, <2>2, <2>3, <2>4
<1>2. CASE ~MakesObject(f, resume)
  <2> DEFINE g == [f EXCEPT !.queue = Append(@, t)]
  <2>1. SetTo(f, t, resume) = g
    BY <1>2 DEF SetTo
  <2>2. IsFactory(g) /\ g.exists = f.exists /\ g.object = f.object /\ g.balance = f.balance
    BY DEF IsFactory
  <2> HIDE DEF g
  <2> QED
    BY <2>1, <2>2 DEF Paid
<1> QED
  BY <1>1, <1>2

LEMMA SuspendedType ==
    ASSUME NEW f, IsFactory(f), NEW hold
    PROVE  /\ IsFactory(Suspended(f, hold))
           /\ Suspended(f, hold).exists = f.exists
           /\ Suspended(f, hold).object = f.object
           /\ Suspended(f, hold).balance = f.balance
BY DEF Suspended, IsFactory

LEMMA StartedType ==
    ASSUME NEW f, IsFactory(f), NEW money, NEW hold
    PROVE  /\ IsFactory(Started(f, money, hold))
           /\ Started(f, money, hold).exists = f.exists
           /\ Started(f, money, hold).object = f.object
           /\ Started(f, money, hold).balance = f.balance
<1> DEFINE g == [f EXCEPT !.suspended = FALSE]
           h == [g EXCEPT !.onhold = TRUE]
<1>1. IsFactory(g) /\ g.exists = f.exists /\ g.object = f.object /\ g.balance = f.balance
  BY DEF IsFactory
<1>2. IsFactory(h) /\ h.exists = f.exists /\ h.object = f.object /\ h.balance = f.balance
  BY <1>1 DEF IsFactory
<1>3. /\ IsFactory(Suspended(h, TRUE))
      /\ Suspended(h, TRUE).exists = f.exists
      /\ Suspended(h, TRUE).object = f.object
      /\ Suspended(h, TRUE).balance = f.balance
  BY <1>2, SuspendedType
<1>4. Started(f, money, hold) \in {f, g, h, Suspended(h, TRUE)}
  BY DEF Started
<1> HIDE DEF g, h
<1> QED
  BY <1>1, <1>2, <1>3, <1>4

LEMMA AbandonedKeeps ==
    ASSUME NEW s, IsState(s), NEW bs
    PROVE  /\ Keeps(s, Abandoned(s), bs)
           /\ Abandoned(s).factory.object = Nobody
           /\ Abandoned(s).factory.exists = s.factory.exists
<1>1. CASE s.factory.object = Nobody
  BY <1>1, KeepsItself DEF Abandoned
<1>2. CASE s.factory.object # Nobody
  <2> DEFINE f == s.factory
             g == [f EXCEPT !.object = Nobody, !.balance = 0, !.stage = 0,
                            !.suspended = TRUE, !.different = TRUE]
  <2>1. /\ IsFactory(g) /\ g.object = Nobody /\ g.exists = f.exists
        /\ f.balance \in Int
    BY ProductionAssumption DEF IsState, IsFactory
  <2>2. Abandoned(s) = [factory |-> g, money |-> s.money + (Cost - f.balance)]
    BY <1>2 DEF Abandoned
  <2> HIDE DEF g
  <2>3. IsState(Abandoned(s))
    BY <2>1, <2>2, ProductionAssumption DEF IsState
  <2>4. Worth(Abandoned(s)) = Worth(s)
    BY <1>2, <2>1, <2>2, ProductionAssumption DEF Worth, Paid, IsState
  <2> QED
    BY <2>1, <2>2, <2>3, <2>4 DEF Keeps
<1> QED
  BY <1>1, <1>2
------------------------------------------------------------------------------
(* The operations of HouseClassExtension.                                      *)

LEMMA BeginKeeps ==
    ASSUME NEW s, IsState(s), NEW bs, NEW t, NEW resume \in BOOLEAN, NEW made \in BOOLEAN
    PROVE  /\ Keeps(s, BeginProduction(s, bs, t, resume, made), bs)
           /\ s.factory.exists /\ made => BeginProduction(s, bs, t, resume, made).factory.exists
<1> DEFINE onhold == ~CanBuildNow(bs, t)
           f == IF s.factory.exists THEN s.factory ELSE NewFactory
           skipset == f.suspended /\ ~f.holding /\ f.object = t
           g == IF skipset THEN f ELSE SetTo(f, t, resume)
           h == Started(g, s.money, onhold)
           n == IF f.queue = <<>> THEN NoFactory ELSE f
           u == BeginProduction(s, bs, t, resume, made)
<1>1. IsFactory(f) /\ f.exists /\ Paid(f) = Paid(s.factory) /\ f.object = s.factory.object
  BY NewFactoryType DEF IsState, IsFactory, Paid
<1>2. /\ IsFactory(g) /\ g.exists /\ Paid(g) = Paid(s.factory)
      /\ g.object \in {s.factory.object, t}
  BY <1>1, SetToType
<1>3. /\ IsFactory(h) /\ h.exists /\ Paid(h) = Paid(s.factory)
      /\ h.object \in {s.factory.object, t}
  BY <1>2, StartedType DEF Paid
<1>4. CASE onhold /\ ~(resume /\ CanBuildAtAll(bs, t))
  BY <1>4, KeepsItself DEF BeginProduction
<1>5. CASE ~(onhold /\ ~(resume /\ CanBuildAtAll(bs, t)))
  <2>1. CanBuildAtAll(bs, t)
    BY <1>5 DEF CanBuildNow, CanBuildAtAll, WhoCanBuild
  <2>2. CASE ~skipset /\ MakesObject(f, resume) /\ ~made
    <3>1. u = WithFactory(s, n)
      BY <1>5, <2>2 DEF BeginProduction
    <3>2. IsFactory(n) /\ Paid(n) = Paid(s.factory) /\ n.object = s.factory.object
      BY <1>1, <2>2, NoFactoryType DEF MakesObject, Paid
    <3> HIDE DEF n, u
    <3> QED
      BY <2>2, <3>1, <3>2, WithFactoryKeeps DEF u
  <2>3. CASE ~(~skipset /\ MakesObject(f, resume) /\ ~made)
    <3>1. u = WithFactory(s, g) \/ u = WithFactory(s, h)
      BY <1>5, <2>3 DEF BeginProduction
    <3> HIDE DEF g, h, u
    <3>2. Keeps(s, WithFactory(s, g), bs) /\ WithFactory(s, g).factory = g
      BY <1>2, <2>1, WithFactoryKeeps
    <3>3. Keeps(s, WithFactory(s, h), bs) /\ WithFactory(s, h).factory = h
      BY <1>3, <2>1, WithFactoryKeeps
    <3>4. Keeps(s, u, bs) /\ u.factory.exists
      BY <1>2, <1>3, <3>1, <3>2, <3>3
    <3> QED
      BY <3>4 DEF u
  <2> QED
    BY <2>2, <2>3
<1> QED
  BY <1>4, <1>5

LEMMA ResumeKeeps ==
    ASSUME NEW s, IsState(s), NEW bs, NEW made \in BOOLEAN
    PROVE  /\ Keeps(s, ResumeQueue(s, bs, made), bs)
           /\ s.factory.exists /\ made => ResumeQueue(s, bs, made).factory.exists
<1> DEFINE f == s.factory
           g == [f EXCEPT !.queue = Tail(@)]
           r == WithFactory(s, g)
           u == BeginProduction(r, bs, Head(f.queue), TRUE, made)
<1>1. IsFactory(g) /\ g.object = f.object /\ g.balance = f.balance /\ g.exists = f.exists
  BY DEF IsState, IsFactory
<1>2. Paid(g) = Paid(f)
  BY <1>1 DEF Paid
<1>3. Keeps(s, r, bs) /\ r.factory = g
  <2> HIDE DEF g
  <2> QED
    BY <1>1, <1>2, WithFactoryKeeps
<1>4. IsState(r)
  BY <1>3 DEF Keeps
<1>5. Keeps(r, u, bs) /\ (r.factory.exists /\ made => u.factory.exists)
  <2> HIDE DEF r
  <2> QED
    BY <1>4, BeginKeeps
<1>6. ResumeQueue(s, bs, made) = u \/ ResumeQueue(s, bs, made) = s
  BY DEF ResumeQueue
<1> HIDE DEF r, u, g
<1>7. Keeps(s, u, bs)
  BY <1>3, <1>5, KeepsTransitively
<1> QED
  BY <1>1, <1>3, <1>5, <1>6, <1>7, KeepsItself

LEMMA AbandonKeeps ==
    ASSUME NEW s, IsState(s), NEW bs, NEW made \in BOOLEAN
    PROVE  LET u == AbandonProduction(s, bs, made) IN
           /\ Keeps(s, u, bs)
           /\ u.factory.object = Nobody \/ CanBuildAtAll(bs, u.factory.object)
<1> DEFINE a == Abandoned(s)
           u == AbandonProduction(s, bs, made)
<1>1. Keeps(s, a, bs) /\ a.factory.object = Nobody
  BY AbandonedKeeps
<1>2. IsState(a)
  BY <1>1 DEF Keeps
<1>3. u = WithFactory(a, NoFactory) \/ u = ResumeQueue(a, bs, made)
  BY DEF AbandonProduction
<1> HIDE DEF a, u
<1>4. Keeps(a, WithFactory(a, NoFactory), bs)
  <2>1. Paid(NoFactory) = Paid(a.factory)
    BY <1>1, NoFactoryType DEF Paid
  <2> QED
    BY <1>1, <1>2, <2>1, NoFactoryType, WithFactoryKeeps
<1>5. Keeps(a, ResumeQueue(a, bs, made), bs)
  BY <1>2, ResumeKeeps
<1>6. Keeps(a, u, bs)
  BY <1>3, <1>4, <1>5
<1>7. Keeps(s, u, bs)
  BY <1>1, <1>6, KeepsTransitively
<1>8. u.factory.object = Nobody \/ CanBuildAtAll(bs, u.factory.object)
  BY <1>1, <1>6 DEF Keeps
<1> QED
  BY <1>7, <1>8 DEF u

LEMMA AbandonTypeKeeps ==
    ASSUME NEW s, IsState(s), NEW bs, NEW t, NEW made \in BOOLEAN
    PROVE  Keeps(s, AbandonType(s, bs, t, made), bs)
<1> DEFINE f == s.factory
           g == [f EXCEPT !.queue = WithoutOne(@, t)]
<1>1. /\ IsFactory(g) /\ g.object = f.object /\ g.balance = f.balance
  BY DEF IsState, IsFactory
<1>2. Paid(g) = Paid(f)
  BY <1>1 DEF Paid
<1>3. AbandonType(s, bs, t, made) \in {s, WithFactory(s, g), AbandonProduction(s, bs, made)}
  BY DEF AbandonType
<1> HIDE DEF g
<1>4. Keeps(s, WithFactory(s, g), bs)
  BY <1>1, <1>2, WithFactoryKeeps
<1> QED
  BY <1>3, <1>4, KeepsItself, AbandonKeeps

LEMMA UpdateObjectKeeps ==
    ASSUME NEW s, IsState(s), NEW bs, NEW made \in BOOLEAN
    PROVE  LET u == UpdateObject(s, bs, made) IN
           /\ Keeps(s, u, bs)
           /\ s.factory.exists /\ made => u.factory.exists
<1> DEFINE f == s.factory
           a == Abandoned(s)
           r == ResumeQueue(a, bs, made)
           h == Suspended(f, FALSE)
           g == Started(f, s.money, FALSE)
           u == UpdateObject(s, bs, made)
<1>1. Keeps(s, a, bs) /\ a.factory.exists = f.exists
  BY AbandonedKeeps
<1>2. IsState(a)
  BY <1>1 DEF Keeps
<1>3. Keeps(a, r, bs) /\ (a.factory.exists /\ made => r.factory.exists)
  <2> HIDE DEF a
  <2> QED
    BY <1>2, ResumeKeeps
<1>4. IsFactory(f)
  BY DEF IsState
<1>5. IsFactory(h) /\ h.exists = f.exists /\ h.object = f.object /\ Paid(h) = Paid(f)
  BY <1>4, SuspendedType DEF Paid
<1>6. IsFactory(g) /\ g.exists = f.exists /\ g.object = f.object /\ Paid(g) = Paid(f)
  <2>1. IsFactory(g) /\ g.exists = f.exists /\ g.object = f.object /\ g.balance = f.balance
    <3> HIDE DEF f
    <3> QED
      BY <1>4, StartedType
  <2> QED
    BY <2>1 DEF Paid
<1>7. u \in {s, r, WithFactory(s, h), WithFactory(s, g)}
  BY DEF UpdateObject
<1> HIDE DEF a, r, h, g, u
<1>8. Keeps(s, r, bs)
  BY <1>1, <1>3, KeepsTransitively
<1>9. Keeps(s, WithFactory(s, h), bs) /\ WithFactory(s, h).factory = h
  BY <1>5, WithFactoryKeeps
<1>10. Keeps(s, WithFactory(s, g), bs) /\ WithFactory(s, g).factory = g
  BY <1>6, WithFactoryKeeps
<1>11. Keeps(s, u, bs) /\ (f.exists /\ made => u.factory.exists)
  BY <1>1, <1>3, <1>5, <1>6, <1>7, <1>8, <1>9, <1>10, KeepsItself
<1> QED
  BY <1>11 DEF u

LEMMA PurgedKeeps ==
    ASSUME NEW s, IsState(s), NEW bs
    PROVE  LET p == WithFactory(s, Purged(s.factory, bs)) IN
           Keeps(s, p, bs) /\ IsState(p) /\ p.factory.exists = s.factory.exists
<1> DEFINE f == s.factory
           g == Purged(f, bs)
<1>1. \E q : g = [f EXCEPT !.queue = q]
  BY DEF Purged
<1>2. /\ IsFactory(g) /\ g.object = f.object /\ g.balance = f.balance /\ g.exists = f.exists
  <2> HIDE DEF g
  <2> QED
    BY <1>1 DEF IsState, IsFactory
<1> HIDE DEF g
<1>3. Paid(g) = Paid(f)
  BY <1>2 DEF Paid
<1>4. Keeps(s, WithFactory(s, g), bs) /\ WithFactory(s, g).factory = g
  BY <1>2, <1>3, WithFactoryKeeps
<1> QED
  BY <1>2, <1>4 DEF g, Keeps

LEMMA UpdateKeeps ==
    ASSUME NEW s, IsState(s), NEW bs, NEW made \in BOOLEAN
    PROVE  /\ Keeps(s, UpdateFactories(s, bs, made), bs)
           /\ made => ~UsesFreed(s, bs, made)
<1> DEFINE p == WithFactory(s, Purged(s.factory, bs))
           u == UpdateObject(p, bs, made)
           v == UpdateFactories(s, bs, made)
<1>1. Keeps(s, p, bs) /\ IsState(p) /\ p.factory.exists = s.factory.exists
  BY PurgedKeeps
<1>2. Keeps(p, u, bs) /\ (p.factory.exists /\ made => u.factory.exists)
  <2> HIDE DEF p
  <2> QED
    BY <1>1, UpdateObjectKeeps
<1>3. made => ~UsesFreed(s, bs, made)
  BY <1>1, <1>2 DEF UsesFreed
<1>4. \/ v \in {s, u}
      \/ v = WithFactory(u, NoFactory) /\ u.factory.object = Nobody
  BY DEF UpdateFactories
<1> HIDE DEF p, u, v
<1>5. Keeps(s, u, bs) /\ IsState(u)
  BY <1>1, <1>2, KeepsTransitively DEF Keeps
<1>6. u.factory.object = Nobody => Keeps(u, WithFactory(u, NoFactory), bs)
  <2>1. u.factory.object = Nobody => Paid(NoFactory) = Paid(u.factory)
    BY NoFactoryType DEF Paid
  <2> QED
    BY <1>5, <2>1, NoFactoryType, WithFactoryKeeps
<1>7. Keeps(s, v, bs)
  BY <1>4, <1>5, <1>6, KeepsItself, KeepsTransitively
<1> QED
  BY <1>3, <1>7 DEF v

LEMMA DetachKeeps ==
    ASSUME NEW s, IsState(s), NEW bs, NEW made \in BOOLEAN
    PROVE  LET u == DetachAll(s, bs, made) IN
           /\ Keeps(s, u, bs)
           /\ u.factory.object = Nobody \/ CanBuildAtAll(bs, u.factory.object)
<1>1. DetachAll(s, bs, made) = AbandonProduction(s, bs, made)
      \/ /\ DetachAll(s, bs, made) = s
         /\ s.factory.object = Nobody \/ CanBuildAtAll(bs, s.factory.object)
  BY DEF DetachAll
<1> QED
  BY <1>1, AbandonKeeps, KeepsItself

LEMMA QuotientBound ==
    ASSUME NEW a \in Nat, NEW n \in Nat \ {0}
    PROVE  a \div n \in 0 .. a
OBVIOUS

LEMMA StepKeeps ==
    ASSUME NEW f, IsFactory(f), f.object # Nobody, f.stage # Steps, NEW money \in Int
    PROVE  LET g == Step(f, money) IN
           /\ IsFactory(g) /\ g.object = f.object
<1> DEFINE n == [f EXCEPT !.stage = @ + 1]
           cost == CostPerTick(n)
           b == [n EXCEPT !.balance = @ - cost]
           paid == IF cost > money THEN f ELSE b
           g == IF paid.stage = Steps THEN [paid EXCEPT !.suspended = TRUE, !.balance = 0] ELSE paid
<1>1. /\ DOMAIN n = DOMAIN f /\ n.exists = f.exists /\ n.object = f.object
      /\ n.stage = f.stage + 1 /\ n.balance = f.balance
  BY DEF IsFactory
<1>2. f.balance \in 0 .. Cost /\ f.stage + 1 \in 1 .. Steps /\ Cost \in Nat /\ Steps \in Nat
  BY ProductionAssumption DEF IsFactory
<1>3. cost \in 0 .. f.balance
  <2> HIDE DEF n
  <2>1. CASE n.stage < Steps
    <3>1. Steps - n.stage \in Nat \ {0} /\ n.balance \in Nat
      BY <1>1, <1>2, <2>1
    <3> QED
      BY <1>1, <2>1, <3>1, QuotientBound DEF CostPerTick
  <2>2. CASE ~(n.stage < Steps)
    BY <1>1, <1>2, <2>2 DEF CostPerTick
  <2> QED
    BY <2>1, <2>2
<1>4. /\ DOMAIN b = DOMAIN f /\ b.exists = f.exists /\ b.object = f.object
      /\ b.stage = f.stage + 1 /\ b.balance = f.balance - cost
  <2> HIDE DEF cost
  <2> QED
    BY <1>1 DEF IsFactory
<1> HIDE DEF n, cost, b
<1>5. /\ DOMAIN paid = DOMAIN f /\ paid.exists = f.exists /\ paid.object = f.object
      /\ paid.stage \in 0 .. Steps /\ paid.balance \in 0 .. Cost
  BY <1>2, <1>3, <1>4 DEF IsFactory
<1> HIDE DEF paid
<1>6. /\ DOMAIN g = DOMAIN f /\ g.exists = f.exists /\ g.object = f.object
      /\ g.stage \in 0 .. Steps /\ g.balance \in 0 .. Cost
      /\ g.stage = Steps => g.balance = 0
  BY <1>2, <1>5 DEF IsFactory
<1>7. Step(f, money) = g
  BY DEF Step, g, paid, b, cost, n
<1> HIDE DEF g
<1>8. IsFactory(g)
  BY <1>6 DEF IsFactory
<1> QED
  BY <1>6, <1>7, <1>8

------------------------------------------------------------------------------
(* The invariant: Worth, and what a delivery costs, add up to what was earned. *)

Sum == Worth(state) + Cost * delivered = earned

Types0 ==
    /\ IsState(state)
    /\ earned \in Nat
    /\ delivered \in Nat
    /\ building \in [Buildings -> Conditions]

IInv == Types0 /\ Sum /\ StillBuildable

LEMMA SumIsMoneyKept == Sum <=> MoneyKept
BY DEF Sum, MoneyKept, Worth, Paid

Standing(s, bs) ==
    s.factory.object # Nobody =>
        \E b \in Buildings : <<b, s.factory.object>> \in CanBuild /\ bs[b] # "gone"
NoneGone(before, after) == \A b \in Buildings : before[b] # "gone" => after[b] # "gone"

LEMMA BuildableFrom ==
    ASSUME NEW s, NEW u, NEW before, NEW after,
           Keeps(s, u, after), NoneGone(before, after), Standing(s, before)
    PROVE  Standing(u, after)
<1>1. CASE u.factory.object \in {s.factory.object, Nobody}
  BY <1>1 DEF Standing, NoneGone
<1>2. CASE CanBuildAtAll(after, u.factory.object)
  BY <1>2 DEF CanBuildAtAll, WhoCanBuild, Standing
<1> QED
  BY <1>1, <1>2 DEF Keeps

\* A step that changes the house only by operations that keep it.
LEMMA KeepingStep ==
    ASSUME IInv, UNCHANGED history, Keeps(state, state', building'),
           building' \in [Buildings -> Conditions],
           NoneGone(building, building')
    PROVE  IInv'
<1>1. IsState(state') /\ Worth(state') = Worth(state)
  BY DEF Keeps
<1>2. Types0'
  BY <1>1 DEF IInv, Types0, history
<1>3. Sum'
  BY <1>1 DEF IInv, Sum, history
<1>4. StillBuildable'
  <2>1. Standing(state, building)
    BY DEF IInv, StillBuildable, Standing
  <2>2. Standing(state', building')
    BY <2>1, BuildableFrom
  <2> QED
    BY <2>2 DEF StillBuildable, Standing
<1> QED
  BY <1>2, <1>3, <1>4 DEF IInv

LEMMA InitEstablishes == Init => IInv
<1> SUFFICES ASSUME Init PROVE IInv
  OBVIOUS
<1>1. /\ DOMAIN state = {"factory", "money"} /\ state.factory = NoFactory
      /\ state.money = earned /\ earned \in 0 .. MaxMoney /\ delivered = 0
  BY DEF Init
<1>2. Types0
  BY <1>1, NoFactoryType, ProductionAssumption DEF Init, Types0, IsState, Conditions
<1>3. Sum
  BY <1>1, NoFactoryType, ProductionAssumption DEF Sum, Worth, Paid
<1>4. StillBuildable
  BY <1>1, NoFactoryType DEF StillBuildable
<1> QED
  BY <1>2, <1>3, <1>4 DEF IInv
------------------------------------------------------------------------------
(* Every step.                                                                 *)

LEMMA SameHouse ==
    ASSUME IInv, UNCHANGED <<state, building, earned, delivered>>
    PROVE  IInv'
BY DEF IInv, Types0, Sum, StillBuildable

LEMMA MadeIsBoolean == Made \subseteq BOOLEAN
BY DEF Made

LEMMA InventoryOf ==
    ASSUME IInv
    PROVE  /\ IsState(state) /\ IsFactory(state.factory)
           /\ building \in [Buildings -> Conditions]
           /\ NoneGone(building, building)
BY DEF IInv, Types0, IsState, NoneGone

\* What only changes the flags of a factory keeps everything.
LEMMA FlagsKeep ==
    ASSUME NEW s, IsState(s), NEW u, NEW bs,
           DOMAIN u = DOMAIN s, u.money = s.money,
           DOMAIN u.factory = DOMAIN s.factory,
           u.factory.exists = s.factory.exists,
           u.factory.object = s.factory.object,
           u.factory.balance = s.factory.balance,
           u.factory.stage = s.factory.stage
    PROVE  Keeps(s, u, bs)
BY DEF Keeps, IsState, IsFactory, Worth, Paid

LEMMA EarnStep == ASSUME IInv, Earn PROVE IInv'
<1>1. /\ DOMAIN state' = DOMAIN state /\ state'.factory = state.factory
      /\ state'.money = state.money + 1 /\ earned' = earned + 1
      /\ UNCHANGED <<building, delivered>>
  BY DEF Earn, IInv, Types0, IsState
<1>2. Types0'
  BY <1>1 DEF IInv, Types0, IsState
<1>3. Sum'
  <2>1. Paid(state.factory) \in Int /\ Cost * delivered \in Int
    BY ProductionAssumption DEF IInv, Types0, IsState, IsFactory, Paid
  <2>2. Worth(state') = Worth(state) + 1
    BY <1>1, <2>1 DEF Worth, IInv, Types0, IsState
  <2>3. Worth(state) \in Int
    BY <2>1 DEF Worth, IInv, Types0, IsState
  <2> QED
    BY <1>1, <2>1, <2>2, <2>3 DEF IInv, Types0, Sum
<1>4. StillBuildable'
  BY <1>1 DEF IInv, StillBuildable
<1> QED
  BY <1>2, <1>3, <1>4 DEF IInv

LEMMA FactoryAIStep == ASSUME IInv, FactoryAI PROVE IInv'
<1> DEFINE f == state.factory
           g == Step(f, state.money)
<1>1. IsState(state) /\ IsFactory(f) /\ f.object # Nobody /\ f.stage # Steps
  BY DEF FactoryAI, IsBuilding, HasCompleted, IInv, Types0, IsState
<1>2. IsFactory(g) /\ g.object = f.object
  BY <1>1, StepKeeps DEF IsState
<1>3. state' = [factory |-> [g EXCEPT !.different = TRUE],
                money |-> state.money - (f.balance - g.balance)]
  BY DEF FactoryAI
<1> HIDE DEF g
<1>4. /\ DOMAIN state' = {"factory", "money"}
      /\ state'.money = state.money - (f.balance - g.balance)
      /\ IsFactory(state'.factory)
      /\ state'.factory.object = f.object
      /\ state'.factory.balance = g.balance
  BY <1>2, <1>3 DEF IsFactory
<1>5. f.balance \in Int /\ g.balance \in Int /\ Cost \in Int
  BY <1>1, <1>2, ProductionAssumption DEF IsFactory
<1>6. IsState(state')
  BY <1>1, <1>4, <1>5 DEF IsState
<1>7. Worth(state') = Worth(state)
  BY <1>1, <1>4, <1>5 DEF Worth, Paid, IsState
<1>8. Keeps(state, state', building')
  BY <1>4, <1>6, <1>7 DEF Keeps
<1>9. UNCHANGED <<building, history>>
  BY DEF FactoryAI
<1> QED
  BY <1>8, <1>9, KeepingStep, InventoryOf

LEMMA SidebarStep == ASSUME IInv, SidebarAI PROVE IInv'
<1>1. state' = [state EXCEPT !.factory.different = FALSE] /\ UNCHANGED <<building, history>>
  BY DEF SidebarAI
<1>2. IsState(state) /\ IsFactory(state.factory)
  BY InventoryOf
<1>3. /\ DOMAIN state' = DOMAIN state /\ state'.money = state.money
      /\ state'.factory = [state.factory EXCEPT !.different = FALSE]
  BY <1>1, <1>2 DEF IsState
<1>4. Keeps(state, state', building')
  <2>1. /\ DOMAIN state'.factory = DOMAIN state.factory
        /\ state'.factory.exists = state.factory.exists
        /\ state'.factory.object = state.factory.object
        /\ state'.factory.balance = state.factory.balance
        /\ state'.factory.stage = state.factory.stage
    BY <1>2, <1>3 DEF IsFactory
  <2> QED
    BY <1>2, <1>3, <2>1, FlagsKeep
<1> QED
  BY <1>1, <1>4, KeepingStep, InventoryOf

LEMMA PlayerStep == ASSUME IInv, NEW t \in Types, LeftClick(t) \/ RightClick(t) PROVE IInv'
BY SameHouse DEF LeftClick, RightClick, history

LEMMA OrderSteps ==
    ASSUME IInv, ExecuteProduce \/ ExecuteSuspend \/ ExecuteAbandon
    PROVE  IInv'
<1> USE InventoryOf
<1>1. CASE ExecuteProduce
  <2>1. PICK made \in Made :
          state' = BeginProduction(state, building, Head(events).type, FALSE, made)
    BY <1>1 DEF ExecuteProduce
  <2>2. UNCHANGED <<building, history>>
    BY <1>1 DEF ExecuteProduce
  <2>3. Keeps(state, state', building')
    BY <2>1, <2>2, BeginKeeps, MadeIsBoolean
  <2> QED
    BY <2>2, <2>3, KeepingStep
<1>2. CASE ExecuteSuspend
  <2>1. /\ UNCHANGED <<building, history>>
        /\ state' \in {state, WithFactory(state, Suspended(state.factory, TRUE))}
    BY <1>2 DEF ExecuteSuspend
  <2>2. /\ IsFactory(Suspended(state.factory, TRUE))
        /\ Suspended(state.factory, TRUE).object = state.factory.object
        /\ Paid(Suspended(state.factory, TRUE)) = Paid(state.factory)
    BY SuspendedType DEF Paid
  <2>3. Keeps(state, state', building')
    BY <2>1, <2>2, KeepsItself, WithFactoryKeeps
  <2> QED
    BY <2>1, <2>3, KeepingStep
<1>3. CASE ExecuteAbandon
  <2>1. PICK made \in Made :
          state' = AbandonType(state, building, Head(events).type, made)
    BY <1>3 DEF ExecuteAbandon
  <2>2. UNCHANGED <<building, history>>
    BY <1>3 DEF ExecuteAbandon
  <2>3. Keeps(state, state', building')
    BY <2>1, <2>2, AbandonTypeKeeps, MadeIsBoolean
  <2> QED
    BY <2>2, <2>3, KeepingStep
<1> QED
  BY <1>1, <1>2, <1>3

LEMMA PlaceQuietSteps ==
    ASSUME IInv, PlaceNothing \/ PlaceHold \/ PlaceWithoutPower \/ PlaceFailed
    PROVE  IInv'
<1> USE InventoryOf
<1>1. CASE PlaceNothing \/ PlaceWithoutPower
  BY <1>1, SameHouse DEF PlaceNothing, PlaceWithoutPower, history
<1>2. CASE PlaceHold
  <2>1. /\ state' = [state EXCEPT !.factory.holding = TRUE]
        /\ UNCHANGED <<building, history>>
    BY <1>2 DEF PlaceHold
  <2>2. /\ DOMAIN state' = DOMAIN state /\ state'.money = state.money
        /\ state'.factory = [state.factory EXCEPT !.holding = TRUE]
    BY <2>1 DEF IsState
  <2>3. /\ DOMAIN state'.factory = DOMAIN state.factory
        /\ state'.factory.exists = state.factory.exists
        /\ state'.factory.object = state.factory.object
        /\ state'.factory.balance = state.factory.balance
        /\ state'.factory.stage = state.factory.stage
    BY <2>2 DEF IsFactory
  <2>4. Keeps(state, state', building')
    BY <2>2, <2>3, FlagsKeep
  <2> QED
    BY <2>1, <2>4, KeepingStep
<1>3. CASE PlaceFailed
  <2>1. PICK made \in Made : state' = AbandonProduction(state, building, made)
    BY <1>3 DEF PlaceFailed
  <2>2. UNCHANGED <<building, history>>
    BY <1>3 DEF PlaceFailed
  <2>3. Keeps(state, state', building')
    BY <2>1, <2>2, AbandonKeeps, MadeIsBoolean
  <2> QED
    BY <2>2, <2>3, KeepingStep
<1> QED
  BY <1>1, <1>2, <1>3

\* What a delivered vehicle cost leaves Worth and enters Cost * delivered.
LEMMA PlacedWorth ==
    ASSUME IInv, Complete, NEW made \in BOOLEAN
    PROVE  LET p == Placed(made) IN
           /\ IsState(p)
           /\ Worth(p) = Worth(state) - Cost
           /\ p.factory.object = Nobody \/ CanBuildAtAll(building, p.factory.object)
<1> DEFINE f == state.factory
           d == [f EXCEPT !.object = Nobody]
           r == WithFactory(state, d)
           u == AbandonProduction(r, building, made)
           p == Placed(made)
<1>1. IsState(state) /\ IsFactory(f)
  BY InventoryOf
<1>2. IsFactory(d) /\ d.object = Nobody
  BY <1>1 DEF IsFactory
<1>3. f.object # Nobody /\ f.balance = 0
  BY <1>1 DEF Complete, HasCompleted, IsFactory
<1>4. DOMAIN r = {"factory", "money"} /\ r.factory = d /\ r.money = state.money
  BY <1>1 DEF WithFactory, IsState
<1> HIDE DEF d, r
<1>5. IsState(r)
  BY <1>1, <1>2, <1>4 DEF IsState
<1>6. Worth(r) = Worth(state) - Cost
  BY <1>1, <1>2, <1>3, <1>4, ProductionAssumption DEF Worth, Paid, IsState
<1>7. /\ Keeps(r, u, building)
      /\ u.factory.object = Nobody \/ CanBuildAtAll(building, u.factory.object)
  BY <1>5, AbandonKeeps
<1>8. IsState(u) /\ Worth(u) = Worth(state) - Cost
  BY <1>6, <1>7 DEF Keeps
<1>9. p = IF u.factory.exists THEN [u EXCEPT !.factory.holding = FALSE] ELSE u
  BY DEF Placed, u, r, d
<1> HIDE DEF u, p
<1>10. /\ DOMAIN p = DOMAIN u /\ p.money = u.money
       /\ p.factory \in {u.factory, [u.factory EXCEPT !.holding = FALSE]}
  BY <1>8, <1>9 DEF IsState
<1>11. /\ DOMAIN p.factory = DOMAIN u.factory
       /\ p.factory.exists = u.factory.exists
       /\ p.factory.object = u.factory.object
       /\ p.factory.balance = u.factory.balance
       /\ p.factory.stage = u.factory.stage
  BY <1>8, <1>10 DEF IsState, IsFactory
<1>12. Keeps(u, p, building)
  BY <1>8, <1>10, <1>11, FlagsKeep
<1>13. /\ IsState(p)
       /\ Worth(p) = Worth(state) - Cost
       /\ p.factory.object = Nobody \/ CanBuildAtAll(building, p.factory.object)
  BY <1>7, <1>8, <1>11, <1>12 DEF Keeps
<1> QED
  BY <1>13 DEF p

LEMMA PlaceObjectStep == ASSUME IInv, PlaceObject PROVE IInv'
<1>1. PICK made \in Made : state' = Placed(made)
  BY DEF PlaceObject
<1>2. Complete /\ delivered' = delivered + 1 /\ UNCHANGED <<building, earned>>
  BY DEF PlaceObject
<1>3. /\ IsState(state')
      /\ Worth(state') = Worth(state) - Cost
      /\ state'.factory.object = Nobody \/ CanBuildAtAll(building, state'.factory.object)
  BY <1>1, <1>2, PlacedWorth, MadeIsBoolean
<1>4. Types0'
  BY <1>2, <1>3 DEF IInv, Types0
<1>5. Sum'
  <2>1. Worth(state) \in Int /\ Cost \in Int /\ delivered \in Int
    BY ProductionAssumption DEF IInv, Types0, IsState, IsFactory, Worth, Paid
  <2>2. Cost * (delivered + 1) = Cost * delivered + Cost
    BY <2>1
  <2>3. Cost * delivered \in Int
    BY <2>1
  <2> QED
    BY <1>2, <1>3, <2>1, <2>2, <2>3 DEF IInv, Sum
<1>6. StillBuildable'
  BY <1>2, <1>3 DEF StillBuildable, CanBuildAtAll, WhoCanBuild
<1> QED
  BY <1>4, <1>5, <1>6 DEF IInv

LEMMA BecomesType ==
    ASSUME IInv, NEW b \in Buildings, NEW to \in Conditions
    PROVE  /\ Becomes(b, to) \in [Buildings -> Conditions]
           /\ to # "gone" => NoneGone(building, Becomes(b, to))
BY DEF IInv, Types0, Becomes, NoneGone

LEMMA UpdatedStep ==
    ASSUME IInv, NEW b \in Buildings, NEW from \in Conditions, NEW to \in Conditions \ {"gone"},
           BuildingUpdated(b, from, to)
    PROVE  IInv'
<1>1. PICK made \in Made : state' = UpdateFactories(state, Becomes(b, to), made)
  BY DEF BuildingUpdated
<1>2. building' = Becomes(b, to) /\ UNCHANGED history
  BY DEF BuildingUpdated
<1>3. Keeps(state, state', building')
  BY <1>1, <1>2, UpdateKeeps, MadeIsBoolean, InventoryOf
<1> QED
  BY <1>2, <1>3, KeepingStep, BecomesType

LEMMA LostStep == ASSUME IInv, NEW b \in Buildings, BuildingLost(b) PROVE IInv'
<1>1. PICK made, made2 \in Made :
        state' = UpdateFactories(DetachAll(state, Becomes(b, "gone"), made), Becomes(b, "gone"), made2)
  BY DEF BuildingLost
<1>2. building' = Becomes(b, "gone") /\ UNCHANGED history
  BY DEF BuildingLost
<1> DEFINE s == DetachAll(state, building', made)
<1>3. /\ Keeps(state, s, building')
      /\ s.factory.object = Nobody \/ CanBuildAtAll(building', s.factory.object)
  BY DetachKeeps, MadeIsBoolean, InventoryOf
<1>4. state' = UpdateFactories(s, building', made2)
  BY <1>1, <1>2
<1> HIDE DEF s
<1>5. Keeps(s, state', building')
  BY <1>3, <1>4, UpdateKeeps, MadeIsBoolean DEF Keeps
<1>6. IsState(state') /\ Worth(state') = Worth(state)
  BY <1>3, <1>5 DEF Keeps
<1>7. Types0'
  BY <1>2, <1>6, BecomesType DEF IInv, Types0, history, Conditions
<1>8. Sum'
  BY <1>2, <1>6 DEF IInv, Sum, history
<1>9. state'.factory.object = Nobody \/ CanBuildAtAll(building', state'.factory.object)
  BY <1>3, <1>5 DEF Keeps
<1>10. StillBuildable'
  BY <1>9 DEF StillBuildable, CanBuildAtAll, WhoCanBuild
<1> QED
  BY <1>7, <1>8, <1>10 DEF IInv

LEMMA BaseStep ==
    ASSUME IInv, NEW b \in Buildings,
           \/ Unloaded(b) \/ BuildingPlaced(b) \/ TurnOff(b) \/ TurnOn(b)
           \/ BuildingSold(b) \/ BuildingLost(b)
    PROVE  IInv'
<1>1. CASE Unloaded(b)
  BY <1>1, SameHouse DEF Unloaded, history
<1>2. CASE BuildingPlaced(b) \/ TurnOff(b) \/ TurnOn(b)
  BY <1>2, UpdatedStep DEF BuildingPlaced, TurnOff, TurnOn, Conditions
<1>3. CASE BuildingSold(b)
  <2>1. building' = Becomes(b, "sold") /\ UNCHANGED <<state, history>>
    BY <1>3 DEF BuildingSold
  <2>2. Keeps(state, state', building')
    BY <2>1, KeepsItself, InventoryOf
  <2> QED
    BY <2>1, <2>2, KeepingStep, BecomesType DEF Conditions
<1>4. CASE BuildingLost(b)
  BY <1>4, LostStep
<1> QED
  BY <1>1, <1>2, <1>3, <1>4

LEMMA NextPreserves == IInv /\ [Next]_vars => IInv'
<1> SUFFICES ASSUME IInv, [Next]_vars PROVE IInv'
  OBVIOUS
<1>1. CASE UNCHANGED vars
  BY <1>1, SameHouse DEF vars
<1>2. CASE Earn
  BY <1>2, EarnStep
<1>3. CASE FactoryAI
  BY <1>3, FactoryAIStep
<1>4. CASE SidebarAI
  BY <1>4, SidebarStep
<1>5. CASE Player
  BY <1>5, PlayerStep DEF Player
<1>6. CASE Execute
  BY <1>6, OrderSteps, PlaceQuietSteps, PlaceObjectStep DEF Execute
<1>7. CASE Base
  BY <1>7, BaseStep DEF Base
<1> QED
  BY <1>1, <1>2, <1>3, <1>4, <1>5, <1>6, <1>7 DEF Next

LEMMA Inductive == Spec => []IInv
BY InitEstablishes, NextPreserves, PTL DEF Spec

(* What the house has, what it has paid for the vehicle in work and what the   *)
(* delivered vehicles cost is always what it earned: no handler that suspends, *)
(* abandons, resumes or delivers loses or refunds a credit too many.           *)
THEOREM MoneyIsKept == Spec => []MoneyKept
<1>1. IInv => MoneyKept
  BY SumIsMoneyKept DEF IInv
<1> QED
  BY <1>1, Inductive, PTL

(* Nothing stays in work, nor is taken from the queue into work, when the last *)
(* war factory that could build it is lost.                                    *)
THEOREM NothingOutlivesItsFactory == Spec => []StillBuildable
<1>1. IInv => StillBuildable
  BY DEF IInv
<1> QED
  BY <1>1, Inductive, PTL

------------------------------------------------------------------------------
(* Orders, and the places of a type in the queue.                              *)

Less == {p \in Nat \X Nat : p[1] < p[2]}

\* A set of numbers has a least one.
LEMMA LeastNatural ==
    ASSUME NEW S \in SUBSET Nat, S # {}
    PROVE  \E x \in S : \A y \in S : x <= y
<1>1. OpToRel(<, Nat) = Less
  BY DEF OpToRel, Less
<1>2. IsWellFoundedOn(Less, Nat)
  BY <1>1, NatLessThanWellFounded
<1>3. PICK x \in S : \A y \in S : <<y, x>> \notin Less
  BY <1>2, WFMin
<1>4. ASSUME NEW y \in S PROVE x <= y
  <2>1. ~(y < x)
    BY <1>3, <1>4 DEF Less
  <2> QED
    BY <1>4, <2>1
<1> QED
  BY <1>4

Places(q, t) == {i \in DOMAIN q : q[i] = t}
Count(q, t) == Cardinality(Places(q, t))

LEMMA CountType ==
    ASSUME NEW q \in Seq(Types), NEW t
    PROVE  IsFiniteSet(Places(q, t)) /\ Count(q, t) \in Nat
<1>1. DOMAIN q = 1 .. Len(q) /\ Len(q) \in Nat
  OBVIOUS
<1>2. IsFiniteSet(1 .. Len(q))
  BY <1>1, FS_Interval
<1>3. Places(q, t) \in SUBSET (1 .. Len(q))
  BY <1>1 DEF Places
<1> QED
  BY <1>2, <1>3, FS_Subset, FS_CardinalityType DEF Count

\* What is mapped to different places is counted there.
LEMMA CountMapped ==
    ASSUME NEW q \in Seq(Types), NEW t, NEW S, NEW m \in [S -> Places(q, t)],
           \A i, j \in S : m[i] = m[j] => i = j
    PROVE  Cardinality(S) <= Count(q, t)
<1>1. m \in Injection(S, Places(q, t))
  BY DEF Injection, IsInjective
<1> QED
  BY <1>1, CountType, FS_Injection DEF Count

LEMMA CountAppended ==
    ASSUME NEW q \in Seq(Types), NEW x \in Types, NEW t
    PROVE  Count(Append(q, x), t) = Count(q, t) + (IF x = t THEN 1 ELSE 0)
<1> DEFINE r == Append(q, x)
           n == Len(q) + 1
<1>1. /\ Len(q) \in Nat /\ DOMAIN q = 1 .. Len(q) /\ DOMAIN r = 1 .. n
      /\ r[n] = x /\ \A i \in 1 .. Len(q) : r[i] = q[i]
  OBVIOUS
<1> HIDE DEF r
<1>2. Places(r, t) = IF x = t THEN Places(q, t) \cup {n} ELSE Places(q, t)
  BY <1>1 DEF Places
<1>3. n \notin Places(q, t)
  BY <1>1 DEF Places
<1>4. Cardinality(Places(q, t) \cup {n}) = Cardinality(Places(q, t)) + 1
  BY <1>3, CountType, FS_AddElement
<1> QED
  BY <1>2, <1>4, CountType DEF Count, r

LEMMA CountInTail ==
    ASSUME NEW q \in Seq(Types), q # <<>>, NEW t
    PROVE  /\ Tail(q) \in Seq(Types) /\ Head(q) \in Types
           /\ Count(q, t) <= Count(Tail(q), t) + (IF Head(q) = t THEN 1 ELSE 0)
<1> DEFINE r == Tail(q)
           S == Places(q, t) \ {1}
           m == [i \in S |-> i - 1]
<1>1. /\ r \in Seq(Types) /\ Head(q) \in Types /\ Head(q) = q[1]
      /\ Len(q) \in Nat \ {0} /\ DOMAIN q = 1 .. Len(q)
      /\ DOMAIN r = 1 .. Len(q) - 1
      /\ \A i \in 1 .. Len(q) - 1 : r[i] = q[i + 1]
  OBVIOUS
<1> HIDE DEF r
<1>2. ASSUME NEW i \in S PROVE i - 1 \in Places(r, t) /\ i \in Nat
  <2>1. i \in 2 .. Len(q) /\ q[i] = t
    BY <1>1 DEF Places
  <2>2. i - 1 \in 1 .. Len(q) - 1 /\ (i - 1) + 1 = i
    BY <1>1, <2>1
  <2> QED
    BY <1>1, <2>1, <2>2 DEF Places
<1>3. m \in [S -> Places(r, t)] /\ \A i, j \in S : m[i] = m[j] => i = j
  BY <1>2
<1>4. Cardinality(S) <= Count(r, t)
  <2> HIDE DEF m, S
  <2> QED
    BY <1>1, <1>3, CountMapped
<1>5. Cardinality(S) = IF 1 \in Places(q, t) THEN Count(q, t) - 1 ELSE Count(q, t)
  BY CountType, FS_RemoveElement DEF Count
<1>6. 1 \in Places(q, t) <=> Head(q) = t
  BY <1>1 DEF Places
<1>7. Count(r, t) \in Nat /\ Count(q, t) \in Nat
  BY <1>1, CountType
<1> QED
  BY <1>1, <1>4, <1>5, <1>6, <1>7 DEF r

\* Taking one vehicle out of the queue leaves those of all other types in it.
LEMMA CountWithoutOne ==
    ASSUME NEW q \in Seq(Types), NEW x \in Range(q)
    PROVE  /\ WithoutOne(q, x) \in Seq(Types)
           /\ \A t \in Types \ {x} : Count(q, t) <= Count(WithoutOne(q, x), t)
<1>1. Len(q) \in Nat /\ DOMAIN q = 1 .. Len(q)
  OBVIOUS
<1>2. PICK k \in 1 .. Len(q) : q[k] = x /\ k = CHOOSE i \in DOMAIN q : q[i] = x
  BY <1>1 DEF Range
<1> DEFINE a == SubSeq(q, 1, k - 1)
           b == SubSeq(q, k + 1, Len(q))
           r == WithoutOne(q, x)
<1>3. r = a \o b
  BY <1>2 DEF WithoutOne, RemoveAt
<1> HIDE DEF r
<1>4. /\ a \in Seq(Types) /\ Len(a) = k - 1
      /\ \A i \in 1 .. k - 1 : a[i] = q[i]
  <2>1. k - 1 \in 0 .. Len(q)
    BY <1>1, <1>2
  <2>2. \A i \in 1 .. k - 1 : q[i] \in Types
    BY <1>1, <1>2
  <2> QED
    BY <1>1, <1>2, <2>1, <2>2, SubSeqProperties
<1>5. /\ b \in Seq(Types) /\ Len(b) = Len(q) - k
      /\ \A i \in 1 .. Len(q) - k : b[i] = q[k + i]
  <2>1. \A i \in k + 1 .. Len(q) : q[i] \in Types
    BY <1>1, <1>2
  <2>2. b \in Seq(Types)
    BY <1>1, <1>2, <2>1, SubSeqProperties
  <2>3. Len(b) = Len(q) - k
    <3>1. k + 1 \in Int /\ Len(q) \in Int /\ Len(q) - (k + 1) + 1 = Len(q) - k
      BY <1>1, <1>2
    <3>2. CASE k + 1 <= Len(q)
      BY <2>1, <3>1, <3>2, SubSeqProperties
    <3>3. CASE ~(k + 1 <= Len(q))
      <4>1. Len(b) = 0
        BY <2>1, <3>1, <3>3, SubSeqProperties
      <4>2. k = Len(q)
        BY <1>1, <1>2, <3>3
      <4> QED
        BY <1>1, <4>1, <4>2
    <3> QED
      BY <3>2, <3>3
  <2>4. ASSUME NEW i \in 1 .. Len(q) - k PROVE b[i] = q[k + i]
    BY <1>1, <1>2, SubSeqProperties
  <2> QED
    BY <2>2, <2>3, <2>4
<1> HIDE DEF a, b
<1>6. /\ r \in Seq(Types) /\ DOMAIN r = 1 .. Len(q) - 1
      /\ \A i \in 1 .. k - 1 : r[i] = q[i]
      /\ \A i \in k .. Len(q) - 1 : r[i] = q[i + 1]
  <2>1. r \in Seq(Types) /\ Len(r) = Len(q) - 1
    BY <1>2, <1>3, <1>4, <1>5, ConcatProperties
  <2>2. \A i \in 1 .. k - 1 : r[i] = q[i]
    BY <1>2, <1>3, <1>4, <1>5, ConcatProperties
  <2>3. ASSUME NEW i \in k .. Len(q) - 1 PROVE r[i] = q[i + 1]
    <3>1. i - (k - 1) \in 1 .. Len(q) - k /\ k + (i - (k - 1)) = i + 1
      BY <1>1, <1>2
    <3>2. r[i] = b[i - (k - 1)]
      BY <1>1, <1>2, <1>3, <1>4, <1>5, ConcatProperties
    <3> QED
      BY <1>5, <3>1, <3>2
  <2> QED
    BY <2>1, <2>2, <2>3
<1>7. ASSUME NEW t \in Types \ {x} PROVE Count(q, t) <= Count(r, t)
  <2> DEFINE S == Places(q, t)
             m == [i \in S |-> IF i < k THEN i ELSE i - 1]
  <2>1. ASSUME NEW i \in S PROVE m[i] \in Places(r, t) /\ i \in Nat /\ i # k
    <3>1. i \in 1 .. Len(q) /\ q[i] = t /\ i # k
      BY <1>1, <1>2 DEF Places
    <3>2. CASE i < k
      <4>1. i \in 1 .. k - 1 /\ i \in 1 .. Len(q) - 1 /\ m[i] = i
        BY <1>1, <1>2, <3>1, <3>2
      <4> QED
        BY <1>6, <3>1, <4>1 DEF Places
    <3>3. CASE ~(i < k)
      <4>1. i - 1 \in k .. Len(q) - 1 /\ i - 1 \in 1 .. Len(q) - 1 /\ (i - 1) + 1 = i /\ m[i] = i - 1
        BY <1>1, <1>2, <3>1, <3>3
      <4>2. r[i - 1] = q[i]
        BY <1>6, <4>1
      <4> QED
        BY <1>6, <3>1, <4>1, <4>2 DEF Places
    <3> QED
      BY <3>1, <3>2, <3>3
  <2>2. m \in [S -> Places(r, t)] /\ \A i, j \in S : m[i] = m[j] => i = j
    BY <1>2, <2>1
  <2> HIDE DEF m
  <2> QED
    BY <1>6, <2>2, CountMapped DEF Count
<1> QED
  BY <1>6, <1>7 DEF r

------------------------------------------------------------------------------
(* The loop of Update_Factories through the queue, as the function that gives  *)
(* what is kept of the vehicles up to each place.                              *)

Longer(q, bs, kept, i) ==
    IF i = 0 THEN <<>>
    ELSE IF CanBuildAtAll(bs, q[i]) THEN Append(kept[i - 1], q[i]) ELSE kept[i - 1]
Lengthens(q, bs, kept) == kept = [i \in 0 .. Len(q) |-> Longer(q, bs, kept, i)]

LEMMA LoopEnds ==
    ASSUME NEW q \in Seq(Types), NEW bs
    PROVE  \E kept : Lengthens(q, bs, kept)
<1> DEFINE Upto(n, kept) == \A i \in 0 .. n : kept[i] = Longer(q, bs, kept, i)
           bad == {n \in Nat : \A kept : ~Upto(n, kept)}
<1>1. bad = {}
  <2> SUFFICES ASSUME bad # {} PROVE FALSE
    OBVIOUS
  <2>1. PICK n \in bad : \A i \in bad : n <= i
    <3>1. bad \in SUBSET Nat
      OBVIOUS
    <3> HIDE DEF bad
    <3> QED
      BY <3>1, LeastNatural
  <2>2. CASE n = 0
    <3>1. Upto(0, [i \in {0} |-> <<>>])
      BY DEF Longer
    <3> QED
      BY <2>2, <3>1
  <2>3. CASE n # 0
    <3>1. n \in Nat /\ n - 1 \in Nat /\ ~(n <= n - 1)
      BY <2>3
    <3>2. PICK kept : Upto(n - 1, kept)
      BY <2>1, <3>1
    <3> DEFINE more == [i \in 0 .. n |-> Longer(q, bs, kept, i)]
    <3>3. ASSUME NEW i \in 0 .. n PROVE more[i] = Longer(q, bs, more, i)
      <4>1. CASE i = 0
        BY <4>1 DEF Longer
      <4>2. CASE i # 0
        <5>1. i - 1 \in 0 .. n - 1 /\ i - 1 \in 0 .. n
          BY <3>1, <4>2
        <5>2. more[i - 1] = kept[i - 1]
          BY <3>2, <5>1
        <5> QED
          BY <4>2, <5>2 DEF Longer
      <4> QED
        BY <4>1, <4>2
    <3>4. Upto(n, more)
      BY <3>3
    <3> QED
      BY <3>4
  <2> QED
    BY <2>2, <2>3
<1>2. Len(q) \in Nat
  OBVIOUS
<1>3. PICK kept : Upto(Len(q), kept)
  BY <1>1, <1>2
<1> DEFINE all == [i \in 0 .. Len(q) |-> kept[i]]
<1>4. ASSUME NEW i \in 0 .. Len(q) PROVE all[i] = Longer(q, bs, all, i)
  <2>1. kept[i] = Longer(q, bs, kept, i)
    BY <1>3
  <2>2. i # 0 => i - 1 \in 0 .. Len(q)
    BY <1>2
  <2> QED
    BY <2>1, <2>2 DEF Longer
<1>5. all = [i \in 0 .. Len(q) |-> Longer(q, bs, all, i)]
  BY <1>4
<1> QED
  BY <1>5 DEF Lengthens

LEMMA PurgeUnfolds ==
    ASSUME NEW f, f.queue \in Seq(Types), NEW bs
    PROVE  \E kept : /\ Lengthens(f.queue, bs, kept)
                     /\ Purged(f, bs) = [f EXCEPT !.queue = kept[Len(f.queue)]]
<1> DEFINE kept == CHOOSE kept : Lengthens(f.queue, bs, kept)
<1>1. Lengthens(f.queue, bs, kept)
  BY LoopEnds, Zenon
<1>2. Purged(f, bs) = [f EXCEPT !.queue = kept[Len(f.queue)]]
  BY DEF Purged, Lengthens, Longer
<1> QED
  BY <1>1, <1>2

\* What can be built is still in the queue after it.
LEMMA PurgeKeeps ==
    ASSUME NEW q \in Seq(Types), NEW bs, NEW kept, Lengthens(q, bs, kept)
    PROVE  /\ kept[Len(q)] \in Seq(Types)
           /\ \A t \in Types : CanBuildAtAll(bs, t) => Count(q, t) <= Count(kept[Len(q)], t)
<1> DEFINE Before(i, t) == {j \in 1 .. i : q[j] = t}
           Good(i) == /\ kept[i] \in Seq(Types)
                      /\ \A t \in Types : CanBuildAtAll(bs, t) =>
                            Cardinality(Before(i, t)) <= Count(kept[i], t)
           bad == {i \in 0 .. Len(q) : ~Good(i)}
<1>1. Len(q) \in Nat /\ DOMAIN q = 1 .. Len(q)
  OBVIOUS
<1>2. \A i \in 0 .. Len(q) : kept[i] = Longer(q, bs, kept, i)
  BY DEF Lengthens
<1>3. bad = {}
  <2> SUFFICES ASSUME bad # {} PROVE FALSE
    OBVIOUS
  <2>1. PICK i \in bad : \A j \in bad : i <= j
    <3>1. bad \in SUBSET Nat
      BY <1>1
    <3> HIDE DEF bad
    <3> QED
      BY <3>1, LeastNatural
  <2>2. CASE i = 0
    <3>1. kept[0] = <<>>
      BY <1>1, <1>2 DEF Longer
    <3>2. \A t : Before(0, t) = {}
      OBVIOUS
    <3>3. <<>> \in Seq(Types)
      OBVIOUS
    <3>4. Cardinality({}) = 0
      BY FS_EmptySet
    <3>5. ASSUME NEW t \in Types PROVE Cardinality(Before(0, t)) <= Count(kept[0], t)
      <4>1. Count(<<>>, t) \in Nat
        BY <3>3, CountType
      <4>2. Cardinality(Before(0, t)) = 0
        BY <3>2, <3>4
      <4> HIDE DEF Before
      <4> QED
        BY <3>1, <4>1, <4>2
    <3>6. Good(0)
      BY <3>1, <3>3, <3>5
    <3> QED
      BY <2>1, <2>2, <3>6
  <2>3. CASE i # 0
    <3>1. i \in 1 .. Len(q) /\ i - 1 \in 0 .. Len(q) /\ ~(i <= i - 1)
      BY <1>1, <2>3
    <3>2. Good(i - 1)
      BY <2>1, <3>1
    <3>3. q[i] \in Types /\ kept[i - 1] \in Seq(Types)
      BY <1>1, <3>1, <3>2
    <3>4. kept[i] = IF CanBuildAtAll(bs, q[i]) THEN Append(kept[i - 1], q[i]) ELSE kept[i - 1]
      BY <1>2, <2>3 DEF Longer
    <3>5. kept[i] \in Seq(Types)
      BY <3>3, <3>4
    <3>6. ASSUME NEW t \in Types, CanBuildAtAll(bs, t)
          PROVE  Cardinality(Before(i, t)) <= Count(kept[i], t)
      <4>1. Cardinality(Before(i - 1, t)) <= Count(kept[i - 1], t)
        BY <3>2, <3>6
      <4>2. IsFiniteSet(Before(i - 1, t)) /\ Cardinality(Before(i - 1, t)) \in Nat
        <5>1. Before(i - 1, t) \in SUBSET (1 .. i - 1)
          OBVIOUS
        <5>2. IsFiniteSet(1 .. i - 1)
          BY <3>1, FS_Interval
        <5> QED
          BY <5>1, <5>2, FS_Subset, FS_CardinalityType
      <4>3. Before(i, t) = IF q[i] = t THEN Before(i - 1, t) \cup {i} ELSE Before(i - 1, t)
        BY <3>1
      <4>4. i \notin Before(i - 1, t)
        BY <3>1
      <4> HIDE DEF Before
      <4>5. Cardinality(Before(i, t)) = Cardinality(Before(i - 1, t)) + (IF q[i] = t THEN 1 ELSE 0)
        <5>1. Cardinality(Before(i - 1, t) \cup {i}) = Cardinality(Before(i - 1, t)) + 1
          BY <4>2, <4>4, FS_AddElement
        <5> QED
          BY <4>2, <4>3, <5>1
      <4>6. Count(kept[i - 1], t) \in Nat
        BY <3>3, CountType
      <4>7. CASE CanBuildAtAll(bs, q[i])
        <5>1. Count(kept[i], t) = Count(kept[i - 1], t) + (IF q[i] = t THEN 1 ELSE 0)
          BY <3>3, <3>4, <4>7, CountAppended
        <5> QED
          BY <4>1, <4>2, <4>5, <4>6, <5>1
      <4>8. CASE ~CanBuildAtAll(bs, q[i])
        <5>1. kept[i] = kept[i - 1] /\ q[i] # t
          BY <3>4, <3>6, <4>8
        <5> QED
          BY <4>1, <4>2, <4>5, <5>1
      <4> QED
        BY <4>7, <4>8
    <3>7. Good(i)
      BY <3>5, <3>6
    <3> QED
      BY <3>7
  <2> QED
    BY <2>2, <2>3
<1>4. Good(Len(q))
  <2>1. Len(q) \in 0 .. Len(q)
    BY <1>1
  <2> QED
    BY <1>3, <2>1
<1>5. \A t : Before(Len(q), t) = Places(q, t)
  BY <1>1 DEF Places
<1> QED
  BY <1>4, <1>5 DEF Count

------------------------------------------------------------------------------
(* What no operation on a house destroys: its type, and the orders for the     *)
(* vehicles of a set.                                                          *)

Works(f) ==
    /\ f \in Factory
    /\ ~f.exists => f.object = Nobody /\ f.queue = <<>>

House(s) ==
    /\ s \in [factory : Factory, money : Nat]
    /\ Works(s.factory)

Serves(s, u, kept) ==
    /\ House(u)
    /\ \A t \in kept : Ordered(s.factory, t) <= Ordered(u.factory, t)

\* When every object that is wanted is made, what can be built is kept.
Kept(bs, made) == {t \in Types : made /\ CanBuildAtAll(bs, t)}

LEMMA OrderedIsCount ==
    ASSUME NEW f, NEW t
    PROVE  Ordered(f, t) = Count(f.queue, t) + (IF f.object = t THEN 1 ELSE 0)
BY DEF Ordered, Count, Places

LEMMA OrderedType ==
    ASSUME NEW f, Works(f), NEW t
    PROVE  Ordered(f, t) \in Nat /\ Count(f.queue, t) \in Nat
<1>1. f.queue \in Seq(Types)
  BY DEF Works, Factory
<1>2. Count(f.queue, t) \in Nat
  BY <1>1, CountType
<1> QED
  BY <1>2, OrderedIsCount

LEMMA ServesItself ==
    ASSUME NEW s, House(s), NEW kept
    PROVE  Serves(s, s, kept)
BY OrderedType DEF House, Serves

LEMMA ServesTransitively ==
    ASSUME NEW s, House(s), NEW u, NEW v, NEW kept, Serves(s, u, kept), Serves(u, v, kept)
    PROVE  Serves(s, v, kept)
<1>1. Works(s.factory) /\ Works(u.factory) /\ Works(v.factory)
  BY DEF House, Serves
<1> SUFFICES ASSUME NEW t \in kept PROVE Ordered(s.factory, t) <= Ordered(v.factory, t)
  BY DEF Serves
<1>2. /\ Ordered(s.factory, t) \in Nat /\ Ordered(u.factory, t) \in Nat /\ Ordered(v.factory, t) \in Nat
  BY <1>1, OrderedType
<1>3. Ordered(s.factory, t) <= Ordered(u.factory, t) /\ Ordered(u.factory, t) <= Ordered(v.factory, t)
  BY DEF Serves
<1> QED
  BY <1>2, <1>3

LEMMA ServesFewer ==
    ASSUME NEW s, NEW u, NEW kept, NEW fewer \in SUBSET kept, Serves(s, u, kept)
    PROVE  Serves(s, u, fewer)
BY DEF Serves

LEMMA WithFactoryServes ==
    ASSUME NEW s, House(s), NEW f, Works(f), NEW kept,
           \A t \in kept : Ordered(s.factory, t) <= Ordered(f, t)
    PROVE  Serves(s, WithFactory(s, f), kept) /\ WithFactory(s, f).factory = f
<1>1. /\ WithFactory(s, f) \in [factory : Factory, money : Nat]
      /\ WithFactory(s, f).factory = f
  BY DEF WithFactory, House, Works
<1> QED
  BY <1>1 DEF Serves, House

\* The same orders, however else the factory changes.
LEMMA SameOrders ==
    ASSUME NEW f, Works(f), NEW g, g.object = f.object, g.queue = f.queue, NEW t
    PROVE  Ordered(f, t) <= Ordered(g, t)
<1>1. Ordered(g, t) = Ordered(f, t)
  BY DEF Ordered
<1> QED
  BY <1>1, OrderedType

LEMMA NewFactoryWorks ==
    /\ Works(NewFactory) /\ Works(NoFactory)
    /\ NewFactory.exists /\ NewFactory.object = Nobody /\ NewFactory.queue = <<>>
    /\ ~NewFactory.suspended
    /\ ~NoFactory.exists /\ NoFactory.object = Nobody /\ NoFactory.queue = <<>>
<1>1. 0 \in 0 .. Cost /\ 0 \in 0 .. Steps
  BY ProductionAssumption
<1>2. <<>> \in Seq(Types)
  OBVIOUS
<1>3. /\ NewFactory \in Factory
      /\ NewFactory.exists /\ NewFactory.object = Nobody /\ NewFactory.queue = <<>>
      /\ ~NewFactory.suspended
  BY <1>1, <1>2 DEF NewFactory, Factory
<1>4. /\ NoFactory \in Factory
      /\ ~NoFactory.exists /\ NoFactory.object = Nobody /\ NoFactory.queue = <<>>
  BY <1>1, <1>2 DEF NoFactory, NewFactory, Factory
<1> QED
  BY <1>3, <1>4 DEF Works

LEMMA NothingOrdered ==
    ASSUME NEW f, Works(f), f.object = Nobody, f.queue = <<>>, NEW t \in Types, NEW g, Works(g)
    PROVE  Ordered(f, t) <= Ordered(g, t)
<1>1. Places(<<>>, t) = {}
  BY DEF Places
<1>2. Count(f.queue, t) = 0
  BY <1>1, FS_EmptySet DEF Count
<1>3. f.object # t
  BY ProductionAssumption
<1> QED
  BY <1>2, <1>3, OrderedIsCount, OrderedType

LEMMA SuspendedWorks ==
    ASSUME NEW f, Works(f), NEW hold \in BOOLEAN
    PROVE  /\ Works(Suspended(f, hold))
           /\ Suspended(f, hold).object = f.object
           /\ Suspended(f, hold).queue = f.queue
           /\ Suspended(f, hold).exists = f.exists
<1>1. /\ Suspended(f, hold) \in Factory
      /\ Suspended(f, hold).object = f.object
      /\ Suspended(f, hold).queue = f.queue
      /\ Suspended(f, hold).exists = f.exists
  BY DEF Suspended, Works, Factory
<1> QED
  BY <1>1 DEF Works

LEMMA StartedWorks ==
    ASSUME NEW f, Works(f), NEW money, NEW hold \in BOOLEAN
    PROVE  /\ Works(Started(f, money, hold))
           /\ Started(f, money, hold).object = f.object
           /\ Started(f, money, hold).queue = f.queue
           /\ Started(f, money, hold).exists = f.exists
<1> DEFINE g == [f EXCEPT !.suspended = FALSE]
           h == [g EXCEPT !.onhold = TRUE]
           Like(x) == /\ Works(x) /\ x.object = f.object /\ x.queue = f.queue /\ x.exists = f.exists
<1>1. g \in Factory /\ g.object = f.object /\ g.queue = f.queue /\ g.exists = f.exists
  BY DEF Works, Factory
<1>2. Like(g)
  BY <1>1 DEF Works
<1>3. h \in Factory /\ h.object = f.object /\ h.queue = f.queue /\ h.exists = f.exists
  <2> HIDE DEF g
  <2> QED
    BY <1>1 DEF Factory
<1>4. Like(h)
  BY <1>2, <1>3 DEF Works
<1>5. Like(Suspended(h, TRUE))
  <2> HIDE DEF h
  <2> QED
    BY <1>4, SuspendedWorks
<1>6. Started(f, money, hold) \in {f, g, h, Suspended(h, TRUE)}
  BY DEF Started
<1> HIDE DEF g, h
<1> QED
  BY <1>2, <1>4, <1>5, <1>6

LEMMA SetToWorks ==
    ASSUME NEW f, Works(f), f.exists, NEW t \in Types, NEW resume \in BOOLEAN
    PROVE  /\ Works(SetTo(f, t, resume))
           /\ SetTo(f, t, resume).exists
           /\ \A v \in Types : Ordered(f, v) <= Ordered(SetTo(f, t, resume), v)
           /\ MakesObject(f, resume) => /\ SetTo(f, t, resume).object = t
                                        /\ SetTo(f, t, resume).queue = f.queue
<1>1. CASE MakesObject(f, resume)
  <2> DEFINE g == [f EXCEPT !.object = t, !.balance = Cost, !.stage = 0,
                            !.suspended = TRUE, !.different = TRUE]
  <2>1. SetTo(f, t, resume) = g
    BY <1>1 DEF SetTo
  <2>2. Cost \in 0 .. Cost /\ 0 \in 0 .. Steps
    BY ProductionAssumption
  <2>3. g \in Factory /\ g.object = t /\ g.queue = f.queue /\ g.exists = f.exists
    BY <2>2 DEF Works, Factory
  <2> HIDE DEF g
  <2>4. Works(g)
    BY <2>3 DEF Works
  <2>5. ASSUME NEW v \in Types PROVE Ordered(f, v) <= Ordered(g, v)
    <3>1. f.object # v
      BY <1>1, ProductionAssumption DEF MakesObject
    <3> QED
      BY <2>3, <2>4, <3>1, OrderedIsCount, OrderedType
  <2> QED
    BY <2>1, <2>3, <2>4, <2>5
<1>2. CASE ~MakesObject(f, resume)
  <2> DEFINE g == [f EXCEPT !.queue = Append(@, t)]
  <2>1. SetTo(f, t, resume) = g
    BY <1>2 DEF SetTo
  <2>2. g \in Factory /\ g.object = f.object /\ g.queue = Append(f.queue, t) /\ g.exists = f.exists
    <3>1. f.queue \in Seq(Types) /\ f \in Factory
      BY DEF Works, Factory
    <3> DEFINE q == Append(f.queue, t)
    <3>2. q \in Seq(Types)
      BY <3>1
    <3> HIDE DEF q
    <3>3. [f EXCEPT !.queue = q] \in Factory
      BY <3>1, <3>2 DEF Factory
    <3>4. g = [f EXCEPT !.queue = q]
      BY DEF q
    <3>5. g.queue = q /\ g.object = f.object /\ g.exists = f.exists
      BY <3>1, <3>4 DEF Factory
    <3> QED
      BY <3>3, <3>4, <3>5 DEF q
  <2> HIDE DEF g
  <2>3. Works(g)
    BY <2>2 DEF Works
  <2>4. ASSUME NEW v \in Types PROVE Ordered(f, v) <= Ordered(g, v)
    <3>1. f.queue \in Seq(Types)
      BY DEF Works, Factory
    <3>2. Count(g.queue, v) = Count(f.queue, v) + (IF t = v THEN 1 ELSE 0)
      BY <2>2, <3>1, CountAppended
    <3>3. /\ Ordered(f, v) = Count(f.queue, v) + (IF f.object = v THEN 1 ELSE 0)
          /\ Ordered(g, v) = Count(g.queue, v) + (IF f.object = v THEN 1 ELSE 0)
      BY <2>2, OrderedIsCount
    <3>4. Count(f.queue, v) \in Nat /\ Count(g.queue, v) \in Nat
      BY <2>3, OrderedType
    <3> QED
      BY <3>2, <3>3, <3>4
  <2> QED
    BY <1>2, <2>1, <2>2, <2>3, <2>4
<1> QED
  BY <1>1, <1>2

LEMMA AbandonedServes ==
    ASSUME NEW s, House(s)
    PROVE  /\ Serves(s, Abandoned(s), Types \ {s.factory.object})
           /\ Abandoned(s).factory.object = Nobody
           /\ Abandoned(s).factory.exists = s.factory.exists
<1>1. CASE s.factory.object = Nobody
  BY <1>1, ServesItself DEF Abandoned
<1>2. CASE s.factory.object # Nobody
  <2> DEFINE f == s.factory
             g == [f EXCEPT !.object = Nobody, !.balance = 0, !.stage = 0,
                            !.suspended = TRUE, !.different = TRUE]
  <2>1. f.balance \in 0 .. Cost /\ s.money \in Nat /\ 0 \in 0 .. Cost /\ 0 \in 0 .. Steps
    BY ProductionAssumption DEF House, Works, Factory
  <2>2. s.money + (Cost - f.balance) \in Nat
    BY <2>1, ProductionAssumption
  <2>3. g \in Factory /\ g.object = Nobody /\ g.queue = f.queue /\ g.exists = f.exists
    BY <2>1 DEF House, Works, Factory
  <2>4. Abandoned(s) = [factory |-> g, money |-> s.money + (Cost - f.balance)]
    BY <1>2 DEF Abandoned
  <2> HIDE DEF g
  <2>5. Works(g) /\ Works(f)
    BY <2>3 DEF House, Works
  <2>6. House(Abandoned(s)) /\ Abandoned(s).factory = g
    BY <2>2, <2>3, <2>4, <2>5 DEF House
  <2>7. ASSUME NEW t \in Types \ {f.object} PROVE Ordered(f, t) <= Ordered(g, t)
    <3>1. Nobody # t
      BY ProductionAssumption
    <3> QED
      BY <2>3, <2>5, <3>1, OrderedIsCount, OrderedType
  <2> QED
    BY <2>3, <2>6, <2>7 DEF Serves
<1> QED
  BY <1>1, <1>2

\* No order is lost by it; and what is taken from the queue is in work then.
LEMMA BeginServes ==
    ASSUME NEW s, House(s), NEW bs, NEW t \in Types, NEW resume \in BOOLEAN, NEW made \in BOOLEAN
    PROVE  LET u == BeginProduction(s, bs, t, resume, made) IN
           /\ Serves(s, u, Types)
           /\ (made /\ resume /\ CanBuildAtAll(bs, t) /\ s.factory.exists /\ s.factory.object = Nobody)
                => u.factory.object = t /\ u.factory.queue = s.factory.queue
<1> DEFINE onhold == ~CanBuildNow(bs, t)
           f == IF s.factory.exists THEN s.factory ELSE NewFactory
           skipset == f.suspended /\ ~f.holding /\ f.object = t
           g == IF skipset THEN f ELSE SetTo(f, t, resume)
           h == Started(g, s.money, onhold)
           n == IF f.queue = <<>> THEN NoFactory ELSE f
           u == BeginProduction(s, bs, t, resume, made)
           Retains(x) == \A v \in Types : Ordered(s.factory, v) <= Ordered(x, v)
           Resumed == /\ made /\ resume /\ CanBuildAtAll(bs, t)
                      /\ s.factory.exists /\ s.factory.object = Nobody
           Takes(x) == Resumed => x.object = t /\ x.queue = s.factory.queue
<1>1. Works(s.factory) /\ Works(f) /\ f.exists
  BY NewFactoryWorks DEF House
<1>2. Retains(f)
  <2>1. CASE s.factory.exists
    BY <1>1, <2>1, OrderedType
  <2>2. CASE ~s.factory.exists
    BY <1>1, <2>2, NothingOrdered DEF Works
  <2> QED
    BY <2>1, <2>2
<1>3. Resumed => ~skipset /\ MakesObject(f, resume) /\ f = s.factory
  BY ProductionAssumption DEF MakesObject
<1>4. Works(g) /\ g.exists /\ Retains(g) /\ Takes(g)
  <2>1. CASE skipset
    BY <1>1, <1>2, <1>3, <2>1
  <2>2. CASE ~skipset
    <3>1. g = SetTo(f, t, resume)
      BY <2>2
    <3> HIDE DEF f, g, skipset
    <3>2. Works(g) /\ g.exists /\ \A v \in Types : Ordered(f, v) <= Ordered(g, v)
      BY <1>1, <3>1, SetToWorks
    <3>3. MakesObject(f, resume) => g.object = t /\ g.queue = f.queue
      BY <1>1, <3>1, SetToWorks
    <3>4. Takes(g)
      BY <1>3, <3>3
    <3>5. ASSUME NEW v \in Types PROVE Ordered(s.factory, v) <= Ordered(g, v)
      <4>1. /\ Ordered(s.factory, v) \in Nat /\ Ordered(f, v) \in Nat /\ Ordered(g, v) \in Nat
        BY <1>1, <3>2, OrderedType
      <4>2. Ordered(s.factory, v) <= Ordered(f, v) /\ Ordered(f, v) <= Ordered(g, v)
        BY <1>2, <3>2
      <4> QED
        BY <4>1, <4>2
    <3> QED
      BY <3>2, <3>4, <3>5
  <2> QED
    BY <2>1, <2>2
<1>5. Works(h) /\ Retains(h) /\ Takes(h)
  <2>1. onhold \in BOOLEAN
    BY DEF CanBuildNow
  <2> HIDE DEF g, onhold
  <2>2. Works(h) /\ h.object = g.object /\ h.queue = g.queue
    BY <1>4, <2>1, StartedWorks
  <2> HIDE DEF h
  <2>3. Takes(h)
    BY <1>4, <2>2
  <2>4. \A v \in Types : Ordered(h, v) = Ordered(g, v)
    BY <2>2 DEF Ordered
  <2> QED
    BY <1>4, <2>2, <2>3, <2>4
<1>6. ASSUME NEW x, Works(x), Retains(x), Takes(x), u = WithFactory(s, x)
      PROVE  Serves(s, u, Types) /\ (Resumed => u.factory.object = t /\ u.factory.queue = s.factory.queue)
  <2> HIDE DEF u
  <2>1. Serves(s, WithFactory(s, x), Types) /\ WithFactory(s, x).factory = x
    BY <1>6, WithFactoryServes
  <2> QED
    BY <1>6, <2>1
<1>7. CASE onhold /\ ~(resume /\ CanBuildAtAll(bs, t))
  <2>1. u = s
    BY <1>7 DEF BeginProduction
  <2> HIDE DEF u
  <2> QED
    BY <1>7, <2>1, ServesItself DEF u
<1>8. CASE ~(onhold /\ ~(resume /\ CanBuildAtAll(bs, t)))
  <2>1. CASE ~skipset /\ MakesObject(f, resume) /\ ~made
    <3>1. u = WithFactory(s, n)
      BY <1>8, <2>1 DEF BeginProduction
    <3>2. Works(n) /\ Retains(n)
      <4>1. CASE f.queue = <<>>
        <5>1. n = NoFactory /\ f.object = Nobody /\ f.queue = <<>>
          BY <2>1, <4>1 DEF MakesObject
        <5>2. \A v \in Types : Ordered(s.factory, v) <= Ordered(NoFactory, v)
          <6>1. s.factory.object = Nobody /\ s.factory.queue = <<>>
            BY <1>1, <5>1 DEF Works
          <6> QED
            BY <1>1, <6>1, NothingOrdered, NewFactoryWorks
        <5> QED
          BY <5>1, <5>2, NewFactoryWorks
      <4>2. CASE f.queue # <<>>
        BY <1>1, <1>2, <4>2
      <4> QED
        BY <4>1, <4>2
    <3>3. Takes(n)
      BY <2>1
    <3> HIDE DEF n, u, Retains, Takes
    <3> QED
      BY <3>1, <3>2, <3>3, <1>6 DEF u
  <2>2. CASE ~(~skipset /\ MakesObject(f, resume) /\ ~made)
    <3>1. u = WithFactory(s, g) \/ u = WithFactory(s, h)
      BY <1>8, <2>2 DEF BeginProduction
    <3> HIDE DEF g, h, u, Retains, Takes
    <3> QED
      BY <1>4, <1>5, <1>6, <3>1 DEF u
  <2> QED
    BY <2>1, <2>2
<1> QED
  BY <1>7, <1>8

LEMMA ResumeServes ==
    ASSUME NEW s, House(s), NEW bs, NEW made \in BOOLEAN
    PROVE  Serves(s, ResumeQueue(s, bs, made), Kept(bs, made))
<1> DEFINE f == s.factory
           q == Tail(f.queue)
           g == [f EXCEPT !.queue = Tail(@)]
           r == WithFactory(s, g)
           u == BeginProduction(r, bs, Head(f.queue), TRUE, made)
<1>1. CASE ~(f.queue # <<>> /\ f.object = Nobody /\ f.suspended)
  BY <1>1, ServesItself DEF ResumeQueue
<1>2. CASE f.queue # <<>> /\ f.object = Nobody /\ f.suspended
  <2>1. ResumeQueue(s, bs, made) = u
    BY <1>2 DEF ResumeQueue
  <2>2. f \in Factory /\ f.queue \in Seq(Types) /\ Works(f) /\ f.exists
    BY <1>2 DEF House, Works, Factory
  <2>3. q \in Seq(Types) /\ Head(f.queue) \in Types
    BY <1>2, <2>2, CountInTail
  <2>4. g \in Factory /\ g.object = Nobody /\ g.queue = q /\ g.exists = f.exists
    <3>1. g = [f EXCEPT !.queue = q]
      OBVIOUS
    <3> HIDE DEF q
    <3>2. [f EXCEPT !.queue = q] \in Factory
      BY <2>2, <2>3 DEF Factory
    <3>3. g.object = Nobody /\ g.queue = q /\ g.exists = f.exists
      BY <1>2, <2>2, <3>1 DEF Factory
    <3> QED
      BY <3>1, <3>2, <3>3
  <2> HIDE DEF g
  <2>5. Works(g)
    BY <2>2, <2>4 DEF Works
  <2>6. Serves(s, r, {}) /\ r.factory = g
    BY <2>5, WithFactoryServes
  <2>7. House(r)
    BY <2>6 DEF Serves
  <2> HIDE DEF r
  <2>8. /\ Serves(r, u, Types)
        /\ (made /\ CanBuildAtAll(bs, Head(f.queue)))
              => u.factory.object = Head(f.queue) /\ u.factory.queue = r.factory.queue
    BY <2>2, <2>3, <2>4, <2>6, <2>7, BeginServes
  <2> HIDE DEF u
  <2>9. House(u) /\ Works(u.factory)
    BY <2>8 DEF Serves, House
  <2>10. ASSUME NEW t \in Types, made, CanBuildAtAll(bs, t)
         PROVE  Ordered(f, t) <= Ordered(u.factory, t)
    <3>1. Count(f.queue, t) <= Count(q, t) + (IF Head(f.queue) = t THEN 1 ELSE 0)
      BY <1>2, <2>2, CountInTail
    <3>2. Count(f.queue, t) \in Nat /\ Count(q, t) \in Nat
      BY <2>2, <2>3, CountType
    <3>3. f.object # t
      BY <1>2, ProductionAssumption
    <3>4. Ordered(f, t) = Count(f.queue, t)
      BY <3>2, <3>3, OrderedIsCount
    <3>5. Ordered(u.factory, t) \in Nat
      BY <2>9, OrderedType
    <3>6. CASE Head(f.queue) = t
      <4>1. u.factory.object = t /\ u.factory.queue = q
        BY <2>4, <2>6, <2>8, <2>10, <3>6
      <4>2. Ordered(u.factory, t) = Count(q, t) + 1
        BY <4>1, OrderedIsCount
      <4> QED
        BY <3>1, <3>2, <3>4, <3>6, <4>2
    <3>7. CASE Head(f.queue) # t
      <4>1. Ordered(r.factory, t) <= Ordered(u.factory, t)
        BY <2>8 DEF Serves
      <4>2. Ordered(r.factory, t) = Count(q, t)
        <5>1. r.factory.object # t /\ r.factory.queue = q
          BY <2>4, <2>6, ProductionAssumption
        <5> QED
          BY <3>2, <5>1, OrderedIsCount
      <4> QED
        BY <3>1, <3>2, <3>4, <3>5, <3>7, <4>1, <4>2
    <3> QED
      BY <3>6, <3>7
  <2> QED
    BY <2>1, <2>9, <2>10 DEF Serves, Kept
<1> QED
  BY <1>1, <1>2

\* Only what was in work may be lost.
LEMMA AbandonServes ==
    ASSUME NEW s, House(s), NEW bs, NEW made \in BOOLEAN
    PROVE  Serves(s, AbandonProduction(s, bs, made), Kept(bs, made) \ {s.factory.object})
<1> DEFINE a == Abandoned(s)
           u == AbandonProduction(s, bs, made)
           kept == Kept(bs, made) \ {s.factory.object}
<1>1. Serves(s, a, kept) /\ a.factory.object = Nobody
  BY AbandonedServes, ServesFewer DEF Kept
<1>2. House(a)
  BY <1>1 DEF Serves
<1>3. Serves(a, u, kept)
  <2>1. CASE a.factory.queue = <<>>
    <3>1. u = WithFactory(a, NoFactory)
      BY <2>1 DEF AbandonProduction
    <3> HIDE DEF a, u
    <3>2. Works(a.factory)
      BY <1>2 DEF House
    <3>3. \A t \in Types : Ordered(a.factory, t) <= Ordered(NoFactory, t)
      BY <1>1, <2>1, <3>2, NothingOrdered, NewFactoryWorks
    <3>4. Serves(a, WithFactory(a, NoFactory), Types)
      BY <1>2, <3>3, WithFactoryServes, NewFactoryWorks
    <3> QED
      BY <3>1, <3>4, ServesFewer DEF Kept
  <2>2. CASE a.factory.queue # <<>>
    <3>1. u = ResumeQueue(a, bs, made)
      BY <2>2 DEF AbandonProduction
    <3> HIDE DEF a, u
    <3>2. Serves(a, u, Kept(bs, made))
      BY <1>2, <3>1, ResumeServes
    <3> QED
      BY <3>2, ServesFewer
  <2> QED
    BY <2>1, <2>2
<1> HIDE DEF a, u, kept
<1>4. Serves(s, u, kept)
  BY <1>1, <1>3, ServesTransitively
<1> QED
  BY <1>4 DEF u, kept

LEMMA AbandonTypeServes ==
    ASSUME NEW s, House(s), NEW bs, NEW t \in Types, NEW made \in BOOLEAN
    PROVE  Serves(s, AbandonType(s, bs, t, made), Kept(bs, made) \ {t})
<1> DEFINE f == s.factory
           q == WithoutOne(f.queue, t)
           g == [f EXCEPT !.queue = WithoutOne(@, t)]
           u == AbandonType(s, bs, t, made)
<1>1. f \in Factory /\ f.queue \in Seq(Types) /\ Works(f)
  BY DEF House, Works, Factory
<1>2. CASE f.exists /\ t \in Range(f.queue)
  <2>1. u = WithFactory(s, g)
    BY <1>2 DEF AbandonType
  <2>2. q \in Seq(Types) /\ \A v \in Types \ {t} : Count(f.queue, v) <= Count(q, v)
    BY <1>1, <1>2, CountWithoutOne
  <2>3. g \in Factory /\ g.object = f.object /\ g.queue = q /\ g.exists = f.exists
    <3>1. g = [f EXCEPT !.queue = q]
      OBVIOUS
    <3> HIDE DEF q
    <3>2. [f EXCEPT !.queue = q] \in Factory
      BY <1>1, <2>2 DEF Factory
    <3>3. g.object = f.object /\ g.queue = q /\ g.exists = f.exists
      BY <1>1, <3>1 DEF Factory
    <3> QED
      BY <3>1, <3>2, <3>3
  <2> HIDE DEF g, u, q
  <2>4. Works(g)
    BY <1>2, <2>3 DEF Works
  <2>5. ASSUME NEW v \in Types \ {t} PROVE Ordered(f, v) <= Ordered(g, v)
    <3>1. Count(f.queue, v) <= Count(g.queue, v)
      BY <2>2, <2>3
    <3>2. /\ Ordered(f, v) = Count(f.queue, v) + (IF f.object = v THEN 1 ELSE 0)
          /\ Ordered(g, v) = Count(g.queue, v) + (IF f.object = v THEN 1 ELSE 0)
      BY <2>3, OrderedIsCount
    <3>3. Count(f.queue, v) \in Nat /\ Count(g.queue, v) \in Nat
      BY <1>1, <2>4, OrderedType
    <3> QED
      BY <3>1, <3>2, <3>3
  <2>6. Serves(s, u, Types \ {t})
    BY <2>1, <2>4, <2>5, WithFactoryServes
  <2> QED
    BY <2>6, ServesFewer DEF Kept, u
<1>3. CASE ~(f.exists /\ t \in Range(f.queue))
  <2>1. u = s \/ (u = AbandonProduction(s, bs, made) /\ f.object = t)
    BY <1>3 DEF AbandonType
  <2> HIDE DEF u
  <2> QED
    BY <2>1, ServesItself, AbandonServes DEF u
<1> QED
  BY <1>2, <1>3

LEMMA UpdateObjectServes ==
    ASSUME NEW s, House(s), NEW bs, NEW made \in BOOLEAN
    PROVE  Serves(s, UpdateObject(s, bs, made), Kept(bs, made))
<1> DEFINE f == s.factory
           a == Abandoned(s)
           r == ResumeQueue(a, bs, made)
           h == Suspended(f, FALSE)
           g == Started(f, s.money, FALSE)
           u == UpdateObject(s, bs, made)
<1>1. Works(f)
  BY DEF House
<1>2. CASE f.object # Nobody /\ ~CanBuildAtAll(bs, f.object)
  <2>1. u = r
    BY <1>2 DEF UpdateObject
  <2>2. Serves(s, a, Kept(bs, made))
    <3>1. Kept(bs, made) \in SUBSET (Types \ {f.object})
      BY <1>2 DEF Kept
    <3> QED
      BY <3>1, AbandonedServes, ServesFewer
  <2> HIDE DEF a, u
  <2>3. Serves(a, r, Kept(bs, made))
    BY <2>2, ResumeServes DEF Serves
  <2> HIDE DEF r
  <2>4. Serves(s, r, Kept(bs, made))
    BY <2>2, <2>3, ServesTransitively
  <2> QED
    BY <2>1, <2>4 DEF u
<1>3. CASE ~(f.object # Nobody /\ ~CanBuildAtAll(bs, f.object))
  <2>1. u \in {s, WithFactory(s, h), WithFactory(s, g)}
    BY <1>3 DEF UpdateObject
  <2>2. Works(h) /\ h.object = f.object /\ h.queue = f.queue
    BY <1>1, SuspendedWorks
  <2>3. Works(g) /\ g.object = f.object /\ g.queue = f.queue
    BY <1>1, StartedWorks
  <2> HIDE DEF h, g, u
  <2>4. Serves(s, WithFactory(s, h), Kept(bs, made))
    BY <1>1, <2>2, SameOrders, WithFactoryServes
  <2>5. Serves(s, WithFactory(s, g), Kept(bs, made))
    BY <1>1, <2>3, SameOrders, WithFactoryServes
  <2> QED
    BY <2>1, <2>4, <2>5, ServesItself DEF u
<1> QED
  BY <1>2, <1>3

LEMMA PurgedServes ==
    ASSUME NEW s, House(s), NEW bs, NEW made \in BOOLEAN
    PROVE  Serves(s, WithFactory(s, Purged(s.factory, bs)), Kept(bs, made))
<1> DEFINE f == s.factory
           g == Purged(f, bs)
<1>1. f \in Factory /\ f.queue \in Seq(Types) /\ Works(f)
  BY DEF House, Works, Factory
<1>2. PICK kept : Lengthens(f.queue, bs, kept) /\ g = [f EXCEPT !.queue = kept[Len(f.queue)]]
  BY <1>1, PurgeUnfolds
<1> DEFINE q == kept[Len(f.queue)]
<1>3. /\ q \in Seq(Types)
      /\ \A t \in Types : CanBuildAtAll(bs, t) => Count(f.queue, t) <= Count(q, t)
  BY <1>1, <1>2, PurgeKeeps
<1>4. f.queue = <<>> => q = <<>>
  <2> SUFFICES ASSUME f.queue = <<>> PROVE q = <<>>
    OBVIOUS
  <2>1. Len(f.queue) = 0
    OBVIOUS
  <2>2. 0 \in 0 .. Len(f.queue)
    BY <2>1
  <2>3. kept[0] = Longer(f.queue, bs, kept, 0)
    BY <1>2, <2>2 DEF Lengthens
  <2> QED
    BY <2>1, <2>3 DEF Longer
<1> HIDE DEF q, g
<1>5. g = [f EXCEPT !.queue = q]
  BY <1>2 DEF q
<1>6. g \in Factory
  BY <1>1, <1>3, <1>5 DEF Factory
<1>7. g.object = f.object /\ g.queue = q /\ g.exists = f.exists
  BY <1>1, <1>5 DEF Factory
<1>8. Works(g)
  BY <1>1, <1>4, <1>6, <1>7 DEF Works
<1>9. ASSUME NEW t \in Kept(bs, made) PROVE Ordered(f, t) <= Ordered(g, t)
  <2>1. Count(f.queue, t) <= Count(g.queue, t)
    BY <1>3, <1>7 DEF Kept
  <2>2. /\ Ordered(f, t) = Count(f.queue, t) + (IF f.object = t THEN 1 ELSE 0)
        /\ Ordered(g, t) = Count(g.queue, t) + (IF f.object = t THEN 1 ELSE 0)
    BY <1>7, OrderedIsCount
  <2>3. Count(f.queue, t) \in Nat /\ Count(g.queue, t) \in Nat
    BY <1>1, <1>8, OrderedType
  <2> QED
    BY <2>1, <2>2, <2>3
<1>10. Serves(s, WithFactory(s, g), Kept(bs, made))
  BY <1>8, <1>9, WithFactoryServes
<1> QED
  BY <1>10 DEF g

LEMMA UpdateServes ==
    ASSUME NEW s, House(s), NEW bs, NEW made \in BOOLEAN
    PROVE  Serves(s, UpdateFactories(s, bs, made), Kept(bs, made))
<1> DEFINE p == WithFactory(s, Purged(s.factory, bs))
           u == UpdateObject(p, bs, made)
           v == UpdateFactories(s, bs, made)
<1>1. Serves(s, p, Kept(bs, made))
  BY PurgedServes
<1>2. \/ v \in {s, u}
      \/ /\ v = WithFactory(u, NoFactory)
         /\ u.factory.object = Nobody /\ u.factory.queue = <<>>
  BY DEF UpdateFactories
<1> HIDE DEF p, v
<1>3. Serves(p, u, Kept(bs, made))
  BY <1>1, UpdateObjectServes DEF Serves
<1> HIDE DEF u
<1>4. Serves(s, u, Kept(bs, made))
  BY <1>1, <1>3, ServesTransitively
<1>5. House(u) /\ Works(u.factory)
  BY <1>4 DEF Serves, House
<1>6. ASSUME u.factory.object = Nobody, u.factory.queue = <<>>
      PROVE  Serves(s, WithFactory(u, NoFactory), Kept(bs, made))
  <2>1. \A t \in Kept(bs, made) : Ordered(u.factory, t) <= Ordered(NoFactory, t)
    BY <1>5, <1>6, NothingOrdered, NewFactoryWorks DEF Kept
  <2>2. Serves(u, WithFactory(u, NoFactory), Kept(bs, made))
    BY <1>5, <2>1, WithFactoryServes, NewFactoryWorks
  <2> QED
    BY <1>4, <2>2, ServesTransitively
<1>7. Serves(s, v, Kept(bs, made))
  BY <1>2, <1>4, <1>6, ServesItself
<1> QED
  BY <1>7 DEF v

LEMMA DetachServes ==
    ASSUME NEW s, House(s), NEW bs, NEW made \in BOOLEAN
    PROVE  Serves(s, DetachAll(s, bs, made), Kept(bs, made))
<1>1. CASE s.factory.object # Nobody /\ ~CanBuildAtAll(bs, s.factory.object)
  <2>1. DetachAll(s, bs, made) = AbandonProduction(s, bs, made)
    BY <1>1 DEF DetachAll
  <2>2. Kept(bs, made) \in SUBSET (Kept(bs, made) \ {s.factory.object})
    BY <1>1 DEF Kept
  <2> QED
    BY <2>1, <2>2, AbandonServes, ServesFewer
<1>2. CASE ~(s.factory.object # Nobody /\ ~CanBuildAtAll(bs, s.factory.object))
  BY <1>2, ServesItself DEF DetachAll
<1> QED
  BY <1>1, <1>2

------------------------------------------------------------------------------
(* The steps: every one keeps the types, and the orders that it has no reason  *)
(* to drop.                                                                    *)

TypeInv ==
    /\ House(state)
    /\ building \in [Buildings -> Conditions]
    /\ unloading \subseteq Buildings
    /\ events \in Seq(Event)
    /\ earned \in 0 .. MaxMoney
    /\ delivered \in Nat
    /\ freed \in BOOLEAN

\* there is a reason to drop an order for t
Dropping(t) ==
    \/ ~CanBuildAtAll(building', t)
    \/ events # <<>> /\ Head(events) = [kind |-> "abandon", type |-> t]
    \/ /\ events # <<>> /\ Head(events) = [kind |-> "place"]
       /\ t = state.factory.object /\ Complete

OrdersStep ==
    \A t \in Types : Ordered(state'.factory, t) < Ordered(state.factory, t) => Dropping(t)

Good == House(state') /\ (~CreationFails => OrdersStep)

LEMMA ServingStep ==
    ASSUME House(state), NEW kept, Serves(state, state', kept),
           ~CreationFails => \A t \in Types \ kept : Dropping(t)
    PROVE  Good
<1>1. House(state') /\ Works(state.factory) /\ Works(state'.factory)
  BY DEF Serves, House
<1>2. ASSUME ~CreationFails, NEW t \in Types, Ordered(state'.factory, t) < Ordered(state.factory, t)
      PROVE  Dropping(t)
  <2>1. Ordered(state'.factory, t) \in Nat /\ Ordered(state.factory, t) \in Nat
    BY <1>1, OrderedType
  <2>2. t \notin kept
    BY <1>2, <2>1 DEF Serves
  <2> QED
    BY <1>2, <2>2
<1> QED
  BY <1>1, <1>2 DEF Good, OrdersStep

LEMMA SameStep == ASSUME House(state), UNCHANGED state PROVE Good
BY ServesItself, ServingStep

LEMMA UpdatingStep ==
    ASSUME House(state), NEW made \in Made, Serves(state, state', Kept(building', made))
    PROVE  Good
<1>1. ASSUME ~CreationFails, NEW t \in Types \ Kept(building', made) PROVE Dropping(t)
  BY <1>1 DEF Kept, Made, Dropping
<1> QED
  BY <1>1, ServingStep

LEMMA StepWorks ==
    ASSUME NEW f, Works(f), f.object # Nobody, f.stage # Steps, NEW money \in Nat
    PROVE  LET g == Step(f, money) IN
           /\ Works(g) /\ g.object = f.object /\ g.queue = f.queue
           /\ f.balance - g.balance \in 0 .. money
<1> DEFINE n == [f EXCEPT !.stage = @ + 1]
           cost == CostPerTick(n)
           b == [n EXCEPT !.balance = @ - cost]
           paid == IF cost > money THEN f ELSE b
           g == IF paid.stage = Steps THEN [paid EXCEPT !.suspended = TRUE, !.balance = 0] ELSE paid
           Like(x) == /\ x \in Factory /\ x.object = f.object /\ x.queue = f.queue /\ x.exists = f.exists
<1>1. f \in Factory /\ f.balance \in 0 .. Cost /\ f.stage + 1 \in 1 .. Steps /\ Cost \in Nat /\ Steps \in Nat
  BY ProductionAssumption DEF Works, Factory
<1>2. Like(n) /\ n.stage = f.stage + 1 /\ n.balance = f.balance
  BY <1>1 DEF Factory
<1>3. cost \in 0 .. f.balance /\ (n.stage = Steps => cost = f.balance)
  <2> HIDE DEF n
  <2>1. CASE n.stage < Steps
    <3>1. Steps - n.stage \in Nat \ {0} /\ n.balance \in Nat
      BY <1>1, <1>2, <2>1
    <3> QED
      BY <1>1, <1>2, <2>1, <3>1, QuotientBound DEF CostPerTick
  <2>2. CASE ~(n.stage < Steps)
    BY <1>1, <1>2, <2>2 DEF CostPerTick
  <2> QED
    BY <2>1, <2>2
<1> HIDE DEF n, cost
<1>4. f.balance - cost \in 0 .. Cost
  BY <1>1, <1>3
<1>5. Like(b) /\ b.stage = n.stage /\ b.balance = f.balance - cost
  <2> DEFINE rest == f.balance - cost
  <2>1. b = [n EXCEPT !.balance = rest]
    BY <1>2
  <2> HIDE DEF rest, b
  <2>2. rest \in 0 .. Cost
    BY <1>4 DEF rest
  <2>3. Like(b) /\ b.stage = n.stage /\ b.balance = rest
    BY <1>2, <2>1, <2>2 DEF Factory
  <2> QED
    BY <2>3 DEF rest
<1> HIDE DEF b
<1>6. /\ Like(paid)
      /\ f.balance - paid.balance \in 0 .. money /\ paid.balance \in 0 .. Cost
      /\ paid.stage = Steps => paid.balance = 0
  <2>1. CASE cost > money
    BY <1>1, <2>1 DEF Works
  <2>2. CASE ~(cost > money)
    <3>1. paid = b
      BY <2>2
    <3>2. cost \in 0 .. money
      BY <1>1, <1>3, <2>2
    <3>3. f.balance - (f.balance - cost) = cost
      BY <1>1, <1>3
    <3>4. n.stage = Steps => f.balance - cost = 0
      BY <1>1, <1>3
    <3> HIDE DEF paid
    <3> QED
      BY <1>4, <1>5, <3>1, <3>2, <3>3, <3>4
  <2> QED
    BY <2>1, <2>2
<1> HIDE DEF paid
<1>7. Like(g) /\ g.balance = paid.balance
  <2>1. 0 \in 0 .. Cost
    BY <1>1
  <2> QED
    BY <1>6, <2>1 DEF Factory
<1>8. Step(f, money) = g
  BY DEF Step, g, paid, b, cost, n
<1> HIDE DEF g
<1>9. Works(g)
  BY <1>7 DEF Works
<1> QED
  BY <1>6, <1>7, <1>8, <1>9

LEMMA FactoryAIGood == ASSUME TypeInv, FactoryAI PROVE Good
<1> DEFINE f == state.factory
           g == Step(f, state.money)
           h == [g EXCEPT !.different = TRUE]
<1>1. House(state) /\ Works(f) /\ state.money \in Nat
  BY DEF TypeInv, House
<1>2. f.object # Nobody /\ f.stage # Steps
  BY DEF FactoryAI, IsBuilding, HasCompleted
<1>3. /\ Works(g) /\ g.object = f.object /\ g.queue = f.queue
      /\ f.balance - g.balance \in 0 .. state.money
  BY <1>1, <1>2, StepWorks
<1>4. state' = [factory |-> h, money |-> state.money - (f.balance - g.balance)]
  BY DEF FactoryAI
<1> HIDE DEF g
<1>5. h \in Factory /\ h.object = f.object /\ h.queue = f.queue /\ h.exists = g.exists
  BY <1>3 DEF Works, Factory
<1>6. Works(h)
  BY <1>3, <1>5 DEF Works
<1>7. state.money - (f.balance - g.balance) \in Nat
  BY <1>1, <1>3
<1> HIDE DEF h
<1>8. House(state') /\ state'.factory = h
  BY <1>4, <1>6, <1>7 DEF House, Works
<1>9. Serves(state, state', Types)
  BY <1>1, <1>5, <1>8, SameOrders DEF Serves
<1> QED
  BY <1>1, <1>9, ServingStep

\* A flag is all that changes.
LEMMA FlagsServe ==
    ASSUME NEW s, House(s), NEW g \in Factory, g.object = s.factory.object,
           g.queue = s.factory.queue, g.exists = s.factory.exists,
           NEW u, u = [s EXCEPT !.factory = g], NEW kept
    PROVE  Serves(s, u, kept)
<1>1. u = WithFactory(s, g)
  BY DEF WithFactory
<1>2. Works(s.factory) /\ Works(g)
  BY DEF House, Works
<1> QED
  BY <1>1, <1>2, WithFactoryServes, SameOrders

LEMMA SidebarGood == ASSUME TypeInv, SidebarAI PROVE Good
<1> DEFINE g == [state.factory EXCEPT !.different = FALSE]
<1>1. House(state) /\ state.factory \in Factory
  BY DEF TypeInv, House, Works
<1>2. g \in Factory /\ g.object = state.factory.object /\ g.queue = state.factory.queue
      /\ g.exists = state.factory.exists
  BY <1>1 DEF Factory
<1>3. state' = [state EXCEPT !.factory = g]
  BY DEF SidebarAI
<1> HIDE DEF g
<1>4. Serves(state, state', Types)
  BY <1>1, <1>2, <1>3, FlagsServe
<1> QED
  BY <1>1, <1>4, ServingStep

LEMMA EarnGood == ASSUME TypeInv, Earn PROVE Good
<1>1. /\ House(state) /\ Works(state.factory) /\ state.money \in Nat
  BY DEF TypeInv, House
<1>2. state' \in [factory : Factory, money : Nat] /\ state'.factory = state.factory
  BY <1>1 DEF Earn, House
<1>3. Serves(state, state', Types)
  BY <1>1, <1>2, OrderedType DEF Serves, House
<1> QED
  BY <1>1, <1>3, ServingStep

LEMMA EventTypes ==
    ASSUME TypeInv, NEW kind, Next1(kind)
    PROVE  /\ events # <<>> /\ Head(events) \in Event /\ Head(events).kind = kind
           /\ events' \in Seq(Event)
           /\ kind \in {"produce", "abandon"} => Head(events).type \in Types
           /\ kind = "abandon" => Head(events) = [kind |-> "abandon", type |-> Head(events).type]
           /\ kind = "place" => Head(events) = [kind |-> "place"]
<1>1. events \in Seq(Event) /\ events # <<>> /\ Head(events).kind = kind /\ events' = Tail(events)
  BY DEF TypeInv, Next1
<1>2. Head(events) \in Event /\ Tail(events) \in Seq(Event)
  BY <1>1
<1> DEFINE e == Head(events)
<1>3. e \in Event /\ e.kind = kind
  BY <1>1, <1>2
<1> HIDE DEF e
<1>4. CASE e \in [kind : {"produce", "abandon"}, type : Types]
  <2>1. e = [kind |-> e.kind, type |-> e.type] /\ e.type \in Types /\ e.kind \in {"produce", "abandon"}
    BY <1>4
  <2> QED
    BY <1>1, <1>2, <1>3, <2>1 DEF e
<1>5. CASE e \in [kind : {"suspend", "place"}]
  <2>1. e = [kind |-> e.kind] /\ e.kind \in {"suspend", "place"}
    BY <1>5
  <2> QED
    BY <1>1, <1>2, <1>3, <2>1 DEF e
<1> QED
  BY <1>3, <1>4, <1>5 DEF Event

LEMMA ProduceGood == ASSUME TypeInv, ExecuteProduce PROVE Good
<1>1. PICK made \in Made :
        state' = BeginProduction(state, building, Head(events).type, FALSE, made)
  BY DEF ExecuteProduce
<1>2. House(state) /\ Head(events).type \in Types
  BY EventTypes DEF ExecuteProduce, TypeInv
<1>3. Serves(state, state', Types)
  BY <1>1, <1>2, BeginServes, MadeIsBoolean
<1> QED
  BY <1>2, <1>3, ServingStep

LEMMA SuspendGood == ASSUME TypeInv, ExecuteSuspend PROVE Good
<1> DEFINE g == Suspended(state.factory, TRUE)
<1>1. House(state) /\ Works(state.factory)
  BY DEF TypeInv, House
<1>2. Works(g) /\ g.object = state.factory.object /\ g.queue = state.factory.queue
  BY <1>1, SuspendedWorks
<1>3. state' \in {state, WithFactory(state, g)}
  BY DEF ExecuteSuspend
<1> HIDE DEF g
<1>4. Serves(state, state', Types)
  BY <1>1, <1>2, <1>3, ServesItself, WithFactoryServes, SameOrders
<1> QED
  BY <1>1, <1>4, ServingStep

LEMMA AbandonGood == ASSUME TypeInv, ExecuteAbandon PROVE Good
<1> DEFINE t == Head(events).type
<1>1. PICK made \in Made : state' = AbandonType(state, building, t, made)
  BY DEF ExecuteAbandon
<1>2. House(state) /\ t \in Types /\ events # <<>> /\ Head(events) = [kind |-> "abandon", type |-> t]
  BY EventTypes DEF ExecuteAbandon, TypeInv
<1>3. building' = building
  BY DEF ExecuteAbandon
<1> HIDE DEF t
<1>4. Serves(state, state', Kept(building, made) \ {t})
  BY <1>1, <1>2, AbandonTypeServes, MadeIsBoolean
<1>5. ASSUME ~CreationFails, NEW v \in Types \ (Kept(building, made) \ {t}) PROVE Dropping(v)
  BY <1>2, <1>3, <1>5 DEF Kept, Made, Dropping
<1> QED
  BY <1>2, <1>4, <1>5, ServingStep

\* What is delivered is no order any more; the next of the queue is begun.
LEMMA PlacedServes ==
    ASSUME NEW s, House(s), s.factory.exists, NEW made \in BOOLEAN, NEW bs
    PROVE  LET r == WithFactory(s, [s.factory EXCEPT !.object = Nobody])
               u == AbandonProduction(r, bs, made)
           IN Serves(s, IF u.factory.exists THEN [u EXCEPT !.factory.holding = FALSE] ELSE u,
                     Kept(bs, made) \ {s.factory.object})
<1> DEFINE f == s.factory
           kept == Kept(bs, made) \ {f.object}
           d == [f EXCEPT !.object = Nobody]
           r == WithFactory(s, d)
           u == AbandonProduction(r, bs, made)
<1>1. f \in Factory /\ Works(f)
  BY DEF House, Works
<1>2. d \in Factory /\ d.exists /\ d.object = Nobody /\ d.queue = f.queue
  BY <1>1 DEF Factory
<1>3. Works(d)
  BY <1>2 DEF Works
<1> HIDE DEF d
<1>4. ASSUME NEW t \in kept PROVE Ordered(f, t) <= Ordered(d, t)
  <2>1. Ordered(f, t) = Count(f.queue, t) + 0
    BY <1>1, <1>4, OrderedIsCount
  <2>2. t # Nobody
    BY <1>4, ProductionAssumption DEF Kept
  <2>3. Ordered(d, t) = Count(f.queue, t) + 0
    BY <1>2, <1>3, <2>2, OrderedIsCount
  <2> QED
    BY <1>1, <2>1, <2>3, OrderedType
<1>5. Serves(s, r, kept) /\ r.factory = d
  BY <1>3, <1>4, WithFactoryServes
<1>6. House(r)
  BY <1>5 DEF Serves
<1> HIDE DEF r
<1>7. Serves(r, u, Kept(bs, made) \ {Nobody})
  BY <1>2, <1>5, <1>6, AbandonServes
<1>8. kept \in SUBSET (Kept(bs, made) \ {Nobody})
  BY ProductionAssumption DEF Kept
<1>9. House(u) /\ Serves(s, u, kept)
  <2>1. Serves(r, u, kept)
    BY <1>7, <1>8, ServesFewer
  <2> QED
    BY <1>5, <2>1, ServesTransitively DEF Serves
<1> HIDE DEF u
<1> DEFINE g == [u.factory EXCEPT !.holding = FALSE]
<1>10. u.factory \in Factory
  BY <1>9 DEF House, Works
<1>11. g \in Factory /\ g.object = u.factory.object /\ g.queue = u.factory.queue
       /\ g.exists = u.factory.exists
  BY <1>10 DEF Factory
<1>12. [u EXCEPT !.factory.holding = FALSE] = [u EXCEPT !.factory = g]
  OBVIOUS
<1> HIDE DEF g
<1>13. Serves(u, [u EXCEPT !.factory.holding = FALSE], kept)
  BY <1>9, <1>11, <1>12, FlagsServe
<1>14. Serves(s, [u EXCEPT !.factory.holding = FALSE], kept)
  BY <1>9, <1>13, ServesTransitively
<1> QED
  BY <1>9, <1>14 DEF u, r, d

LEMMA PlaceGood ==
    ASSUME TypeInv, PlaceNothing \/ PlaceHold \/ PlaceWithoutPower \/ PlaceObject \/ PlaceFailed
    PROVE  Good
<1>1. House(state) /\ Works(state.factory) /\ state.factory \in Factory
  BY DEF TypeInv, House, Works
<1>2. events # <<>> /\ Head(events) = [kind |-> "place"]
  BY EventTypes DEF PlaceNothing, PlaceHold, PlaceWithoutPower, PlaceObject, PlaceFailed
<1>3. ASSUME NEW made \in Made, Complete, building' = building,
             Serves(state, state', Kept(building, made) \ {state.factory.object})
      PROVE  Good
  <2>1. ASSUME ~CreationFails,
               NEW t \in Types \ (Kept(building, made) \ {state.factory.object})
        PROVE  Dropping(t)
    BY <1>2, <1>3, <2>1 DEF Kept, Made, Dropping
  <2> QED
    BY <1>1, <1>3, <2>1, ServingStep
<1>4. CASE PlaceNothing \/ PlaceWithoutPower
  BY <1>1, <1>4, SameStep DEF PlaceNothing, PlaceWithoutPower
<1>5. CASE PlaceHold
  <2> DEFINE g == [state.factory EXCEPT !.holding = TRUE]
  <2>1. g \in Factory /\ g.object = state.factory.object /\ g.queue = state.factory.queue
        /\ g.exists = state.factory.exists
    BY <1>1 DEF Factory
  <2>2. state' = [state EXCEPT !.factory = g]
    BY <1>5 DEF PlaceHold
  <2> HIDE DEF g
  <2>3. Serves(state, state', Types)
    BY <1>1, <2>1, <2>2, FlagsServe
  <2> QED
    BY <1>1, <2>3, ServingStep
<1>6. CASE PlaceObject
  <2>1. PICK made \in Made : state' = Placed(made)
    BY <1>6 DEF PlaceObject
  <2>2. state.factory.exists
    BY <1>1, <1>6 DEF PlaceObject, Complete, HasCompleted, Works
  <2>3. Serves(state, Placed(made), Kept(building, made) \ {state.factory.object})
    BY <1>1, <2>2, MadeIsBoolean, PlacedServes DEF Placed
  <2> QED
    BY <1>3, <1>6, <2>1, <2>3 DEF PlaceObject
<1>7. CASE PlaceFailed
  <2>1. PICK made \in Made : state' = AbandonProduction(state, building, made)
    BY <1>7 DEF PlaceFailed
  <2>2. Serves(state, state', Kept(building, made) \ {state.factory.object})
    BY <1>1, <2>1, AbandonServes, MadeIsBoolean
  <2> QED
    BY <1>3, <1>7, <2>2 DEF PlaceFailed
<1> QED
  BY <1>4, <1>5, <1>6, <1>7

LEMMA UpdatedGood ==
    ASSUME TypeInv, NEW b \in Buildings, NEW from, NEW to, BuildingUpdated(b, from, to)
    PROVE  Good
<1>1. PICK made \in Made : state' = UpdateFactories(state, building', made)
  BY DEF BuildingUpdated
<1>2. House(state)
  BY DEF TypeInv
<1>3. Serves(state, state', Kept(building', made))
  BY <1>1, <1>2, UpdateServes, MadeIsBoolean
<1> QED
  BY <1>2, <1>3, UpdatingStep

LEMMA LostGood == ASSUME TypeInv, NEW b \in Buildings, BuildingLost(b) PROVE Good
<1>1. PICK made, made2 \in Made :
        state' = UpdateFactories(DetachAll(state, building', made), building', made2)
  BY DEF BuildingLost
<1> DEFINE s == DetachAll(state, building', made)
           kept == Kept(building', made /\ made2)
<1>2. House(state) /\ made \in BOOLEAN /\ made2 \in BOOLEAN
  BY MadeIsBoolean DEF TypeInv
<1>3. kept \in SUBSET Kept(building', made) /\ kept \in SUBSET Kept(building', made2)
  BY DEF Kept
<1>4. Serves(state, s, Kept(building', made))
  BY <1>2, DetachServes
<1> HIDE DEF s
<1>5. Serves(s, state', Kept(building', made2))
  BY <1>1, <1>2, <1>4, UpdateServes DEF s, Serves
<1>6. ~CreationFails => \A t \in Types \ kept : Dropping(t)
  BY DEF Kept, Made, Dropping
<1> HIDE DEF kept
<1>7. Serves(state, s, kept) /\ Serves(s, state', kept)
  BY <1>3, <1>4, <1>5, ServesFewer
<1>8. Serves(state, state', kept)
  BY <1>2, <1>7, ServesTransitively
<1> QED
  BY <1>2, <1>6, <1>8, ServingStep

LEMMA BaseGood ==
    ASSUME TypeInv, NEW b \in Buildings,
           \/ Unloaded(b) \/ BuildingPlaced(b) \/ TurnOff(b) \/ TurnOn(b)
           \/ BuildingSold(b) \/ BuildingLost(b)
    PROVE  Good
<1>1. CASE Unloaded(b) \/ BuildingSold(b)
  BY <1>1, SameStep DEF Unloaded, BuildingSold, TypeInv
<1>2. CASE BuildingPlaced(b) \/ TurnOff(b) \/ TurnOn(b)
  BY <1>2, UpdatedGood DEF BuildingPlaced, TurnOff, TurnOn
<1>3. CASE BuildingLost(b)
  BY <1>3, LostGood
<1> QED
  BY <1>1, <1>2, <1>3

LEMMA NextGood == ASSUME TypeInv, [Next]_vars PROVE Good
<1>1. CASE UNCHANGED vars
  BY <1>1, SameStep DEF vars, TypeInv
<1>2. CASE Player
  BY <1>2, SameStep DEF Player, LeftClick, RightClick, TypeInv
<1>3. CASE Execute
  BY <1>3, ProduceGood, SuspendGood, AbandonGood, PlaceGood DEF Execute
<1>4. CASE Base
  BY <1>4, BaseGood DEF Base
<1>5. CASE Earn \/ FactoryAI \/ SidebarAI
  BY <1>5, EarnGood, FactoryAIGood, SidebarGood
<1> QED
  BY <1>1, <1>2, <1>3, <1>4, <1>5 DEF Next

LEMMA SendTypes ==
    ASSUME TypeInv, NEW e \in Event, Send(e)
    PROVE  events' \in Seq(Event)
BY DEF TypeInv, Send

LEMMA EventsType == ASSUME TypeInv, [Next]_vars PROVE events' \in Seq(Event)
<1>1. events \in Seq(Event)
  BY DEF TypeInv
<1>2. ASSUME NEW t \in Types
      PROVE  {[kind |-> "place"], [kind |-> "suspend"], [kind |-> "abandon", type |-> t],
              [kind |-> "produce", type |-> t]} \subseteq Event
  BY DEF Event
<1>3. CASE Player
  <2>1. PICK t \in Types : LeftClick(t) \/ RightClick(t)
    BY <1>3 DEF Player
  <2>2. CASE LeftClick(t)
    BY <1>2, <2>2, SendTypes DEF LeftClick
  <2>3. CASE RightClick(t)
    BY <1>2, <2>3, SendTypes DEF RightClick
  <2> QED
    BY <2>1, <2>2, <2>3
<1>4. CASE Execute
  BY <1>4, EventTypes DEF Execute, ExecuteProduce, ExecuteSuspend, ExecuteAbandon,
     PlaceNothing, PlaceHold, PlaceWithoutPower, PlaceObject, PlaceFailed
<1>5. CASE SidebarAI
  <2>1. [kind |-> "place"] \in Event
    BY DEF Event
  <2> QED
    BY <1>1, <1>5, <2>1, SendTypes DEF SidebarAI
<1>6. CASE UNCHANGED events
  BY <1>1, <1>6
<1> QED
  BY <1>3, <1>4, <1>5, <1>6 DEF Next, vars, Earn, FactoryAI, Base, Unloaded, BuildingPlaced,
     TurnOn, TurnOff, BuildingUpdated, BuildingSold, BuildingLost

LEMMA BuildingsType ==
    ASSUME TypeInv, [Next]_vars
    PROVE  building' \in [Buildings -> Conditions] /\ unloading' \subseteq Buildings
<1>1. building \in [Buildings -> Conditions] /\ unloading \subseteq Buildings
  BY DEF TypeInv
<1>2. CASE Base
  <2>1. PICK b \in Buildings :
          \/ Unloaded(b) \/ BuildingPlaced(b) \/ TurnOff(b) \/ TurnOn(b)
          \/ BuildingSold(b) \/ BuildingLost(b)
    BY <1>2 DEF Base
  <2>2. unloading' \subseteq unloading
    BY <2>1 DEF Unloaded, BuildingPlaced, TurnOff, TurnOn, BuildingUpdated, BuildingSold, BuildingLost
  <2>3. building' = building \/ \E to \in Conditions : building' = [building EXCEPT ![b] = to]
    BY <2>1 DEF Unloaded, BuildingPlaced, TurnOff, TurnOn, BuildingUpdated, BuildingSold,
       BuildingLost, Becomes, Conditions
  <2> QED
    BY <1>1, <2>2, <2>3
<1>3. CASE PlaceObject
  <2>1. \E b \in Exits \ unloading : unloading' = unloading \cup {b}
    BY <1>3 DEF PlaceObject
  <2>2. building' = building
    BY <1>3 DEF PlaceObject
  <2> QED
    BY <1>1, <2>1, <2>2 DEF Exits, WhoCanBuild
<1>4. CASE UNCHANGED <<building, unloading>>
  BY <1>1, <1>4
<1> QED
  BY <1>2, <1>3, <1>4 DEF Next, vars, Earn, FactoryAI, SidebarAI, Player, LeftClick, RightClick,
     Execute, ExecuteProduce, ExecuteSuspend, ExecuteAbandon, PlaceNothing, PlaceHold,
     PlaceWithoutPower, PlaceFailed

LEMMA HistoryType ==
    ASSUME TypeInv, [Next]_vars
    PROVE  earned' \in 0 .. MaxMoney /\ delivered' \in Nat /\ freed' \in BOOLEAN
<1>1. earned \in 0 .. MaxMoney /\ delivered \in Nat /\ freed \in BOOLEAN
  BY DEF TypeInv
<1>2. CASE Earn
  BY <1>1, <1>2, ProductionAssumption DEF Earn
<1>3. CASE PlaceObject
  BY <1>1, <1>3 DEF PlaceObject
<1>4. CASE Base
  <2>1. earned' = earned /\ delivered' = delivered
    BY <1>4 DEF Base, Unloaded, BuildingPlaced, TurnOff, TurnOn, BuildingUpdated, BuildingSold,
       BuildingLost, history
  <2>2. freed' \in BOOLEAN
    BY <1>1, <1>4 DEF Base, Unloaded, BuildingPlaced, TurnOff, TurnOn, BuildingUpdated, BuildingSold,
       BuildingLost, UsesFreed
  <2> QED
    BY <1>1, <2>1, <2>2
<1>5. CASE UNCHANGED <<history, freed>>
  BY <1>1, <1>5 DEF history
<1> QED
  BY <1>2, <1>3, <1>4, <1>5 DEF Next, vars, FactoryAI, SidebarAI, Player, LeftClick, RightClick,
     Execute, ExecuteProduce, ExecuteSuspend, ExecuteAbandon, PlaceNothing, PlaceHold,
     PlaceWithoutPower, PlaceFailed, history

LEMMA InitTyped == Init => TypeInv
<1> SUFFICES ASSUME Init PROVE TypeInv
  OBVIOUS
<1>1. House(state)
  <2>1. state = [factory |-> NoFactory, money |-> earned] /\ earned \in Nat
    BY ProductionAssumption DEF Init
  <2> QED
    BY <2>1, NewFactoryWorks DEF House, Works
<1>2. building \in [Buildings -> Conditions] /\ events \in Seq(Event)
  BY DEF Init, Conditions
<1> QED
  BY <1>1, <1>2 DEF Init, TypeInv

LEMMA AlwaysTyped == Spec => []TypeInv
<1>1. TypeInv /\ [Next]_vars => TypeInv'
  BY NextGood, EventsType, BuildingsType, HistoryType DEF Good, TypeInv
<1> QED
  BY <1>1, InitTyped, PTL DEF Spec

(* The types of the factory, of the money, which is never negative, of the     *)
(* war factories and of the events on their way, whatever can be created.      *)
THEOREM ProductionTypeCorrect == Spec => []TypeOK
<1>1. TypeInv => TypeOK
  BY DEF TypeInv, TypeOK, House
<1> QED
  BY <1>1, AlwaysTyped, PTL

(* While no creation of an object fails, no handler drops an order for a       *)
(* vehicle but for the reasons that OrdersKept names: the loop through the     *)
(* queue, taking a vehicle from it into work, and every path of events and     *)
(* lost war factories keep all others.                                         *)
THEOREM NoOrderIsLost == ~CreationFails => (Spec => OrdersKept)
<1> SUFFICES ASSUME ~CreationFails PROVE Spec => OrdersKept
  OBVIOUS
<1> DEFINE Keeping == \A t \in Types :
             Ordered(state'.factory, t) < Ordered(state.factory, t) =>
               \/ ~CanBuildAtAll(building', t)
               \/ events # <<>> /\ Head(events) = [kind |-> "abandon", type |-> t]
               \/ /\ events # <<>> /\ Head(events) = [kind |-> "place"]
                  /\ t = state.factory.object /\ Complete
<1>1. TypeInv /\ [Next]_vars => [Keeping]_vars
  BY NextGood DEF Good, OrdersStep, Dropping
<1> QED
  BY <1>1, AlwaysTyped, PTL DEF Spec, OrdersKept
==============================================================================
