------------------------- MODULE RoutePlannerProofs -------------------------
(***************************************************************************)
(* The six invariants of RoutePlanner for every bound: the types for every *)
(* request, the others for every request that asks for nothing negative.   *)
(* The passes of the planner are folds, so each claim about one is proved  *)
(* by induction over the sequence it folds: FoldTheorems gives, for the    *)
(* step of each fold, what the empty sequence and one more place yield.    *)
(***************************************************************************)
EXTENDS RoutePlanner, TLAPS

\* Two of the steps take nothing from their surroundings.
AddMaps(c, m, n) == Plus(m, n)
WalkOn(c, acc, s) == WalkStep(acc, s)

\* What the warehouses used hold of a SKU; c has the stock, the SKU and the used.
UsedStep(c, sum, w) == IF w \in c.used THEN sum + c.stock[w][c.sku] ELSE sum

Sums == INSTANCE FoldTheorems WITH op <- AddMaps
LoadPass == INSTANCE FoldTheorems WITH op <- LoadStep
PickupPass == INSTANCE FoldTheorems WITH op <- PickupStep
TopUpPass == INSTANCE FoldTheorems WITH op <- TopUpStep
Visits == INSTANCE FoldTheorems WITH op <- Visit
Walks == INSTANCE FoldTheorems WITH op <- WalkOn
LoadedSum == INSTANCE FoldTheorems WITH op <- LoadedStep
StockedSum == INSTANCE FoldTheorems WITH op <- StockedStep
EntrySum == INSTANCE FoldTheorems WITH op <- EntryStep
UsedSum == INSTANCE FoldTheorems WITH op <- UsedStep

-----------------------------------------------------------------------------
(* Maps from SKU to quantity *)

\* Quantities without a bound; IntMaps, below, also has negative ones.
Maps == UNION {[K -> Nat] : K \in SUBSET Sku}

\* A map is what its keys and values say, and a read never yields less than 0.
LEMMA MapFacts ==
  ASSUME NEW m \in Maps
  PROVE  /\ DOMAIN m \subseteq Sku
         /\ \A k \in DOMAIN m : m[k] \in Nat /\ Qty(m, k) = m[k]
         /\ \A k : k \notin DOMAIN m => Qty(m, k) = 0
         /\ \A k : Qty(m, k) \in Nat
         /\ m = [k \in DOMAIN m |-> m[k]]
<1>1. PICK K \in SUBSET Sku : m \in [K -> Nat]
  BY DEF Maps
<1> QED BY <1>1 DEF Qty

\* The map without keys.
LEMMA NoItemsFacts ==
  /\ NoItems \in Maps
  /\ DOMAIN NoItems = {}
  /\ \A k : Qty(NoItems, k) = 0
<1>1. NoItems \in [{} -> Nat]
  BY DEF NoItems
<1> QED BY <1>1 DEF Maps, Qty, NoItems

\* Loading a truck adds the quantities.
LEMMA PlusQty ==
  ASSUME NEW m, NEW n, NEW k
  PROVE  Qty(Plus(m, n), k) = Qty(m, k) + Qty(n, k)
<1> DEFINE K == DOMAIN m \cup DOMAIN n
<1>1. DOMAIN Plus(m, n) = K /\ \A i \in K : Plus(m, n)[i] = Qty(m, i) + Qty(n, i)
  BY DEF Plus
<1>2. CASE k \in K
  BY <1>1, <1>2 DEF Qty
<1>3. CASE k \notin K
  BY <1>1, <1>3 DEF Qty
<1> QED BY <1>2, <1>3

\* It also joins the keys.
LEMMA PlusFacts ==
  ASSUME NEW m \in Maps, NEW n \in Maps
  PROVE  /\ Plus(m, n) \in Maps
         /\ DOMAIN Plus(m, n) = DOMAIN m \cup DOMAIN n
<1> DEFINE K == DOMAIN m \cup DOMAIN n
<1>1. K \in SUBSET Sku
  BY MapFacts
<1>2. \A k : Qty(m, k) \in Nat /\ Qty(n, k) \in Nat
  BY MapFacts
<1>3. [k \in K |-> Qty(m, k) + Qty(n, k)] \in [K -> Nat]
  BY <1>2
<1> QED BY <1>1, <1>3 DEF Plus, Maps

\* Stock is counted for every SKU.
Stocks == [Sku -> Nat]

\* The smaller of two quantities is one of them.
LEMMA MinFacts ==
  ASSUME NEW a \in Nat, NEW b \in Nat
  PROVE  /\ Min({a, b}) \in {a, b} /\ Min({a, b}) <= a /\ Min({a, b}) <= b
         /\ Min({a, b}) \in Nat
<1>1. \E x \in {a, b} : \A y \in {a, b} : x <= y
  OBVIOUS
<1>2. Min({a, b}) \in {a, b} /\ \A y \in {a, b} : Min({a, b}) <= y
  BY <1>1 DEF Min
<1> QED BY <1>2

\* A load is for SKUs that are needed and in stock, and takes all that is needed
\* or all there is.
LEMMA LoadFromFacts ==
  ASSUME NEW stock \in Stocks, NEW need \in Maps
  PROVE  /\ LoadFrom(stock, need) \in Maps
         /\ DOMAIN LoadFrom(stock, need) = {k \in DOMAIN need : stock[k] > 0}
         /\ \A k \in DOMAIN LoadFrom(stock, need) :
              \/ LoadFrom(stock, need)[k] = need[k] /\ need[k] <= stock[k]
              \/ LoadFrom(stock, need)[k] = stock[k] /\ stock[k] <= need[k]
         /\ \A k \in Sku : /\ Qty(LoadFrom(stock, need), k) <= Qty(need, k)
                           /\ Qty(LoadFrom(stock, need), k) <= stock[k]
<1> DEFINE load == LoadFrom(stock, need)
           K == {k \in DOMAIN need : stock[k] > 0}
<1>1. K \in SUBSET Sku /\ \A k \in K : need[k] \in Nat /\ stock[k] \in Nat
  BY MapFacts DEF Stocks
<1>2. load = [k \in K |-> Min({need[k], stock[k]})]
  BY DEF LoadFrom
<1>3. \A k \in K : /\ Min({need[k], stock[k]}) \in Nat
                   /\ Min({need[k], stock[k]}) <= need[k]
                   /\ Min({need[k], stock[k]}) <= stock[k]
                   /\ \/ Min({need[k], stock[k]}) = need[k]
                      \/ Min({need[k], stock[k]}) = stock[k]
  BY <1>1, MinFacts
<1>4. load \in [K -> Nat]
  BY <1>2, <1>3
<1>5. load \in Maps /\ DOMAIN load = K
  BY <1>1, <1>4 DEF Maps
<1>6. \A k \in K : load[k] = Min({need[k], stock[k]})
  BY <1>2
<1>7. ASSUME NEW k \in Sku
      PROVE  Qty(load, k) <= Qty(need, k) /\ Qty(load, k) <= stock[k]
  <2>1. Qty(need, k) \in Nat /\ stock[k] \in Nat
    BY MapFacts DEF Stocks
  <2>2. CASE k \in K
    BY <1>3, <1>5, <1>6, <2>2 DEF Qty
  <2>3. CASE k \notin K
    BY <1>5, <2>1, <2>3 DEF Qty
  <2> QED BY <2>2, <2>3
<1> QED BY <1>3, <1>5, <1>6, <1>7

\* The same, as far as most proofs need it.
LEMMA LoadFits ==
  ASSUME NEW stock \in Stocks, NEW need \in Maps
  PROVE  /\ LoadFrom(stock, need) \in Maps
         /\ DOMAIN LoadFrom(stock, need) \subseteq DOMAIN need
         /\ \A k \in Sku : /\ Qty(LoadFrom(stock, need), k) <= Qty(need, k)
                           /\ Qty(LoadFrom(stock, need), k) <= stock[k]
<1>1. LoadFrom(stock, need) \in Maps
  BY LoadFromFacts
<1>2. DOMAIN LoadFrom(stock, need) \subseteq DOMAIN need
  <2>1. DOMAIN LoadFrom(stock, need) = {k \in DOMAIN need : stock[k] > 0}
    BY LoadFromFacts
  <2> QED BY <2>1
<1>3. ASSUME NEW k \in Sku
      PROVE  /\ Qty(LoadFrom(stock, need), k) <= Qty(need, k)
             /\ Qty(LoadFrom(stock, need), k) <= stock[k]
  BY LoadFromFacts
<1> QED BY <1>1, <1>2, <1>3

\* What a load leaves is needed still, and no SKU that it covers is.
LEMMA RemainingFacts ==
  ASSUME NEW need \in Maps, NEW load \in Maps, DOMAIN load \subseteq DOMAIN need,
         \A k \in Sku : Qty(load, k) <= Qty(need, k)
  PROVE  /\ Remaining(need, load) \in Maps
         /\ DOMAIN Remaining(need, load) =
              {k \in DOMAIN need : k \notin DOMAIN load \/ need[k] > load[k]}
         /\ \A k \in Sku : Qty(Remaining(need, load), k) = Qty(need, k) - Qty(load, k)
<1> DEFINE K == {k \in DOMAIN need : k \notin DOMAIN load \/ need[k] # load[k]}
<1>1. /\ DOMAIN load \subseteq DOMAIN need
      /\ \A k \in Sku : Qty(load, k) <= Qty(need, k)
  OBVIOUS
<1>2. /\ DOMAIN need \subseteq Sku
      /\ \A k \in DOMAIN need : need[k] \in Nat /\ Qty(need, k) = need[k]
      /\ \A k : k \notin DOMAIN need => Qty(need, k) = 0
  BY MapFacts
<1>3. /\ \A k \in DOMAIN load : load[k] \in Nat /\ Qty(load, k) = load[k]
      /\ \A k : k \notin DOMAIN load => Qty(load, k) = 0
      /\ \A k : Qty(load, k) \in Nat
  BY <1>1, MapFacts
<1>4. Remaining(need, load) = [k \in K |-> need[k] - Qty(load, k)]
  BY DEF Remaining
<1>5. \A k \in K : need[k] - Qty(load, k) \in Nat
  BY <1>1, <1>2, <1>3
<1>6. Remaining(need, load) \in [K -> Nat] /\ K \subseteq Sku
  BY <1>2, <1>4, <1>5
<1>7. Remaining(need, load) \in Maps
  BY <1>6 DEF Maps
<1>8. K = {k \in DOMAIN need : k \notin DOMAIN load \/ need[k] > load[k]}
  <2>1. \A k \in DOMAIN load : load[k] <= need[k]
    BY <1>1, <1>2, <1>3
  <2> QED BY <1>2, <1>3, <2>1
<1>9. ASSUME NEW k \in Sku
      PROVE  Qty(Remaining(need, load), k) = Qty(need, k) - Qty(load, k)
  <2>1. CASE k \in K
    BY <1>2, <1>4, <2>1 DEF Qty
  <2>2. CASE k \notin K
    <3>1. Qty(Remaining(need, load), k) = 0
      BY <1>4, <2>2 DEF Qty
    <3>2. Qty(need, k) = Qty(load, k)
      BY <1>1, <1>2, <1>3, <2>2
    <3> QED BY <1>3, <3>1, <3>2
  <2> QED BY <2>1, <2>2
<1> QED BY <1>4, <1>7, <1>8, <1>9

\* What a store misses is what it asks for beyond the truck's load.
LEMMA ShortfallFacts ==
  ASSUME NEW truck \in Maps, NEW items \in Maps
  PROVE  /\ Shortfall(truck, items) \in Maps
         /\ DOMAIN Shortfall(truck, items) = {k \in DOMAIN items : Qty(truck, k) < items[k]}
         /\ \A k \in DOMAIN Shortfall(truck, items) :
              /\ Shortfall(truck, items)[k] = items[k] - Qty(truck, k)
              /\ Shortfall(truck, items)[k] <= items[k]
<1> DEFINE K == {k \in DOMAIN items : Qty(truck, k) < items[k]}
<1>1. /\ K \subseteq Sku
      /\ \A k \in K : items[k] \in Nat /\ Qty(truck, k) \in Nat
  BY MapFacts
<1>2. Shortfall(truck, items) = [k \in K |-> items[k] - Qty(truck, k)]
  BY DEF Shortfall
<1>3. \A k \in K : items[k] - Qty(truck, k) \in Nat /\ items[k] - Qty(truck, k) <= items[k]
  BY <1>1
<1>4. Shortfall(truck, items) \in [K -> Nat]
  BY <1>2, <1>3
<1> QED BY <1>1, <1>2, <1>3, <1>4 DEF Maps

\* A delivery leaves no SKU as a key that it covers.
LEMMA UnloadFacts ==
  ASSUME NEW truck \in Maps, NEW items \in Maps
  PROVE  /\ Unload(truck, items) \in Maps
         /\ DOMAIN Unload(truck, items) =
              {k \in DOMAIN truck : k \notin DOMAIN items \/ truck[k] > items[k]}
<1> DEFINE K == {k \in DOMAIN truck : k \notin DOMAIN items \/ truck[k] > items[k]}
           J == {k \in DOMAIN truck \cup DOMAIN items :
                   k \notin DOMAIN items \/ Qty(truck, k) > items[k]}
<1>1. /\ DOMAIN truck \subseteq Sku
      /\ \A k \in DOMAIN truck : truck[k] \in Nat /\ Qty(truck, k) = truck[k]
      /\ \A k : k \notin DOMAIN truck => Qty(truck, k) = 0
  BY MapFacts
<1>2. /\ \A k \in DOMAIN items : items[k] \in Nat /\ Qty(items, k) = items[k]
      /\ \A k : k \notin DOMAIN items => Qty(items, k) = 0
  BY MapFacts
<1>3. J = K
  <2>1. ASSUME NEW k \in J
        PROVE  k \in K
    <3>1. CASE k \in DOMAIN truck
      BY <1>1, <3>1
    <3>2. CASE k \notin DOMAIN truck
      BY <1>1, <1>2, <3>2
    <3> QED BY <3>1, <3>2
  <2>2. ASSUME NEW k \in K
        PROVE  k \in J
    BY <1>1
  <2> QED BY <2>1, <2>2
<1>4. Unload(truck, items) = [k \in K |-> Qty(truck, k) - Qty(items, k)]
  <2>1. Unload(truck, items) = [k \in J |-> Qty(truck, k) - Qty(items, k)]
    BY DEF Unload
  <2> HIDE DEF J, K
  <2> QED BY <1>3, <2>1
<1>5. \A k \in K : Qty(truck, k) - Qty(items, k) \in Nat
  BY <1>1, <1>2
<1>6. Unload(truck, items) \in [K -> Nat]
  BY <1>4, <1>5
<1>7. Unload(truck, items) \in Maps
  BY <1>1, <1>6 DEF Maps
<1> QED BY <1>4, <1>7

\* A delivery that the truck can make takes off exactly what it brings.
LEMMA DeliveryFacts ==
  ASSUME NEW truck \in Maps, NEW items \in Maps, CanDeliver(truck, items), NEW k
  PROVE  /\ Qty(Unload(truck, items), k) = Qty(truck, k) - Qty(items, k)
         /\ Qty(items, k) <= Qty(truck, k)
<1> DEFINE K == {i \in DOMAIN truck : i \notin DOMAIN items \/ truck[i] > items[i]}
<1>1. /\ k \in DOMAIN truck => truck[k] \in Nat /\ Qty(truck, k) = truck[k]
      /\ k \notin DOMAIN truck => Qty(truck, k) = 0
  BY MapFacts
<1>2. /\ k \in DOMAIN items => items[k] \in Nat /\ Qty(items, k) = items[k]
      /\ k \notin DOMAIN items => Qty(items, k) = 0
  BY MapFacts
<1>3. k \in DOMAIN items => Qty(truck, k) >= items[k]
  BY DEF CanDeliver
<1>4. DOMAIN Unload(truck, items) = K
  BY UnloadFacts
<1>5. CASE k \in K
  <2>1. Unload(truck, items)[k] = Qty(truck, k) - Qty(items, k)
    BY <1>4, <1>5 DEF Unload
  <2>2. Unload(truck, items) \in Maps
    BY UnloadFacts
  <2>3. Qty(Unload(truck, items), k) = Unload(truck, items)[k]
    BY <1>4, <1>5, <2>2, MapFacts
  <2>4. Qty(items, k) <= Qty(truck, k)
    BY <1>1, <1>2, <1>3
  <2> QED BY <2>1, <2>3, <2>4
<1>6. CASE k \notin K
  <2>1. Qty(Unload(truck, items), k) = 0
    BY <1>4, <1>6 DEF Qty
  <2>2. Qty(truck, k) = Qty(items, k)
    BY <1>1, <1>2, <1>3, <1>6
  <2> QED BY <1>1, <1>2, <2>1, <2>2
<1> QED BY <1>5, <1>6

-----------------------------------------------------------------------------
(* The folds of the model, one place at a time *)

\* What the orders of some stores ask for together.
DemandOf(orders) == Sums!Fold(0, NoItems, orders)

\* The preferred strategy's pass over some warehouses.
LoadsOf(r, ws) ==
  LoadPass!Fold(r, [need |-> Demand(r), of |-> [w \in Warehouse |-> NoItems]], ws)

\* The pickups of a route, at the origin and at some extra warehouses.
PickupsOf(of, ws) == PickupPass!Fold(of, <<Pickup(Origin, of[Origin])>>, ws)

\* The fallback's state before the first store.
Start(r) ==
  LET load == LoadFrom(r.stock[Origin], Demand(r))
  IN  [truck |-> load, route |-> <<Pickup(Origin, load)>>,
       used |-> {Origin}, short |-> FALSE]

\* What some warehouses hold of a SKU.
StockedOf(r, k, ws) == StockedSum!Fold([stock |-> r.stock, sku |-> k], 0, ws)

\* The model's folds are the folds that the instances are about.
LEMMA DemandFolds ==
  ASSUME NEW r
  PROVE  Demand(r) = DemandOf(r.stores)
BY DEF Demand, DemandOf, AddMaps, Sums!Fold, FoldLeft, MapThenFoldSet, Sums!FoldLeft,
       Sums!MapThenFoldSet, Max, Sums!Max

LEMMA LoadsFold ==
  ASSUME NEW r
  PROVE  Loads(r) = LoadsOf(r, <<Origin>> \o r.extra)
BY DEF Loads, LoadsOf, LoadPass!Fold, FoldLeft, MapThenFoldSet, LoadPass!FoldLeft,
       LoadPass!MapThenFoldSet, Max, LoadPass!Max

LEMMA PickupsFold ==
  ASSUME NEW r
  PROVE  Pickups(r) = PickupsOf(Loads(r).of, r.extra)
BY DEF Pickups, PickupsOf, PickupPass!Fold, FoldLeft, MapThenFoldSet,
       PickupPass!FoldLeft, PickupPass!MapThenFoldSet, Max, PickupPass!Max

LEMMA TopUpFolds ==
  ASSUME NEW r, NEW acc, NEW items
  PROVE  TopUp(r, acc, items)
           = TopUpPass!Fold([stock |-> r.stock, items |-> items], acc, r.extra)
BY DEF TopUp, TopUpPass!Fold, FoldLeft, MapThenFoldSet, TopUpPass!FoldLeft,
       TopUpPass!MapThenFoldSet, Max, TopUpPass!Max

LEMMA FallbackFolds ==
  ASSUME NEW r
  PROVE  Fallback(r) = Visits!Fold(r, Start(r), [i \in DOMAIN r.stores |-> i])
BY DEF Fallback, Start, Visits!Fold, FoldLeft, MapThenFoldSet, Visits!FoldLeft,
       Visits!MapThenFoldSet, Max, Visits!Max

LEMMA WalkFolds ==
  ASSUME NEW stops
  PROVE  Walk(stops) = Walks!Fold(0, [truck |-> NoItems, bad |-> FALSE], stops)
BY DEF Walk, WalkOn, Walks!Fold, FoldLeft, MapThenFoldSet, Walks!FoldLeft,
       Walks!MapThenFoldSet, Max, Walks!Max

LEMMA LoadedFolds ==
  ASSUME NEW stops, NEW w, NEW k
  PROVE  Loaded(stops, w, k) = LoadedSum!Fold([at |-> w, sku |-> k], 0, stops)
BY DEF Loaded, LoadedSum!Fold, FoldLeft, MapThenFoldSet, LoadedSum!FoldLeft,
       LoadedSum!MapThenFoldSet, Max, LoadedSum!Max

LEMMA StockedFolds ==
  ASSUME NEW r, NEW k
  PROVE  Stocked(r, k) = StockedOf(r, k, <<Origin>> \o r.extra)
BY DEF Stocked, StockedOf, StockedSum!Fold, FoldLeft, MapThenFoldSet,
       StockedSum!FoldLeft, StockedSum!MapThenFoldSet, Max, StockedSum!Max

LEMMA BalanceFolds ==
  ASSUME NEW stops, NEW k
  PROVE  Balance(stops, k) = EntrySum!Fold(k, 0, stops)
BY DEF Balance, EntrySum!Fold, FoldLeft, MapThenFoldSet, EntrySum!FoldLeft,
       EntrySum!MapThenFoldSet, Max, EntrySum!Max

\* Stops with quantities and store places that have no bound.
PlanStop == [kind: {"warehouse", "depot"}, at: Warehouse, items: Maps]
       \cup [kind: {"store"}, at: Nat, items: Maps]

\* The fold of no order, of one more order, and of any orders of a request.
LEMMA DemandSteps ==
  /\ DemandOf(<<>>) = NoItems
  /\ \A s \in Seq(Maps), m \in Maps : DemandOf(Append(s, m)) = Plus(DemandOf(s), m)
  /\ \A s \in Seq(Maps) : DemandOf(s) \in Maps
<1>1. DemandOf(<<>>) = NoItems
  BY Sums!FoldEmpty DEF DemandOf
<1>2. ASSUME NEW s \in Seq(Maps), NEW m \in Maps
      PROVE  DemandOf(Append(s, m)) = Plus(DemandOf(s), m)
  <2>1. Sums!Fold(0, NoItems, Append(s, m)) = AddMaps(0, Sums!Fold(0, NoItems, s), m)
    BY Sums!FoldAppend
  <2> QED BY <2>1 DEF DemandOf, AddMaps
<1> DEFINE S == {s \in Seq(Maps) : DemandOf(s) \in Maps}
<1>3. <<>> \in S
  BY <1>1, NoItemsFacts
<1>4. ASSUME NEW s \in Seq(Maps), NEW m \in Maps, s \in S
      PROVE  Append(s, m) \in S
  <2>1. Append(s, m) \in Seq(Maps)
    OBVIOUS
  <2>2. Plus(DemandOf(s), m) \in Maps
    BY <1>4, PlusFacts
  <2> QED BY <1>2, <2>1, <2>2
<1> HIDE DEF S
<1>5. Seq(Maps) \subseteq S
  BY <1>3, <1>4, Sums!SeqInduction
<1> USE DEF S
<1> QED BY <1>1, <1>2, <1>5

\* The same of the validator's walk over a route.
LEMMA WalkSteps ==
  /\ Walk(<<>>) = [truck |-> NoItems, bad |-> FALSE]
  /\ \A s \in Seq(PlanStop), x \in PlanStop : Walk(Append(s, x)) = WalkStep(Walk(s), x)
  /\ \A s \in Seq(PlanStop) : Walk(s) \in [truck: Maps, bad: BOOLEAN]
<1> DEFINE base == [truck |-> NoItems, bad |-> FALSE]
<1>1. Walk(<<>>) = base
  BY Walks!FoldEmpty, WalkFolds
<1>2. ASSUME NEW s \in Seq(PlanStop), NEW x \in PlanStop
      PROVE  Walk(Append(s, x)) = WalkStep(Walk(s), x)
  <2> HIDE DEF base
  <2>1. Walks!Fold(0, base, Append(s, x)) = WalkOn(0, Walks!Fold(0, base, s), x)
    BY Walks!FoldAppend
  <2> QED BY <2>1, WalkFolds DEF WalkOn, base
<1> DEFINE S == {s \in Seq(PlanStop) : Walk(s) \in [truck: Maps, bad: BOOLEAN]}
<1>3. <<>> \in S
  <2>1. base \in [truck: Maps, bad: BOOLEAN] /\ <<>> \in Seq(PlanStop)
    BY NoItemsFacts
  <2> QED BY <1>1, <2>1
<1>4. ASSUME NEW s \in Seq(PlanStop), NEW x \in PlanStop, s \in S
      PROVE  Append(s, x) \in S
  <2>1. Walk(s).truck \in Maps /\ Walk(s).bad \in BOOLEAN /\ x.items \in Maps
    BY <1>4 DEF PlanStop
  <2>2. Plus(Walk(s).truck, x.items) \in Maps /\ Unload(Walk(s).truck, x.items) \in Maps
    BY <2>1, PlusFacts, UnloadFacts
  <2>3. x.kind \in {"warehouse", "depot", "store"}
    BY DEF PlanStop
  <2>4. WalkStep(Walk(s), x) \in [truck: Maps, bad: BOOLEAN]
    BY <1>4, <2>1, <2>2, <2>3 DEF WalkStep
  <2> QED BY <1>2, <2>4
<1> HIDE DEF S
<1>5. Seq(PlanStop) \subseteq S
  BY <1>3, <1>4, Walks!SeqInduction
<1> USE DEF S
<1> QED BY <1>1, <1>2, <1>5

\* The same of what a route loads of a SKU at a warehouse.
LEMMA LoadedAppend ==
  ASSUME NEW w, NEW k, NEW s \in Seq(PlanStop), NEW x \in PlanStop
  PROVE  Loaded(Append(s, x), w, k)
           = IF x.kind = "warehouse" /\ x.at = w
             THEN Loaded(s, w, k) + Qty(x.items, k) ELSE Loaded(s, w, k)
<1> DEFINE c == [at |-> w, sku |-> k]
<1>1. LoadedSum!Fold(c, 0, Append(s, x)) = LoadedStep(c, LoadedSum!Fold(c, 0, s), x)
  <2> HIDE DEF c
  <2> QED BY LoadedSum!FoldAppend
<1> QED BY <1>1, LoadedFolds DEF LoadedStep

\* Loads add up to a natural.
LEMMA LoadedSteps ==
  ASSUME NEW w, NEW k
  PROVE  /\ Loaded(<<>>, w, k) = 0
         /\ \A s \in Seq(PlanStop) : Loaded(s, w, k) \in Nat
<1>1. Loaded(<<>>, w, k) = 0
  BY LoadedSum!FoldEmpty, LoadedFolds
<1> DEFINE S == {s \in Seq(PlanStop) : Loaded(s, w, k) \in Nat}
<1>2. <<>> \in S
  BY <1>1
<1>3. ASSUME NEW s \in Seq(PlanStop), NEW x \in PlanStop, s \in S
      PROVE  Append(s, x) \in S
  <2>1. Qty(x.items, k) \in Nat
    BY MapFacts DEF PlanStop
  <2> QED BY <1>3, <2>1, LoadedAppend
<1> HIDE DEF S
<1>4. Seq(PlanStop) \subseteq S
  BY <1>2, <1>3, LoadedSum!SeqInduction
<1> USE DEF S
<1> QED BY <1>1, <1>4

\* The same of the line entries of a route.
LEMMA BalanceSteps ==
  ASSUME NEW k
  PROVE  /\ Balance(<<>>, k) = 0
         /\ \A s \in Seq(PlanStop), x \in PlanStop :
              Balance(Append(s, x), k) = Balance(s, k) + Entry(x, k)
<1>1. Balance(<<>>, k) = 0
  BY EntrySum!FoldEmpty, BalanceFolds
<1>2. ASSUME NEW s \in Seq(PlanStop), NEW x \in PlanStop
      PROVE  Balance(Append(s, x), k) = Balance(s, k) + Entry(x, k)
  <2>1. EntrySum!Fold(k, 0, Append(s, x)) = EntryStep(k, EntrySum!Fold(k, 0, s), x)
    BY EntrySum!FoldAppend
  <2> QED BY <2>1, BalanceFolds DEF EntryStep
<1> QED BY <1>1, <1>2

\* The same of what some warehouses hold of a SKU.
LEMMA StockedSteps ==
  ASSUME NEW r, r.stock \in [Warehouse -> Stocks], NEW k \in Sku
  PROVE  /\ StockedOf(r, k, <<>>) = 0
         /\ \A s \in Seq(Warehouse), w \in Warehouse :
              StockedOf(r, k, Append(s, w)) = StockedOf(r, k, s) + r.stock[w][k]
         /\ \A s \in Seq(Warehouse) : StockedOf(r, k, s) \in Nat
<1> DEFINE c == [stock |-> r.stock, sku |-> k]
<1>1. StockedOf(r, k, <<>>) = 0
  BY StockedSum!FoldEmpty DEF StockedOf
<1>2. ASSUME NEW s \in Seq(Warehouse), NEW w \in Warehouse
      PROVE  StockedOf(r, k, Append(s, w)) = StockedOf(r, k, s) + r.stock[w][k]
  <2>1. StockedSum!Fold(c, 0, Append(s, w)) = StockedStep(c, StockedSum!Fold(c, 0, s), w)
    <3> HIDE DEF c
    <3> QED BY StockedSum!FoldAppend
  <2> QED BY <2>1 DEF StockedStep, StockedOf
<1> DEFINE S == {s \in Seq(Warehouse) : StockedOf(r, k, s) \in Nat}
<1>3. <<>> \in S
  BY <1>1
<1>4. ASSUME NEW s \in Seq(Warehouse), NEW w \in Warehouse, s \in S
      PROVE  Append(s, w) \in S
  <2>1. r.stock[w][k] \in Nat
    BY DEF Stocks
  <2> QED BY <1>2, <1>4, <2>1
<1> HIDE DEF S
<1>5. Seq(Warehouse) \subseteq S
  BY <1>3, <1>4, StockedSum!SeqInduction
<1> USE DEF S
<1> QED BY <1>1, <1>2, <1>5

\* What a stop does to the walk, with and without a violation.
LEMMA WalkStepFacts ==
  ASSUME NEW acc \in [truck: Maps, bad: BOOLEAN], NEW x \in PlanStop
  PROVE  /\ x.kind = "warehouse" =>
               /\ WalkStep(acc, x).truck = Plus(acc.truck, x.items)
               /\ ~WalkStep(acc, x).bad <=> ~acc.bad
         /\ x.kind = "store" =>
               /\ WalkStep(acc, x).truck = Unload(acc.truck, x.items)
               /\ ~WalkStep(acc, x).bad <=> ~acc.bad /\ CanDeliver(acc.truck, x.items)
         /\ x.kind = "depot" =>
               /\ WalkStep(acc, x).truck = acc.truck
               /\ ~WalkStep(acc, x).bad <=> ~acc.bad /\ x.at = Origin
<1>1. CASE x.kind = "warehouse"
  <2>1. WalkStep(acc, x) = [acc EXCEPT !.truck = Plus(acc.truck, x.items)]
    BY <1>1 DEF WalkStep
  <2> QED BY <1>1, <2>1
<1>2. CASE x.kind = "store"
  <2> DEFINE bad == acc.bad \/ ~CanDeliver(acc.truck, x.items)
  <2>1. WalkStep(acc, x) = [truck |-> Unload(acc.truck, x.items), bad |-> bad]
    BY <1>2 DEF WalkStep
  <2>2. bad \in BOOLEAN
    OBVIOUS
  <2>3. ~bad <=> ~acc.bad /\ CanDeliver(acc.truck, x.items)
    OBVIOUS
  <2> HIDE DEF bad
  <2> QED BY <1>2, <2>1, <2>2, <2>3
<1>3. CASE x.kind = "depot"
  <2> DEFINE bad == acc.bad \/ x.at # Origin
  <2>1. WalkStep(acc, x) = [acc EXCEPT !.bad = bad]
    BY <1>3 DEF WalkStep
  <2>2. bad \in BOOLEAN /\ (~bad <=> ~acc.bad /\ x.at = Origin)
    OBVIOUS
  <2> HIDE DEF bad
  <2> QED BY <1>3, <2>1, <2>2
<1> QED BY <1>1, <1>2, <1>3 DEF PlanStop

\* On a route without a violation, the line entries of the stops so far add up to
\* what the truck carries.
THEOREM EntriesCarry ==
  ASSUME NEW route0 \in Seq(PlanStop), ~Walk(route0).bad, NEW k \in Sku
  PROVE  Qty(Walk(route0).truck, k) = Balance(route0, k)
<1> DEFINE S == {s \in Seq(PlanStop) :
                   ~Walk(s).bad => Qty(Walk(s).truck, k) = Balance(s, k)}
<1>1. <<>> \in S
  <2>1. Qty(NoItems, k) = 0
    BY NoItemsFacts
  <2> QED BY <2>1, WalkSteps, BalanceSteps
<1>2. ASSUME NEW s \in Seq(PlanStop), NEW x \in PlanStop, s \in S
      PROVE  Append(s, x) \in S
  <2> DEFINE t == Append(s, x)
             W == Walk(s)
  <2>1. t \in Seq(PlanStop) /\ Walk(t) = WalkStep(W, x)
    BY WalkSteps
  <2>2. Balance(t, k) = Balance(s, k) + Entry(x, k)
    BY BalanceSteps
  <2>3. W \in [truck: Maps, bad: BOOLEAN] /\ W.truck \in Maps /\ x.items \in Maps
    BY WalkSteps DEF PlanStop
  <2>4. Qty(W.truck, k) \in Nat /\ Qty(x.items, k) \in Nat
    BY <2>3, MapFacts
  <2>5. ~W.bad => Qty(W.truck, k) = Balance(s, k)
    BY <1>2
  <2> SUFFICES ~Walk(t).bad => Qty(Walk(t).truck, k) = Balance(t, k)
    BY <2>1
  <2> HIDE DEF t, W, S
  <2>6. CASE x.kind = "warehouse"
    <3>1. /\ ~Walk(t).bad => ~W.bad
          /\ Walk(t).truck = Plus(W.truck, x.items)
      BY <2>1, <2>3, <2>6, WalkStepFacts
    <3>2. Qty(Walk(t).truck, k) = Qty(W.truck, k) + Qty(x.items, k)
      <4>1. W.truck \in Maps /\ x.items \in Maps
        BY <2>3
      <4>2. Qty(Plus(W.truck, x.items), k) = Qty(W.truck, k) + Qty(x.items, k)
        BY <4>1, PlusQty
      <4>3. Qty(Walk(t).truck, k) = Qty(Plus(W.truck, x.items), k)
        BY <3>1
      <4> QED BY <4>2, <4>3
    <3>3. Entry(x, k) = Qty(x.items, k)
      BY <2>6 DEF Entry
    <3> QED BY <2>2, <2>5, <3>1, <3>2, <3>3
  <2>7. CASE x.kind = "store"
    <3>1. /\ ~Walk(t).bad => ~W.bad /\ CanDeliver(W.truck, x.items)
          /\ Walk(t).truck = Unload(W.truck, x.items)
      BY <2>1, <2>3, <2>7, WalkStepFacts
    <3>2. ASSUME CanDeliver(W.truck, x.items)
          PROVE  Qty(Walk(t).truck, k) = Qty(W.truck, k) - Qty(x.items, k)
      <4>1. Qty(Unload(W.truck, x.items), k) = Qty(W.truck, k) - Qty(x.items, k)
        BY <2>3, <3>2, DeliveryFacts
      <4> QED BY <3>1, <4>1
    <3>3. Entry(x, k) = 0 - Qty(x.items, k)
      BY <2>7 DEF Entry
    <3> QED BY <2>2, <2>4, <2>5, <3>1, <3>2, <3>3
  <2>8. CASE x.kind = "depot"
    <3>1. Walk(t).truck = W.truck /\ (~Walk(t).bad => ~W.bad)
      BY <2>1, <2>3, <2>8, WalkStepFacts
    <3>2. Entry(x, k) = 0
      BY <2>8 DEF Entry
    <3> QED BY <2>2, <2>4, <2>5, <3>1, <3>2
  <2> QED BY <2>6, <2>7, <2>8 DEF PlanStop
<1> HIDE DEF S
<1>3. Seq(PlanStop) \subseteq S
  BY <1>1, <1>2, Walks!SeqInduction
<1> QED BY <1>3 DEF S

-----------------------------------------------------------------------------
(* Requests *)

\* The requests that ask for nothing negative.
Counted == {r \in Requests : NoneNegative(r)}

\* Maps whose quantities may be negative.
IntMaps == UNION {[K -> Int] : K \in SUBSET Sku}

\* What is known of every request, orders of any sign included.
LEMMA AnyRequestFacts ==
  ASSUME NEW r \in Requests
  PROVE  /\ r.extra \in Seq(Warehouse)
         /\ <<Origin>> \o r.extra \in Seq(Warehouse)
         /\ ~Repeats => IsInjective(<<Origin>> \o r.extra)
         /\ r.stores \in Seq(IntMaps)
         /\ Len(r.stores) \in 1..MaxStores
         /\ r.stock \in [Warehouse -> Stocks]
         /\ \A w \in Warehouse, k \in Sku : r.stock[w][k] \in Nat
<1>1. Origin \in Warehouse /\ MaxStores \in Nat /\ MaxExtra \in Nat
  BY RoutePlannerAssumption
<1>2. /\ r.extra \in BoundedSeq(Warehouse, MaxExtra)
      /\ Repeats \/ IsInjective(<<Origin>> \o r.extra)
  BY DEF Requests, ExtraLists
<1>3. r.extra \in Seq(Warehouse)
  BY <1>1, <1>2 DEF BoundedSeq, SeqOf
<1>4. <<Origin>> \o r.extra \in Seq(Warehouse)
  BY <1>1, <1>3
<1>5. r.stores \in BoundedSeq(Orders, MaxStores) /\ r.stores # <<>>
  BY DEF Requests
<1>6. PICK n \in 0..MaxStores : r.stores \in [1..n -> Orders]
  BY <1>1, <1>5 DEF BoundedSeq, SeqOf
<1>7. r.stores \in Seq(Orders) /\ Len(r.stores) = n
  BY <1>1, <1>6
<1>8. n # 0
  <2>1. CASE n = 0
    BY <1>5, <1>7, <2>1
  <2> QED BY <2>1
<1>9. Orders \subseteq IntMaps
  <2>1. MinQty \in Int /\ MaxQty \in Int
    BY RoutePlannerAssumption
  <2>2. ASSUME NEW m \in Orders
        PROVE  m \in IntMaps
    <3>1. PICK K \in SUBSET Sku : m \in [K -> MinQty..MaxQty]
      BY DEF Orders
    <3>2. m \in [K -> Int]
      BY <2>1, <3>1
    <3> QED BY <3>2 DEF IntMaps
  <2> QED BY <2>2
<1>10. r.stores \in Seq(IntMaps)
  BY <1>7, <1>9
<1>11. r.stock \in [Warehouse -> [Sku -> 0..MaxStock]] /\ MaxStock \in Nat
  BY RoutePlannerAssumption DEF Requests
<1>12. r.stock \in [Warehouse -> Stocks]
  BY <1>11 DEF Stocks
<1> QED BY <1>1, <1>2, <1>3, <1>4, <1>6, <1>7, <1>8, <1>10, <1>11, <1>12

\* Without negative quantities, orders are of the natural kind.
LEMMA RequestFacts ==
  ASSUME NEW r \in Counted
  PROVE  /\ r.extra \in Seq(Warehouse)
         /\ <<Origin>> \o r.extra \in Seq(Warehouse)
         /\ r.stores \in Seq(Maps)
         /\ Len(r.stores) \in 1..MaxStores
         /\ r.stock \in [Warehouse -> Stocks]
         /\ \A w \in Warehouse, k \in Sku : r.stock[w][k] \in Nat
<1>1. r \in Requests /\ NoneNegative(r)
  BY DEF Counted
<1>2. r.stores \in Seq(IntMaps) /\ Len(r.stores) \in Nat
  BY <1>1, AnyRequestFacts
<1>3. ASSUME NEW i \in 1..Len(r.stores)
      PROVE  r.stores[i] \in Maps
  <2>1. r.stores[i] \in IntMaps
    BY <1>2
  <2>2. PICK K \in SUBSET Sku : r.stores[i] \in [K -> Int]
    BY <2>1 DEF IntMaps
  <2>3. \A k \in K : r.stores[i][k] >= 0
    BY <1>1, <1>2, <2>2 DEF NoneNegative
  <2>4. r.stores[i] \in [K -> Nat]
    BY <2>2, <2>3
  <2> QED BY <2>4 DEF Maps
<1>4. r.stores \in Seq(Maps)
  BY <1>2, <1>3
<1> QED BY <1>1, <1>4, AnyRequestFacts

-----------------------------------------------------------------------------
(* The preferred strategy's loads *)

LoadState == [need: Maps, of: [Warehouse -> Maps]]

\* Where the pass starts.
NoLoads(r) == [need |-> Demand(r), of |-> [w \in Warehouse |-> NoItems]]

\* A request's demand is a map.
LEMMA DemandMap ==
  ASSUME NEW r \in Counted
  PROVE  Demand(r) \in Maps
BY DemandFolds, DemandSteps, RequestFacts

\* What one warehouse does to the pass.
LEMMA LoadStepFacts ==
  ASSUME NEW r \in Counted, NEW acc \in LoadState, NEW w \in Warehouse
  PROVE  /\ LoadStep(r, acc, w) \in LoadState
         /\ LoadStep(r, acc, w).need
              = Remaining(acc.need, LoadFrom(r.stock[w], acc.need))
         /\ \A v \in Warehouse \ {w} : LoadStep(r, acc, w).of[v] = acc.of[v]
         /\ LoadStep(r, acc, w).of[w]
              = IF DOMAIN LoadFrom(r.stock[w], acc.need) = {} THEN acc.of[w]
                ELSE LoadFrom(r.stock[w], acc.need)
<1> DEFINE load == LoadFrom(r.stock[w], acc.need)
<1>1. r.stock[w] \in Stocks /\ acc.need \in Maps /\ acc.of \in [Warehouse -> Maps]
  BY RequestFacts DEF LoadState
<1>2. load \in Maps
  BY <1>1, LoadFromFacts
<1>3. Remaining(acc.need, load) \in Maps
  <2>1. /\ DOMAIN load \subseteq DOMAIN acc.need
        /\ \A k \in Sku : Qty(load, k) <= Qty(acc.need, k)
    BY <1>1, LoadFits
  <2> QED BY <1>1, <1>2, <2>1, RemainingFacts
<1> DEFINE of == IF DOMAIN load = {} THEN acc.of ELSE [acc.of EXCEPT ![w] = load]
<1>4. LoadStep(r, acc, w) = [need |-> Remaining(acc.need, load), of |-> of]
  BY DEF LoadStep
<1> HIDE DEF load
<1>5. of \in [Warehouse -> Maps]
  BY <1>1, <1>2
<1>6. /\ \A v \in Warehouse \ {w} : of[v] = acc.of[v]
      /\ of[w] = IF DOMAIN load = {} THEN acc.of[w] ELSE load
  BY <1>1
<1> HIDE DEF of
<1> QED BY <1>3, <1>4, <1>5, <1>6 DEF LoadState, load

\* The pass over no warehouse, and over one more.
LEMMA LoadsSteps ==
  ASSUME NEW r \in Counted
  PROVE  /\ LoadsOf(r, <<>>) = NoLoads(r)
         /\ \A s \in Seq(Warehouse), w \in Warehouse :
              LoadsOf(r, Append(s, w)) = LoadStep(r, LoadsOf(r, s), w)
         /\ \A s \in Seq(Warehouse) : LoadsOf(r, s) \in LoadState
<1>1. LoadsOf(r, <<>>) = NoLoads(r)
  BY LoadPass!FoldEmpty DEF LoadsOf, NoLoads
<1>2. ASSUME NEW s \in Seq(Warehouse), NEW w \in Warehouse
      PROVE  LoadsOf(r, Append(s, w)) = LoadStep(r, LoadsOf(r, s), w)
  BY LoadPass!FoldAppend DEF LoadsOf
<1> DEFINE S == {s \in Seq(Warehouse) : LoadsOf(r, s) \in LoadState}
<1>3. <<>> \in S
  <2>1. NoLoads(r) \in LoadState
    BY DemandMap, NoItemsFacts DEF NoLoads, LoadState
  <2> QED BY <1>1, <2>1
<1>4. ASSUME NEW s \in Seq(Warehouse), NEW w \in Warehouse, s \in S
      PROVE  Append(s, w) \in S
  <2>1. LoadStep(r, LoadsOf(r, s), w) \in LoadState
    BY <1>4, LoadStepFacts
  <2> QED BY <1>2, <2>1
<1> HIDE DEF S
<1>5. Seq(Warehouse) \subseteq S
  BY <1>3, <1>4, LoadPass!SeqInduction
<1> USE DEF S
<1> QED BY <1>1, <1>2, <1>5

\* No warehouse loads more than is asked for or than it has, nothing is needed
\* that was not asked for, and a warehouse not passed yet has loaded nothing.
LoadsFit(r, s) ==
  /\ DOMAIN LoadsOf(r, s).need \subseteq DOMAIN Demand(r)
  /\ \A k \in Sku : Qty(LoadsOf(r, s).need, k) <= Qty(Demand(r), k)
  /\ \A w \in Warehouse :
       /\ DOMAIN LoadsOf(r, s).of[w] \subseteq DOMAIN Demand(r)
       /\ \A k \in Sku : /\ Qty(LoadsOf(r, s).of[w], k) <= Qty(Demand(r), k)
                         /\ Qty(LoadsOf(r, s).of[w], k) <= r.stock[w][k]
       /\ w \notin Range(s) => LoadsOf(r, s).of[w] = NoItems

\* It holds after every part of the pass.
LEMMA LoadsFitAll ==
  ASSUME NEW r \in Counted, NEW ws \in Seq(Warehouse)
  PROVE  LoadsFit(r, ws)
<1> DEFINE S == {s \in Seq(Warehouse) : LoadsFit(r, s)}
           D == Demand(r)
<1>1. D \in Maps /\ \A k : Qty(D, k) \in Nat
  BY DemandMap, MapFacts
<1> HIDE DEF D
<1>2. LoadsFit(r, <<>>)
  <2>1. LoadsOf(r, <<>>).need = D /\ \A w \in Warehouse : LoadsOf(r, <<>>).of[w] = NoItems
    BY LoadsSteps DEF NoLoads, D
  <2>2. \A w \in Warehouse, k \in Sku : r.stock[w][k] \in Nat
    BY RequestFacts
  <2> QED BY <1>1, <2>1, <2>2, NoItemsFacts DEF LoadsFit, D
<1>3. ASSUME NEW s \in Seq(Warehouse), NEW w \in Warehouse, LoadsFit(r, s)
      PROVE  LoadsFit(r, Append(s, w))
  <2> DEFINE acc == LoadsOf(r, s)
             new == LoadsOf(r, Append(s, w))
             stock == r.stock[w]
             need == acc.need
             load == LoadFrom(stock, need)
  <2>1. new = LoadStep(r, acc, w) /\ acc \in LoadState
    BY LoadsSteps
  <2>2. stock \in Stocks /\ need \in Maps
    BY <2>1, RequestFacts DEF LoadState
  <2> HIDE DEF acc, new
  <2>3. /\ new.need = Remaining(need, load)
        /\ \A v \in Warehouse \ {w} : new.of[v] = acc.of[v]
        /\ new.of[w] = load \/ new.of[w] = acc.of[w]
    BY <2>1, LoadStepFacts
  <2> HIDE DEF stock, need
  <2>4. /\ load \in Maps
        /\ DOMAIN load \subseteq DOMAIN need
        /\ \A k \in Sku : Qty(load, k) <= Qty(need, k) /\ Qty(load, k) <= stock[k]
    BY <2>2, LoadFits
  <2>5. \A k : Qty(load, k) \in Nat /\ Qty(need, k) \in Nat
    BY <2>2, <2>4, MapFacts
  <2>6. /\ DOMAIN Remaining(need, load) \subseteq DOMAIN need
        /\ \A k \in Sku : Qty(Remaining(need, load), k) = Qty(need, k) - Qty(load, k)
    BY <2>2, <2>4, RemainingFacts
  <2>7. Range(Append(s, w)) = Range(s) \cup {w}
    BY DEF Range
  <2> HIDE DEF load
  <2>8. /\ DOMAIN need \subseteq DOMAIN D
        /\ \A k \in Sku : Qty(need, k) <= Qty(D, k)
        /\ \A v \in Warehouse :
             /\ DOMAIN acc.of[v] \subseteq DOMAIN D
             /\ \A k \in Sku : Qty(acc.of[v], k) <= Qty(D, k) /\ Qty(acc.of[v], k) <= r.stock[v][k]
             /\ v \notin Range(s) => acc.of[v] = NoItems
    BY <1>3 DEF LoadsFit, acc, need, D
  <2>9. /\ DOMAIN new.need \subseteq DOMAIN D
        /\ \A k \in Sku : Qty(new.need, k) <= Qty(D, k)
    BY <1>1, <2>5, <2>6, <2>3, <2>8
  <2>10. ASSUME NEW v \in Warehouse
         PROVE  /\ DOMAIN new.of[v] \subseteq DOMAIN D
                /\ \A k \in Sku : /\ Qty(new.of[v], k) <= Qty(D, k)
                                  /\ Qty(new.of[v], k) <= r.stock[v][k]
                /\ v \notin Range(s) \cup {w} => new.of[v] = NoItems
    <3>1. CASE v # w
      BY <2>3, <2>8, <3>1
    <3>2. CASE v = w /\ new.of[w] = acc.of[w]
      BY <2>8, <3>2
    <3>3. CASE v = w /\ new.of[w] = load
      <4>1. \A k \in Sku : Qty(load, k) <= Qty(D, k)
        BY <1>1, <2>4, <2>5, <2>8
      <4> QED BY <2>4, <2>8, <3>3, <4>1 DEF stock
    <3> QED BY <2>3, <3>1, <3>2, <3>3
  <2> QED BY <2>7, <2>9, <2>10 DEF LoadsFit, new, D
<1> HIDE DEF D
<1>4. <<>> \in S
  BY <1>2
<1>5. ASSUME NEW s \in Seq(Warehouse), NEW w \in Warehouse, s \in S
      PROVE  Append(s, w) \in S
  BY <1>3, <1>5
<1> HIDE DEF S
<1>6. Seq(Warehouse) \subseteq S
  BY <1>4, <1>5, LoadPass!SeqInduction
<1> QED BY <1>6 DEF S

\* What a warehouse passed for the first time loads is what stops being needed.
LEMMA FreshLoad ==
  ASSUME NEW r \in Counted, NEW acc \in LoadState, NEW w \in Warehouse,
         acc.of[w] = NoItems
  PROVE  /\ \A k \in Sku : Qty(LoadStep(r, acc, w).need, k) + Qty(LoadStep(r, acc, w).of[w], k)
                             = Qty(acc.need, k)
         /\ DOMAIN acc.need \subseteq
              DOMAIN LoadStep(r, acc, w).need \cup DOMAIN LoadStep(r, acc, w).of[w]
         /\ DOMAIN LoadStep(r, acc, w).of[w] \subseteq DOMAIN acc.need
<1> DEFINE new == LoadStep(r, acc, w)
           stock == r.stock[w]
           need == acc.need
           load == LoadFrom(stock, need)
<1>1. /\ new.need = Remaining(need, load)
      /\ new.of[w] = IF DOMAIN load = {} THEN NoItems ELSE load
  BY LoadStepFacts
<1>2. stock \in Stocks /\ need \in Maps
  BY RequestFacts DEF LoadState
<1> HIDE DEF new, stock, need
<1>3. /\ load \in Maps /\ DOMAIN load \subseteq DOMAIN need
      /\ \A k \in Sku : Qty(load, k) <= Qty(need, k)
  BY <1>2, LoadFits
<1>4. DOMAIN new.of[w] = DOMAIN load
  BY <1>1, NoItemsFacts
<1>5. DOMAIN new.need = {k \in DOMAIN need : k \notin DOMAIN load \/ need[k] > load[k]}
  BY <1>1, <1>2, <1>3, RemainingFacts
<1>6. ASSUME NEW k \in Sku
      PROVE  Qty(new.need, k) + Qty(new.of[w], k) = Qty(need, k)
  <2>1. Qty(new.of[w], k) = Qty(load, k)
    <3>1. DOMAIN load = {} => Qty(load, k) = 0 /\ Qty(NoItems, k) = 0
      BY <1>3, MapFacts, NoItemsFacts
    <3> QED BY <1>1, <3>1
  <2>2. Qty(Remaining(need, load), k) = Qty(need, k) - Qty(load, k)
    <3> HIDE DEF load
    <3> QED BY <1>2, <1>3, RemainingFacts
  <2>3. Qty(need, k) \in Nat /\ Qty(load, k) \in Nat
    BY <1>2, <1>3, MapFacts
  <2> QED BY <1>1, <2>1, <2>2, <2>3
<1>7. DOMAIN need \subseteq DOMAIN new.need \cup DOMAIN new.of[w]
  BY <1>4, <1>5
<1> QED BY <1>3, <1>4, <1>6, <1>7 DEF new, need

-----------------------------------------------------------------------------
(* One more stop on a route *)

\* A pickup adds to the truck and to what its warehouse has given.
LEMMA PickupOn ==
  ASSUME NEW s \in Seq(PlanStop), NEW w \in Warehouse, NEW load \in Maps
  PROVE  /\ Append(s, Pickup(w, load)) \in Seq(PlanStop)
         /\ Walk(Append(s, Pickup(w, load))).truck = Plus(Walk(s).truck, load)
         /\ ~Walk(Append(s, Pickup(w, load))).bad <=> ~Walk(s).bad
         /\ \A k \in Sku : Loaded(Append(s, Pickup(w, load)), w, k)
                             = Loaded(s, w, k) + Qty(load, k)
         /\ \A v \in Warehouse \ {w}, k \in Sku :
              Loaded(Append(s, Pickup(w, load)), v, k) = Loaded(s, v, k)
<1> DEFINE x == Pickup(w, load)
<1>1. x \in PlanStop /\ x.kind = "warehouse" /\ x.at = w /\ x.items = load
  BY DEF Pickup, PlanStop
<1> HIDE DEF x
<1>2. Walk(s) \in [truck: Maps, bad: BOOLEAN] /\ Walk(Append(s, x)) = WalkStep(Walk(s), x)
  BY <1>1, WalkSteps
<1>3. /\ Walk(Append(s, x)).truck = Plus(Walk(s).truck, load)
      /\ ~Walk(Append(s, x)).bad <=> ~Walk(s).bad
  BY <1>1, <1>2, WalkStepFacts
<1>4. ASSUME NEW v \in Warehouse, NEW k \in Sku
      PROVE  Loaded(Append(s, x), v, k)
               = IF v = w THEN Loaded(s, v, k) + Qty(load, k) ELSE Loaded(s, v, k)
  <2>1. Loaded(Append(s, x), v, k)
          = IF x.kind = "warehouse" /\ x.at = v
            THEN Loaded(s, v, k) + Qty(x.items, k) ELSE Loaded(s, v, k)
    BY <1>1, LoadedAppend
  <2> QED BY <1>1, <2>1
<1> QED BY <1>1, <1>3, <1>4 DEF x

\* A delivery takes off the truck what it brings, if the truck has it.
LEMMA DeliveryOn ==
  ASSUME NEW s \in Seq(PlanStop), NEW i \in Nat, NEW items \in Maps
  PROVE  /\ Append(s, Delivery(i, items)) \in Seq(PlanStop)
         /\ Walk(Append(s, Delivery(i, items))).truck = Unload(Walk(s).truck, items)
         /\ ~Walk(Append(s, Delivery(i, items))).bad
              <=> ~Walk(s).bad /\ CanDeliver(Walk(s).truck, items)
         /\ \A v \in Warehouse, k \in Sku :
              Loaded(Append(s, Delivery(i, items)), v, k) = Loaded(s, v, k)
<1> DEFINE x == Delivery(i, items)
<1>1. x \in PlanStop /\ x.kind = "store" /\ x.items = items
  BY DEF Delivery, PlanStop
<1> HIDE DEF x
<1>2. Walk(s) \in [truck: Maps, bad: BOOLEAN] /\ Walk(Append(s, x)) = WalkStep(Walk(s), x)
  BY <1>1, WalkSteps
<1>3. /\ Walk(Append(s, x)).truck = Unload(Walk(s).truck, items)
      /\ ~Walk(Append(s, x)).bad <=> ~Walk(s).bad /\ CanDeliver(Walk(s).truck, items)
  BY <1>1, <1>2, WalkStepFacts
<1>4. ASSUME NEW v \in Warehouse, NEW k \in Sku
      PROVE  Loaded(Append(s, x), v, k) = Loaded(s, v, k)
  <2>1. Loaded(Append(s, x), v, k)
          = IF x.kind = "warehouse" /\ x.at = v
            THEN Loaded(s, v, k) + Qty(x.items, k) ELSE Loaded(s, v, k)
    BY <1>1, LoadedAppend
  <2> QED BY <1>1, <2>1
<1> QED BY <1>1, <1>3, <1>4 DEF x

\* A depot changes nothing that the validator or the entries count.
LEMMA DepotOn ==
  ASSUME NEW s \in Seq(PlanStop)
  PROVE  /\ Append(s, Depot) \in Seq(PlanStop)
         /\ Walk(Append(s, Depot)).truck = Walk(s).truck
         /\ ~Walk(Append(s, Depot)).bad <=> ~Walk(s).bad
         /\ \A v \in Warehouse, k \in Sku :
              Loaded(Append(s, Depot), v, k) = Loaded(s, v, k)
<1>1. Depot \in PlanStop /\ Depot.kind = "depot" /\ Depot.at = Origin
  BY RoutePlannerAssumption, NoItemsFacts DEF Depot, PlanStop
<1>2. /\ Walk(s) \in [truck: Maps, bad: BOOLEAN]
      /\ Walk(Append(s, Depot)) = WalkStep(Walk(s), Depot)
  BY <1>1, WalkSteps
<1>3. /\ Walk(Append(s, Depot)).truck = Walk(s).truck
      /\ ~Walk(Append(s, Depot)).bad <=> ~Walk(s).bad
  BY <1>1, <1>2, WalkStepFacts
<1>4. ASSUME NEW v \in Warehouse, NEW k \in Sku
      PROVE  Loaded(Append(s, Depot), v, k) = Loaded(s, v, k)
  <2>1. Loaded(Append(s, Depot), v, k)
          = IF Depot.kind = "warehouse" /\ Depot.at = v
            THEN Loaded(s, v, k) + Qty(Depot.items, k) ELSE Loaded(s, v, k)
    BY <1>1, LoadedAppend
  <2> QED BY <1>1, <2>1
<1> QED BY <1>1, <1>3, <1>4

-----------------------------------------------------------------------------
(* The preferred strategy's pickups *)

\* One more warehouse after the origin, named once.
LEMMA OneMore ==
  ASSUME NEW s \in Seq(Warehouse), NEW w \in Warehouse
  PROVE  /\ <<Origin>> \o s \in Seq(Warehouse)
         /\ <<Origin>> \o Append(s, w) = Append(<<Origin>> \o s, w)
         /\ Range(Append(<<Origin>> \o s, w)) = Range(<<Origin>> \o s) \cup {w}
         /\ IsInjective(Append(<<Origin>> \o s, w)) =>
              IsInjective(<<Origin>> \o s) /\ w \notin Range(<<Origin>> \o s)
<1> DEFINE t == <<Origin>> \o s
           n == Len(t)
<1>1. t \in Seq(Warehouse)
  BY RoutePlannerAssumption
<1>2. <<Origin>> \o Append(s, w) = Append(t, w)
  OBVIOUS
<1> HIDE DEF t
<1>3. /\ n \in Nat /\ DOMAIN t = 1..n /\ DOMAIN Append(t, w) = 1..(n + 1)
      /\ Append(t, w)[n + 1] = w
      /\ \A i \in 1..n : Append(t, w)[i] = t[i]
  BY <1>1
<1> HIDE DEF n
<1>4. Range(Append(t, w)) = Range(t) \cup {w}
  BY <1>3 DEF Range
<1>5. ASSUME IsInjective(Append(t, w))
      PROVE  IsInjective(t) /\ w \notin Range(t)
  <2>1. \A i, j \in 1..(n + 1) : Append(t, w)[i] = Append(t, w)[j] => i = j
    BY <1>3, <1>5 DEF IsInjective
  <2>2. \A i, j \in 1..n : t[i] = t[j] => i = j
    BY <1>3, <2>1
  <2>3. \A i \in 1..n : t[i] # w
    BY <1>3, <2>1
  <2> QED BY <1>3, <2>2, <2>3 DEF IsInjective, Range
<1> QED BY <1>1, <1>2, <1>4, <1>5 DEF t

\* The pickups after the origin's, one warehouse at a time.
LEMMA PickupsSteps ==
  ASSUME NEW of
  PROVE  /\ PickupsOf(of, <<>>) = Append(<<>>, Pickup(Origin, of[Origin]))
         /\ \A s \in Seq(Warehouse), w \in Warehouse :
              PickupsOf(of, Append(s, w)) = PickupStep(of, PickupsOf(of, s), w)
<1>1. PickupsOf(of, <<>>) = <<Pickup(Origin, of[Origin])>>
  BY PickupPass!FoldEmpty DEF PickupsOf
<1>2. <<Pickup(Origin, of[Origin])>> = Append(<<>>, Pickup(Origin, of[Origin]))
  OBVIOUS
<1>3. ASSUME NEW s \in Seq(Warehouse), NEW w \in Warehouse
      PROVE  PickupsOf(of, Append(s, w)) = PickupStep(of, PickupsOf(of, s), w)
  BY PickupPass!FoldAppend DEF PickupsOf
<1> QED BY <1>1, <1>2, <1>3

\* The pickups of warehouses that are named once load exactly what the pass has
\* taken off the need, each warehouse its own load.
PickedUp(r, s, of) ==
  /\ PickupsOf(of, s) \in Seq(PlanStop)
  /\ ~Walk(PickupsOf(of, s)).bad
  /\ DOMAIN Walk(PickupsOf(of, s)).truck \subseteq DOMAIN Demand(r)
  /\ DOMAIN Demand(r) \subseteq DOMAIN Walk(PickupsOf(of, s)).truck
                        \cup DOMAIN LoadsOf(r, <<Origin>> \o s).need
  /\ \A k \in Sku :
       Qty(Walk(PickupsOf(of, s)).truck, k) + Qty(LoadsOf(r, <<Origin>> \o s).need, k)
         = Qty(Demand(r), k)
  /\ \A w \in Warehouse, k \in Sku :
       Loaded(PickupsOf(of, s), w, k)
         = IF w \in Range(<<Origin>> \o s) THEN Qty(of[w], k) ELSE 0

\* of has the loads of the pass over the origin and s.
LoadsAgree(r, s, of) ==
  \A w \in Range(<<Origin>> \o s) : of[w] = LoadsOf(r, <<Origin>> \o s).of[w]

\* The origin's pickup.
LEMMA PickedUpFirst ==
  ASSUME NEW r \in Counted, NEW of \in [Warehouse -> Maps], LoadsAgree(r, <<>>, of)
  PROVE  PickedUp(r, <<>>, of)
<1> DEFINE base == NoLoads(r)
           L == LoadsOf(r, <<Origin>> \o <<>>)
           D == Demand(r)
           P == PickupsOf(of, <<>>)
<1>1. Origin \in Warehouse /\ <<Origin>> \o <<>> = Append(<<>>, Origin)
  BY RoutePlannerAssumption
<1>2. Range(<<Origin>> \o <<>>) = {Origin}
  <2>1. Range(<<Origin>>) = {Origin}
    BY DEF Range
  <2> QED BY <2>1
<1>3. L = LoadStep(r, base, Origin) /\ base \in LoadState
  <2>1. <<>> \in Seq(Warehouse)
    OBVIOUS
  <2>2. LoadsOf(r, <<>>) = base /\ base \in LoadState
    BY <2>1, LoadsSteps
  <2>3. LoadsOf(r, Append(<<>>, Origin)) = LoadStep(r, LoadsOf(r, <<>>), Origin)
    BY <1>1, <2>1, LoadsSteps
  <2> QED BY <1>1, <2>2, <2>3
<1>4. base.need = D /\ base.of[Origin] = NoItems /\ of[Origin] = L.of[Origin]
  BY <1>1, <1>2 DEF NoLoads, LoadsAgree
<1> HIDE DEF base, L, D
<1>5. /\ \A k \in Sku : Qty(L.need, k) + Qty(of[Origin], k) = Qty(D, k)
      /\ DOMAIN D \subseteq DOMAIN L.need \cup DOMAIN of[Origin]
      /\ DOMAIN of[Origin] \subseteq DOMAIN D
  BY <1>1, <1>3, <1>4, FreshLoad
<1>6. P = Append(<<>>, Pickup(Origin, of[Origin])) /\ of[Origin] \in Maps
  BY <1>1, PickupsSteps
<1>7. <<>> \in Seq(PlanStop) /\ Walk(<<>>) = [truck |-> NoItems, bad |-> FALSE]
  BY WalkSteps
<1> HIDE DEF P
<1>8. <<>> \in Seq(PlanStop) /\ ~Walk(<<>>).bad /\ Walk(<<>>).truck = NoItems
  BY <1>7
<1>9. P \in Seq(PlanStop) /\ ~Walk(P).bad /\ Walk(P).truck = Plus(NoItems, of[Origin])
  <2>1. /\ P \in Seq(PlanStop)
        /\ Walk(P).truck = Plus(Walk(<<>>).truck, of[Origin])
        /\ ~Walk(P).bad <=> ~Walk(<<>>).bad
    BY <1>1, <1>6, <1>8, PickupOn
  <2> QED BY <1>8, <2>1
<1>10. /\ DOMAIN Walk(P).truck = DOMAIN of[Origin]
      /\ \A k : Qty(Walk(P).truck, k) = Qty(of[Origin], k)
  <2>1. \A k : Qty(of[Origin], k) \in Nat
    BY <1>6, MapFacts
  <2>2. DOMAIN Plus(NoItems, of[Origin]) = DOMAIN NoItems \cup DOMAIN of[Origin]
    BY <1>6, NoItemsFacts, PlusFacts
  <2>3. \A k : Qty(Plus(NoItems, of[Origin]), k) = Qty(NoItems, k) + Qty(of[Origin], k)
    BY <1>6, NoItemsFacts, PlusQty
  <2> QED BY <1>9, <2>1, <2>2, <2>3, NoItemsFacts
<1>11. \A k \in Sku : Qty(Walk(P).truck, k) + Qty(L.need, k) = Qty(D, k)
  <2>1. L.need \in Maps /\ \A k : Qty(L.need, k) \in Nat /\ Qty(of[Origin], k) \in Nat
    BY <1>1, <1>3, <1>6, LoadStepFacts, MapFacts DEF LoadState
  <2> QED BY <1>5, <1>10, <2>1
<1>12. ASSUME NEW w \in Warehouse, NEW k \in Sku
       PROVE  Loaded(P, w, k) = IF w \in {Origin} THEN Qty(of[w], k) ELSE 0
  <2>1. Loaded(<<>>, w, k) = 0 /\ Qty(of[Origin], k) \in Nat
    BY <1>6, LoadedSteps, MapFacts
  <2>2. CASE w = Origin
    <3>1. Loaded(P, w, k) = Loaded(<<>>, w, k) + Qty(of[Origin], k)
      BY <1>1, <1>6, <1>8, <2>2, PickupOn
    <3> QED BY <2>1, <2>2, <3>1
  <2>3. CASE w # Origin
    <3>1. Loaded(P, w, k) = Loaded(<<>>, w, k)
      <4>1. \A v \in Warehouse \ {Origin}, j \in Sku :
              Loaded(Append(<<>>, Pickup(Origin, of[Origin])), v, j) = Loaded(<<>>, v, j)
        BY <1>1, <1>6, <1>8, PickupOn
      <4> QED BY <1>6, <2>3, <4>1
    <3> QED BY <2>1, <2>3, <3>1
  <2> QED BY <2>2, <2>3
<1> QED BY <1>2, <1>5, <1>9, <1>10, <1>11, <1>12 DEF PickedUp, L, D, P

\* One more warehouse, not named before.
LEMMA PickedUpMore ==
  ASSUME NEW r \in Counted, NEW of \in [Warehouse -> Maps],
         NEW s \in Seq(Warehouse), NEW w \in Warehouse,
         w \notin Range(<<Origin>> \o s), PickedUp(r, s, of),
         of[w] = LoadsOf(r, <<Origin>> \o Append(s, w)).of[w]
  PROVE  PickedUp(r, Append(s, w), of)
<1> DEFINE acc == LoadsOf(r, <<Origin>> \o s)
           new == LoadsOf(r, <<Origin>> \o Append(s, w))
           D == Demand(r)
           P == PickupsOf(of, s)
           Q == PickupsOf(of, Append(s, w))
           R == Range(<<Origin>> \o s)
<1>1. <<Origin>> \o s \in Seq(Warehouse)
  BY OneMore
<1>2. acc \in LoadState /\ new = LoadStep(r, acc, w)
  <2>1. acc \in LoadState
    BY <1>1, LoadsSteps
  <2>2. LoadsOf(r, Append(<<Origin>> \o s, w)) = LoadStep(r, acc, w)
    BY <1>1, LoadsSteps
  <2> QED BY <2>1, <2>2, OneMore
<1>3. acc.of[w] = NoItems
  <2>1. LoadsFit(r, <<Origin>> \o s)
    BY <1>1, LoadsFitAll
  <2> QED BY <2>1 DEF LoadsFit
<1>4. Q = PickupStep(of, P, w) /\ of[w] \in Maps /\ of[w] = new.of[w]
  BY PickupsSteps
<1>5. Range(<<Origin>> \o Append(s, w)) = R \cup {w}
  BY OneMore
<1>6. /\ P \in Seq(PlanStop) /\ ~Walk(P).bad
      /\ DOMAIN Walk(P).truck \subseteq DOMAIN D
      /\ DOMAIN D \subseteq DOMAIN Walk(P).truck \cup DOMAIN acc.need
      /\ \A k \in Sku : Qty(Walk(P).truck, k) + Qty(acc.need, k) = Qty(D, k)
      /\ \A v \in Warehouse, k \in Sku :
           Loaded(P, v, k) = IF v \in R THEN Qty(of[v], k) ELSE 0
  BY DEF PickedUp
<1> HIDE DEF acc, new, D, P, Q, R
<1>7. new \in LoadState
  BY <1>2, LoadStepFacts
<1>8. /\ \A k \in Sku : Qty(new.need, k) + Qty(of[w], k) = Qty(acc.need, k)
      /\ DOMAIN acc.need \subseteq DOMAIN new.need \cup DOMAIN of[w]
      /\ DOMAIN of[w] \subseteq DOMAIN acc.need
  BY <1>2, <1>3, <1>4, FreshLoad
<1>9. DOMAIN acc.need \subseteq DOMAIN D
  <2>1. LoadsFit(r, <<Origin>> \o s)
    BY <1>1, LoadsFitAll
  <2> QED BY <2>1 DEF LoadsFit, acc, D
<1>10. Walk(P).truck \in Maps
  BY <1>6, WalkSteps
<1>11. \A k : /\ Qty(Walk(P).truck, k) \in Nat /\ Qty(of[w], k) \in Nat
              /\ Qty(acc.need, k) \in Nat /\ Qty(new.need, k) \in Nat
  BY <1>2, <1>4, <1>7, <1>10, MapFacts DEF LoadState
<1>12. CASE DOMAIN of[w] = {}
  <2>1. Q = P
    BY <1>4, <1>12 DEF PickupStep
  <2>2. \A k : Qty(of[w], k) = 0
    BY <1>4, <1>12, MapFacts
  <2>3. DOMAIN D \subseteq DOMAIN Walk(Q).truck \cup DOMAIN new.need
    BY <1>6, <1>8, <1>12, <2>1
  <2>4. \A k \in Sku : Qty(Walk(Q).truck, k) + Qty(new.need, k) = Qty(D, k)
    BY <1>6, <1>8, <1>11, <2>1, <2>2
  <2>5. ASSUME NEW v \in Warehouse, NEW k \in Sku
        PROVE  Loaded(Q, v, k) = IF v \in R \cup {w} THEN Qty(of[v], k) ELSE 0
    <3>1. CASE v = w
      <4>1. w \notin R
        BY DEF R
      <4> QED BY <1>6, <2>1, <2>2, <3>1, <4>1
    <3>2. CASE v # w
      BY <1>6, <2>1, <3>2
    <3> QED BY <3>1, <3>2
  <2> QED BY <1>5, <1>6, <2>1, <2>3, <2>4, <2>5 DEF PickedUp, Q, new, D
<1>13. CASE DOMAIN of[w] # {}
  <2>1. Q = Append(P, Pickup(w, of[w]))
    BY <1>4, <1>13 DEF PickupStep
  <2>2. Q \in Seq(PlanStop) /\ ~Walk(Q).bad /\ Walk(Q).truck = Plus(Walk(P).truck, of[w])
    BY <1>4, <1>6, <2>1, PickupOn
  <2>3. DOMAIN Walk(Q).truck = DOMAIN Walk(P).truck \cup DOMAIN of[w]
    BY <1>4, <1>10, <2>2, PlusFacts
  <2>4. ASSUME NEW k \in Sku
        PROVE  Qty(Walk(Q).truck, k) + Qty(new.need, k) = Qty(D, k)
    <3>1. Qty(Plus(Walk(P).truck, of[w]), k) = Qty(Walk(P).truck, k) + Qty(of[w], k)
      BY <1>4, <1>10, PlusQty
    <3> QED BY <1>6, <1>8, <1>11, <2>2, <3>1
  <2>5. ASSUME NEW v \in Warehouse, NEW k \in Sku
        PROVE  Loaded(Q, v, k) = IF v \in R \cup {w} THEN Qty(of[v], k) ELSE 0
    <3>1. CASE v = w
      <4>1. w \notin R
        BY DEF R
      <4>2. Loaded(Q, w, k) = Loaded(P, w, k) + Qty(of[w], k)
        BY <1>4, <1>6, <2>1, PickupOn
      <4> QED BY <1>6, <1>11, <3>1, <4>1, <4>2
    <3>2. CASE v # w
      <4>1. \A u \in Warehouse \ {w}, j \in Sku :
              Loaded(Append(P, Pickup(w, of[w])), u, j) = Loaded(P, u, j)
        BY <1>4, <1>6, PickupOn
      <4> QED BY <1>6, <2>1, <3>2, <4>1
    <3> QED BY <3>1, <3>2
  <2>6. /\ DOMAIN Walk(Q).truck \subseteq DOMAIN D
        /\ DOMAIN D \subseteq DOMAIN Walk(Q).truck \cup DOMAIN new.need
    BY <1>6, <1>8, <1>9, <2>3
  <2> QED BY <1>5, <2>2, <2>4, <2>5, <2>6 DEF PickedUp, Q, new, D
<1> QED BY <1>12, <1>13

\* The pickups of a whole list.
LEMMA PickedUpAll ==
  ASSUME NEW r \in Counted, NEW ws \in Seq(Warehouse), IsInjective(<<Origin>> \o ws),
         NEW loads \in [Warehouse -> Maps], LoadsAgree(r, ws, loads)
  PROVE  PickedUp(r, ws, loads)
<1> DEFINE S == {s \in Seq(Warehouse) :
                   IsInjective(<<Origin>> \o s) =>
                     \A of \in [Warehouse -> Maps] :
                       LoadsAgree(r, s, of) => PickedUp(r, s, of)}
<1>1. <<>> \in S
  <2>1. <<>> \in Seq(Warehouse)
    OBVIOUS
  <2> QED BY <2>1, PickedUpFirst
<1>2. ASSUME NEW s \in Seq(Warehouse), NEW w \in Warehouse, s \in S
      PROVE  Append(s, w) \in S
  <2>1. Append(s, w) \in Seq(Warehouse)
    OBVIOUS
  <2>2. ASSUME IsInjective(<<Origin>> \o Append(s, w)), NEW of \in [Warehouse -> Maps],
               LoadsAgree(r, Append(s, w), of)
        PROVE  PickedUp(r, Append(s, w), of)
    <3> DEFINE acc == LoadsOf(r, <<Origin>> \o s)
               new == LoadsOf(r, <<Origin>> \o Append(s, w))
               R == Range(<<Origin>> \o s)
    <3>1. /\ IsInjective(<<Origin>> \o s) /\ w \notin R
          /\ Range(<<Origin>> \o Append(s, w)) = R \cup {w}
          /\ <<Origin>> \o s \in Seq(Warehouse)
      BY <2>2, OneMore
    <3>2. acc \in LoadState /\ new = LoadStep(r, acc, w)
      <4>1. acc \in LoadState
        BY <3>1, LoadsSteps
      <4>2. LoadsOf(r, Append(<<Origin>> \o s, w)) = LoadStep(r, acc, w)
        BY <3>1, LoadsSteps
      <4> QED BY <4>1, <4>2, OneMore
    <3>3. R \subseteq Warehouse
      BY <3>1 DEF Range
    <3>4. \A v \in R \cup {w} : of[v] = new.of[v]
      BY <2>2, <3>1 DEF LoadsAgree
    <3> HIDE DEF acc, new, R
    <3>5. \A v \in R : new.of[v] = acc.of[v]
      <4>1. \A v \in Warehouse \ {w} : new.of[v] = acc.of[v]
        BY <3>2, LoadStepFacts
      <4> QED BY <3>1, <3>3, <4>1
    <3>6. LoadsAgree(r, s, of)
      BY <3>4, <3>5 DEF LoadsAgree, acc, R
    <3>7. PickedUp(r, s, of)
      BY <1>2, <3>1, <3>6
    <3> HIDE DEF S
    <3> QED BY <3>1, <3>4, <3>7, PickedUpMore DEF R, new
  <2> QED BY <2>1, <2>2
<1> HIDE DEF S
<1>3. Seq(Warehouse) \subseteq S
  BY <1>1, <1>2, LoadPass!SeqInduction
<1> QED BY <1>3 DEF S

-----------------------------------------------------------------------------
(* What the first stores ask for *)

DemandUpTo(r, n) == DemandOf(SubSeq(r.stores, 1, n))

\* The demand of the first stores, one store at a time.
LEMMA UpToSteps ==
  ASSUME NEW r \in Counted
  PROVE  /\ DemandUpTo(r, 0) = NoItems
         /\ \A n \in 0..(Len(r.stores) - 1) :
              DemandUpTo(r, n + 1) = Plus(DemandUpTo(r, n), r.stores[n + 1])
         /\ DemandUpTo(r, Len(r.stores)) = Demand(r)
         /\ \A n \in 0..Len(r.stores) : DemandUpTo(r, n) \in Maps
<1> DEFINE t == r.stores
<1>1. t \in Seq(Maps) /\ Len(t) \in Nat
  BY RequestFacts
<1>2. Demand(r) = DemandOf(t)
  BY DemandFolds
<1> HIDE DEF t
<1>3. SubSeq(t, 1, 0) = <<>> /\ SubSeq(t, 1, Len(t)) = t
  BY <1>1
<1>4. ASSUME NEW n \in 0..(Len(t) - 1)
      PROVE  DemandOf(SubSeq(t, 1, n + 1)) = Plus(DemandOf(SubSeq(t, 1, n)), t[n + 1])
  <2>1. SubSeq(t, 1, n) \in Seq(Maps) /\ t[n + 1] \in Maps
    BY <1>1
  <2>2. SubSeq(t, 1, n + 1) = Append(SubSeq(t, 1, n), t[n + 1])
    BY <1>1
  <2> QED BY <2>1, <2>2, DemandSteps
<1>5. ASSUME NEW n \in 0..Len(t)
      PROVE  DemandOf(SubSeq(t, 1, n)) \in Maps
  <2>1. SubSeq(t, 1, n) \in Seq(Maps)
    BY <1>1
  <2> QED BY <2>1, DemandSteps
<1> QED BY <1>2, <1>3, <1>4, <1>5, DemandSteps DEF DemandUpTo, t

\* What the stores ask for grows from store to store, and only by what a store on
\* the way asks for.
LEMMA UpToFacts ==
  ASSUME NEW r \in Counted, NEW last \in 0..Len(r.stores), NEW k \in Sku
  PROVE  /\ \A n \in 0..last :
              /\ Qty(DemandUpTo(r, n), k) <= Qty(DemandUpTo(r, last), k)
              /\ Qty(DemandUpTo(r, n), k) < Qty(DemandUpTo(r, last), k) =>
                   \E i \in (n + 1)..last : k \in DOMAIN r.stores[i]
         /\ k \in DOMAIN DemandUpTo(r, last) =>
              \E i \in 1..last : k \in DOMAIN r.stores[i]
<1> DEFINE U(n) == DemandUpTo(r, n)
           t == r.stores
           S == {m \in Nat : m <= Len(t) =>
                   /\ \A n \in 0..m :
                        /\ Qty(U(n), k) <= Qty(U(m), k)
                        /\ Qty(U(n), k) < Qty(U(m), k) =>
                             \E i \in (n + 1)..m : k \in DOMAIN t[i]
                   /\ k \in DOMAIN U(m) => \E i \in 1..m : k \in DOMAIN t[i]}
<1>1. /\ U(0) = NoItems
      /\ \A n \in 0..(Len(t) - 1) : U(n + 1) = Plus(U(n), t[n + 1])
      /\ \A n \in 0..Len(t) : U(n) \in Maps
  BY UpToSteps
<1>2. t \in Seq(Maps) /\ Len(t) \in Nat
  BY RequestFacts
<1>3. ASSUME NEW n \in 0..Len(t)
      PROVE  Qty(U(n), k) \in Nat
  <2>1. U(n) \in Maps
    BY <1>1
  <2> HIDE DEF U
  <2> QED BY <2>1, MapFacts
<1> HIDE DEF U
<1>4. 0 \in S
  <2>1. Qty(U(0), k) = 0 /\ DOMAIN U(0) = {}
    BY <1>1, NoItemsFacts
  <2> QED BY <2>1
<1>5. ASSUME NEW m \in Nat, m \in S
      PROVE  m + 1 \in S
  <2> SUFFICES ASSUME m + 1 <= Len(t)
               PROVE  /\ \A n \in 0..(m + 1) :
                           /\ Qty(U(n), k) <= Qty(U(m + 1), k)
                           /\ Qty(U(n), k) < Qty(U(m + 1), k) =>
                                \E i \in (n + 1)..(m + 1) : k \in DOMAIN t[i]
                      /\ k \in DOMAIN U(m + 1) => \E i \in 1..(m + 1) : k \in DOMAIN t[i]
    OBVIOUS
  <2>1. m \in 0..Len(t) /\ m \in 0..(Len(t) - 1) /\ m + 1 \in 0..Len(t) /\ m + 1 \in 1..Len(t)
    BY <1>2
  <2>2. U(m) \in Maps /\ t[m + 1] \in Maps /\ U(m + 1) = Plus(U(m), t[m + 1])
    BY <1>1, <1>2, <2>1
  <2>3. /\ DOMAIN U(m + 1) = DOMAIN U(m) \cup DOMAIN t[m + 1]
        /\ Qty(U(m + 1), k) = Qty(U(m), k) + Qty(t[m + 1], k)
    <3>1. DOMAIN Plus(U(m), t[m + 1]) = DOMAIN U(m) \cup DOMAIN t[m + 1]
      BY <2>2, PlusFacts
    <3>2. Qty(Plus(U(m), t[m + 1]), k) = Qty(U(m), k) + Qty(t[m + 1], k)
      BY <2>2, PlusQty
    <3> QED BY <2>2, <3>1, <3>2
  <2>4. /\ Qty(t[m + 1], k) \in Nat
        /\ k \notin DOMAIN t[m + 1] => Qty(t[m + 1], k) = 0
    BY <2>2, MapFacts
  <2>5. /\ \A n \in 0..m :
             /\ Qty(U(n), k) <= Qty(U(m), k)
             /\ Qty(U(n), k) < Qty(U(m), k) => \E i \in (n + 1)..m : k \in DOMAIN t[i]
        /\ k \in DOMAIN U(m) => \E i \in 1..m : k \in DOMAIN t[i]
    BY <1>5, <2>1
  <2> HIDE DEF S, t
  <2>6. ASSUME NEW n \in 0..(m + 1)
        PROVE  /\ Qty(U(n), k) <= Qty(U(m + 1), k)
               /\ Qty(U(n), k) < Qty(U(m + 1), k) =>
                    \E i \in (n + 1)..(m + 1) : k \in DOMAIN t[i]
    <3>1. CASE n = m + 1
      <4>1. Qty(U(n), k) = Qty(U(m + 1), k) /\ Qty(U(m + 1), k) \in Nat
        BY <1>3, <2>1, <3>1
      <4> QED BY <4>1
    <3>2. CASE n \in 0..m
      <4>1. Qty(U(n), k) \in Nat /\ Qty(U(m), k) \in Nat
        <5>1. n \in 0..Len(t)
          BY <1>2, <2>1, <3>2
        <5> QED BY <1>3, <2>1, <5>1
      <4>2. Qty(U(n), k) <= Qty(U(m), k)
        BY <2>5, <3>2
      <4>3. CASE k \in DOMAIN t[m + 1]
        <5>1. m + 1 \in (n + 1)..(m + 1)
          BY <3>2
        <5> QED BY <2>3, <2>4, <4>1, <4>2, <4>3, <5>1
      <4>4. CASE k \notin DOMAIN t[m + 1]
        <5>1. Qty(U(m + 1), k) = Qty(U(m), k)
          BY <2>3, <2>4, <4>1, <4>4
        <5>2. (n + 1)..m \subseteq (n + 1)..(m + 1)
          OBVIOUS
        <5>3. Qty(U(n), k) < Qty(U(m), k) => \E i \in (n + 1)..m : k \in DOMAIN t[i]
          BY <2>5, <3>2
        <5> QED BY <4>2, <5>1, <5>2, <5>3
      <4> QED BY <4>3, <4>4
    <3>3. n = m + 1 \/ n \in 0..m
      OBVIOUS
    <3> QED BY <3>1, <3>2, <3>3
  <2>7. k \in DOMAIN U(m + 1) => \E i \in 1..(m + 1) : k \in DOMAIN t[i]
    <3>1. 1..m \subseteq 1..(m + 1) /\ m + 1 \in 1..(m + 1)
      OBVIOUS
    <3> QED BY <2>3, <2>5, <3>1
  <2> QED BY <2>6, <2>7
<1> HIDE DEF S
<1>6. last \in S
  BY <1>2, <1>4, <1>5, Sums!SetInduction
<1> QED BY <1>2, <1>6 DEF S, U

-----------------------------------------------------------------------------
(* The deliveries after all pickups *)

DeliveriesUpTo(r, n) == [i \in 1..n |-> Delivery(i, r.stores[i])]

\* The deliveries, one at a time.
LEMMA DeliveriesSteps ==
  ASSUME NEW r \in Counted, NEW base \in Seq(PlanStop)
  PROVE  /\ base \o DeliveriesUpTo(r, 0) = base
         /\ \A n \in 0..(Len(r.stores) - 1) :
              base \o DeliveriesUpTo(r, n + 1)
                = Append(base \o DeliveriesUpTo(r, n), Delivery(n + 1, r.stores[n + 1]))
         /\ DeliveriesUpTo(r, Len(r.stores)) = Deliveries(r)
         /\ \A n \in 0..Len(r.stores) : base \o DeliveriesUpTo(r, n) \in Seq(PlanStop)
<1>1. r.stores \in Seq(Maps) /\ Len(r.stores) \in Nat
  BY RequestFacts
<1>2. \A i \in 1..Len(r.stores) : Delivery(i, r.stores[i]) \in PlanStop
  BY <1>1 DEF Delivery, PlanStop
<1>3. ASSUME NEW n \in 0..Len(r.stores)
      PROVE  DeliveriesUpTo(r, n) \in Seq(PlanStop) /\ Len(DeliveriesUpTo(r, n)) = n
  <2>1. \A i \in 1..n : Delivery(i, r.stores[i]) \in PlanStop
    BY <1>1, <1>2
  <2>2. DeliveriesUpTo(r, n) \in [1..n -> PlanStop] /\ n \in Nat
    BY <1>1, <2>1 DEF DeliveriesUpTo
  <2> QED BY <2>2
<1>4. base \o DeliveriesUpTo(r, 0) = base
  <2>1. DeliveriesUpTo(r, 0) \in Seq(PlanStop) /\ Len(DeliveriesUpTo(r, 0)) = 0
    BY <1>1, <1>3
  <2> QED BY <2>1
<1>5. ASSUME NEW n \in 0..(Len(r.stores) - 1)
      PROVE  base \o DeliveriesUpTo(r, n + 1)
               = Append(base \o DeliveriesUpTo(r, n), Delivery(n + 1, r.stores[n + 1]))
  <2> DEFINE a == DeliveriesUpTo(r, n)
             b == DeliveriesUpTo(r, n + 1)
             x == Delivery(n + 1, r.stores[n + 1])
  <2>1. n \in 0..Len(r.stores) /\ n + 1 \in 0..Len(r.stores) /\ n + 1 \in 1..Len(r.stores)
    BY <1>1
  <2>2. x \in PlanStop
    BY <1>2, <2>1
  <2>3. a \in Seq(PlanStop) /\ Len(a) = n
    BY <1>3, <2>1
  <2>4. b \in Seq(PlanStop) /\ Len(b) = n + 1
    BY <1>3, <2>1
  <2>5. b[n + 1] = x /\ \A i \in 1..n : b[i] = a[i]
    BY <2>1 DEF DeliveriesUpTo
  <2> HIDE DEF a, b, x
  <2>6. b = Append(a, x)
    BY <2>1, <2>2, <2>3, <2>4, <2>5
  <2>7. base \o Append(a, x) = Append(base \o a, x)
    BY <2>2, <2>3
  <2> QED BY <2>6, <2>7 DEF a, b, x
<1>6. ASSUME NEW n \in 0..Len(r.stores)
      PROVE  base \o DeliveriesUpTo(r, n) \in Seq(PlanStop)
  BY <1>3
<1>7. DeliveriesUpTo(r, Len(r.stores)) = Deliveries(r)
  BY <1>1 DEF DeliveriesUpTo, Deliveries
<1> QED BY <1>4, <1>5, <1>6, <1>7

\* A truck that carries the whole demand, and a key for nothing else, serves every
\* store and ends empty.
LEMMA Delivered ==
  ASSUME NEW r \in Counted, NEW base \in Seq(PlanStop), ~Walk(base).bad,
         DOMAIN Walk(base).truck \subseteq DOMAIN Demand(r),
         \A k \in Sku : Qty(Walk(base).truck, k) = Qty(Demand(r), k)
  PROVE  /\ base \o Deliveries(r) \in Seq(PlanStop)
         /\ ~Walk(base \o Deliveries(r)).bad
         /\ DOMAIN Walk(base \o Deliveries(r)).truck = {}
         /\ \A w \in Warehouse, k \in Sku :
              Loaded(base \o Deliveries(r), w, k) = Loaded(base, w, k)
<1> DEFINE R(n) == base \o DeliveriesUpTo(r, n)
           U(n) == DemandUpTo(r, n)
           D == Demand(r)
           t == r.stores
           len == Len(t)
           Good(n) ==
             /\ ~Walk(R(n)).bad
             /\ \A k \in Sku : Qty(Walk(R(n)).truck, k) + Qty(U(n), k) = Qty(D, k)
             /\ \A k \in DOMAIN Walk(R(n)).truck : \E i \in (n + 1)..len : k \in DOMAIN t[i]
             /\ \A w \in Warehouse, k \in Sku : Loaded(R(n), w, k) = Loaded(base, w, k)
           S == {n \in Nat : n <= len => Good(n)}
<1>1. t \in Seq(Maps) /\ len \in Nat
  BY RequestFacts
<1>2. /\ R(0) = base /\ R(len) = base \o Deliveries(r)
      /\ \A n \in 0..(len - 1) : R(n + 1) = Append(R(n), Delivery(n + 1, t[n + 1]))
      /\ \A n \in 0..len : R(n) \in Seq(PlanStop)
  BY DeliveriesSteps
<1>3. /\ U(0) = NoItems /\ U(len) = D
      /\ \A n \in 0..(len - 1) : U(n + 1) = Plus(U(n), t[n + 1])
      /\ \A n \in 0..len : U(n) \in Maps
  BY UpToSteps
<1>4. D \in Maps /\ DOMAIN D \subseteq Sku /\ \A k : Qty(D, k) \in Nat
  BY DemandMap, MapFacts
<1>5. ASSUME NEW n \in 0..len, NEW k \in Sku
      PROVE  /\ Qty(U(n), k) <= Qty(D, k)
             /\ Qty(U(n), k) < Qty(D, k) => \E i \in (n + 1)..len : k \in DOMAIN t[i]
  <2>1. len \in 0..len /\ n \in 0..len
    BY <1>1
  <2> QED BY <1>3, <2>1, UpToFacts
<1>6. \A k \in DOMAIN D : \E i \in 1..len : k \in DOMAIN t[i]
  <2>1. len \in 0..len
    BY <1>1
  <2>2. \A k \in Sku : k \in DOMAIN U(len) => \E i \in 1..len : k \in DOMAIN t[i]
    BY <2>1, UpToFacts
  <2> QED BY <1>3, <1>4, <2>2
<1> HIDE DEF R, U, D
<1>7. Good(0)
  <2>1. \A k : Qty(NoItems, k) = 0
    BY NoItemsFacts
  <2>2. \A k \in DOMAIN Walk(base).truck : \E i \in 1..len : k \in DOMAIN t[i]
    BY <1>6 DEF D
  <2>3. \A k \in Sku : Qty(Walk(base).truck, k) + Qty(U(0), k) = Qty(D, k)
    BY <1>3, <1>4, <2>1 DEF D
  <2>4. 0 + 1 = 1
    OBVIOUS
  <2> QED BY <1>2, <2>2, <2>3, <2>4
<1>8. ASSUME NEW n \in Nat, n + 1 <= len, Good(n)
      PROVE  Good(n + 1)
  <2> DEFINE next == n + 1
             T == Walk(R(n)).truck
             V == Walk(R(next)).truck
             items == t[next]
  <2>1. n \in 0..len /\ n \in 0..(len - 1) /\ next \in 0..len /\ next \in 1..len
    BY <1>1, <1>8
  <2>2. /\ R(n) \in Seq(PlanStop) /\ items \in Maps
        /\ next \in Nat /\ R(next) = Append(R(n), Delivery(next, items))
    BY <1>1, <1>2, <2>1
  <2>3. T \in Maps
    BY <2>2, WalkSteps
  <2>4. U(n) \in Maps /\ U(next) \in Maps /\ U(next) = Plus(U(n), items)
    BY <1>3, <2>1
  <2>5. /\ ~Walk(R(n)).bad
        /\ \A k \in Sku : Qty(T, k) + Qty(U(n), k) = Qty(D, k)
        /\ \A k \in DOMAIN T : \E i \in next..len : k \in DOMAIN t[i]
        /\ \A w \in Warehouse, k \in Sku : Loaded(R(n), w, k) = Loaded(base, w, k)
    BY <1>8
  <2> HIDE DEF items, next
  <2>6. V = Unload(T, items) /\ (~Walk(R(next)).bad <=> CanDeliver(T, items))
    BY <2>2, <2>5, DeliveryOn
  <2>7. \A w \in Warehouse, k \in Sku : Loaded(R(next), w, k) = Loaded(R(n), w, k)
    BY <2>2, DeliveryOn
  <2> HIDE DEF T, V, Good, t, len
  <2>8. \A k : /\ Qty(T, k) \in Nat /\ Qty(items, k) \in Nat
               /\ Qty(U(n), k) \in Nat /\ Qty(U(next), k) \in Nat
    BY <2>2, <2>3, <2>4, MapFacts
  <2>9. ASSUME NEW k \in Sku
        PROVE  /\ Qty(U(next), k) = Qty(U(n), k) + Qty(items, k)
               /\ Qty(U(next), k) <= Qty(D, k)
    <3>1. Qty(Plus(U(n), items), k) = Qty(U(n), k) + Qty(items, k)
      BY <2>2, <2>4, PlusQty
    <3>2. Qty(U(next), k) <= Qty(D, k)
      BY <1>5, <2>1
    <3> QED BY <2>4, <3>1, <3>2
  <2>10. CanDeliver(T, items)
    <3>1. ASSUME NEW k \in DOMAIN items
          PROVE  Qty(T, k) >= items[k]
      <4>1. k \in Sku /\ items[k] = Qty(items, k)
        BY <2>2, MapFacts
      <4> QED BY <1>4, <2>5, <2>8, <2>9, <4>1
    <3> QED BY <3>1 DEF CanDeliver
  <2>11. ASSUME NEW k \in Sku
         PROVE  Qty(V, k) + Qty(U(next), k) = Qty(D, k)
    <3>1. Qty(Unload(T, items), k) = Qty(T, k) - Qty(items, k)
      BY <2>2, <2>3, <2>10, DeliveryFacts
    <3> QED BY <1>4, <2>5, <2>6, <2>8, <2>9, <3>1
  <2>12. DOMAIN V \subseteq DOMAIN T /\ V \in Maps
    <3>1. Unload(T, items) \in Maps
      BY <2>2, <2>3, UnloadFacts
    <3>2. DOMAIN Unload(T, items) = {k \in DOMAIN T : k \notin DOMAIN items \/ T[k] > items[k]}
      BY <2>2, <2>3, UnloadFacts
    <3> QED BY <2>6, <3>1, <3>2
  <2>13. ASSUME NEW k \in DOMAIN V
         PROVE  \E i \in (next + 1)..len : k \in DOMAIN t[i]
    <3>1. k \in DOMAIN T /\ k \in Sku
      BY <2>3, <2>12, MapFacts
    <3>2. PICK i \in next..len : k \in DOMAIN t[i]
      BY <2>5, <3>1
    <3>3. CASE i # next
      BY <1>1, <2>1, <3>2, <3>3
    <3>4. CASE i = next
      <4>1. k \in DOMAIN items
        BY <3>2, <3>4 DEF items
      <4>2. T[k] > items[k]
        <5>1. DOMAIN Unload(T, items) = {j \in DOMAIN T : j \notin DOMAIN items \/ T[j] > items[j]}
          BY <2>2, <2>3, UnloadFacts
        <5> QED BY <2>6, <4>1, <5>1
      <4>3. T[k] = Qty(T, k) /\ items[k] = Qty(items, k)
        BY <2>2, <2>3, <3>1, <4>1, MapFacts
      <4>4. Qty(U(next), k) < Qty(D, k)
        BY <1>4, <2>5, <2>8, <2>9, <3>1, <4>2, <4>3
      <4> QED BY <1>5, <2>1, <3>1, <4>4
    <3> QED BY <3>3, <3>4
  <2> QED BY <2>5, <2>6, <2>7, <2>10, <2>11, <2>13 DEF Good, V, next
<1> HIDE DEF Good
<1>9. 0 \in S
  BY <1>7
<1>10. ASSUME NEW n \in Nat, n \in S
       PROVE  n + 1 \in S
  BY <1>1, <1>8, <1>10
<1> HIDE DEF S
<1>11. len \in S
  BY <1>1, <1>9, <1>10, Walks!SetInduction
<1>12. Good(len)
  BY <1>1, <1>11 DEF S
<1>13. DOMAIN Walk(R(len)).truck = {}
  <2>1. \A k \in DOMAIN Walk(R(len)).truck : \E i \in (len + 1)..len : k \in DOMAIN t[i]
    BY <1>12 DEF Good
  <2>2. (len + 1)..len = {}
    BY <1>1
  <2> QED BY <2>1, <2>2
<1>14. R(len) \in Seq(PlanStop)
  <2>1. len \in 0..len
    BY <1>1
  <2> QED BY <1>2, <2>1
<1> QED BY <1>2, <1>12, <1>13, <1>14 DEF Good

-----------------------------------------------------------------------------
(* The preferred strategy *)

\* What the pass over all warehouses of a request has loaded.
LEMMA LoadsFacts ==
  ASSUME NEW r \in Counted
  PROVE  /\ Loads(r) \in LoadState
         /\ LoadsFit(r, <<Origin>> \o r.extra)
         /\ Loads(r) = LoadsOf(r, <<Origin>> \o r.extra)
<1>1. <<Origin>> \o r.extra \in Seq(Warehouse)
  BY RequestFacts
<1> QED BY <1>1, LoadsFold, LoadsSteps, LoadsFitAll

\* The preferred route has stops of the natural kind.
LEMMA PreferredStops ==
  ASSUME NEW r \in Counted
  PROVE  PreferredRoute(r) \in Seq(PlanStop)
<1> DEFINE of == Loads(r).of
           S == {s \in Seq(Warehouse) : PickupsOf(of, s) \in Seq(PlanStop)}
<1>1. of \in [Warehouse -> Maps]
  BY LoadsFacts DEF LoadState
<1>2. Pickups(r) = PickupsOf(of, r.extra) /\ r.extra \in Seq(Warehouse)
  BY PickupsFold, RequestFacts
<1> HIDE DEF of
<1>3. \A w \in Warehouse : Pickup(w, of[w]) \in PlanStop
  BY <1>1 DEF Pickup, PlanStop
<1>4. <<>> \in S
  <2>1. PickupsOf(of, <<>>) = Append(<<>>, Pickup(Origin, of[Origin]))
    BY <1>1, PickupsSteps
  <2>2. Pickup(Origin, of[Origin]) \in PlanStop
    BY <1>3, RoutePlannerAssumption
  <2>3. Append(<<>>, Pickup(Origin, of[Origin])) \in Seq(PlanStop)
    BY <2>2
  <2>4. <<>> \in Seq(Warehouse)
    OBVIOUS
  <2> QED BY <2>1, <2>3, <2>4
<1>5. ASSUME NEW s \in Seq(Warehouse), NEW w \in Warehouse, s \in S
      PROVE  Append(s, w) \in S
  <2>1. PickupsOf(of, Append(s, w)) = PickupStep(of, PickupsOf(of, s), w)
    BY <1>1, PickupsSteps
  <2>2. PickupsOf(of, s) \in Seq(PlanStop) /\ Pickup(w, of[w]) \in PlanStop
    BY <1>3, <1>5
  <2>3. PickupStep(of, PickupsOf(of, s), w) \in Seq(PlanStop)
    BY <2>2 DEF PickupStep
  <2> QED BY <2>1, <2>3
<1> HIDE DEF S
<1>6. Seq(Warehouse) \subseteq S
  BY <1>4, <1>5, PickupPass!SeqInduction
<1>7. Pickups(r) \in Seq(PlanStop)
  BY <1>2, <1>6 DEF S
<1>8. Deliveries(r) \in Seq(PlanStop)
  <2>1. r.stores \in Seq(Maps)
    BY RequestFacts
  <2>2. \A i \in 1..Len(r.stores) : Delivery(i, r.stores[i]) \in PlanStop
    BY <2>1 DEF Delivery, PlanStop
  <2> QED BY <2>1, <2>2 DEF Deliveries
<1> QED BY <1>7, <1>8 DEF PreferredRoute

\* When each warehouse is named once, a preferred route that covers the demand is
\* without a violation, ends with an empty truck and loads what is in stock.
LEMMA PreferredFacts ==
  ASSUME NEW r \in Counted, PreferredWorks(r), IsInjective(<<Origin>> \o r.extra)
  PROVE  /\ ~Walk(PreferredRoute(r)).bad
         /\ DOMAIN Walk(PreferredRoute(r)).truck = {}
         /\ \A w \in Warehouse, k \in Sku :
              Loaded(PreferredRoute(r), w, k) <= r.stock[w][k]
<1> DEFINE of == Loads(r).of
           P == Pickups(r)
           D == Demand(r)
           ws == <<Origin>> \o r.extra
<1>1. /\ Loads(r) \in LoadState /\ of \in [Warehouse -> Maps]
      /\ Loads(r) = LoadsOf(r, ws) /\ LoadsFit(r, ws)
  BY LoadsFacts DEF LoadState
<1>2. P = PickupsOf(of, r.extra) /\ r.extra \in Seq(Warehouse)
  BY PickupsFold, RequestFacts
<1>3. LoadsAgree(r, r.extra, of)
  BY <1>1 DEF LoadsAgree
<1>4. PickedUp(r, r.extra, of)
  BY <1>1, <1>2, <1>3, PickedUpAll
<1>5. DOMAIN Loads(r).need = {} /\ \A k : Qty(Loads(r).need, k) = 0
  BY <1>1, MapFacts DEF PreferredWorks, LoadState
<1> HIDE DEF of, P, ws
<1>6. /\ P \in Seq(PlanStop) /\ ~Walk(P).bad
      /\ DOMAIN Walk(P).truck \subseteq DOMAIN D
      /\ \A k \in Sku : Qty(Walk(P).truck, k) + Qty(Loads(r).need, k) = Qty(D, k)
      /\ \A w \in Warehouse, k \in Sku :
           Loaded(P, w, k) = IF w \in Range(ws) THEN Qty(of[w], k) ELSE 0
  BY <1>1, <1>2, <1>4 DEF PickedUp, ws
<1>7. \A k \in Sku : Qty(Walk(P).truck, k) = Qty(D, k)
  <2>1. \A k : Qty(Walk(P).truck, k) \in Nat
    BY <1>6, WalkSteps, MapFacts
  <2> QED BY <1>5, <1>6, <2>1
<1>8. /\ ~Walk(P \o Deliveries(r)).bad
      /\ DOMAIN Walk(P \o Deliveries(r)).truck = {}
      /\ \A w \in Warehouse, k \in Sku :
           Loaded(P \o Deliveries(r), w, k) = Loaded(P, w, k)
  BY <1>6, <1>7, Delivered
<1>9. PreferredRoute(r) = P \o Deliveries(r)
  BY DEF PreferredRoute, P
<1>10. ASSUME NEW w \in Warehouse, NEW k \in Sku
       PROVE  Loaded(P, w, k) <= r.stock[w][k]
  <2>1. Qty(of[w], k) <= r.stock[w][k]
    BY <1>1 DEF LoadsFit, of
  <2>2. r.stock[w][k] \in Nat
    BY RequestFacts
  <2> QED BY <1>6, <2>1, <2>2
<1> QED BY <1>8, <1>9, <1>10

-----------------------------------------------------------------------------
(* What the warehouses used by the fallback hold *)

UsedOf(r, k, used, ws) ==
  UsedSum!Fold([stock |-> r.stock, sku |-> k, used |-> used], 0, ws)

\* One more warehouse of the request counts when it is used.
LEMMA UsedAppend ==
  ASSUME NEW r \in Counted, NEW k \in Sku, NEW used \in SUBSET Warehouse,
         NEW s \in Seq(Warehouse), NEW w \in Warehouse
  PROVE  UsedOf(r, k, used, Append(s, w))
           = IF w \in used THEN UsedOf(r, k, used, s) + r.stock[w][k]
             ELSE UsedOf(r, k, used, s)
<1> DEFINE c == [stock |-> r.stock, sku |-> k, used |-> used]
<1>1. UsedSum!Fold(c, 0, Append(s, w)) = UsedStep(c, UsedSum!Fold(c, 0, s), w)
  <2> HIDE DEF c
  <2> QED BY UsedSum!FoldAppend
<1> QED BY <1>1 DEF UsedOf, UsedStep

\* The warehouses used hold no more than all of the list, and one more that is on
\* the list adds its own stock at least.
LEMMA UsedFacts ==
  ASSUME NEW r \in Counted, NEW k \in Sku, NEW used \in SUBSET Warehouse,
         NEW w \in Warehouse, w \notin used, NEW ws \in Seq(Warehouse)
  PROVE  /\ UsedOf(r, k, used, ws) \in Nat
         /\ UsedOf(r, k, used, ws) <= StockedOf(r, k, ws)
         /\ UsedOf(r, k, used, ws) <= UsedOf(r, k, used \cup {w}, ws)
         /\ w \in Range(ws) =>
              UsedOf(r, k, used, ws) + r.stock[w][k] <= UsedOf(r, k, used \cup {w}, ws)
         /\ UsedOf(r, k, used \cup {w}, ws) \in Nat
         /\ UsedOf(r, k, used \cup {w}, ws) <= StockedOf(r, k, ws)
<1> DEFINE more == used \cup {w}
           Holds(s) ==
             /\ UsedOf(r, k, used, s) \in Nat
             /\ UsedOf(r, k, used, s) <= StockedOf(r, k, s)
             /\ UsedOf(r, k, used, s) <= UsedOf(r, k, more, s)
             /\ w \in Range(s) =>
                  UsedOf(r, k, used, s) + r.stock[w][k] <= UsedOf(r, k, more, s)
             /\ UsedOf(r, k, more, s) \in Nat
             /\ UsedOf(r, k, more, s) <= StockedOf(r, k, s)
           S == {s \in Seq(Warehouse) : Holds(s)}
<1>1. more \in SUBSET Warehouse /\ used \subseteq more /\ w \in more
  OBVIOUS
<1>2. r.stock \in [Warehouse -> Stocks] /\ \A v \in Warehouse : r.stock[v][k] \in Nat
  BY RequestFacts
<1>3. <<>> \in S
  <2>1. UsedOf(r, k, used, <<>>) = 0 /\ UsedOf(r, k, more, <<>>) = 0
    BY UsedSum!FoldEmpty DEF UsedOf
  <2>2. StockedOf(r, k, <<>>) = 0
    BY <1>2, StockedSteps
  <2>3. <<>> \in Seq(Warehouse) /\ Range(<<>>) = {}
    BY DEF Range
  <2> HIDE DEF more
  <2> QED BY <2>1, <2>2, <2>3
<1>4. ASSUME NEW s \in Seq(Warehouse), NEW v \in Warehouse, s \in S
      PROVE  Append(s, v) \in S
  <2> DEFINE t == Append(s, v)
             n == r.stock[v][k]
  <2>1. /\ UsedOf(r, k, used, t)
             = IF v \in used THEN UsedOf(r, k, used, s) + n ELSE UsedOf(r, k, used, s)
        /\ UsedOf(r, k, more, t)
             = IF v \in more THEN UsedOf(r, k, more, s) + n ELSE UsedOf(r, k, more, s)
    BY <1>1, UsedAppend
  <2>2. StockedOf(r, k, t) = StockedOf(r, k, s) + n /\ StockedOf(r, k, s) \in Nat
    BY <1>2, StockedSteps
  <2>3. Range(t) = Range(s) \cup {v} /\ t \in Seq(Warehouse)
    BY DEF Range
  <2>4. n \in Nat /\ r.stock[w][k] \in Nat
    BY <1>2
  <2>5. Holds(s)
    BY <1>4
  <2> DEFINE a == UsedOf(r, k, used, s)
             b == UsedOf(r, k, more, s)
             c == StockedOf(r, k, s)
             a1 == UsedOf(r, k, used, t)
             b1 == UsedOf(r, k, more, t)
             c1 == StockedOf(r, k, t)
             m == r.stock[w][k]
  <2>6. /\ a \in Nat /\ b \in Nat /\ c \in Nat /\ m \in Nat /\ n \in Nat
        /\ a <= c /\ a <= b /\ b <= c
        /\ w \in Range(s) => a + m <= b
        /\ c1 = c + n
    BY <2>2, <2>4, <2>5
  <2>7. \/ v = w /\ a1 = a /\ b1 = b + n /\ n = m
        \/ v # w /\ a1 = a + n /\ b1 = b + n
        \/ v # w /\ a1 = a /\ b1 = b
    BY <1>1, <2>1
  <2>8. v # w => (w \in Range(t) <=> w \in Range(s))
    BY <2>3
  <2> SUFFICES /\ a1 \in Nat /\ a1 <= c1 /\ a1 <= b1
               /\ w \in Range(t) => a1 + m <= b1
               /\ b1 \in Nat /\ b1 <= c1
    BY <2>3
  <2> HIDE DEF a, b, c, a1, b1, c1, m, n, t
  <2> QED BY <2>6, <2>7, <2>8
<1> HIDE DEF S
<1>5. Seq(Warehouse) \subseteq S
  BY <1>3, <1>4, UsedSum!SeqInduction
<1> QED BY <1>5 DEF S

-----------------------------------------------------------------------------
(* The fallback *)

FallbackState == [truck: Maps, route: Seq(PlanStop), used: SUBSET Warehouse, short: BOOLEAN]

\* Before the store after the n-th: the route loads what the truck carries and has
\* delivered, without a violation, each warehouse at most once and from its stock,
\* and with no store skipped, all of it comes from the stock of those used.
FallbackGood(r, a, n) ==
  /\ a \in FallbackState
  /\ Origin \in a.used
  /\ ~Walk(a.route).bad
  /\ Walk(a.route).truck = a.truck
  /\ \A w \in Warehouse, k \in Sku :
       /\ Loaded(a.route, w, k) <= r.stock[w][k]
       /\ w \notin a.used => Loaded(a.route, w, k) = 0
  /\ ~a.short =>
       \A k \in Sku : Qty(a.truck, k) + Qty(DemandUpTo(r, n), k)
                        <= UsedOf(r, k, a.used, <<Origin>> \o r.extra)

\* The origin's load.
LEMMA FallbackStarts ==
  ASSUME NEW r \in Counted
  PROVE  FallbackGood(r, Start(r), 0)
<1> DEFINE D == Demand(r)
           stock == r.stock[Origin]
           load == LoadFrom(stock, D)
           P == <<Pickup(Origin, load)>>
           ws == <<Origin>> \o r.extra
<1>1. Start(r) = [truck |-> load, route |-> P, used |-> {Origin}, short |-> FALSE]
  BY DEF Start
<1>2. /\ Origin \in Warehouse /\ stock \in Stocks /\ ws \in Seq(Warehouse)
      /\ \A w \in Warehouse, k \in Sku : r.stock[w][k] \in Nat
  BY RequestFacts, RoutePlannerAssumption
<1>3. D \in Maps /\ \A k : Qty(D, k) \in Nat
  BY DemandMap, MapFacts
<1> HIDE DEF D, stock
<1>4. /\ load \in Maps
      /\ \A k \in Sku : Qty(load, k) <= Qty(D, k) /\ Qty(load, k) <= stock[k]
  BY <1>2, <1>3, LoadFits
<1> HIDE DEF load
<1>5. \A k : Qty(load, k) \in Nat
  BY <1>4, MapFacts
<1>6. P = Append(<<>>, Pickup(Origin, load)) /\ P \in Seq(PlanStop)
  <2>1. Pickup(Origin, load) \in PlanStop
    BY <1>2, <1>4 DEF Pickup, PlanStop
  <2> QED BY <2>1
<1> HIDE DEF P
<1>7. <<>> \in Seq(PlanStop) /\ ~Walk(<<>>).bad /\ Walk(<<>>).truck = NoItems
  <2>1. Walk(<<>>) = [truck |-> NoItems, bad |-> FALSE]
    BY WalkSteps
  <2> QED BY <2>1
<1>8. ~Walk(P).bad /\ Walk(P).truck = Plus(NoItems, load)
  <2>1. /\ Walk(P).truck = Plus(Walk(<<>>).truck, load)
        /\ ~Walk(P).bad <=> ~Walk(<<>>).bad
    BY <1>2, <1>4, <1>6, <1>7, PickupOn
  <2> QED BY <1>7, <2>1
<1>9. Plus(NoItems, load) = load
  <2>1. load = [k \in DOMAIN load |-> load[k]] /\ \A k \in DOMAIN load : load[k] \in Nat
    BY <1>4, MapFacts
  <2>2. \A k \in DOMAIN load : Qty(NoItems, k) + Qty(load, k) = load[k]
    BY <1>4, <2>1, NoItemsFacts, MapFacts
  <2>3. Plus(NoItems, load) = [k \in DOMAIN load |-> Qty(NoItems, k) + Qty(load, k)]
    BY NoItemsFacts DEF Plus
  <2>4. Plus(NoItems, load) = [k \in DOMAIN load |-> load[k]]
    BY <2>2, <2>3
  <2> QED BY <2>1, <2>4
<1>10. ASSUME NEW w \in Warehouse, NEW k \in Sku
       PROVE  /\ Loaded(P, w, k) <= r.stock[w][k]
              /\ w \notin {Origin} => Loaded(P, w, k) = 0
  <2>1. Loaded(<<>>, w, k) = 0
    BY LoadedSteps
  <2>2. CASE w = Origin
    <3>1. Loaded(P, w, k) = Loaded(<<>>, w, k) + Qty(load, k)
      BY <1>2, <1>4, <1>6, <1>7, <2>2, PickupOn
    <3> QED BY <1>4, <1>5, <2>1, <2>2, <3>1 DEF stock
  <2>3. CASE w # Origin
    <3>1. \A v \in Warehouse \ {Origin}, j \in Sku :
            Loaded(Append(<<>>, Pickup(Origin, load)), v, j) = Loaded(<<>>, v, j)
      BY <1>2, <1>4, <1>7, PickupOn
    <3> QED BY <1>2, <1>6, <2>1, <2>3, <3>1
  <2> QED BY <2>2, <2>3
<1>11. ASSUME NEW k \in Sku
       PROVE  Qty(load, k) + Qty(DemandUpTo(r, 0), k) <= UsedOf(r, k, {Origin}, ws)
  <2>1. Qty(DemandUpTo(r, 0), k) = 0
    BY UpToSteps, NoItemsFacts
  <2>2. Origin \in Range(ws)
    <3>1. 1 \in DOMAIN ws /\ ws[1] = Origin
      BY RequestFacts DEF ws
    <3> QED BY <3>1 DEF Range
  <2> HIDE DEF ws
  <2>3. /\ UsedOf(r, k, {}, ws) \in Nat
        /\ UsedOf(r, k, {}, ws) + r.stock[Origin][k] <= UsedOf(r, k, {} \cup {Origin}, ws)
        /\ UsedOf(r, k, {} \cup {Origin}, ws) \in Nat
    BY <1>2, <2>2, UsedFacts
  <2>4. {} \cup {Origin} = {Origin} /\ Qty(load, k) <= r.stock[Origin][k]
    BY <1>4 DEF stock
  <2>5. r.stock[Origin][k] \in Nat
    BY <1>2
  <2> QED BY <1>5, <2>1, <2>3, <2>4, <2>5
<1>12. Start(r) \in FallbackState
  BY <1>1, <1>2, <1>4, <1>6 DEF FallbackState
<1> QED BY <1>1, <1>8, <1>9, <1>10, <1>11, <1>12 DEF FallbackGood

\* One extra warehouse before a store.
LEMMA TopUpStepGood ==
  ASSUME NEW r \in Counted, NEW i \in 1..Len(r.stores), NEW n \in 0..Len(r.stores),
         NEW a, FallbackGood(r, a, n), NEW w \in Range(r.extra)
  PROVE  FallbackGood(r, TopUpStep([stock |-> r.stock, items |-> r.stores[i]], a, w), n)
<1> DEFINE items == r.stores[i]
           stock == r.stock[w]
           miss == Shortfall(a.truck, items)
           load == LoadFrom(stock, miss)
           new == TopUpStep([stock |-> r.stock, items |-> items], a, w)
           ws == <<Origin>> \o r.extra
<1>1. /\ a \in FallbackState /\ Origin \in a.used /\ ~Walk(a.route).bad
      /\ Walk(a.route).truck = a.truck
      /\ \A v \in Warehouse, k \in Sku :
           /\ Loaded(a.route, v, k) <= r.stock[v][k]
           /\ v \notin a.used => Loaded(a.route, v, k) = 0
      /\ ~a.short =>
           \A k \in Sku : Qty(a.truck, k) + Qty(DemandUpTo(r, n), k)
                            <= UsedOf(r, k, a.used, ws)
  BY DEF FallbackGood
<1>2. /\ r.extra \in Seq(Warehouse) /\ ws \in Seq(Warehouse) /\ w \in Warehouse
      /\ stock \in Stocks /\ items \in Maps
      /\ \A v \in Warehouse, k \in Sku : r.stock[v][k] \in Nat
  BY RequestFacts DEF Range
<1>3. a.truck \in Maps /\ a.route \in Seq(PlanStop) /\ a.used \in SUBSET Warehouse
  BY <1>1 DEF FallbackState
<1>4. \/ new = a
      \/ /\ w \notin a.used
         /\ new = [a EXCEPT !.truck = Plus(a.truck, load), !.used = a.used \cup {w},
                            !.route = Append(a.route, Pickup(w, load))]
  BY DEF TopUpStep
<1>5. CASE new = a
  BY <1>5
<1>6. CASE /\ w \notin a.used
           /\ new = [a EXCEPT !.truck = Plus(a.truck, load), !.used = a.used \cup {w},
                              !.route = Append(a.route, Pickup(w, load))]
  <2> HIDE DEF new, stock, items
  <2>1. miss \in Maps
    BY <1>2, <1>3, ShortfallFacts
  <2> HIDE DEF miss
  <2>2. /\ load \in Maps
        /\ \A k \in Sku : Qty(load, k) <= Qty(miss, k) /\ Qty(load, k) <= stock[k]
    BY <1>2, <2>1, LoadFits
  <2> HIDE DEF load
  <2>3. \A k : /\ Qty(load, k) \in Nat /\ Qty(miss, k) \in Nat
               /\ Qty(items, k) \in Nat /\ Qty(a.truck, k) \in Nat
    BY <1>2, <1>3, <2>1, <2>2, MapFacts
  <2>4. /\ new.truck = Plus(a.truck, load) /\ new.used = a.used \cup {w}
        /\ new.route = Append(a.route, Pickup(w, load)) /\ new.short = a.short
    BY <1>1, <1>6 DEF FallbackState
  <2>5. new \in FallbackState
    <3>1. Pickup(w, load) \in PlanStop
      BY <1>2, <2>2 DEF Pickup, PlanStop
    <3>2. Plus(a.truck, load) \in Maps
      BY <1>3, <2>2, PlusFacts
    <3>3. Append(a.route, Pickup(w, load)) \in Seq(PlanStop)
      BY <1>1, <3>1 DEF FallbackState
    <3> QED BY <1>1, <1>2, <1>6, <3>2, <3>3 DEF FallbackState
  <2>6. ~Walk(new.route).bad /\ Walk(new.route).truck = new.truck
    <3>1. /\ Walk(new.route).truck = Plus(Walk(a.route).truck, load)
          /\ ~Walk(new.route).bad <=> ~Walk(a.route).bad
      BY <1>2, <1>3, <2>2, <2>4, PickupOn
    <3> QED BY <1>1, <2>4, <3>1
  <2>7. ASSUME NEW v \in Warehouse, NEW k \in Sku
        PROVE  /\ Loaded(new.route, v, k) <= r.stock[v][k]
               /\ v \notin new.used => Loaded(new.route, v, k) = 0
    <3>1. CASE v = w
      <4>1. Loaded(new.route, w, k) = Loaded(a.route, w, k) + Qty(load, k)
        BY <1>2, <1>3, <2>2, <2>4, PickupOn
      <4>2. Loaded(a.route, w, k) = 0
        BY <1>1, <1>2, <1>6
      <4>3. Qty(load, k) <= r.stock[w][k]
        BY <2>2 DEF stock
      <4> QED BY <2>3, <2>4, <3>1, <4>1, <4>2, <4>3
    <3>2. CASE v # w
      <4>1. \A u \in Warehouse \ {w}, j \in Sku :
              Loaded(Append(a.route, Pickup(w, load)), u, j) = Loaded(a.route, u, j)
        BY <1>2, <1>3, <2>2, PickupOn
      <4> QED BY <1>1, <2>4, <3>2, <4>1
    <3> QED BY <3>1, <3>2
  <2>8. ASSUME ~new.short, NEW k \in Sku
         PROVE  Qty(new.truck, k) + Qty(DemandUpTo(r, n), k) <= UsedOf(r, k, new.used, ws)
    <3>1. Qty(a.truck, k) + Qty(DemandUpTo(r, n), k) <= UsedOf(r, k, a.used, ws)
      BY <1>1, <2>4, <2>8
    <3>2. w \in Range(ws)
      <4>1. PICK j \in DOMAIN r.extra : w = r.extra[j]
        BY DEF Range
      <4>2. j + 1 \in DOMAIN ws /\ ws[j + 1] = w
        BY <1>2, <4>1
      <4> QED BY <4>2 DEF Range
    <3> HIDE DEF ws
    <3>3. /\ UsedOf(r, k, a.used, ws) \in Nat
          /\ UsedOf(r, k, a.used, ws) + r.stock[w][k] <= UsedOf(r, k, a.used \cup {w}, ws)
          /\ UsedOf(r, k, a.used \cup {w}, ws) \in Nat
      BY <1>2, <1>3, <1>6, <3>2, UsedFacts
    <3>4. Qty(new.truck, k) = Qty(a.truck, k) + Qty(load, k)
      <4>1. Qty(Plus(a.truck, load), k) = Qty(a.truck, k) + Qty(load, k)
        BY <1>3, <2>2, PlusQty
      <4> QED BY <2>4, <4>1
    <3>5. Qty(DemandUpTo(r, n), k) \in Nat
      BY UpToSteps, MapFacts
    <3>6. /\ Qty(load, k) <= r.stock[w][k] /\ r.stock[w][k] \in Nat
          /\ Qty(load, k) \in Nat /\ Qty(a.truck, k) \in Nat
      BY <1>2, <2>2, <2>3 DEF stock
    <3> DEFINE had == Qty(a.truck, k)
               gets == Qty(load, k)
               due == Qty(DemandUpTo(r, n), k)
               held == UsedOf(r, k, a.used, ws)
               holds == UsedOf(r, k, a.used \cup {w}, ws)
               extra == r.stock[w][k]
    <3>7. /\ had + due <= held /\ held + extra <= holds /\ gets <= extra
          /\ {had, gets, due, held, holds, extra} \subseteq Nat
      BY <3>1, <3>3, <3>5, <3>6
    <3>8. had + gets + due <= holds
      <4> HIDE DEF had, gets, due, held, holds, extra
      <4> QED BY <3>7
    <3> QED BY <2>4, <3>4, <3>8
  <2> QED BY <1>1, <2>4, <2>5, <2>6, <2>7, <2>8 DEF FallbackGood, new, items
<1> QED BY <1>4, <1>5, <1>6

\* All extra warehouses before a store.
LEMMA TopUpGood ==
  ASSUME NEW r \in Counted, NEW i \in 1..Len(r.stores), NEW n \in 0..Len(r.stores),
         NEW acc, FallbackGood(r, acc, n)
  PROVE  FallbackGood(r, TopUp(r, acc, r.stores[i]), n)
<1> DEFINE c == [stock |-> r.stock, items |-> r.stores[i]]
           E == Range(r.extra)
           S == {s \in Seq(E) : FallbackGood(r, TopUpPass!Fold(c, acc, s), n)}
<1>1. \A a, w : FallbackGood(r, a, n) /\ w \in E => FallbackGood(r, TopUpStep(c, a, w), n)
  BY TopUpStepGood
<1>2. r.extra \in Seq(E)
  BY RequestFacts DEF Range
<1>3. TopUp(r, acc, r.stores[i]) = TopUpPass!Fold(c, acc, r.extra)
  BY TopUpFolds
<1> HIDE DEF c, E
<1>4. <<>> \in S
  <2>1. TopUpPass!Fold(c, acc, <<>>) = acc
    BY TopUpPass!FoldEmpty
  <2>2. <<>> \in Seq(E)
    OBVIOUS
  <2> QED BY <2>1, <2>2
<1>5. ASSUME NEW s \in Seq(E), NEW w \in E, s \in S
      PROVE  Append(s, w) \in S
  <2>1. TopUpPass!Fold(c, acc, Append(s, w)) = TopUpStep(c, TopUpPass!Fold(c, acc, s), w)
    BY TopUpPass!FoldAppend
  <2> QED BY <1>1, <1>5, <2>1
<1> HIDE DEF S
<1>6. Seq(E) \subseteq S
  BY <1>4, <1>5, TopUpPass!SeqInduction
<1> QED BY <1>2, <1>3, <1>6 DEF S

\* A store: it is served after the top-up, or skipped with a violation.
LEMMA VisitGood ==
  ASSUME NEW r \in Counted, NEW n \in 0..(Len(r.stores) - 1),
         NEW acc, FallbackGood(r, acc, n)
  PROVE  FallbackGood(r, Visit(r, acc, n + 1), n + 1)
<1> DEFINE i == n + 1
           items == r.stores[i]
           a == TopUp(r, acc, items)
           new == Visit(r, acc, i)
           ws == <<Origin>> \o r.extra
<1>1. r.stores \in Seq(Maps) /\ Len(r.stores) \in 1..MaxStores /\ MaxStores \in Nat
  BY RequestFacts, RoutePlannerAssumption
<1>2. /\ i \in 1..Len(r.stores) /\ n \in 0..Len(r.stores) /\ i \in 0..Len(r.stores)
      /\ items \in Maps /\ i \in 1..MaxStores /\ i \in Nat
  BY <1>1
<1>3. DemandUpTo(r, i) = Plus(DemandUpTo(r, n), items)
  BY UpToSteps
<1> HIDE DEF i
<1>4. FallbackGood(r, a, n)
  BY <1>2, TopUpGood
<1>5. \/ /\ CanDeliver(a.truck, items)
         /\ new = [a EXCEPT !.truck = Unload(a.truck, items),
                            !.route = Append(a.route, Delivery(i, items))]
      \/ new = [a EXCEPT !.short = TRUE]
  BY DEF Visit
<1>6. Delivery(i, items) \in PlanStop
  BY <1>2 DEF Delivery, PlanStop
<1> HIDE DEF a, new, items
<1>7. /\ a \in FallbackState /\ Origin \in a.used /\ ~Walk(a.route).bad
      /\ Walk(a.route).truck = a.truck
      /\ \A v \in Warehouse, k \in Sku :
           /\ Loaded(a.route, v, k) <= r.stock[v][k]
           /\ v \notin a.used => Loaded(a.route, v, k) = 0
      /\ ~a.short =>
           \A k \in Sku : Qty(a.truck, k) + Qty(DemandUpTo(r, n), k)
                            <= UsedOf(r, k, a.used, ws)
  BY <1>4 DEF FallbackGood
<1>8. a.truck \in Maps /\ a.route \in Seq(PlanStop)
  BY <1>7 DEF FallbackState
<1> HIDE DEF ws
<1>9. CASE /\ CanDeliver(a.truck, items)
           /\ new = [a EXCEPT !.truck = Unload(a.truck, items),
                              !.route = Append(a.route, Delivery(i, items))]
  <2>1. /\ new.truck = Unload(a.truck, items) /\ new.used = a.used
        /\ new.route = Append(a.route, Delivery(i, items)) /\ new.short = a.short
    BY <1>7, <1>9 DEF FallbackState
  <2>2. new \in FallbackState
    <3>1. Unload(a.truck, items) \in Maps
      BY <1>2, <1>8, UnloadFacts
    <3>2. Append(a.route, Delivery(i, items)) \in Seq(PlanStop)
      BY <1>6, <1>8
    <3> QED BY <1>7, <1>9, <3>1, <3>2 DEF FallbackState
  <2>3. ~Walk(new.route).bad /\ Walk(new.route).truck = new.truck
    <3>1. /\ Walk(new.route).truck = Unload(Walk(a.route).truck, items)
          /\ ~Walk(new.route).bad
               <=> ~Walk(a.route).bad /\ CanDeliver(Walk(a.route).truck, items)
      BY <1>2, <1>8, <2>1, DeliveryOn
    <3> QED BY <1>7, <1>9, <2>1, <3>1
  <2>4. \A v \in Warehouse, k \in Sku : Loaded(new.route, v, k) = Loaded(a.route, v, k)
    <3>1. \A v \in Warehouse, k \in Sku :
            Loaded(Append(a.route, Delivery(i, items)), v, k) = Loaded(a.route, v, k)
      BY <1>2, <1>8, DeliveryOn
    <3> QED BY <2>1, <3>1
  <2>5. ASSUME ~new.short, NEW k \in Sku
        PROVE  Qty(new.truck, k) + Qty(DemandUpTo(r, i), k) <= UsedOf(r, k, new.used, ws)
    <3>1. Qty(a.truck, k) + Qty(DemandUpTo(r, n), k) <= UsedOf(r, k, a.used, ws)
      BY <1>7, <2>1, <2>5
    <3>2. Qty(Unload(a.truck, items), k) = Qty(a.truck, k) - Qty(items, k)
      BY <1>2, <1>8, <1>9, DeliveryFacts
    <3>3. DemandUpTo(r, n) \in Maps
      BY <1>2, UpToSteps
    <3>4. Qty(Plus(DemandUpTo(r, n), items), k) = Qty(DemandUpTo(r, n), k) + Qty(items, k)
      BY <1>2, <3>3, PlusQty
    <3>5. /\ Qty(a.truck, k) \in Nat /\ Qty(items, k) \in Nat
          /\ Qty(DemandUpTo(r, n), k) \in Nat
      BY <1>2, <1>8, <3>3, MapFacts
    <3> QED BY <1>3, <2>1, <3>1, <3>2, <3>4, <3>5
  <2> QED BY <1>7, <2>1, <2>2, <2>3, <2>4, <2>5 DEF FallbackGood, new, i, ws
<1>10. CASE new = [a EXCEPT !.short = TRUE]
  <2>1. /\ new.truck = a.truck /\ new.used = a.used /\ new.route = a.route /\ new.short
        /\ new \in FallbackState
    BY <1>7, <1>10 DEF FallbackState
  <2> QED BY <1>7, <2>1 DEF FallbackGood, new, i
<1> QED BY <1>5, <1>9, <1>10

\* All stores.
LEMMA FallbackFacts ==
  ASSUME NEW r \in Counted
  PROVE  FallbackGood(r, Fallback(r), Len(r.stores))
<1> DEFINE len == Len(r.stores)
           Ids(n) == [i \in 1..n |-> i]
           F(n) == Visits!Fold(r, Start(r), Ids(n))
           S == {n \in Nat : n <= len => FallbackGood(r, F(n), n)}
<1>1. len \in Nat /\ DOMAIN r.stores = 1..len
  BY RequestFacts
<1>2. Fallback(r) = F(len)
  BY <1>1, FallbackFolds
<1>3. F(0) = Start(r)
  <2>1. Ids(0) = <<>>
    OBVIOUS
  <2> HIDE DEF Ids
  <2> QED BY <2>1, Visits!FoldEmpty
<1>4. ASSUME NEW n \in Nat
      PROVE  F(n + 1) = Visit(r, F(n), n + 1)
  <2> DEFINE s == Ids(n)
             next == n + 1
  <2>1. s \in Seq(Nat) /\ next \in Nat /\ Ids(n + 1) = Append(s, next)
    OBVIOUS
  <2> HIDE DEF s, next
  <2>2. Visits!Fold(r, Start(r), Append(s, next)) = Visit(r, Visits!Fold(r, Start(r), s), next)
    BY <2>1, Visits!FoldAppend
  <2> QED BY <2>1, <2>2 DEF s, next
<1> HIDE DEF F
<1>5. 0 \in S
  BY <1>3, FallbackStarts
<1>6. ASSUME NEW n \in Nat, n \in S
      PROVE  n + 1 \in S
  <2> SUFFICES ASSUME n + 1 <= len
               PROVE  FallbackGood(r, F(n + 1), n + 1)
    OBVIOUS
  <2>1. n \in 0..(len - 1) /\ n <= len
    BY <1>1
  <2>2. FallbackGood(r, F(n), n)
    BY <1>6, <2>1
  <2>3. FallbackGood(r, Visit(r, F(n), n + 1), n + 1)
    BY <2>1, <2>2, VisitGood
  <2> QED BY <1>4, <2>3
<1> HIDE DEF S
<1>7. len \in S
  BY <1>1, <1>5, <1>6, Visits!SetInduction
<1> QED BY <1>1, <1>2, <1>7 DEF S

-----------------------------------------------------------------------------
(* When a request is refused *)

\* Without zero quantities, every key of the demand asks for something.
LEMMA DemandPositive ==
  ASSUME NEW r \in Counted, Asks(r), NEW k \in DOMAIN Demand(r)
  PROVE  k \in Sku /\ Qty(Demand(r), k) > 0
<1> DEFINE U(n) == DemandUpTo(r, n)
           len == Len(r.stores)
<1>1. /\ r.stores \in Seq(Maps) /\ len \in Nat /\ len \in 0..len
      /\ DOMAIN r.stores = 1..len
  BY RequestFacts
<1>2. k \in Sku
  BY DemandMap, MapFacts
<1>3. /\ U(len) = Demand(r)
      /\ \A n \in 0..(len - 1) : U(n + 1) = Plus(U(n), r.stores[n + 1])
      /\ \A n \in 0..len : U(n) \in Maps
  BY UpToSteps
<1>4. PICK i \in 1..len : k \in DOMAIN r.stores[i]
  <2>1. k \in DOMAIN U(len) => \E i \in 1..len : k \in DOMAIN r.stores[i]
    BY <1>1, <1>2, UpToFacts
  <2> QED BY <1>3, <2>1
<1> DEFINE items == r.stores[i]
           before == i - 1
<1>5. /\ before \in 0..(len - 1) /\ before \in 0..len /\ i \in 0..len /\ before + 1 = i
      /\ items \in Maps
  BY <1>1
<1>6. Qty(items, k) > 0
  <2>1. r.stores[i][k] > 0
    BY <1>1, <1>4 DEF Asks
  <2> QED BY <1>4, <2>1 DEF Qty
<1>7. U(i) = Plus(U(before), items)
  BY <1>3, <1>5
<1>8. Qty(U(i), k) <= Qty(U(len), k)
  BY <1>1, <1>2, <1>5, UpToFacts
<1> HIDE DEF U, items, before
<1>9. Qty(U(i), k) = Qty(U(before), k) + Qty(items, k)
  <2>1. U(before) \in Maps
    BY <1>3, <1>5
  <2>2. Qty(Plus(U(before), items), k) = Qty(U(before), k) + Qty(items, k)
    BY <1>5, <2>1, PlusQty
  <2> QED BY <1>7, <2>2
<1>10. /\ Qty(U(before), k) \in Nat /\ Qty(items, k) \in Nat
       /\ Qty(U(i), k) \in Nat /\ Qty(Demand(r), k) \in Nat
  BY <1>3, <1>5, DemandMap, MapFacts
<1> QED BY <1>2, <1>3, <1>6, <1>8, <1>9, <1>10

\* What the pass still needs is what the demand has beyond the stock passed.
NeedIs(r, s) ==
  \A k \in Sku :
    /\ k \in DOMAIN LoadsOf(r, s).need <=> Qty(Demand(r), k) > StockedOf(r, k, s)
    /\ k \in DOMAIN LoadsOf(r, s).need =>
         Qty(LoadsOf(r, s).need, k) = Qty(Demand(r), k) - StockedOf(r, k, s)

\* It holds after every part of the pass, warehouses named twice included.
LEMMA NeedIsAll ==
  ASSUME NEW r \in Counted, Asks(r), NEW ws \in Seq(Warehouse)
  PROVE  NeedIs(r, ws)
<1> DEFINE D == Demand(r)
           S == {s \in Seq(Warehouse) : NeedIs(r, s)}
<1>1. D \in Maps /\ \A k : Qty(D, k) \in Nat
  BY DemandMap, MapFacts
<1>2. /\ r.stock \in [Warehouse -> Stocks]
      /\ \A w \in Warehouse, k \in Sku : r.stock[w][k] \in Nat
  BY RequestFacts
<1>3. NeedIs(r, <<>>)
  <2>1. LoadsOf(r, <<>>).need = D
    BY LoadsSteps DEF NoLoads
  <2>2. ASSUME NEW k \in Sku
        PROVE  /\ StockedOf(r, k, <<>>) = 0
               /\ k \in DOMAIN D <=> Qty(D, k) > 0
    <3>1. StockedOf(r, k, <<>>) = 0
      BY <1>2, StockedSteps
    <3>2. k \in DOMAIN D => Qty(D, k) > 0
      BY DemandPositive
    <3>3. k \notin DOMAIN D => Qty(D, k) = 0
      BY <1>1, MapFacts
    <3> QED BY <3>1, <3>2, <3>3
  <2> HIDE DEF D
  <2> QED BY <1>1, <2>1, <2>2 DEF NeedIs, D
<1>4. ASSUME NEW s \in Seq(Warehouse), NEW w \in Warehouse, NeedIs(r, s)
      PROVE  NeedIs(r, Append(s, w))
  <2> DEFINE acc == LoadsOf(r, s)
             new == LoadsOf(r, Append(s, w))
             stock == r.stock[w]
             need == acc.need
             load == LoadFrom(stock, need)
  <2>1. new = LoadStep(r, acc, w) /\ acc \in LoadState
    BY LoadsSteps
  <2>2. stock \in Stocks /\ need \in Maps
    BY <1>2, <2>1 DEF LoadState
  <2> HIDE DEF acc, new
  <2>3. new.need = Remaining(need, load)
    BY <2>1, LoadStepFacts
  <2> HIDE DEF stock, need, D
  <2>4. /\ load \in Maps /\ DOMAIN load \subseteq DOMAIN need
        /\ \A k \in Sku : Qty(load, k) <= Qty(need, k)
    BY <2>2, LoadFits
  <2>5. DOMAIN load = {k \in DOMAIN need : stock[k] > 0}
    BY <2>2, LoadFromFacts
  <2>6. \A k \in DOMAIN load : \/ load[k] = need[k] /\ need[k] <= stock[k]
                               \/ load[k] = stock[k] /\ stock[k] <= need[k]
    BY <2>2, LoadFromFacts
  <2> HIDE DEF load
  <2>7. DOMAIN new.need = {k \in DOMAIN need : k \notin DOMAIN load \/ need[k] > load[k]}
    BY <2>2, <2>3, <2>4, RemainingFacts
  <2>8. ASSUME NEW k \in Sku
        PROVE  /\ k \in DOMAIN new.need <=> Qty(D, k) > StockedOf(r, k, Append(s, w))
               /\ k \in DOMAIN new.need =>
                    Qty(new.need, k) = Qty(D, k) - StockedOf(r, k, Append(s, w))
    <3> DEFINE held == StockedOf(r, k, s)
               more == StockedOf(r, k, Append(s, w))
               d == Qty(D, k)
    <3> SUFFICES /\ k \in DOMAIN new.need <=> d > more
                 /\ k \in DOMAIN new.need => Qty(new.need, k) = d - more
      OBVIOUS
    <3>1. more = held + stock[k] /\ held \in Nat
      BY <1>2, StockedSteps DEF stock
    <3>2. stock[k] \in Nat /\ d \in Nat
      BY <1>1, <1>2 DEF stock, D
    <3>3. /\ k \in DOMAIN need <=> d > held
          /\ k \in DOMAIN need => Qty(need, k) = d - held
      BY <1>4 DEF NeedIs, need, acc, D
    <3>4. k \in DOMAIN need => need[k] = Qty(need, k) /\ need[k] \in Nat
      BY <2>2, MapFacts
    <3> HIDE DEF held, more, d
    <3>5. CASE k \notin DOMAIN need
      BY <2>7, <3>1, <3>2, <3>3, <3>5
    <3>6. CASE k \in DOMAIN need /\ k \notin DOMAIN load
      <4>1. stock[k] = 0
        BY <2>5, <3>2, <3>6
      <4>2. k \in DOMAIN new.need
        BY <2>7, <3>6
      <4>3. Qty(new.need, k) = Qty(need, k)
        <5>1. Qty(Remaining(need, load), k) = Qty(need, k) - Qty(load, k)
          BY <2>2, <2>4, RemainingFacts
        <5>2. Qty(load, k) = 0
          BY <2>4, <3>6, MapFacts
        <5> QED BY <2>3, <3>4, <3>6, <5>1, <5>2
      <4> QED BY <3>1, <3>2, <3>3, <3>6, <4>1, <4>2, <4>3
    <3>7. CASE k \in DOMAIN need /\ k \in DOMAIN load
      <4>1. load[k] = Qty(load, k) /\ load[k] \in Nat
        BY <2>4, <3>7, MapFacts
      <4>2. k \in DOMAIN new.need <=> need[k] > load[k]
        BY <2>7, <3>7
      <4>3. Qty(new.need, k) = need[k] - load[k]
        <5>1. Qty(Remaining(need, load), k) = Qty(need, k) - Qty(load, k)
          BY <2>2, <2>4, RemainingFacts
        <5> QED BY <2>3, <3>4, <3>7, <4>1, <5>1
      <4>4. \/ load[k] = need[k] /\ need[k] <= stock[k]
            \/ load[k] = stock[k] /\ stock[k] <= need[k]
        BY <2>6, <3>7
      <4>5. need[k] = d - held /\ need[k] \in Nat
        BY <3>3, <3>4, <3>7
      <4>6. need[k] > load[k] <=> d > more
        BY <3>1, <3>2, <4>1, <4>4, <4>5
      <4>7. need[k] > load[k] => need[k] - load[k] = d - more
        BY <3>1, <3>2, <4>1, <4>4, <4>5
      <4> QED BY <4>2, <4>3, <4>6, <4>7
    <3> QED BY <3>5, <3>6, <3>7
  <2> QED BY <2>8 DEF NeedIs, new, D
<1>5. <<>> \in S
  BY <1>3
<1>6. ASSUME NEW s \in Seq(Warehouse), NEW w \in Warehouse, s \in S
      PROVE  Append(s, w) \in S
  BY <1>4, <1>6
<1> HIDE DEF S
<1>7. Seq(Warehouse) \subseteq S
  BY <1>5, <1>6, LoadPass!SeqInduction
<1> QED BY <1>7 DEF S

\* The greedy pass covers every demand that the stock of the warehouses named can
\* cover: without zero quantities, the preferred strategy works for a request
\* exactly when nothing is short.
THEOREM PreferredUnlessShort ==
  ASSUME NEW r \in Counted, Asks(r)
  PROVE  PreferredWorks(r) <=> \A k \in Sku : ~Short(r, k)
<1> DEFINE ws == <<Origin>> \o r.extra
<1>1. ws \in Seq(Warehouse) /\ Loads(r) = LoadsOf(r, ws) /\ r.stock \in [Warehouse -> Stocks]
  BY RequestFacts, LoadsFold
<1>2. \A k \in Sku : Stocked(r, k) = StockedOf(r, k, ws)
  BY StockedFolds
<1> HIDE DEF ws
<1>3. NeedIs(r, ws)
  BY <1>1, NeedIsAll
<1>4. \A k \in Sku : k \in DOMAIN Loads(r).need <=> Short(r, k)
  BY <1>1, <1>2, <1>3 DEF NeedIs, Short
<1>5. DOMAIN Loads(r).need \subseteq Sku
  <2>1. Loads(r).need \in Maps
    BY LoadsFacts DEF LoadState
  <2> QED BY <2>1, MapFacts
<1> QED BY <1>4, <1>5 DEF PreferredWorks

\* The fallback makes nothing of nothing: a request that it serves asks of no SKU
\* for more than the warehouses named hold.
THEOREM FallbackUnlessShort ==
  ASSUME NEW r \in Counted, FallbackWorks(r)
  PROVE  \A k \in Sku : ~Short(r, k)
<1> DEFINE a == Fallback(r)
           ws == <<Origin>> \o r.extra
<1>1. FallbackGood(r, a, Len(r.stores))
  BY FallbackFacts
<1>2. ~a.short /\ DOMAIN a.truck = {}
  BY DEF FallbackWorks
<1>3. ws \in Seq(Warehouse) /\ Origin \in Warehouse
  BY RequestFacts, RoutePlannerAssumption
<1> HIDE DEF a
<1>4. /\ a \in FallbackState /\ Origin \in a.used
      /\ \A k \in Sku : Qty(a.truck, k) + Qty(DemandUpTo(r, Len(r.stores)), k)
                          <= UsedOf(r, k, a.used, ws)
  BY <1>1, <1>2 DEF FallbackGood
<1>5. ASSUME NEW k \in Sku
      PROVE  ~Short(r, k)
  <2>1. Stocked(r, k) = StockedOf(r, k, ws)
    BY StockedFolds
  <2> HIDE DEF ws
  <2>2. UsedOf(r, k, a.used, ws) \in Nat /\ UsedOf(r, k, a.used, ws) <= StockedOf(r, k, ws)
    <3> DEFINE others == a.used \ {Origin}
    <3>1. others \in SUBSET Warehouse /\ Origin \notin others /\ others \cup {Origin} = a.used
      BY <1>4 DEF FallbackState
    <3> HIDE DEF others
    <3>2. /\ UsedOf(r, k, others \cup {Origin}, ws) \in Nat
          /\ UsedOf(r, k, others \cup {Origin}, ws) <= StockedOf(r, k, ws)
      BY <1>3, <3>1, UsedFacts
    <3> QED BY <3>1, <3>2
  <2>3. Qty(a.truck, k) = 0
    BY <1>2 DEF Qty
  <2>4. DemandUpTo(r, Len(r.stores)) = Demand(r)
    BY UpToSteps
  <2>5. Qty(Demand(r), k) \in Nat
    BY DemandMap, MapFacts
  <2>6. StockedOf(r, k, ws) \in Nat
    BY <1>3, RequestFacts, StockedSteps
  <2>7. 0 + Qty(Demand(r), k) <= UsedOf(r, k, a.used, ws)
    BY <1>4, <2>3, <2>4
  <2>8. Qty(Demand(r), k) <= StockedOf(r, k, ws)
    BY <2>2, <2>5, <2>6, <2>7
  <2> QED BY <2>1, <2>5, <2>6, <2>8 DEF Short
<1> QED BY <1>5

-----------------------------------------------------------------------------
(* Quantities of any sign: no more than the types of a route *)

\* The stops of a stored route, whatever is asked for.
Stop == UNION {StopOf(K) : K \in SUBSET Sku}

\* Keys are SKUs and a read yields an integer.
LEMMA IntMapFacts ==
  ASSUME NEW m \in IntMaps
  PROVE  /\ DOMAIN m \subseteq Sku
         /\ \A k \in DOMAIN m : m[k] \in Int
         /\ \A k : Qty(m, k) \in Int
<1>1. PICK K \in SUBSET Sku : m \in [K -> Int]
  BY DEF IntMaps
<1> QED BY <1>1 DEF Qty

\* The map without keys is one of them.
LEMMA NoItemsInt == NoItems \in IntMaps
<1>1. NoItems \in [{} -> Int]
  BY DEF NoItems
<1> QED BY <1>1 DEF IntMaps

\* What is done to maps yields maps.
LEMMA PlusInt ==
  ASSUME NEW m \in IntMaps, NEW n \in IntMaps
  PROVE  Plus(m, n) \in IntMaps
<1> DEFINE K == DOMAIN m \cup DOMAIN n
<1>1. K \in SUBSET Sku /\ \A k \in K : Qty(m, k) + Qty(n, k) \in Int
  BY IntMapFacts
<1>2. Plus(m, n) \in [K -> Int]
  BY <1>1 DEF Plus
<1> QED BY <1>1, <1>2 DEF IntMaps

LEMMA LoadInt ==
  ASSUME NEW stock \in Stocks, NEW need \in IntMaps
  PROVE  LoadFrom(stock, need) \in IntMaps
<1> DEFINE K == {k \in DOMAIN need : stock[k] > 0}
<1>1. K \in SUBSET Sku /\ \A k \in K : need[k] \in Int /\ stock[k] \in Int
  BY IntMapFacts DEF Stocks
<1>2. ASSUME NEW a \in Int, NEW b \in Int
      PROVE  Min({a, b}) \in Int
  <2>1. \E x \in {a, b} : \A y \in {a, b} : x <= y
    OBVIOUS
  <2>2. Min({a, b}) \in {a, b}
    BY <2>1 DEF Min
  <2> QED BY <2>2
<1>3. \A k \in K : Min({need[k], stock[k]}) \in Int
  BY <1>1, <1>2
<1>4. LoadFrom(stock, need) \in [K -> Int]
  BY <1>3 DEF LoadFrom
<1> QED BY <1>1, <1>4 DEF IntMaps

LEMMA RemainingInt ==
  ASSUME NEW need \in IntMaps, NEW load \in IntMaps
  PROVE  Remaining(need, load) \in IntMaps
<1> DEFINE K == {k \in DOMAIN need : k \notin DOMAIN load \/ need[k] # load[k]}
<1>1. K \in SUBSET Sku /\ \A k \in K : need[k] - Qty(load, k) \in Int
  BY IntMapFacts
<1>2. Remaining(need, load) \in [K -> Int]
  BY <1>1 DEF Remaining
<1> QED BY <1>1, <1>2 DEF IntMaps

LEMMA ShortfallInt ==
  ASSUME NEW truck \in IntMaps, NEW items \in IntMaps
  PROVE  Shortfall(truck, items) \in IntMaps
<1> DEFINE K == {k \in DOMAIN items : Qty(truck, k) < items[k]}
<1>1. K \in SUBSET Sku /\ \A k \in K : items[k] - Qty(truck, k) \in Int
  BY IntMapFacts
<1>2. Shortfall(truck, items) \in [K -> Int]
  BY <1>1 DEF Shortfall
<1> QED BY <1>1, <1>2 DEF IntMaps

LEMMA UnloadInt ==
  ASSUME NEW truck \in IntMaps, NEW items \in IntMaps
  PROVE  Unload(truck, items) \in IntMaps
<1> DEFINE K == {k \in DOMAIN truck \cup DOMAIN items :
                   k \notin DOMAIN items \/ Qty(truck, k) > items[k]}
<1>1. K \in SUBSET Sku /\ \A k \in K : Qty(truck, k) - Qty(items, k) \in Int
  BY IntMapFacts
<1>2. Unload(truck, items) \in [K -> Int]
  BY <1>1 DEF Unload
<1> QED BY <1>1, <1>2 DEF IntMaps

\* The stops that the planner makes are stops.
LEMMA StopsTyped ==
  /\ \A w \in Warehouse, load \in IntMaps : Pickup(w, load) \in Stop
  /\ \A i \in 1..MaxStores, items \in IntMaps : Delivery(i, items) \in Stop
  /\ Depot \in Stop
<1>1. ASSUME NEW w \in Warehouse, NEW load \in IntMaps
      PROVE  Pickup(w, load) \in Stop
  <2>1. PICK K \in SUBSET Sku : load \in [K -> Int]
    BY DEF IntMaps
  <2>2. Pickup(w, load) \in StopOf(K)
    BY <2>1 DEF Pickup, StopOf
  <2> QED BY <2>2 DEF Stop
<1>2. ASSUME NEW i \in 1..MaxStores, NEW items \in IntMaps
      PROVE  Delivery(i, items) \in Stop
  <2>1. PICK K \in SUBSET Sku : items \in [K -> Int]
    BY DEF IntMaps
  <2>2. Delivery(i, items) \in StopOf(K)
    BY <2>1 DEF Delivery, StopOf
  <2> QED BY <2>2 DEF Stop
<1>3. Depot \in Stop
  <2>1. Depot \in StopOf({})
    BY RoutePlannerAssumption DEF Depot, StopOf, NoItems
  <2> QED BY <2>1 DEF Stop
<1> QED BY <1>1, <1>2, <1>3

\* The route of TypeOK is a sequence of stops.
LEMMA RouteTyped ==
  ASSUME NEW s
  PROVE  (s \in Seq(Range(s)) /\ \A i \in DOMAIN s : \E K \in SUBSET Sku : s[i] \in StopOf(K))
           <=> s \in Seq(Stop)
<1>1. ASSUME s \in Seq(Range(s)), \A i \in DOMAIN s : \E K \in SUBSET Sku : s[i] \in StopOf(K)
      PROVE  s \in Seq(Stop)
  <2>1. \A i \in 1..Len(s) : s[i] \in Stop
    BY <1>1 DEF Stop
  <2> QED BY <1>1, <2>1
<1>2. ASSUME s \in Seq(Stop)
      PROVE  /\ s \in Seq(Range(s))
             /\ \A i \in DOMAIN s : \E K \in SUBSET Sku : s[i] \in StopOf(K)
  <2>1. \A i \in 1..Len(s) : s[i] \in Range(s)
    BY <1>2 DEF Range
  <2>2. \A i \in DOMAIN s : s[i] \in Stop
    BY <1>2
  <2> QED BY <1>2, <2>1, <2>2 DEF Stop
<1> QED BY <1>1, <1>2

\* The demand of a request.
LEMMA DemandInt ==
  ASSUME NEW r \in Requests
  PROVE  Demand(r) \in IntMaps
<1> DEFINE S == {s \in Seq(IntMaps) : DemandOf(s) \in IntMaps}
<1>1. <<>> \in S
  BY Sums!FoldEmpty, NoItemsInt DEF DemandOf
<1>2. ASSUME NEW s \in Seq(IntMaps), NEW m \in IntMaps, s \in S
      PROVE  Append(s, m) \in S
  <2>1. DemandOf(Append(s, m)) = Plus(DemandOf(s), m)
    <3>1. Sums!Fold(0, NoItems, Append(s, m)) = AddMaps(0, Sums!Fold(0, NoItems, s), m)
      BY Sums!FoldAppend
    <3> QED BY <3>1 DEF DemandOf, AddMaps
  <2>2. Plus(DemandOf(s), m) \in IntMaps
    BY <1>2, PlusInt
  <2> QED BY <2>1, <2>2
<1> HIDE DEF S
<1>3. Seq(IntMaps) \subseteq S
  BY <1>1, <1>2, Sums!SeqInduction
<1>4. r.stores \in S /\ Demand(r) = DemandOf(r.stores)
  BY <1>3, AnyRequestFacts, DemandFolds
<1> QED BY <1>4 DEF S

\* The loads of the preferred strategy.
LEMMA LoadsInt ==
  ASSUME NEW r \in Requests
  PROVE  Loads(r).of \in [Warehouse -> IntMaps]
<1> DEFINE State == [need: IntMaps, of: [Warehouse -> IntMaps]]
           S == {s \in Seq(Warehouse) : LoadsOf(r, s) \in State}
<1>1. <<>> \in S
  <2>1. LoadsOf(r, <<>>) = [need |-> Demand(r), of |-> [w \in Warehouse |-> NoItems]]
    BY LoadPass!FoldEmpty DEF LoadsOf
  <2> QED BY <2>1, DemandInt, NoItemsInt
<1>2. ASSUME NEW acc \in State, NEW w \in Warehouse
      PROVE  LoadStep(r, acc, w) \in State
  <2> DEFINE load == LoadFrom(r.stock[w], acc.need)
             of == IF DOMAIN load = {} THEN acc.of ELSE [acc.of EXCEPT ![w] = load]
  <2>1. LoadStep(r, acc, w) = [need |-> Remaining(acc.need, load), of |-> of]
    BY DEF LoadStep
  <2>2. r.stock[w] \in Stocks /\ acc.need \in IntMaps /\ acc.of \in [Warehouse -> IntMaps]
    BY AnyRequestFacts
  <2>3. load \in IntMaps
    BY <2>2, LoadInt
  <2> HIDE DEF load
  <2>4. Remaining(acc.need, load) \in IntMaps /\ of \in [Warehouse -> IntMaps]
    BY <2>2, <2>3, RemainingInt
  <2> HIDE DEF of
  <2> QED BY <2>1, <2>4
<1>3. ASSUME NEW s \in Seq(Warehouse), NEW w \in Warehouse, s \in S
      PROVE  Append(s, w) \in S
  <2>1. LoadsOf(r, Append(s, w)) = LoadStep(r, LoadsOf(r, s), w)
    BY LoadPass!FoldAppend DEF LoadsOf
  <2>2. LoadStep(r, LoadsOf(r, s), w) \in State
    BY <1>2, <1>3
  <2> HIDE DEF State
  <2> QED BY <2>1, <2>2
<1> HIDE DEF S
<1>4. Seq(Warehouse) \subseteq S
  BY <1>1, <1>3, LoadPass!SeqInduction
<1>5. <<Origin>> \o r.extra \in S /\ Loads(r) = LoadsOf(r, <<Origin>> \o r.extra)
  BY <1>4, AnyRequestFacts, LoadsFold
<1> QED BY <1>5 DEF S

\* The route of the preferred strategy.
LEMMA PreferredTyped ==
  ASSUME NEW r \in Requests
  PROVE  PreferredRoute(r) \in Seq(Stop)
<1> DEFINE of == Loads(r).of
           S == {s \in Seq(Warehouse) : PickupsOf(of, s) \in Seq(Stop)}
<1>1. of \in [Warehouse -> IntMaps]
  BY LoadsInt
<1>2. Pickups(r) = PickupsOf(of, r.extra) /\ r.extra \in Seq(Warehouse)
  BY PickupsFold, AnyRequestFacts
<1> HIDE DEF of
<1>3. \A w \in Warehouse : Pickup(w, of[w]) \in Stop
  BY <1>1, StopsTyped
<1>4. <<>> \in S
  <2>1. PickupsOf(of, <<>>) = Append(<<>>, Pickup(Origin, of[Origin]))
    BY PickupsSteps
  <2>2. Pickup(Origin, of[Origin]) \in Stop
    BY <1>3, RoutePlannerAssumption
  <2>3. Append(<<>>, Pickup(Origin, of[Origin])) \in Seq(Stop)
    BY <2>2
  <2>4. <<>> \in Seq(Warehouse)
    OBVIOUS
  <2> QED BY <2>1, <2>3, <2>4
<1>5. ASSUME NEW s \in Seq(Warehouse), NEW w \in Warehouse, s \in S
      PROVE  Append(s, w) \in S
  <2>1. PickupsOf(of, Append(s, w)) = PickupStep(of, PickupsOf(of, s), w)
    BY PickupsSteps
  <2>2. PickupsOf(of, s) \in Seq(Stop) /\ Pickup(w, of[w]) \in Stop
    BY <1>3, <1>5
  <2>3. PickupStep(of, PickupsOf(of, s), w) \in Seq(Stop)
    BY <2>2 DEF PickupStep
  <2> QED BY <2>1, <2>3
<1> HIDE DEF S
<1>6. Seq(Warehouse) \subseteq S
  BY <1>4, <1>5, PickupPass!SeqInduction
<1>7. Pickups(r) \in Seq(Stop)
  BY <1>2, <1>6 DEF S
<1>8. Deliveries(r) \in Seq(Stop)
  <2>1. /\ r.stores \in Seq(IntMaps) /\ Len(r.stores) \in 1..MaxStores
        /\ MaxStores \in Nat
    BY AnyRequestFacts, RoutePlannerAssumption
  <2>2. \A i \in 1..Len(r.stores) : Delivery(i, r.stores[i]) \in Stop
    BY <2>1, StopsTyped
  <2> QED BY <2>1, <2>2 DEF Deliveries
<1> QED BY <1>7, <1>8 DEF PreferredRoute

-----------------------------------------------------------------------------
(* The same of the fallback *)

IntFallback == [truck: IntMaps, route: Seq(Stop), used: SUBSET Warehouse, short: BOOLEAN]

\* One extra warehouse before a store.
LEMMA TopUpStepTyped ==
  ASSUME NEW stock \in [Warehouse -> Stocks], NEW items \in IntMaps,
         NEW a \in IntFallback, NEW w \in Warehouse
  PROVE  TopUpStep([stock |-> stock, items |-> items], a, w) \in IntFallback
<1> DEFINE c == [stock |-> stock, items |-> items]
           load == LoadFrom(stock[w], Shortfall(a.truck, items))
<1>1. a.truck \in IntMaps /\ a.route \in Seq(Stop) /\ a.used \in SUBSET Warehouse
  BY DEF IntFallback
<1>2. load \in IntMaps
  BY <1>1, ShortfallInt, LoadInt
<1>3. TopUpStep(c, a, w)
        = IF w \in a.used \/ DOMAIN load = {} THEN a
          ELSE [a EXCEPT !.truck = Plus(a.truck, load), !.used = a.used \cup {w},
                         !.route = Append(a.route, Pickup(w, load))]
  BY DEF TopUpStep
<1> HIDE DEF load
<1>4. /\ Plus(a.truck, load) \in IntMaps
      /\ Append(a.route, Pickup(w, load)) \in Seq(Stop)
  BY <1>1, <1>2, PlusInt, StopsTyped
<1> DEFINE new == TopUpStep(c, a, w)
           truck == Plus(a.truck, load)
           route0 == Append(a.route, Pickup(w, load))
<1>5. \/ new = a
      \/ new = [a EXCEPT !.truck = truck, !.used = a.used \cup {w}, !.route = route0]
  BY <1>3
<1> HIDE DEF new, truck, route0
<1>6. new \in IntFallback
  <2>1. /\ truck \in IntMaps /\ route0 \in Seq(Stop)
        /\ a.used \cup {w} \in SUBSET Warehouse
    BY <1>1, <1>4 DEF truck, route0
  <2> DEFINE used == a.used \cup {w}
  <2> HIDE DEF used
  <2>2. [a EXCEPT !.truck = truck, !.used = used, !.route = route0] \in IntFallback
    BY <2>1 DEF IntFallback, used
  <2> QED BY <1>5, <2>2 DEF used
<1> QED BY <1>6 DEF new

\* All extra warehouses before a store.
LEMMA TopUpTyped ==
  ASSUME NEW r \in Requests, NEW items \in IntMaps, NEW acc \in IntFallback
  PROVE  TopUp(r, acc, items) \in IntFallback
<1> DEFINE c == [stock |-> r.stock, items |-> items]
           S == {s \in Seq(Warehouse) : TopUpPass!Fold(c, acc, s) \in IntFallback}
<1>1. ASSUME NEW a \in IntFallback, NEW w \in Warehouse
      PROVE  TopUpStep(c, a, w) \in IntFallback
  BY AnyRequestFacts, TopUpStepTyped
<1>2. TopUp(r, acc, items) = TopUpPass!Fold(c, acc, r.extra)
  BY TopUpFolds
<1> HIDE DEF c
<1>3. <<>> \in S
  <2>1. TopUpPass!Fold(c, acc, <<>>) = acc
    BY TopUpPass!FoldEmpty
  <2>2. <<>> \in Seq(Warehouse)
    OBVIOUS
  <2> QED BY <2>1, <2>2
<1>4. ASSUME NEW s \in Seq(Warehouse), NEW w \in Warehouse, s \in S
      PROVE  Append(s, w) \in S
  <2>1. TopUpPass!Fold(c, acc, Append(s, w)) = TopUpStep(c, TopUpPass!Fold(c, acc, s), w)
    BY TopUpPass!FoldAppend
  <2> QED BY <1>1, <1>4, <2>1
<1> HIDE DEF S
<1>5. Seq(Warehouse) \subseteq S
  BY <1>3, <1>4, TopUpPass!SeqInduction
<1> QED BY <1>2, <1>5, AnyRequestFacts DEF S

-----------------------------------------------------------------------------
(* The search for what a store misses: lines 300 to 346 of route_planner.go, *)
(* where each pickup ends the scan of the warehouses and begins it again.    *)

\* The scan passes by a warehouse.
Passes(c, a, w) ==
  w \in a.used \/ DOMAIN LoadFrom(c.stock[w], Shortfall(a.truck, c.items)) = {}

\* One scan: while the store cannot be served, the first warehouse that is not
\* passed by gives what it can.
Scan(c, a, ws, b) ==
  /\ ~CanDeliver(a.truck, c.items)
  /\ \E j \in DOMAIN ws : /\ \A i \in 1..(j - 1) : Passes(c, a, ws[i])
                          /\ ~Passes(c, a, ws[j])
                          /\ b = TopUpStep(c, a, ws[j])

\* The loop from a: scan after scan, until every warehouse is passed by.
Search(c, a, ws, s) ==
  /\ s \in Seq(IntFallback) /\ Len(s) >= 1 /\ s[1] = a
  /\ \A i \in 1..(Len(s) - 1) : Scan(c, s[i], ws, s[i + 1])
  /\ \A j \in DOMAIN ws : Passes(c, s[Len(s)], ws[j])

\* The loop from a leads to b.
SearchEnds(c, a, ws, b) == \E s : Search(c, a, ws, s) /\ s[Len(s)] = b

\* What a store misses is positive, so a pickup for it takes nothing away.
LEMMA TopUpLoads ==
  ASSUME NEW stock \in Stocks, NEW truck \in IntMaps, NEW items \in IntMaps, NEW k
  PROVE  Qty(LoadFrom(stock, Shortfall(truck, items)), k) \in Nat
<1> DEFINE miss == Shortfall(truck, items)
           load == LoadFrom(stock, miss)
<1>1. CASE k \notin DOMAIN load
  BY <1>1 DEF Qty
<1>2. CASE k \in DOMAIN load
  <2>1. k \in DOMAIN miss /\ stock[k] > 0 /\ load[k] = Min({miss[k], stock[k]})
    BY <1>2 DEF LoadFrom
  <2>2. k \in DOMAIN items /\ Qty(truck, k) < items[k] /\ miss[k] = items[k] - Qty(truck, k)
    BY <2>1 DEF Shortfall
  <2>3. k \in Sku /\ items[k] \in Int /\ Qty(truck, k) \in Int /\ stock[k] \in Nat
    BY <2>2, IntMapFacts DEF Stocks
  <2> HIDE DEF miss
  <2>4. miss[k] \in Nat /\ stock[k] \in Nat
    BY <2>2, <2>3
  <2>5. Min({miss[k], stock[k]}) \in {miss[k], stock[k]}
    <3>1. \E x \in {miss[k], stock[k]} : \A y \in {miss[k], stock[k]} : x <= y
      BY <2>4
    <3> QED BY <3>1 DEF Min
  <2> HIDE DEF load
  <2>6. load[k] \in Nat
    BY <2>1, <2>4, <2>5
  <2>7. Qty(load, k) \in Nat
    BY <1>2, <2>6 DEF Qty
  <2> QED BY <2>7 DEF load, miss
<1> QED BY <1>1, <1>2

\* Where the scan stops at a warehouse, the store cannot be served.
LEMMA StopsForShortage ==
  ASSUME NEW c, c.items \in IntMaps, NEW a, a.truck \in IntMaps, NEW w, ~Passes(c, a, w)
  PROVE  ~CanDeliver(a.truck, c.items)
<1> DEFINE miss == Shortfall(a.truck, c.items)
<1>1. DOMAIN LoadFrom(c.stock[w], miss) # {}
  BY DEF Passes
<1>2. DOMAIN LoadFrom(c.stock[w], miss) \subseteq DOMAIN miss
  BY DEF LoadFrom
<1>3. PICK k : k \in DOMAIN miss
  BY <1>1, <1>2
<1>4. k \in DOMAIN c.items /\ Qty(a.truck, k) < c.items[k]
  BY <1>3 DEF Shortfall
<1>5. c.items[k] \in Int /\ Qty(a.truck, k) \in Int
  BY <1>4, IntMapFacts
<1> QED BY <1>4, <1>5 DEF CanDeliver

\* A warehouse that is passed by is passed by after any pickup, and so is the
\* warehouse that was picked: what the store misses has no new SKU.
LEMMA PassedStays ==
  ASSUME NEW c, c.items \in IntMaps, c.stock \in [Warehouse -> Stocks],
         NEW a \in IntFallback, NEW w \in Warehouse, NEW v \in Warehouse,
         Passes(c, a, v) \/ v = w
  PROVE  Passes(c, TopUpStep(c, a, w), v)
<1> DEFINE new == TopUpStep(c, a, w)
           load == LoadFrom(c.stock[w], Shortfall(a.truck, c.items))
<1>1. a.truck \in IntMaps /\ c.stock[w] \in Stocks
  BY DEF IntFallback
<1>2. CASE Passes(c, a, w)
  <2>1. new = a
    BY <1>2 DEF TopUpStep, Passes
  <2> QED BY <1>2, <2>1
<1>3. CASE ~Passes(c, a, w)
  <2>1. new.truck = Plus(a.truck, load) /\ new.used = a.used \cup {w}
    BY <1>3 DEF TopUpStep, Passes, IntFallback
  <2>2. load \in IntMaps
    BY <1>1, ShortfallInt, LoadInt
  <2> HIDE DEF new, load
  <2>3. DOMAIN Shortfall(new.truck, c.items) \subseteq DOMAIN Shortfall(a.truck, c.items)
    <3>1. ASSUME NEW k \in DOMAIN c.items, Qty(new.truck, k) < c.items[k]
          PROVE  Qty(a.truck, k) < c.items[k]
      <4>1. Qty(new.truck, k) = Qty(a.truck, k) + Qty(load, k)
        BY <1>1, <2>1, <2>2, PlusQty
      <4>2. Qty(a.truck, k) \in Int /\ c.items[k] \in Int
        BY <1>1, IntMapFacts
      <4>3. Qty(load, k) \in Nat
        BY <1>1, TopUpLoads DEF load
      <4> QED BY <3>1, <4>1, <4>2, <4>3
    <3> QED BY <3>1 DEF Shortfall
  <2>4. DOMAIN LoadFrom(c.stock[v], Shortfall(new.truck, c.items))
          \subseteq DOMAIN LoadFrom(c.stock[v], Shortfall(a.truck, c.items))
    BY <2>3 DEF LoadFrom
  <2>5. Passes(c, new, v)
    BY <2>1, <2>4 DEF Passes
  <2> QED BY <2>5 DEF new
<1> QED BY <1>2, <1>3

\* One more warehouse at the end of the list adds at most one scan.
LEMMA SearchMore ==
  ASSUME NEW c, c.items \in IntMaps, c.stock \in [Warehouse -> Stocks],
         NEW acc, NEW ws \in Seq(Warehouse), NEW w \in Warehouse,
         NEW a, SearchEnds(c, acc, ws, a), TopUpStep(c, a, w) \in IntFallback
  PROVE  SearchEnds(c, acc, Append(ws, w), TopUpStep(c, a, w))
<1>1. PICK s : Search(c, acc, ws, s) /\ s[Len(s)] = a
  BY DEF SearchEnds
<1> DEFINE n == Len(ws)
           m == Len(s)
           all == Append(ws, w)
           b == TopUpStep(c, a, w)
<1>2. /\ s \in Seq(IntFallback) /\ m \in Nat /\ m >= 1 /\ s[1] = acc
      /\ DOMAIN s = 1..m /\ s[m] = a
      /\ a \in IntFallback
  BY <1>1 DEF Search
<1>3. /\ n \in Nat /\ DOMAIN ws = 1..n /\ DOMAIN all = 1..(n + 1)
      /\ all[n + 1] = w
      /\ \A j \in 1..n : all[j] = ws[j] /\ ws[j] \in Warehouse
  OBVIOUS
<1>4. \A j \in 1..n : Passes(c, a, ws[j])
  BY <1>1, <1>3 DEF Search
<1>5. ASSUME NEW i \in 1..(m - 1)
      PROVE  Scan(c, s[i], all, s[i + 1])
  <2>1. Scan(c, s[i], ws, s[i + 1])
    BY <1>1, <1>5 DEF Search
  <2> HIDE DEF all, n, m
  <2>2. PICK j \in 1..n : /\ \A h \in 1..(j - 1) : Passes(c, s[i], ws[h])
                          /\ ~Passes(c, s[i], ws[j])
                          /\ s[i + 1] = TopUpStep(c, s[i], ws[j])
    BY <1>3, <2>1 DEF Scan
  <2>3. j \in DOMAIN all /\ \A h \in 1..(j - 1) : h \in 1..n
    BY <1>3
  <2> QED BY <1>3, <2>1, <2>2, <2>3 DEF Scan
<1>6. CASE Passes(c, a, w)
  <2>1. b = a
    BY <1>6 DEF TopUpStep, Passes
  <2>2. \A j \in DOMAIN all : Passes(c, a, all[j])
    <3> HIDE DEF all, n
    <3> QED BY <1>3, <1>4, <1>6
  <2>3. Search(c, acc, all, s)
    BY <1>1, <1>2, <1>5, <2>2 DEF Search
  <2> QED BY <1>2, <2>1, <2>3 DEF SearchEnds
<1>7. CASE ~Passes(c, a, w)
  <2> DEFINE t == Append(s, b)
  <2>1. /\ t \in Seq(IntFallback) /\ Len(t) = m + 1 /\ t[1] = acc
        /\ t[m + 1] = b
        /\ \A i \in 1..m : t[i] = s[i]
    BY <1>2
  <2>2. Scan(c, a, all, b)
    <3>1. ~CanDeliver(a.truck, c.items)
      BY <1>2, <1>7, StopsForShortage DEF IntFallback
    <3> DEFINE next == n + 1
    <3>2. next \in DOMAIN all /\ \A i \in 1..(next - 1) : Passes(c, a, all[i])
      <4> HIDE DEF all, n
      <4> QED BY <1>3, <1>4
    <3> HIDE DEF all, b
    <3>3. b = TopUpStep(c, a, all[next]) /\ ~Passes(c, a, all[next])
      BY <1>3, <1>7 DEF b
    <3> HIDE DEF next
    <3> QED BY <3>1, <3>2, <3>3 DEF Scan
  <2>3. ASSUME NEW i \in 1..m
        PROVE  Scan(c, t[i], all, t[i + 1])
    <3> HIDE DEF t, all, b, m, n
    <3>1. CASE i = m
      BY <1>2, <2>1, <2>2, <3>1
    <3>2. CASE i # m
      <4>1. i \in 1..(m - 1) /\ i + 1 \in 1..m
        BY <1>2, <3>2
      <4>2. t[i] = s[i] /\ t[i + 1] = s[i + 1]
        BY <2>1, <4>1
      <4> QED BY <1>5, <4>1, <4>2
    <3> QED BY <3>1, <3>2
  <2>4. ASSUME NEW j \in 1..(n + 1)
        PROVE  Passes(c, b, all[j])
    <3>1. all[j] \in Warehouse /\ (Passes(c, a, all[j]) \/ all[j] = w)
      <4> HIDE DEF all, n
      <4> QED BY <1>3, <1>4
    <3> HIDE DEF all, n
    <3> QED BY <1>2, <3>1, PassedStays
  <2> HIDE DEF t, all, b, m, n
  <2>5. /\ Len(t) - 1 = m /\ t[Len(t)] = b /\ Len(t) >= 1
    BY <1>2, <2>1
  <2>6. Search(c, acc, all, t)
    BY <1>3, <2>1, <2>3, <2>4, <2>5 DEF Search
  <2>7. SearchEnds(c, acc, all, b)
    BY <2>5, <2>6 DEF SearchEnds
  <2> QED BY <2>7 DEF all, b
<1> QED BY <1>6, <1>7

\* TopUp's single pass over the warehouses is where the code's search ends: no step
\* of the fallback is lost by not beginning the scan again, whatever is asked for.
THEOREM OnePassIsTheSearch ==
  ASSUME NEW r \in Requests, NEW i \in 1..Len(r.stores), NEW acc \in IntFallback
  PROVE  SearchEnds([stock |-> r.stock, items |-> r.stores[i]], acc, r.extra,
                    TopUp(r, acc, r.stores[i]))
<1> DEFINE items == r.stores[i]
           c == [stock |-> r.stock, items |-> items]
           F(p) == TopUpPass!Fold(c, acc, p)
           S == {p \in Seq(Warehouse) : F(p) \in IntFallback /\ SearchEnds(c, acc, p, F(p))}
<1>1. c.items \in IntMaps /\ c.stock \in [Warehouse -> Stocks] /\ items \in IntMaps
  BY AnyRequestFacts
<1> HIDE DEF items
<1>2. \A a \in IntFallback, w \in Warehouse : TopUpStep(c, a, w) \in IntFallback
  BY <1>1, TopUpStepTyped
<1>3. TopUp(r, acc, items) = F(r.extra)
  BY TopUpFolds
<1> HIDE DEF c
<1>4. <<>> \in S
  <2>1. F(<<>>) = acc /\ <<>> \in Seq(Warehouse)
    BY TopUpPass!FoldEmpty
  <2>2. Search(c, acc, <<>>, <<acc>>)
    BY DEF Search
  <2>3. <<acc>>[Len(<<acc>>)] = acc
    OBVIOUS
  <2>4. SearchEnds(c, acc, <<>>, acc)
    BY <2>2, <2>3 DEF SearchEnds
  <2> QED BY <2>1, <2>4
<1>5. ASSUME NEW p \in Seq(Warehouse), NEW w \in Warehouse, p \in S
      PROVE  Append(p, w) \in S
  <2>1. F(Append(p, w)) = TopUpStep(c, F(p), w)
    BY TopUpPass!FoldAppend
  <2>2. F(p) \in IntFallback /\ SearchEnds(c, acc, p, F(p))
    BY <1>5
  <2>3. TopUpStep(c, F(p), w) \in IntFallback
    BY <1>2, <2>2
  <2>4. SearchEnds(c, acc, Append(p, w), TopUpStep(c, F(p), w))
    <3> HIDE DEF F
    <3> QED BY <1>1, <2>2, <2>3, SearchMore
  <2> QED BY <2>1, <2>3, <2>4
<1> HIDE DEF S
<1>6. Seq(Warehouse) \subseteq S
  BY <1>4, <1>5, TopUpPass!SeqInduction
<1>7. r.extra \in Seq(Warehouse)
  BY AnyRequestFacts
<1> QED BY <1>3, <1>6, <1>7 DEF S, c, items

-----------------------------------------------------------------------------
(* The rest of the fallback *)

\* A store.
LEMMA VisitTyped ==
  ASSUME NEW r \in Requests, NEW i \in 1..Len(r.stores), NEW acc \in IntFallback
  PROVE  Visit(r, acc, i) \in IntFallback
<1> DEFINE items == r.stores[i]
           a == TopUp(r, acc, items)
<1>1. items \in IntMaps /\ i \in 1..MaxStores
  BY AnyRequestFacts, RoutePlannerAssumption
<1>2. Visit(r, acc, i)
        = IF CanDeliver(a.truck, items)
          THEN [a EXCEPT !.truck = Unload(a.truck, items),
                         !.route = Append(a.route, Delivery(i, items))]
          ELSE [a EXCEPT !.short = TRUE]
  BY DEF Visit
<1>3. a \in IntFallback
  BY <1>1, TopUpTyped
<1> HIDE DEF a, items
<1>4. a.truck \in IntMaps /\ a.route \in Seq(Stop)
  BY <1>3 DEF IntFallback
<1>5. /\ Unload(a.truck, items) \in IntMaps
      /\ Append(a.route, Delivery(i, items)) \in Seq(Stop)
  BY <1>1, <1>4, UnloadInt, StopsTyped
<1> QED BY <1>2, <1>3, <1>5 DEF IntFallback

\* All stores.
LEMMA FallbackTyped ==
  ASSUME NEW r \in Requests
  PROVE  Fallback(r).route \in Seq(Stop)
<1> DEFINE len == Len(r.stores)
           S == {s \in Seq(1..len) : Visits!Fold(r, Start(r), s) \in IntFallback}
           ids == [i \in DOMAIN r.stores |-> i]
<1>1. len \in Nat /\ DOMAIN r.stores = 1..len /\ ids \in Seq(1..len)
  BY AnyRequestFacts
<1>2. Fallback(r) = Visits!Fold(r, Start(r), ids)
  BY FallbackFolds
<1>3. Start(r) \in IntFallback
  <2> DEFINE load == LoadFrom(r.stock[Origin], Demand(r))
  <2>1. load \in IntMaps /\ Origin \in Warehouse
    BY AnyRequestFacts, DemandInt, LoadInt, RoutePlannerAssumption
  <2>2. Start(r) = [truck |-> load, route |-> <<Pickup(Origin, load)>>,
                    used |-> {Origin}, short |-> FALSE]
    BY DEF Start
  <2> HIDE DEF load
  <2>3. Pickup(Origin, load) \in Stop
    BY <2>1, StopsTyped
  <2> QED BY <2>1, <2>2, <2>3 DEF IntFallback
<1> HIDE DEF ids
<1>4. <<>> \in S
  <2>1. <<>> \in Seq(1..len)
    OBVIOUS
  <2> QED BY <1>3, <2>1, Visits!FoldEmpty
<1>5. ASSUME NEW s \in Seq(1..len), NEW i \in 1..len, s \in S
      PROVE  Append(s, i) \in S
  <2>1. Visits!Fold(r, Start(r), Append(s, i)) = Visit(r, Visits!Fold(r, Start(r), s), i)
    BY Visits!FoldAppend
  <2>2. Visit(r, Visits!Fold(r, Start(r), s), i) \in IntFallback
    BY <1>5, VisitTyped
  <2> QED BY <2>1, <2>2
<1> HIDE DEF S
<1>6. Seq(1..len) \subseteq S
  BY <1>4, <1>5, Visits!SeqInduction
<1>7. Fallback(r) \in IntFallback
  BY <1>1, <1>2, <1>6 DEF S
<1> QED BY <1>7 DEF IntFallback

-----------------------------------------------------------------------------
(* The machine *)

Distinct(r) == IsInjective(<<Origin>> \o r.extra)

\* A walk along the stops ends with an empty truck and without a violation, and has
\* taken from no warehouse more than the request saw there.
Sound(r, stops) ==
  /\ ~Walk(stops).bad
  /\ DOMAIN Walk(stops).truck = {}
  /\ \A w \in Warehouse, k \in Sku : Loaded(stops, w, k) <= r.stock[w][k]

\* The verdict is that of the two strategies, the stops have their types, and a
\* stored route is sound unless the request asks for a negative quantity or the
\* preferred strategy made it from a request that names a warehouse twice.
RouteInv ==
  /\ TypeOK
  /\ plan # "stored" => route = <<>>
  /\ plan = "stored" => PreferredWorks(request) \/ FallbackWorks(request)
  /\ plan = "refused" => ~PreferredWorks(request) /\ ~FallbackWorks(request)
  /\ NoneNegative(request) => route \in Seq(PlanStop)
  /\ /\ plan = "stored" /\ NoneNegative(request)
     /\ Distinct(request) \/ ~PreferredWorks(request)
     => Sound(request, route)

\* A route of the fallback has the stops of a plan and, when no store was skipped
\* and nothing stays on the truck, is sound.
LEMMA FallbackSound ==
  ASSUME NEW r \in Counted
  PROVE  /\ Fallback(r).route \in Seq(PlanStop)
         /\ FallbackWorks(r) => Sound(r, Fallback(r).route)
<1>1. FallbackGood(r, Fallback(r), Len(r.stores))
  BY FallbackFacts
<1> QED BY <1>1 DEF FallbackGood, FallbackState, FallbackWorks, Sound

\* A return depot is a stop; it changes neither the load nor the verdict of the walk.
LEMMA DepotSound ==
  ASSUME NEW r, NEW s \in Seq(PlanStop)
  PROVE  /\ Append(s, Depot) \in Seq(PlanStop)
         /\ Sound(r, s) => Sound(r, Append(s, Depot))
BY DepotOn DEF Sound

LEMMA DepotTyped ==
  ASSUME NEW s \in Seq(Stop)
  PROVE  Append(s, Depot) \in Seq(Stop)
BY StopsTyped

\* Nothing is planned at first.
LEMMA RouteInvInit == Init => RouteInv
BY DEF Init, RouteInv, TypeOK, Range

\* Planning and return depots keep the invariant.
LEMMA RouteInvStep == RouteInv /\ [Next]_vars => RouteInv'
<1> SUFFICES ASSUME RouteInv, [Next]_vars
             PROVE  RouteInv'
  OBVIOUS
<1>1. /\ request \in Requests
      /\ route \in Seq(Stop)
      /\ plan \in {"none", "stored", "refused"}
  BY RouteTyped DEF RouteInv, TypeOK
<1>2. ASSUME request' = request, route' \in Seq(Stop),
             plan' \in {"none", "stored", "refused"}
      PROVE  TypeOK'
  <2>1. /\ route' \in Seq(Range(route'))
        /\ \A i \in DOMAIN route' : \E K \in SUBSET Sku : route'[i] \in StopOf(K)
    BY <1>2, RouteTyped
  <2> QED BY <1>1, <1>2, <2>1 DEF TypeOK
<1>3. CASE PlanRoute
  <2>1. plan = "none" /\ request' = request
    BY <1>3 DEF PlanRoute
  <2>2. ASSUME PreferredWorks(request), plan' = "stored",
               route' = PreferredRoute(request)
        PROVE  RouteInv'
    <3>1. TypeOK'
      BY <1>1, <1>2, <2>1, <2>2, PreferredTyped
    <3>2. ASSUME NoneNegative(request)
          PROVE  /\ route' \in Seq(PlanStop)
                 /\ Distinct(request) => Sound(request, route')
      <4>1. request \in Counted
        BY <1>1, <3>2 DEF Counted
      <4> QED BY <2>2, <4>1, PreferredStops, PreferredFacts DEF Distinct, Sound
    <3> QED BY <2>1, <2>2, <3>1, <3>2 DEF RouteInv
  <2>3. ASSUME ~PreferredWorks(request), FallbackWorks(request), plan' = "stored",
               route' = Fallback(request).route
        PROVE  RouteInv'
    <3>1. TypeOK'
      BY <1>1, <1>2, <2>1, <2>3, FallbackTyped
    <3>2. ASSUME NoneNegative(request)
          PROVE  route' \in Seq(PlanStop) /\ Sound(request, route')
      <4>1. request \in Counted
        BY <1>1, <3>2 DEF Counted
      <4> QED BY <2>3, <4>1, FallbackSound
    <3> QED BY <2>1, <2>3, <3>1, <3>2 DEF RouteInv
  <2>4. ASSUME ~PreferredWorks(request), ~FallbackWorks(request), plan' = "refused",
               route' = route
        PROVE  RouteInv'
    <3>1. TypeOK'
      BY <1>1, <1>2, <2>1, <2>4
    <3> QED BY <2>1, <2>4, <3>1 DEF RouteInv
  <2> QED BY <1>3, <2>2, <2>3, <2>4 DEF PlanRoute
<1>4. CASE AddReturnDepot
  <2>1. /\ plan = "stored" /\ plan' = plan /\ request' = request
        /\ route' = Append(route, Depot)
    BY <1>4 DEF AddReturnDepot
  <2>2. TypeOK'
    BY <1>1, <1>2, <2>1, DepotTyped
  <2>3. ASSUME NoneNegative(request)
        PROVE  /\ route' \in Seq(PlanStop)
               /\ Sound(request, route) => Sound(request, route')
    <3>1. route \in Seq(PlanStop)
      BY <2>3 DEF RouteInv
    <3> QED BY <2>1, <3>1, DepotSound
  <2> QED BY <2>1, <2>2, <2>3 DEF RouteInv
<1>5. CASE UNCHANGED vars
  BY <1>5 DEF vars, RouteInv, TypeOK
<1> QED BY <1>3, <1>4, <1>5 DEF Next

\* So it holds of every behaviour.
LEMMA RouteInvHolds == Spec => []RouteInv
BY RouteInvInit, RouteInvStep, PTL DEF Spec

\* Whatever is asked for, negative quantities included, the stored stops are stops
\* of the plan's type.
THEOREM TypeCorrect == Spec => []TypeOK
<1>1. RouteInv => TypeOK
  BY DEF RouteInv
<1> QED BY <1>1, RouteInvHolds, PTL

\* A request that asks for something in every line is counted.
LEMMA AsksCounted ==
  ASSUME NEW r \in Requests, Asks(r)
  PROVE  r \in Counted
<1>1. r.stores \in Seq(IntMaps)
  BY AnyRequestFacts
<1>2. ASSUME NEW i \in DOMAIN r.stores, NEW k \in DOMAIN r.stores[i]
      PROVE  r.stores[i][k] >= 0
  <2>1. r.stores[i][k] \in Int
    BY <1>1, IntMapFacts
  <2>2. r.stores[i][k] > 0
    BY DEF Asks
  <2> QED BY <2>1, <2>2
<1> QED BY <1>2 DEF Counted, NoneNegative

\* PlanRoute refuses a request without zero or negative quantities exactly when the
\* warehouses it names hold too little, also when it names one twice.
THEOREM RefusesExactlyWhenShort == Spec => []RefusedExactlyWhenShort
<1>1. ASSUME RouteInv
      PROVE  RefusedExactlyWhenShort
  <2> SUFFICES ASSUME plan # "none", Asks(request)
               PROVE  plan = "refused" <=> \E k \in Sku : Short(request, k)
    BY DEF RefusedExactlyWhenShort
  <2>1. request \in Counted /\ plan \in {"stored", "refused"}
    BY <1>1, AsksCounted DEF RouteInv, TypeOK
  <2>2. PreferredWorks(request) <=> \A k \in Sku : ~Short(request, k)
    BY <2>1, PreferredUnlessShort
  <2>3. FallbackWorks(request) => \A k \in Sku : ~Short(request, k)
    BY <2>1, FallbackUnlessShort
  <2> QED BY <1>1, <2>1, <2>2, <2>3 DEF RouteInv
<1> QED BY <1>1, RouteInvHolds, PTL

\* The second strategy of solvePlan never saves a request without zero or negative
\* quantities.
THEOREM FallbackSavesNothing == Spec => []FallbackOnlyForZero
<1>1. ASSUME RouteInv
      PROVE  FallbackOnlyForZero
  <2> SUFFICES ASSUME plan = "stored", Asks(request)
               PROVE  PreferredWorks(request)
    BY DEF FallbackOnlyForZero
  <2>1. request \in Counted
    BY <1>1, AsksCounted DEF RouteInv, TypeOK
  <2>2. PreferredWorks(request) <=> \A k \in Sku : ~Short(request, k)
    BY <2>1, PreferredUnlessShort
  <2>3. FallbackWorks(request) => \A k \in Sku : ~Short(request, k)
    BY <2>1, FallbackUnlessShort
  <2> QED BY <1>1, <2>2, <2>3 DEF RouteInv
<1> QED BY <1>1, RouteInvHolds, PTL

\* A sound route is valid, its loads are in stock and its line entries add up to
\* nothing.
LEMMA SoundSuffices ==
  ASSUME RouteInv, NoneNegative(request), Distinct(request) \/ ~PreferredWorks(request)
  PROVE  PlansValidate /\ LoadsInStock /\ LinesBalance
<1>1. request \in Requests /\ route \in Seq(PlanStop)
  BY DEF RouteInv, TypeOK
<1>2. plan = "stored" => Sound(request, route)
  BY DEF RouteInv
<1>3. PlansValidate
  BY <1>2 DEF PlansValidate, Valid, Sound
<1>4. ASSUME NEW w \in Warehouse, NEW k \in Sku
      PROVE  Loaded(route, w, k) <= request.stock[w][k]
  <2>1. CASE plan = "stored"
    BY <1>2, <2>1 DEF Sound
  <2>2. CASE plan # "stored"
    <3>1. Loaded(route, w, k) = 0
      BY <2>2, LoadedSteps DEF RouteInv
    <3>2. request.stock[w][k] \in Nat
      BY <1>1, AnyRequestFacts
    <3> QED BY <3>1, <3>2
  <2> QED BY <2>1, <2>2
<1>5. ASSUME plan = "stored", NEW k \in Sku
      PROVE  Balance(route, k) = 0
  <2>1. Qty(Walk(route).truck, k) = Balance(route, k)
    BY <1>1, <1>2, <1>5, EntriesCarry DEF Sound
  <2>2. Qty(Walk(route).truck, k) = 0
    BY <1>2, <1>5 DEF Sound, Qty
  <2> QED BY <2>1, <2>2
<1> QED BY <1>3, <1>4, <1>5 DEF LoadsInStock, LinesBalance

\* Whatever the instance, a plan validates, stays within the stock and has line
\* entries that balance, unless the request asks for a negative quantity or the
\* preferred strategy made the plan from a request that names a warehouse twice:
\* solvePlan goes wrong in no third way.
THEOREM SoundUnlessNamedTwice ==
  Spec => [](NoneNegative(request) /\ (Distinct(request) \/ ~PreferredWorks(request)) =>
               PlansValidate /\ LoadsInStock /\ LinesBalance)
<1>1. RouteInv =>
        (NoneNegative(request) /\ (Distinct(request) \/ ~PreferredWorks(request)) =>
           PlansValidate /\ LoadsInStock /\ LinesBalance)
  BY SoundSuffices
<1> QED BY <1>1, RouteInvHolds, PTL

\* Where no request names a warehouse twice, all of these hold of every plan.
LEMMA SoundWithoutRepeats ==
  ASSUME ~Repeats, RouteInv, NoneNegative(request)
  PROVE  PlansValidate /\ LoadsInStock /\ LinesBalance
<1>1. request \in Requests
  BY DEF RouteInv, TypeOK
<1>2. Distinct(request)
  BY <1>1, AnyRequestFacts DEF Distinct
<1> QED BY <1>2, SoundSuffices

\* Every stored route of a request without negative quantities (so PlansValidate has
\* it) passes ValidatePlan, when no warehouse is named twice.
THEOREM PlansAreValid == ASSUME ~Repeats PROVE Spec => []PlansValidate
<1>1. RouteInv => PlansValidate
  <2>1. CASE NoneNegative(request)
    BY <2>1, SoundWithoutRepeats
  <2>2. CASE ~NoneNegative(request)
    BY <2>2 DEF PlansValidate
  <2> QED BY <2>1, <2>2
<1> QED BY <1>1, RouteInvHolds, PTL

\* No stored route takes more than the stock it was planned from, when no warehouse
\* is named twice and no quantity is negative.
THEOREM LoadsStayInStock ==
  ASSUME ~Repeats
  PROVE  Spec => [](NoneNegative(request) => LoadsInStock)
<1>1. RouteInv => (NoneNegative(request) => LoadsInStock)
  BY SoundWithoutRepeats
<1> QED BY <1>1, RouteInvHolds, PTL

\* The .NET line entries of a stored plan balance, when no warehouse is named twice
\* and no quantity is negative.
THEOREM LinesAddUp ==
  ASSUME ~Repeats
  PROVE  Spec => [](NoneNegative(request) => LinesBalance)
<1>1. RouteInv => (NoneNegative(request) => LinesBalance)
  BY SoundWithoutRepeats
<1> QED BY <1>1, RouteInvHolds, PTL
=============================================================================
