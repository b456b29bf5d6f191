---------------------------- MODULE RoutePlanner ----------------------------
(***************************************************************************)
(* The route solver and the plan validator of route_planner.go, as pure    *)
(* operators, and the small machine around them: a request is planned or   *)
(* refused, and return depots may be added to a planned route.  How the    *)
(* plan's rows are inserted one by one is PlanBol.                         *)
(*                                                                         *)
(* A Go map from SKU to quantity is a function on the SKUs it has; a read  *)
(* of a missing key is 0 and a key with quantity 0 is still a key.  Maps   *)
(* are ranged over in any order; no step depends on it, as each SKU is     *)
(* handled on its own.                                                     *)
(***************************************************************************)
EXTENDS SequencesExt

CONSTANTS
  Sku,          \* SKU markers
  Warehouse,    \* warehouse ids
  Origin,       \* origin_warehouse_id of the request
  Repeats,      \* whether a request may name a warehouse more than once
  MinQty,       \* bound: the least a store asks for; below zero if negative
  MaxQty,       \* bound: the most a store asks for of a SKU
  MaxStock,     \* bound: units of a SKU that a warehouse has
  MaxStores,    \* bound: store stops of a request
  MaxExtra,     \* bound: additional warehouses of a request
  MaxDepots     \* bound: return depots added to one plan

ASSUME RoutePlannerAssumption ==
  /\ Origin \in Warehouse
  /\ Repeats \in BOOLEAN
  /\ MinQty \in Int
  /\ {MaxQty, MaxStock, MaxStores, MaxExtra, MaxDepots} \subseteq Nat

VARIABLES
  request,      \* what the route is planned from, with the stock fetched for it
  route,        \* the stops of the stored plan, in order
  plan          \* "none", "stored" or "refused"

vars == <<request, route, plan>>

\* Create looks at no quantity: an order line may ask for nothing or for less.
Orders == UNION {[K -> MinQty..MaxQty] : K \in SUBSET Sku}

\* A stop loads (warehouse), delivers (store, by its place in the request) or
\* ends the route (depot); K are the SKUs it names.
StopOf(K) == [kind: {"warehouse", "depot"}, at: Warehouse, items: [K -> Int]]
        \cup [kind: {"store"}, at: 1..MaxStores, items: [K -> Int]]

ExtraLists ==
  {ws \in BoundedSeq(Warehouse, MaxExtra) :
     Repeats \/ IsInjective(<<Origin>> \o ws)}

\* Create refuses a request without store stops.
Requests == [extra: ExtraLists, stores: BoundedSeq(Orders, MaxStores) \ {<<>>},
             stock: [Warehouse -> [Sku -> 0..MaxStock]]]

TypeOK ==
  /\ request \in Requests
  /\ route \in Seq(Range(route))
  /\ \A i \in DOMAIN route : \E K \in SUBSET Sku : route[i] \in StopOf(K)
  /\ plan \in {"none", "stored", "refused"}

-----------------------------------------------------------------------------
(* Maps from SKU to quantity *)

Qty(m, k) == IF k \in DOMAIN m THEN m[k] ELSE 0

NoItems == [k \in {} |-> 0]

Plus(m, n) == [k \in DOMAIN m \cup DOMAIN n |-> Qty(m, k) + Qty(n, k)]

\* Mutant: the load is not capped at the stock.
LoadFromUncapped(stock, need) ==
  [k \in {i \in DOMAIN need : stock[i] > 0} |-> need[k]]

\* What a warehouse can give of what is needed; a SKU it has none of is no key.
LoadFrom(stock, need) ==
  [k \in {i \in DOMAIN need : stock[i] > 0} |-> Min({need[k], stock[k]})]

\* Mutant: a covered SKU keeps its key.
RemainingKept(need, load) == [k \in DOMAIN need |-> need[k] - Qty(load, k)]

\* What is still needed after a load; a key goes when a load covers it.
Remaining(need, load) ==
  [k \in {i \in DOMAIN need : i \notin DOMAIN load \/ need[i] # load[i]} |->
     need[k] - Qty(load, k)]

CanDeliver(truck, items) == \A k \in DOMAIN items : Qty(truck, k) >= items[k]

Shortfall(truck, items) ==
  [k \in {i \in DOMAIN items : Qty(truck, i) < items[i]} |->
     items[k] - Qty(truck, k)]

\* A SKU that a delivery brings to nothing is deleted; one that is not on the
\* truck comes onto it when the delivery is negative.
Unload(truck, items) ==
  [k \in {i \in DOMAIN truck \cup DOMAIN items :
            i \notin DOMAIN items \/ Qty(truck, i) > items[i]} |->
     Qty(truck, k) - Qty(items, k)]

-----------------------------------------------------------------------------
(* solvePlan *)

Pickup(w, load) == [kind |-> "warehouse", at |-> w, items |-> load]
Delivery(i, items) == [kind |-> "store", at |-> i, items |-> items]
Depot == [kind |-> "depot", at |-> Origin, items |-> NoItems]

Demand(r) == FoldLeft(Plus, NoItems, r.stores)

\* Mutant: each warehouse is asked for the whole demand.
LoadStepWhole(r, acc, w) ==
  LET load == LoadFrom(r.stock[w], Demand(r))
  IN  [need |-> Remaining(acc.need, load),
       of |-> IF DOMAIN load = {} THEN acc.of ELSE [acc.of EXCEPT ![w] = load]]

\* A warehouse loads what it can of what is still needed; a load of nothing is
\* not recorded, and a second visit replaces the load of the first.
LoadStep(r, acc, w) ==
  LET load == LoadFrom(r.stock[w], acc.need)
  IN  [need |-> Remaining(acc.need, load),
       of |-> IF DOMAIN load = {} THEN acc.of ELSE [acc.of EXCEPT ![w] = load]]

\* The preferred strategy's pass over the warehouses: what each one loads (no
\* items where the code has no entry) and what is still needed.
Loads(r) ==
  FoldLeft(LAMBDA acc, w : LoadStep(r, acc, w),
           [need |-> Demand(r), of |-> [w \in Warehouse |-> NoItems]],
           <<Origin>> \o r.extra)

\* An extra warehouse that loads nothing is left out.
PickupStep(of, stops, w) ==
  IF DOMAIN of[w] = {} THEN stops ELSE Append(stops, Pickup(w, of[w]))

\* The origin comes first whatever it loads.
Pickups(r) ==
  FoldLeft(LAMBDA stops, w : PickupStep(Loads(r).of, stops, w),
           <<Pickup(Origin, Loads(r).of[Origin])>>, r.extra)

\* Mutant: the stores are counted from zero.
DeliveriesFromZero(r) == [i \in DOMAIN r.stores |-> Delivery(i - 1, r.stores[i])]

Deliveries(r) == [i \in DOMAIN r.stores |-> Delivery(i, r.stores[i])]

\* All pickups before any delivery.
PreferredRoute(r) == Pickups(r) \o Deliveries(r)

\* c has the stock and the items of the store to serve.  A warehouse already used,
\* or with nothing of what the store still misses, is passed by.
TopUpStep(c, acc, w) ==
  LET load == LoadFrom(c.stock[w], Shortfall(acc.truck, c.items))
  IN  IF w \in acc.used \/ DOMAIN load = {} THEN acc
      ELSE [acc EXCEPT !.truck = Plus(@, load), !.used = @ \cup {w},
                       !.route = Append(@, Pickup(w, load))]

\* The fallback tops the truck up before a store.  The code starts its search over
\* after each pickup; what is missing only shrinks, so the ones it passed by are
\* passed by again and one pass does the same (RoutePlannerProofs shows it).
TopUp(r, acc, items) ==
  FoldLeft(LAMBDA a, w : TopUpStep([stock |-> r.stock, items |-> items], a, w),
           acc, r.extra)

\* A store that cannot be served is skipped with a violation.
Visit(r, acc, i) ==
  LET items == r.stores[i]
      a == TopUp(r, acc, items)
  IN  IF CanDeliver(a.truck, items)
      THEN [a EXCEPT !.truck = Unload(@, items),
                     !.route = Append(@, Delivery(i, items))]
      ELSE [a EXCEPT !.short = TRUE]

Fallback(r) ==
  LET load == LoadFrom(r.stock[Origin], Demand(r))
  IN  FoldLeft(LAMBDA acc, i : Visit(r, acc, i),
               [truck |-> load, route |-> <<Pickup(Origin, load)>>,
                used |-> {Origin}, short |-> FALSE],
               [i \in DOMAIN r.stores |-> i])

PreferredWorks(r) == DOMAIN Loads(r).need = {}

FallbackWorks(r) == ~Fallback(r).short /\ DOMAIN Fallback(r).truck = {}

-----------------------------------------------------------------------------
(* ValidatePlan and the line entries of Commit *)

WalkStep(acc, s) ==
  CASE s.kind = "warehouse" -> [acc EXCEPT !.truck = Plus(@, s.items)]
    [] s.kind = "store" ->
         [truck |-> Unload(acc.truck, s.items),
          bad |-> acc.bad \/ ~CanDeliver(acc.truck, s.items)]
    [] s.kind = "depot" -> [acc EXCEPT !.bad = @ \/ s.at # Origin]

Walk(stops) ==
  FoldLeft(WalkStep, [truck |-> NoItems, bad |-> FALSE], stops)

\* No violations; the truck must end empty unless a depot takes the rest.
Valid(stops) ==
  LET end == Walk(stops)
  IN  ~end.bad /\ (DOMAIN end.truck = {} \/ Last(stops).kind = "depot")

\* Mutant: deliveries are not negative.
EntrySigned(s, k) == IF s.kind = "depot" THEN 0 ELSE Qty(s.items, k)

\* The quantity of a SKU in the .NET line entry of a stop: loads are positive,
\* deliveries negative, depots left out.
Entry(s, k) ==
  CASE s.kind = "warehouse" -> Qty(s.items, k)
    [] s.kind = "store" -> 0 - Qty(s.items, k)
    [] s.kind = "depot" -> 0

-----------------------------------------------------------------------------

Init ==
  /\ request \in Requests
  /\ route = <<>>
  /\ plan = "none"

\* The hours-of-service check and the fetch of the stock come first; they refuse
\* without a trace.
PlanRoute ==
  /\ plan = "none"
  /\ \/ /\ PreferredWorks(request)
        /\ plan' = "stored" /\ route' = PreferredRoute(request)
     \/ /\ ~PreferredWorks(request) /\ FallbackWorks(request)
        /\ plan' = "stored" /\ route' = Fallback(request).route
     \/ /\ ~PreferredWorks(request) /\ ~FallbackWorks(request)
        /\ plan' = "refused" /\ route' = route
  /\ UNCHANGED request

\* Possible once the plan is submitted; it always returns to the origin.
AddReturnDepot ==
  /\ plan = "stored"
  /\ Cardinality({i \in DOMAIN route : route[i].kind = "depot"}) < MaxDepots
  /\ route' = Append(route, Depot)
  /\ UNCHANGED <<request, plan>>

Next == PlanRoute \/ AddReturnDepot

Spec == Init /\ [][Next]_vars

-----------------------------------------------------------------------------
(* Properties *)

\* The request asks for no negative quantity.
NoneNegative(r) ==
  \A i \in DOMAIN r.stores : \A k \in DOMAIN r.stores[i] : r.stores[i][k] >= 0

\* PlanRoute "resolves a valid stop sequence": every route it stores passes the
\* validator, by whichever strategy it was found and with return depots added,
\* unless an order line is negative.  Then it may not: one store with two units
\* and one with minus two need none together, so the planner loads none.
PlansValidate == plan = "stored" /\ NoneNegative(request) => Valid(route)

\* What the stops load of a SKU at a warehouse; c has both.
LoadedStep(c, sum, s) ==
  IF s.kind = "warehouse" /\ s.at = c.at THEN sum + Qty(s.items, c.sku) ELSE sum

Loaded(stops, w, k) ==
  FoldLeft(LAMBDA sum, s : LoadedStep([at |-> w, sku |-> k], sum, s), 0, stops)

\* A stored route takes from no warehouse more than it was seen to have, though
\* the preferred strategy keeps no account of what it took.
LoadsInStock ==
  \A w \in Warehouse, k \in Sku : Loaded(route, w, k) <= request.stock[w][k]

Asks(r) == \A i \in DOMAIN r.stores : \A k \in DOMAIN r.stores[i] : r.stores[i][k] > 0

\* What the warehouses of a request hold of a SKU; c has the stock and the SKU.
StockedStep(c, sum, w) == sum + c.stock[w][c.sku]

Stocked(r, k) ==
  FoldLeft(LAMBDA sum, w : StockedStep([stock |-> r.stock, sku |-> k], sum, w),
           0, <<Origin>> \o r.extra)

Short(r, k) == Qty(Demand(r), k) > Stocked(r, k)

\* A request without zero quantities is refused exactly when the warehouses it
\* names hold too little of something: the greedy strategies lose no plan, although
\* the fallback loads from each warehouse once and only for the next store.
RefusedExactlyWhenShort ==
  plan # "none" /\ Asks(request) =>
     (plan = "refused" <=> \E k \in Sku : Short(request, k))

\* The mid-route fallback saves no request: it is worth a try only when an order
\* line asks for none of a SKU, or for less, for a plan it finds for any other
\* request is one the preferred strategy has found before it.  Splitting a load
\* over warehouses, as 5 = 3 + 2, is within the preferred strategy already.
FallbackOnlyForZero ==
  plan = "stored" /\ Asks(request) => PreferredWorks(request)

EntryStep(k, sum, s) == sum + Entry(s, k)

Balance(stops, k) == FoldLeft(LAMBDA sum, s : EntryStep(k, sum, s), 0, stops)

\* The .NET line entries of a stored plan add up to nothing for every SKU: the
\* bill of lading loads exactly what it delivers.
LinesBalance ==
  plan = "stored" => \A k \in Sku : Balance(route, k) = 0
=============================================================================
