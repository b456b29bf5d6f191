------------------------- MODULE RegionalInventory -------------------------
(***************************************************************************)
(* GET /api/inventory/region (inventory_handler.go) over the calls of      *)
(* TokenProvider: one goroutine per warehouse, in each of them one per     *)
(* category (GetByLocation of inventory_client.go), and a wait at either   *)
(* level.  The other calls of the backend share the token with it.         *)
(***************************************************************************)
EXTENDS TokenProvider

CONSTANTS
  Warehouse,       \* the warehouse table
  Category         \* Clothing, PPE and Tool in the code

Fetches == Warehouse \X Category

\* The fetches are calls, and other requests make calls too.
ASSUME FetchAssumption == Fetches \subseteq Call

VARIABLES
  located,         \* per warehouse: what GetByLocation returned to the request
  region           \* the handler: idle, waiting, or the answer it wrote

regionVars == <<located, region>>

RegionTypeOK ==
  /\ TypeOK
  /\ located \in [Warehouse -> {"none", "waiting", "items", "error"}]
  /\ region \in {"idle", "waiting", "ok", "badGateway"}

RegionInit ==
  /\ Init
  /\ located = [w \in Warehouse |-> "none"]
  /\ region = "idle"

Asked == {w \in Warehouse : located[w] # "none"}

FetchesOf(ws) == ws \X Category

\* The warehouses ws of the region are read and their goroutines started.
GetRegional(ws) ==
  /\ region = "idle" /\ ws # {}
  /\ Begin(FetchesOf(ws))
  /\ located' = [w \in Warehouse |-> IF w \in ws THEN "waiting" ELSE "none"]
  /\ region' = "waiting"

\* Mutant: the first category decides.
FoundFirst(w) == call[<<w, CHOOSE k \in Category : TRUE>>].pc

\* The three categories are in: one that failed fails the location.
Found(w) == IF \A k \in Category : call[<<w, k>>].pc = "ok" THEN "items" ELSE "error"

\* GetByLocation after its wait.
GetByLocation(w) ==
  /\ located[w] = "waiting" /\ \A k \in Category : Ended(<<w, k>>)
  /\ located' = [located EXCEPT ![w] = Found(w)]
  /\ UNCHANGED <<tokenVars, region>>

\* Mutant: the wait ends with the first goroutine.
SomeLocated == \E w \in Asked : located[w] # "waiting"

\* The goroutines the handler waits for.
AllLocated == \A w \in Asked : located[w] # "waiting"

\* The handler after its wait: one location that failed fails the request.
Respond ==
  /\ region = "waiting" /\ AllLocated
  /\ region' = IF \E w \in Asked : located[w] = "error" THEN "badGateway" ELSE "ok"
  /\ UNCHANGED <<tokenVars, located>>

\* The answer is written and the handler returns.
Finish ==
  /\ region \in {"ok", "badGateway"}
  /\ Return(FetchesOf(Asked))
  /\ located' = [w \in Warehouse |-> "none"]
  /\ region' = "idle"

RegionNext ==
  \/ \E ws \in SUBSET Warehouse : GetRegional(ws)
  \/ \E w \in Warehouse : GetByLocation(w)
  \/ Respond
  \/ Finish

\* The other calls, and the steps of all calls.
CallNext ==
  /\ \/ \E cs \in SUBSET (Call \ Fetches) : Begin(cs) \/ Return(cs)
     \/ \E c \in Call : CallStep(c)
     \/ Tick
  /\ UNCHANGED regionVars

RegionProgress ==
  /\ WF_<<tokenVars, regionVars>>(Respond)
  /\ \A w \in Warehouse : WF_<<tokenVars, regionVars>>(GetByLocation(w))

RegionSpec ==
  /\ RegionInit /\ [][RegionNext \/ CallNext]_<<tokenVars, regionVars>>
  /\ CallsProgress /\ RegionProgress

-----------------------------------------------------------------------------

(***************************************************************************)
(* The handler's totals are of the whole region or are not sent: it        *)
(* answers 200 exactly when every fetch of every warehouse it asked        *)
(* succeeded, through two levels of goroutines that write their results    *)
(* into shared slices.                                                     *)
(***************************************************************************)
RegionWhole ==
  region \in {"ok", "badGateway"} =>
    (region = "ok" <=> \A f \in FetchesOf(Asked) : call[f].pc = "ok")

(***************************************************************************)
(* Both waits end: whatever Auth0 and the inventory API do, and whoever    *)
(* else refreshes the token meanwhile, the request is answered.  It waits  *)
(* for every fetch, so one that never ended would hold it for ever.        *)
(***************************************************************************)
RegionAnswered == region = "waiting" ~> region # "waiting"

=============================================================================
