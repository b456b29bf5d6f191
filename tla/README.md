# Switchyard in TLA+

Switchyard dispatches trucks for a clothing, PPE and tool supplier. A Go backend
(`src/Switchyard-Go`) plans loads, assigns drivers and units to them and follows
them to delivery. Two .NET APIs keep the bills of lading
(`src/Switchyard.LogisticsAPI`) and the stock (`src/Switchyard.InventoryAPI`),
each in a primary database with a read replica of its own. This directory models
the parts of the system that change state, checks them with TLC on small
instances and proves their invariants with TLAPS for every instance.

## 1. The system

### 1.1 Components

| Component | State it keeps | Operations that change it | Module |
|---|---|---|---|
| Plan BOL handlers, `planbul_handler.go` | `plan_bol_record`, `plan_bol_stop` | Create, BeginPlanning, Commit, MarkLoaded, AddReturnDepot | `PlanBol` |
| Runs, `assignment_handler.go` | `driver_bol_assignment` | Create, Depart, Fulfill, ConfirmDeadhead, Transfer | `Dispatch` |
| Driver log, `driver_handler.go` | the stops' processed flag, the run's fulfilment | LogStop | `Dispatch` |
| Fleet, `equipment_handler.go` | `equipment`, maintenance and breakdown records | ReportMaintenance, ReportBreakdown, Resolve, availability rule | `Fleet` |
| Pairings, `deadhead_handler.go` | `deadhead_pairing` | Pair, Cancel | `Dispatch`, as far as the runs read it |
| Hours of service, `hos_service.go` | `hos_window` | OnStopLogged, RecordBreak, RecordMandatedStop, ResetWindow | `HosService` |
| Route planner, `route_planner.go` | none (a solver), then the plan's rows | PlanRoute, ValidatePlan | `RoutePlanner`; the inserts in `PlanBol` |
| Replica synchronisation, `Data/Sync` of both .NET APIs | channel, worker, the replica | interceptor, worker, startup job | `ReplicaSync`, `MonotonicCopy` |
| Bills of lading, `BillOfLadingService.cs` | bill and line entry rows | Create, ProcessLocationStop, ReplaceLocationStop | `LineEntries` |
| Inventory repositories and ReceiveDelivery | product rows | receive, edit, delete | planned |
| Dispatch board, `whiteboard_service.go`, `whiteboard_handler.go` | none: every page is put together from a dozen queries | GetBoardState reads beside the writers | `Whiteboard`; its driver cards in `DriverCards` |
| Token provider, `events/handler.go` | the Auth0 token and its expiry, shared by all outgoing calls | refreshToken | `TokenProvider` |
| Integration clients and regional lookup, `internal/integrations`, `inventory_handler.go` | calls in flight, results being collected | calls to the .NET APIs, GetRegional | `TokenProvider`, `RegionalInventory` |
| Event router, `events/router.go` | none | `stop_logged` is OnStopLogged of `HosService`; the other events write nothing | not modelled |
| Notifications, analytics, invoices, JWT middleware, wiring, UI, users, audit | none of their own, or outside | none | not modelled |

### 1.2 How they interact

A handler of the Go backend is a sequence of SQL statements, each committed by
itself: there is no transaction, no row lock and no version column. It calls the
.NET APIs over HTTP in between. The hooks into the whiteboard service return nil
and change nothing. A driver's `LogStop` reaches the plan's stops, the hours of
service, the line entries at the Logistics API, the run and the plan's status, in
that order, and ignores the errors of some.

A request of a .NET API reads from its replica and saves to its primary. A
SaveChanges is one transaction. An interceptor notes the entity types it changed
and posts a job to an in-memory channel after the commit; a single background
worker refills the named replica tables, delete first, insert after.

### 1.3 What is hard in it

* **Interleaving.** Any two handlers run between each other's statements; every
  guard is a row read earlier, often several statements and an HTTP call earlier.
* **Partial failure.** A handler may stop after any statement and leaves what it
  wrote: an error, a cancelled client, a lost answer, the process dying.
* **Stale reads.** The .NET services decide on a replica that lags behind, shows
  an empty table while it is refilled, or misses commits after a failed job.
* **Lost updates.** The hours-of-service window is read and written back whole.
* **Choice of row.** The newest run of a BOL or of a driver, the latest open
  record of a unit: the row a query picks is not always the row the caller means.
* **Reads at different times.** A board page is a dozen queries in no transaction.
* **Time.** A token is checked, sent and used at three moments, and Auth0 and the
  APIs may never answer.
* **Arithmetic.** The route solver splits demands over warehouses, twice in
  different ways, and the validator recomputes the truck's load.

`PROJECT.json` lists each hazard at its line, with the properties that would
catch it going wrong or the reason no property does.

### 1.4 What makes each component correct

* Plans: no truck is loaded without a bill of lading at the .NET API
  (`BillBeforeTruck`); of several drivers logging the last stops at once, one
  notices (`LastStopNoticed`).
* Runs: a load on the road is always in somebody's hands (`CustodyHeld`),
  hand-offs are on record (`HandoffRecorded`), milestones come in order
  (`MilestoneOrder`), what a handler has read still holds where it uses it
  (`HandlersOK`).
* Fleet: a unit's status and window are explained by stored records and runs
  (`OutOfServiceHasRecord`, `AssignedMeansRun`, `WindowMeansFulfilled`).
* Hours of service: hours are counted once unless a break is dated back
  (`HoursCountedOnce`), no driving past the break hours is stored without the
  break (`BreakBeforeEight`), the clocks agree, whatever overwrites what.
* Route planner: what it stores passes the validator unless an order line is
  negative (`PlansValidate`), stays within the stock (`LoadsInStock`) and balances
  on the bill (`LinesBalance`); where every line asks for something it refuses what
  is short of something and nothing else (`RefusedExactlyWhenShort`), and its
  second strategy is of no use (`FallbackOnlyForZero`).
* Synchronisation: no commit is forgotten unless a job failed, readers never go
  back in time, the replica catches up.
* Board: a plan that stays on its way is on every finished page
  (`DuePlansShown`), no driver on a card of a run is in the pool of the same page
  (`NoDriverTwice`), and it is stated how far the cards' reading of a driver's
  hours agrees with the assignment check (`CardsMatchCheck`, `RestEndsLegal`).
* Outgoing calls: no token expires under way (`TokensLive`), a regional answer
  is whole (`RegionWhole`) and comes (`RegionAnswered`).
* Line entries: deleted rows stay deleted, marks stay, moves lose nothing as
  long as what they delete is what they copied.

## 2. The modules

`Requests` holds the requests in flight: a program counter and the ids and rows
each handler has in hand, plus `Abort`, which may end any handler between two
statements and stands for every error, cancellation and crash. A program counter
value is named `<operation>.<statement to come>`.

`PlanBol` EXTENDS `Requests` and adds the tables of the plan; `Fleet` EXTENDS
`Requests` and adds the tables of the equipment; `Dispatch` EXTENDS both, adds
the runs, and composes them: its `Next` lets every handler of the three step, and
Create, Depart, Fulfill, Transfer and LogStop use the statements (`SetBolStatus`,
`AppendStop`, `SetUnitStatus`, ...) of the other two modules. One statement is
one action. `Ops` names the operations an instance serves, so that a run can look
at a few of them at a depth TLC reaches; the proofs hold for every `Ops`.

* Rows are sequence elements, numbered by insertion. A milestone (`departed_at`
  and the like) is a BOOLEAN: NULL or not. Statuses are the code's strings.
* A stop is `auto` (inserted processed), `open` or `done`. A plan's BOL at the
  .NET side is a counter `bills`, and `tx` is the number stored in the plan.
* `ORDER BY assigned_at DESC LIMIT 1` is `Latest`: a run's time is taken before
  its insert, so two runs stored by concurrent requests may sort either way;
  `seen` keeps which runs were surely earlier.
* The wall clock appears as `WindowElapses`, for `empty_return_until`.
* `noticed` and `died` are history variables: who saw the stop list complete, and
  where a request stopped in the three places a property has to except by name.

`HosService` stands beside `Dispatch`: LogStop and Create only let it refuse.
Each operation is two actions, the read with the computation and `UpdateWindow`.
A driver may have no row: only the seeds insert one, and no handler does. A seeded
row (`Seeded`) has any hours, past the break hours and the limits too, and a
mandated stop or none, but no break and no activity, as in both seed files.
Three fields of a row are history: `used`, the daily hours when the count began;
`counted`, the hours of the day that stop logs have added since; and `backdated`,
that a break was dated before the last activity.

`DriverCards` EXTENDS `HosService` with what is decided on a window: `CanAssign`,
and the colour and the rest that a driver card shows. Two files decide by
conditions of their own; the module brings them together on every window the
operations can store. Each looks up a limit row of its own: the card by the
driver's licence state and the default cycle, the check by the state and cycle of
the request. Nothing ties the two, so each lookup finds any row of `Limits` or
none (`Lookups`), with what either file does when its lookup fails.

`Whiteboard` EXTENDS `Dispatch` and builds one page beside its handlers: `ReadRuns`
takes the runs of one moment and sorts them into cards, `LookUpPairing` asks for
one fulfilled run at a time, `ReadColumn` reads the plans of one status, and
`ReadDrivers` fills the pool from what `ReadRuns` had read. One page is enough,
as a page writes nothing. `due` is history: the plans on the dock or the road when the page
was begun, less those that departed or were pulled back by a slow claim since.

`TokenProvider` models time: a call's next step has a deadline, and the clock
does not pass it. A token is the time it expires; Auth0 issues one at any moment of a
refresh, and the code counts its expiry from the arrival of the answer. The
code's own steps take up to `Delay`, refreshes and calls as long as their clients
wait. `RegionalInventory` EXTENDS it with the lookup whose goroutines make the
calls: one per warehouse, in each one per category, and a wait at either level.

`RoutePlanner` has the two strategies as folds over the warehouses and stores, the
validator, and the line entries a commit derives. The step of each fold is an
operator of its own (`LoadStep`, `PickupStep`, `TopUpStep`, `Visit`, `WalkStep`),
whose first argument is what the loop reads from its surroundings. Its machine is one
step per request; `PlanBol` has the inserts statement by statement. An order line
is any integer from `MinQty` to `MaxQty`, as Create looks at no quantity: zero and
negative ones reach the planner, and maps keep what the code keeps of them.

`FoldTheorems` models nothing: it has induction over naturals and sequences, and
what `FoldLeft` computes of a longer sequence, for a step `op` that an instance names.

`ReplicaSync` counts commits instead of keeping rows: a table's content is its
version. `MonotonicCopy` is the abstract specification of what a reader of a
replica may count on: a table is empty, or a version no older than any it showed
before. `ReplicaSync` is checked and proved to implement it
(`ReadsAreMonotonic`, with `source <- primary, copy <- replica, floor <- shown`).

`LineEntries` uses exactly that promise: it INSTANCEs `MonotonicCopy` for the
replica of its one table, keeps every content the primary has had in `saved`, and
lets the replica show any of them that the promise allows. The model of the service thus
does not depend on how jobs and the worker arrange it, and the two modules meet
at a specification that one of them is proved to implement.

| Module | Constants to note | Proofs |
|---|---|---|
| `Requests`, `PlanBol`, `Fleet`, `Dispatch` | `Req`, `Bol`, `Unit`, `Driver`; `MaxStops`, `MaxBills`, `MaxRecords`, `MaxRuns` | `DispatchProofs` |
| `Whiteboard` | none of its own | `WhiteboardProofs` |
| `HosService` | `BreakAfter` (8 hours in the code), `MaxTime`, `MaxHours`, `MaxSeed` | `HosServiceProofs` |
| `DriverCards` | `Limits` (the `hos_limit` rows), `Warning` (2 hours) | `HosServiceProofs` |
| `TokenProvider` | `Call`, `Lifetime`, `Margin` (60 s), `RefreshTimeout` (10 s), `CallTimeout` (30 s), `Delay`, `MaxTime` | `RegionalInventoryProofs` |
| `RegionalInventory` | `Warehouse`, `Category` | `RegionalInventoryProofs` |
| `MonotonicCopy`, `ReplicaSync` | `Tables`, `Writers`, `MaxVersion` | `ReplicaSyncProofs` |
| `LineEntries` | `Location`, `Entries`, `Call`, `MaxSaves` | `LineEntriesProofs` |
| `RoutePlanner` | `MinQty`, `MaxQty`, `MaxStock`, `MaxStores`, `MaxExtra`, `MaxDepots`, `Repeats` | `RoutePlannerProofs`, over `FoldTheorems` |

A definition whose comment starts with "Mutant:" is a plausible bug of the
definition that follows it. It is part of no behaviour: `PROJECT.json` uses it to
show that a property would notice that bug.

## 3. The runs

| Run | Question | Bounds, and why they are enough |
|---|---|---|
| `dispatch_planning` | From an empty database: can a truck go out without a bill, can the last stop go unseen? | Two requests, one plan, a route of three stops and one added, two bills, one unit. Two is what a race needs: two commits of one plan, a commit repeated after one that died, two drivers logging the last two stops. |
| `dispatch_road` | Custody and hand-offs. | Two requests, two units, two runs, three stops: one transfer, raced by another transfer that adds its own stop, a departure or a fulfilment. |
| `dispatch_fleet` | What explains the status and window of a unit, and what handlers count on. | One unit that all requests meet at, two records of each kind, so that a unit is reported again before or after a repair, and one run from assignment to home. Of `HandlersOK` the places inside Transfer, which this run does not serve, rest on the proof. |
| `board` | What a finished page shows while plans and runs move. | Two requests beside the page, one plan with one run from draft to confirmed home, one driver: every status a plan can have, at every moment between two queries. Transfer is not served: of `MilestoneOrder` what it says of hand-overs rests on the proof. |
| `hos_windows` | Overwritten windows, and what cards and check make of them. | One driver, since a call touches one row only; two calls; break at 2 hours, times 0 to 2, so that a leg can reach the break hours exactly, pass them, or run backwards; seeds up to 5 hours, past the break and every limit; stop logs up to 4 weekly hours; one daily limit (3) and two weekly ones (4 and 5), so that card and check can judge by different rows or by none. |
| `regional_calls` | The token of calls under way, whole answers, answers at all. | Two warehouses with one category each and one other call, times scaled down (refresh 1, call 2, delay 1, margin 5, lifetime 7, clock to 10): refreshes that overlap in any order, a token used in its last second, and a second refresh. |
| `replica_sync` | Freshness, refinement, catching up. | Two tables, so that a job can fail between them; two writers; two versions, so that a snapshot can be outdated when it is inserted. |
| `line_entries` | Concurrent marks and moves on stale reads. | Two entries, three locations, two requests, three saves: create, one change, and a second one decided before it. A mark is kept on the row it was made on; a move that read the row before the mark may still insert an unprocessed copy of its goods under a new key. |
| `route_planner` | All requests within the bounds. | Two SKUs (one short, one not), up to two stores and two additional warehouses, quantities from -1 to 2 and stock up to 2: both strategies, partial loads, loads split over three warehouses, and lines that ask for nothing or for less. `Repeats` is FALSE: no request names a warehouse twice; with TRUE it is `route_repeats` below. |

Violations, each of them a finding listed with its quotation in `PROJECT.json`:

| Run | What a comment or text says | What the code does |
|---|---|---|
| `log_fulfills_other_run` | LogStop fulfils the assignment when its last stop is logged | it fulfils the driver's newest run, on whatever BOL |
| `move_keeps_goods` | replace-stop moves entries atomically | it copies the replica's rows and deletes the primary's: on a stale replica, goods are lost |
| `route_repeats` | PlanRoute resolves a valid stop sequence | a request that names a warehouse twice is stored with a route the validator refuses |

Some properties say less than their names might suggest. `OutOfServiceHasRecord`
accepts a record that is resolved already. `WindowMeansFulfilled` and
`AssignedMeansRun` ask for some run of the unit, not for the one in hand.
`NoDriverTwice` is about one query: cards and pool come from the same read of the
runs, and a breakdown card of the equipment column is not modelled.

**Disagreements inside passing runs.** Here the code does other than a text says,
and the property of a passing run states what the code does, or excepts the case:

* `src/Switchyard-Go/internal/services/route_planner_test.go:229-231`
  (`TestSolvePlan_FallbackSucceeds_WhenPreferredFails`: "Origin has only 3 of
  SKU-A, but store needs 5. Preferred fails. wh-2 can cover the 2-unit shortfall,
  so fallback succeeds"). The preferred strategy plans this request: it loads 3 at
  the origin and 2 at wh-2. The test asserts only the stops, which come out alike.
  `FallbackOnlyForZero` says so of every request whose lines all ask for something.
* `src/Switchyard-Go/internal/services/whiteboard_service.go:655-656` ("ensures the
  driver exits rest fully legal, not just daily-legal"). Without a limit row the
  card announces ten hours and the daily rest (661-663), whatever the weekly hours.
  That is the ordinary case: the default cycle is `60h/7d` (`cmd/main.go:36`), the
  migrations seed `60/7` and `70/8` (`014_seed_hos_limits.up.sql`, as
  `models/hos.go:30` names them). Without a row every card is green, and the
  assignment check refuses. `RestEndsLegal` and `CardsMatchCheck` except it by name.
* `src/Switchyard-Go/internal/migrations/seed_dev_data.sql:20` ("Yellow = daily
  9-10h or weekly 60-65h"). `hosStateForWindow` looks at the daily hours alone: a
  driver whose weekly hours are used up is green, and refused.
* `src/Switchyard-Go/internal/services/route_planner.go:53` ("resolves a valid stop
  sequence"). Besides the repeated warehouse of `route_repeats`, a negative order
  line can make the route invalid: with one store at +2 and one at -2 the demand is
  0, so nothing is loaded and the first delivery has 2 too few. Create checks no
  sign (`planbul_handler.go:85-91`). `PlansValidate` excepts it by name.
* `src/Switchyard-Go/internal/services/hos_service.go:93-95` moves the last activity
  to the time of the break, also to an earlier one; the next stop log then counts
  hours a second time. `HoursCountedOnce` excepts it by name (`backdated`).

Deadlock is checked in `hos_windows`, `replica_sync` and `line_entries`. It is
off in the dispatch runs and `board`, where the bounds on rows use up the
operations they serve, in `regional_calls`, whose clock ends, and in
`route_planner`, whose machine ends once the depots are added.

**Fairness.** Two components have a liveness property. For `RegionAnswered`,
`CallsProgress` and `RegionProgress` assume that time passes, that the code's own
steps are taken (they wait for nothing but a mutex held over two assignments), and
that a client gives up when its timeout has passed, as `http.Client` does.
Nothing is assumed of Auth0 and the APIs. The positive `Delay` keeps a caller that retries
at once from stopping the clock, and calls begin early enough to end before
the bound on the clock. In `ReplicaSync`, `FairSpec` assumes weak
fairness of the worker's loop (a BackgroundService that waits only for the
channel or for the databases) and of each request's enqueue (it writes to an
unbounded channel right after the commit and does not wait). Nothing forces a
request to save, a job to fail or the process to die or not to die: `CatchesUp`
says what happens if restarts cease. The backend's handlers have no scheduler, no
retry and no background work: one that stops is not resumed, so `Dispatch` makes no
liveness promise to state.

**Symmetry** is used for requests, units, drivers, SKUs, locations and the
warehouses other than the origin, in runs without liveness only; no definition
tells their members apart.

## 4. The proofs

All theorems hold for every value of the constants that satisfies the named
assumptions (`NoneAssumption`, `PlanAssumption`, `FleetAssumption`,
`DispatchAssumption`, `HosAssumption`, `ConstantsAssumption`,
`LineEntriesAssumption`, `RoutePlannerAssumption`): the bounds are naturals, the
origin is a warehouse, and NULL is not an id.
`RowAssumption` adds that NULL is not a window, `LimitAssumption` what all rows of
the migrations have in common (the same daily limit, and a weekly reset longer
than the daily rest), `FetchAssumption` that fetches are calls, and
`TimesAssumption` that both timeouts and the delays fit in the margin: 10 s and
30 s in 60 s, which leaves 20 s for delays. So
they hold for any number of requests, BOLs, units, drivers, tables and rows.

* **`DispatchProofs`** - `TypeOK`, `HandlersOK`, `BillBeforeTruck`, `CustodyHeld`,
  `MilestoneOrder`, `HandoffRecorded`, the fleet invariants and `LastStopNoticed`.
  Their conjunction is almost inductive. What is missing is what a handler has in
  hand: Transfer closes the segment it read three statements ago, so the invariant
  must say that this row is still a departed one of its BOL. `HandlersOK` says so
  for every place of every handler, and it survives the other handlers' steps
  because rows only grow and milestones are only set (`Grow`). `CustodyHeld`
  needs the stronger `CustodyKept`: a BOL with a departed run has a custodian
  whatever its status is, since Depart stores the departure before the status.
* **`ReplicaSyncProofs`** - `TypeOK`, `StaleImpliesOwed`, `HeldItemsCurrentOrOwed`
  and the refinement of `MonotonicCopy`. "A stale table is owed a refill" is not
  inductive: the refill may copy an old snapshot. It becomes so together with
  the statement that an outdated snapshot in hand has a later job behind it.
* **`HosServiceProofs`** - `TypeOK`, `BreakBeforeEight`, `DailyWithinWeekly`,
  `HoursCountedOnce`, from any seeded row. The invariant has to hold of the rows
  about to be written too, since they overwrite whatever is there (`Sound`), and of
  a row without a backdated break it says that the hours counted lie before the
  last activity: so a new leg shares none with them. Of `DriverCards`,
  `RestEndsLegal` and `CardsMatchCheck` follow from the type invariant and the
  limits alone, for every two rows the lookups may find, or none.
* **`LineEntriesProofs`** - `TypeOK`, `MovedOnceUnlessStale` and the action
  properties `DeletedStayDeleted` and `ProcessedStays`. The key is `Named`: a
  primary key stands for the same goods in every content the primary has had and
  in every request's memory. Hence writing back old rows writes old goods under
  their own keys, and copies, whose keys nobody has seen, collide with nothing.

* **`WhiteboardProofs`** - pages leave the tables alone (`BoardSpec => Spec`), so
  every theorem of `DispatchProofs` holds beside them; then `BoardTypeOK`,
  `DuePlansShown` and `NoDriverTwice`. The invariant is `Met`: a plan that is due
  is on a card already, or its status is of a column not read yet. It holds because the
  columns are read in the order plans take.
* **`RegionalInventoryProofs`** - of the token, `TypeOK` and `TokensLive`. `Timely` bounds how far
  the deadline of each step of a call is from the clock and from the end of the
  token it holds; `TokenFresh` says that the stored expiry is at most a refresh
  less than the margin away from the true one, whichever refresh stored last.
  Of the regional lookup: a request is one more user of `TokenProvider`
  (`RegionSpec => Spec`, which carries `TokensLive` over), `RegionTypeOK` and
  `RegionWhole`. What a wait collected stays true because a call that has ended
  does not change until its request returns (`EndedStays`).

* **`RoutePlannerProofs`** - the planner for requests of any length and any stock.
  The machine is trivial; all the work is in the operators, and goes in layers:
  1. Maps from SKU to quantity (`PlusFacts`, `LoadFromFacts`, `RemainingFacts`,
     `UnloadFacts`, ...): natural quantities stay natural, a load takes all that is
     needed or all there is, and a key is there exactly when something is left.
  2. Every fold, one place at a time (`DemandSteps`, `WalkSteps`, `LoadsSteps`,
     ...), from `FoldTheorems`.
  3. An invariant of each pass over a request without negative lines (`Counted`).
     Of the preferred strategy, `PickedUp`: on the truck and still needed make up
     the demand, each warehouse loads its own entry; `Delivered`: deliveries then
     use it up. Of the fallback, `FallbackGood`: the walk along the route has no
     violation, the truck is what the walk carries, a warehouse not used has loaded
     nothing, and with no store skipped, what is on the truck and what was delivered
     come from the stock of the warehouses used. Of the greedy pass, `NeedIs`: a
     SKU is needed by exactly the demand beyond the stock of the warehouses passed.
  4. Quantities of any sign (`IntMaps`, `PlusInt`, `LoadInt`, ...): the types of
     either strategy's route, and `OnePassIsTheSearch`, which justifies the model
     for every request: the code begins its scan of the warehouses again after each
     pickup, and ends where the one pass of `TopUp` does.
  5. `RouteInv` of the machine: the stored or refused verdict is the strategies',
     every stop is typed, and the route of a request without negative lines is
     sound (`Sound`) unless the preferred strategy made it from a request that names
     a warehouse twice.

  From it follow `TypeOK`, `RefusedExactlyWhenShort` and `FallbackOnlyForZero` of
  every request, and, where no request names a warehouse twice (`~Repeats`),
  `PlansValidate`, and `LoadsInStock` and `LinesBalance` of requests without
  negative lines. `SoundUnlessNamedTwice` says more, whatever requests name: a plan
  that is wrong in one of these three ways comes from a negative line, or from
  the preferred strategy and a warehouse named twice, which is what `route_repeats`
  shows. `LoadsInStock` and `LinesBalance` hold of negative lines too within the
  bounds of `route_planner`; that is checked, not proved. `FallbackOnlyForZero`
  came out of the proof: the greedy pass already covers
  every demand its warehouses can cover, and the fallback draws from the same
  stock, so it can help only where a quantity of zero, which is a key that no
  load removes unless some stock is there, or a negative one, keeps the preferred
  strategy from ending. `LinesBalance` follows from `EntriesCarry`: the entries of
  the stops walked add up to the truck's load, which ends empty.
* **`FoldTheorems`** - the library's induction theorems take an operator as a
  parameter, which the provers cannot instantiate. Here the hypothesis is
  a set: `SetInduction` follows from `WFMin`, the minimal element of a well-founded
  relation, and `SeqInduction` from it. `FoldLeft` is a `CHOOSE` of a recursive
  function on sets of places; `RunsExists` proves that there is one, and
  `FoldEmpty` and `FoldAppend` what it computes. The step is the constant `op`, and
  each fold of the planner has an instance of the module.

Left to TLC: `CatchesUp` and `RegionAnswered`, being liveness, and the three
violations, which are counterexamples.

## 5. What is not modelled, and why

* Validation of JSON, authorisation, formatting, the BOL document's text, e-mail,
  invoices, analytics: they decide whether a request begins or what it prints.
* `bol_status_history`: written by a trigger, read by one listing.
* The alert checks of the hours of service: nothing calls them. The daily and
  weekly limits only refuse an assignment (an `Abort` in `Dispatch`).
* How a limit row is keyed: `DriverCards` lets every lookup find any row or none,
  which includes labels that match nothing.
* The equipment column of the board, its alerts (conditions on the cards, with a
  wording) and the split of the pool by `mandated_stop_at`, which depends on the
  clock alone. A page that fails is a page that is not finished.
* A plan that departs between the page's query for runs and its queries for
  columns is on no card of that page. `DuePlansShown` leaves such a plan out of what is
  due: the code reads in no transaction and promises no snapshot.
* The event router: it decodes an event and calls one or two services. The
  whiteboard hooks it calls return nil; an e-mail that fails is answered with 500
  although `notification_service.go` says its failures are not fatal, but no
  state depends on it.
* A sync job that fails is dropped with the refills it had left. `CatchesUp`
  excepts those tables by name (`missed`).
* Equipment registration; ReceiveDelivery and the other .NET inventory edits: one
  SaveChanges each, over the replica that `ReplicaSync` models.
* Times in pairings: `Dispatch` keeps whether a BOL has an active pairing.
* Several bills of lading in `LineEntries`: every query filters by transaction.
* What a negative order line means to a store or to the Logistics API: `RoutePlanner`
  follows it through the planner and says of its plans only what holds of them.

## 6. Plan

Done: the core (plans, runs, fleet), the replica protocol, hours of service with
the driver cards, line entries, route planner, the board, outgoing calls with the
shared token and the regional lookup, and the proofs of every invariant and
action property that a run checks.

What would add most next:

1. `Inventory`: the .NET repositories and ReceiveDelivery, with one SaveChanges
   over several product rows, over the replica of `MonotonicCopy`.
2. `Deadhead`: the pairing's eligibility and time checks, in place of the boolean
   `Dispatch` has now.
3. The board's equipment column: a card of a unit whose record Resolve closes
   between the two queries.
4. Properties of several components at once: a stop logged at the backend and the
   line entries marked at the Logistics API.
5. An abstract specification of the custody of a load, and `Dispatch` shown to
   implement it.
