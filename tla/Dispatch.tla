------------------------------ MODULE Dispatch ------------------------------
(***************************************************************************)
(* Runs: assignment_handler.go, DriverHandler.LogStop, the part of         *)
(* deadhead_handler.go the runs read, and postgres/assignment.go, composed *)
(* with the plan BOLs and the fleet they move through their states.        *)
(*                                                                         *)
(* A run is one driver_bol_assignment row: a driver and a unit on a plan   *)
(* BOL, from its creation over departure to fulfilment, or to the transfer *)
(* that hands the BOL to the next run.  Nothing in the schema limits how   *)
(* many rows a BOL, a driver or a unit has.                                *)
(***************************************************************************)
EXTENDS PlanBol, Fleet

CONSTANTS
  MaxRuns,       \* bound: driver_bol_assignment rows
  Start          \* status of every BOL in the initial state

ASSUME DispatchAssumption ==
  /\ MaxRuns \in Nat
  /\ Start \in {"absent", "validated"}

VARIABLES
  runs,          \* the driver_bol_assignment rows in order of insertion
  paired         \* paired[b]: b's latest pairing exists and is not cancelled

runVars == <<runs, paired>>

vars == <<reqVars, planVars, fleetVars, runVars>>

\* The milestones stand for departed_at ... IS NOT NULL; start and end are the
\* segment's stops, 0 for NULL; seen orders assigned_at: row j was stamped after
\* rows 1..seen were inserted.
Run == [bol: Bol, driver: Driver, unit: Unit,
        departed: BOOLEAN, fulfilled: BOOLEAN, transferred: BOOLEAN,
        deadhead: BOOLEAN, start: Nat, end: Nat, seen: Nat]

RunOps == {"create", "depart", "fulfill", "deadhead", "transfer", "log", "pair"}

AllOps == PlanOps \cup FleetOps \cup RunOps

RunIds == 1..Len(runs)

Init ==
  /\ req = [r \in Req |-> Idle]
  /\ died = {}
  /\ bolStatus = [b \in Bol |-> Start]
  /\ tx = [b \in Bol |-> IF Start = "absent" THEN 0 ELSE 1]
  /\ bills = tx
  /\ stops = [b \in Bol |-> IF Start = "absent" THEN <<>>
                ELSE [k \in 1..RouteLength |-> IF k = 1 THEN "auto" ELSE "open"]]
  /\ noticed = {}
  /\ unitStatus = [u \in Unit |-> "available"]
  /\ window = [u \in Unit |-> "none"]
  /\ maint = [u \in Unit |-> <<>>]
  /\ brk = [u \in Unit |-> <<>>]
  /\ runs = <<>>
  /\ paired = [b \in Bol |-> FALSE]

-----------------------------------------------------------------------------
(* The statements *)

InsertRun(run) ==
  /\ Len(runs) < MaxRuns
  /\ runs' = Append(runs, run)
  /\ UNCHANGED paired

MarkDeparted(i) == runs' = [runs EXCEPT ![i].departed = TRUE] /\ UNCHANGED paired

MarkFulfilled(i) == runs' = [runs EXCEPT ![i].fulfilled = TRUE] /\ UNCHANGED paired

MarkDeadhead(i) == runs' = [runs EXCEPT ![i].deadhead = TRUE] /\ UNCHANGED paired

InitiateTransfer(i, stop) ==
  /\ runs' = [runs EXCEPT ![i].transferred = TRUE, ![i].end = stop]
  /\ UNCHANGED paired

\* ORDER BY assigned_at DESC LIMIT 1: a row of S that no row of S was surely
\* stamped after.  Rows stamped concurrently come in either order.
Latest(S) == {i \in S : \A j \in S : i > runs[j].seen}

GetByPlanBOL(b) == Latest({i \in RunIds : runs[i].bol = b /\ ~runs[i].transferred})

GetActiveByDriver(d) == Latest({i \in RunIds : runs[i].driver = d /\ ~runs[i].deadhead})

-----------------------------------------------------------------------------
(* POST /api/assignment *)

CreateReadBol(r, b, u, d) ==
  /\ bolStatus[b] = "validated"
  /\ Begin(r, "create", [Idle EXCEPT !.pc = "create.unit", !.bol = b, !.unit = u,
                                     !.driver = d])
  /\ UNCHANGED <<planVars, fleetVars, runVars>>

CreateCheckUnit(r) ==
  /\ CheckUnit(r, "create.unit", "create.reconcile", "create.hos")
  /\ UNCHANGED <<planVars, runVars>>

CreateReconcile(r) ==
  /\ Reconcile(r, "create.reconcile", "create.hos")
  /\ UNCHANGED <<planVars, runVars>>

\* CanAssign reads only the HOS tables (module HosService); a refusal is an
\* Abort.  Then the handler takes assigned_at.
CreateHos(r) ==
  /\ At(r, "create.hos")
  /\ Hold(r, [req[r] EXCEPT !.pc = "create.insert", !.seen = Len(runs)])
  /\ UNCHANGED <<planVars, fleetVars, runVars>>

\* Mutant: the unit is marked before the row is inserted.
CreateAssignFirst(r) ==
  /\ At(r, "create.insert")
  /\ SetUnitStatus(req[r].unit, "assigned")
  /\ Goto(r, "create.assign")
  /\ UNCHANGED <<planVars, runVars>>

CreateInsert(r) ==
  /\ At(r, "create.insert")
  /\ InsertRun([bol |-> req[r].bol, driver |-> req[r].driver, unit |-> req[r].unit,
                departed |-> FALSE, fulfilled |-> FALSE, transferred |-> FALSE,
                deadhead |-> FALSE, start |-> 0, end |-> 0, seen |-> req[r].seen])
  /\ Hold(r, [Idle EXCEPT !.pc = "create.assign", !.unit = req[r].unit])
  /\ UNCHANGED <<planVars, fleetVars>>

CreateAssign(r) ==
  /\ At(r, "create.assign")
  /\ SetUnitStatus(req[r].unit, "assigned")
  /\ Finish(r)
  /\ UNCHANGED <<planVars, runVars>>

(* PATCH /api/assignment/:id/depart *)

DepartRead(r, i) ==
  /\ ~runs[i].departed
  /\ Begin(r, "depart", [Idle EXCEPT !.pc = "depart.mark", !.row = i,
                                     !.bol = runs[i].bol])
  /\ UNCHANGED <<planVars, fleetVars, runVars>>

\* Mutant: the BOL is submitted before the departure is stored.
DepartSubmitFirst(r) ==
  /\ At(r, "depart.mark")
  /\ SetBolStatus(req[r].bol, "submitted")
  /\ Goto(r, "depart.submit")
  /\ UNCHANGED <<fleetVars, runVars>>

DepartMark(r) ==
  /\ At(r, "depart.mark")
  /\ MarkDeparted(req[r].row)
  /\ Goto(r, "depart.submit")
  /\ UNCHANGED <<planVars, fleetVars>>

DepartSubmit(r) ==
  /\ At(r, "depart.submit")
  /\ SetBolStatus(req[r].bol, "submitted")
  /\ Finish(r)
  /\ UNCHANGED <<fleetVars, runVars>>

(* PATCH /api/assignment/:id/fulfill *)

FulfillRead(r, i) ==
  /\ ~runs[i].fulfilled
  /\ Begin(r, "fulfill", [Idle EXCEPT !.pc = "fulfill.mark", !.row = i,
                          !.bol = runs[i].bol, !.unit = runs[i].unit])
  /\ UNCHANGED <<planVars, fleetVars, runVars>>

\* Mutant: the empty-return window is opened before the run is fulfilled.
FulfillWindowFirst(r) ==
  /\ At(r, "fulfill.mark")
  /\ SetEmptyReturnUntil(req[r].unit)
  /\ Goto(r, "fulfill.status")
  /\ UNCHANGED <<planVars, runVars>>

FulfillMark(r) ==
  /\ At(r, "fulfill.mark")
  /\ MarkFulfilled(req[r].row)
  /\ Goto(r, "fulfill.status")
  /\ UNCHANGED <<planVars, fleetVars>>

FulfillStatus(r) ==
  /\ At(r, "fulfill.status")
  /\ SetBolStatus(req[r].bol, "fulfilled")
  /\ Goto(r, "fulfill.pairing")
  /\ UNCHANGED <<fleetVars, runVars>>

\* GetByActiveBOL; its error is ignored and counts as no pairing.
FulfillPairing(r) ==
  /\ At(r, "fulfill.pairing")
  /\ \/ paired[req[r].bol] /\ Goto(r, "fulfill.release")
     \/ Goto(r, "fulfill.window")
  /\ UNCHANGED <<planVars, fleetVars, runVars>>

FulfillRelease(r) ==
  /\ At(r, "fulfill.release")
  /\ SetUnitStatus(req[r].unit, "available")
  /\ Finish(r)
  /\ UNCHANGED <<planVars, runVars>>

FulfillWindow(r) ==
  /\ At(r, "fulfill.window")
  /\ SetEmptyReturnUntil(req[r].unit)
  /\ Finish(r)
  /\ UNCHANGED <<planVars, runVars>>

(* PATCH /api/assignment/:id/deadhead *)

\* Mutant: only the repeated confirmation is refused.
DeadheadReadUnchecked(r, i) ==
  /\ ~runs[i].deadhead
  /\ Begin(r, "deadhead", [Idle EXCEPT !.pc = "deadhead.mark", !.row = i])
  /\ UNCHANGED <<planVars, fleetVars, runVars>>

DeadheadRead(r, i) ==
  /\ runs[i].fulfilled \/ runs[i].transferred
  /\ ~runs[i].deadhead
  /\ Begin(r, "deadhead", [Idle EXCEPT !.pc = "deadhead.mark", !.row = i])
  /\ UNCHANGED <<planVars, fleetVars, runVars>>

DeadheadMark(r) ==
  /\ At(r, "deadhead.mark")
  /\ MarkDeadhead(req[r].row)
  /\ Finish(r)
  /\ UNCHANGED <<planVars, fleetVars>>

(* POST /api/deadhead/pair and DELETE /api/deadhead/:id, as the runs see them *)

PairBol(b) ==
  /\ "pair" \in Ops
  /\ paired' = [paired EXCEPT ![b] = TRUE]
  /\ UNCHANGED <<reqVars, planVars, fleetVars, runs>>

CancelPairing(b) ==
  /\ "pair" \in Ops
  /\ paired' = [paired EXCEPT ![b] = FALSE]
  /\ UNCHANGED <<reqVars, planVars, fleetVars, runs>>

-----------------------------------------------------------------------------
(* POST /api/plan-bol/:id/transfer *)

TransferReadBol(r, b, u, d) ==
  /\ bolStatus[b] = "submitted"
  /\ Begin(r, "transfer", [Idle EXCEPT !.pc = "transfer.current", !.bol = b,
                                       !.unit = u, !.driver = d])
  /\ UNCHANGED <<planVars, fleetVars, runVars>>

\* The current segment; it must have departed and not be fulfilled.
TransferCurrent(r) ==
  /\ At(r, "transfer.current")
  /\ \E i \in GetByPlanBOL(req[r].bol) :
       /\ runs[i].departed
       /\ ~runs[i].fulfilled
       /\ Hold(r, [req[r] EXCEPT !.pc = "transfer.unit", !.row = i])
  /\ UNCHANGED <<planVars, fleetVars, runVars>>

TransferCheckUnit(r) ==
  /\ CheckUnit(r, "transfer.unit", "transfer.reconcile", "transfer.hos")
  /\ UNCHANGED <<planVars, runVars>>

TransferReconcile(r) ==
  /\ Reconcile(r, "transfer.reconcile", "transfer.hos")
  /\ UNCHANGED <<planVars, runVars>>

TransferHos(r) ==
  /\ At(r, "transfer.hos")
  /\ Hold(r, [req[r] EXCEPT !.pc = "transfer.stop", !.seen = Len(runs)])
  /\ UNCHANGED <<planVars, fleetVars, runVars>>

\* The checkpoint stop is inserted processed and only then referred to.
TransferStop(r) ==
  /\ At(r, "transfer.stop")
  /\ AppendStop(req[r].bol, "auto")
  /\ Hold(r, [req[r] EXCEPT !.pc = "transfer.close",
                            !.stop = Len(stops[req[r].bol]) + 1])
  /\ UNCHANGED <<fleetVars, runVars>>

\* Mutant: the outgoing segment is closed only in memory.
TransferCloseSkipped(r) ==
  /\ At(r, "transfer.close")
  /\ Goto(r, "transfer.release")
  /\ UNCHANGED <<planVars, fleetVars, runVars>>

TransferClose(r) ==
  /\ At(r, "transfer.close")
  /\ InitiateTransfer(req[r].row, req[r].stop)
  /\ Goto(r, "transfer.release")
  /\ UNCHANGED <<planVars, fleetVars>>

TransferRelease(r) ==
  /\ At(r, "transfer.release")
  /\ SetUnitStatus(runs[req[r].row].unit, "available")
  /\ Hold(r, [req[r] EXCEPT !.pc = "transfer.insert", !.row = 0])
  /\ UNCHANGED <<planVars, runVars>>

\* Mutant: the incoming segment waits for its own departure.
TransferInsertWaiting(r) ==
  /\ At(r, "transfer.insert")
  /\ InsertRun([bol |-> req[r].bol, driver |-> req[r].driver, unit |-> req[r].unit,
                departed |-> FALSE, fulfilled |-> FALSE, transferred |-> FALSE,
                deadhead |-> FALSE, start |-> req[r].stop, end |-> 0,
                seen |-> req[r].seen])
  /\ Hold(r, [Idle EXCEPT !.pc = "transfer.assign", !.unit = req[r].unit])
  /\ UNCHANGED <<planVars, fleetVars>>

TransferInsert(r) ==
  /\ At(r, "transfer.insert")
  /\ InsertRun([bol |-> req[r].bol, driver |-> req[r].driver, unit |-> req[r].unit,
                departed |-> TRUE, fulfilled |-> FALSE, transferred |-> FALSE,
                deadhead |-> FALSE, start |-> req[r].stop, end |-> 0,
                seen |-> req[r].seen])
  /\ Hold(r, [Idle EXCEPT !.pc = "transfer.assign", !.unit = req[r].unit])
  /\ UNCHANGED <<planVars, fleetVars>>

TransferAssign(r) ==
  /\ At(r, "transfer.assign")
  /\ SetUnitStatus(req[r].unit, "assigned")
  /\ Finish(r)
  /\ UNCHANGED <<planVars, runVars>>

-----------------------------------------------------------------------------
(* POST /api/driver/:id/stop/:stopId/log *)

\* Mutant: the stop list is read before the stop is marked.
LogListFirst(r, d, b, k) ==
  /\ \/ /\ Begin(r, "log", [Idle EXCEPT !.pc = "log.mark", !.bol = b, !.driver = d,
                  !.stop = k, !.row = IF \A j \in 1..Len(stops[b]) :
                                           j = k \/ stops[b][j] # "open"
                                        THEN 1 ELSE 0])
        /\ UNCHANGED planVars
     \/ /\ At(r, "log.mark") /\ req[r].bol = b /\ req[r].stop = k
        /\ MarkStopProcessed(b, k)
        /\ IF req[r].row = 1 THEN Goto(r, "log.check") ELSE Finish(r)
  /\ UNCHANGED <<fleetVars, runVars>>

\* Any driver may log any stop; the HOS refusal (module HosService) is a request
\* that does not begin.  What the handler reads of the stop never changes.
LogMark(r, d, b, k) ==
  /\ Begin(r, "log", [Idle EXCEPT !.pc = "log.check", !.bol = b, !.driver = d])
  /\ MarkStopProcessed(b, k)
  /\ UNCHANGED <<fleetVars, runVars>>

\* The .NET call in between changes nothing here.  GetStops sees every stop.
LogCheck(r) ==
  /\ At(r, "log.check")
  /\ LET b == req[r].bol IN
       IF AllProcessed(b) THEN Goto(r, "log.find") /\ noticed' = noticed \cup {b}
                          ELSE Finish(r) /\ UNCHANGED noticed
  /\ UNCHANGED <<bolStatus, tx, bills, stops, fleetVars, runVars>>

\* The driver's newest run not confirmed home, whatever its BOL; none ends the
\* handler.
LogFind(r) ==
  /\ At(r, "log.find")
  /\ LET active == GetActiveByDriver(req[r].driver) IN
       \/ active = {} /\ Finish(r)
       \/ \E i \in active : Hold(r, [req[r] EXCEPT !.pc = "log.fulfill", !.row = i])
  /\ UNCHANGED <<planVars, fleetVars, runVars>>

\* The errors of the last two statements are ignored.
LogFulfill(r) ==
  /\ At(r, "log.fulfill")
  /\ MarkFulfilled(req[r].row) \/ UNCHANGED runVars
  /\ Goto(r, "log.status")
  /\ UNCHANGED <<planVars, fleetVars>>

LogStatus(r) ==
  /\ At(r, "log.status")
  /\ SetBolStatus(req[r].bol, "fulfilled")
  /\ Finish(r)
  /\ UNCHANGED <<fleetVars, runVars>>

-----------------------------------------------------------------------------

RunBegin(r) ==
  \/ \E b \in Bol, u \in Unit, d \in Driver :
       CreateReadBol(r, b, u, d) \/ TransferReadBol(r, b, u, d)
  \/ \E i \in RunIds : DepartRead(r, i) \/ FulfillRead(r, i) \/ DeadheadRead(r, i)
  \/ \E b \in Bol, d \in Driver : \E k \in 1..Len(stops[b]) : LogMark(r, d, b, k)

CreateContinue(r) ==
  CreateCheckUnit(r) \/ CreateReconcile(r) \/ CreateHos(r) \/ CreateInsert(r)
  \/ CreateAssign(r)

RoadContinue(r) ==
  \/ DepartMark(r) \/ DepartSubmit(r)
  \/ FulfillMark(r) \/ FulfillStatus(r) \/ FulfillPairing(r)
  \/ FulfillRelease(r) \/ FulfillWindow(r)
  \/ DeadheadMark(r)

TransferContinue(r) ==
  TransferCurrent(r) \/ TransferCheckUnit(r) \/ TransferReconcile(r)
  \/ TransferHos(r) \/ TransferStop(r) \/ TransferClose(r)
  \/ TransferRelease(r) \/ TransferInsert(r) \/ TransferAssign(r)

LogContinue(r) ==
  LogCheck(r) \/ LogFind(r) \/ LogFulfill(r) \/ LogStatus(r)

RunContinue(r) ==
  CreateContinue(r) \/ RoadContinue(r) \/ TransferContinue(r) \/ LogContinue(r)

Next ==
  \/ \E r \in Req : RunBegin(r) \/ RunContinue(r)
  \/ PlanNext /\ UNCHANGED <<fleetVars, runVars>>
  \/ FleetNext /\ UNCHANGED <<planVars, runVars>>
  \/ \E b \in Bol : PairBol(b) \/ CancelPairing(b)
  \/ \E r \in Req : Abort(r) /\ UNCHANGED <<planVars, fleetVars, runVars>>

Spec == Init /\ [][Next]_vars
-----------------------------------------------------------------------------
(* Properties *)

PlanPcs == {"plan.stop", "claim.write", "commit.bill", "commit.tx",
            "commit.loading", "load.write", "return.stop"}
FleetPcs == {"maintain.record", "maintain.status", "break.status", "resolve.maint",
             "resolve.closeMaint", "resolve.brk", "resolve.closeBrk", "resolve.free"}
CreatePcs == {"create.unit", "create.reconcile", "create.hos", "create.insert",
              "create.assign"}
RoadPcs == {"depart.mark", "depart.submit", "fulfill.mark", "fulfill.status",
            "fulfill.pairing", "fulfill.release", "fulfill.window", "deadhead.mark"}
TransferPcs == {"transfer.current", "transfer.unit", "transfer.reconcile",
                "transfer.hos", "transfer.stop", "transfer.close",
                "transfer.release", "transfer.insert", "transfer.assign"}
LogPcs == {"log.check", "log.find", "log.fulfill", "log.status"}

Local == [pc: {"idle"} \cup PlanPcs \cup FleetPcs \cup CreatePcs \cup RoadPcs
              \cup TransferPcs \cup LogPcs,
          bol: Bol \cup {None}, unit: Unit \cup {None}, driver: Driver \cup {None},
          row: Nat, stop: Nat, seen: Nat]

TypeOK ==
  /\ PlanTypeOK
  /\ FleetTypeOK
  /\ runs \in Seq(Run)
  /\ paired \in [Bol -> BOOLEAN]
  /\ req \in [Req -> Local]
  /\ died \in SUBSET (WatchedPcs \X Bol)

InFlight(b, pcs) == \E r \in Req : req[r].bol = b /\ req[r].pc \in pcs

HasRun(u) == \E i \in RunIds : runs[i].unit = u

Committed(b) == tx[b] \in 1..bills[b]

\* A plan that is being loaded or is on the road, or has a run, carries the id
\* of a BOL the .NET API has created: Commit stores the id before the status
\* that lets the later handlers act, whatever stops or repeats it.
BillBeforeTruck ==
  \A b \in Bol :
    \/ bolStatus[b] \in {"loading", "validated", "submitted"}
    \/ \E i \in RunIds : runs[i].bol = b
    => Committed(b)

HasCustodian(b) ==
  \/ \E i \in RunIds : runs[i].bol = b /\ runs[i].departed /\ ~runs[i].transferred
  \/ InFlight(b, {"transfer.release", "transfer.insert"})
  \/ {<<"transfer.release", b>>, <<"transfer.insert", b>>} \cap died # {}

\* A load on the road is always in somebody's hands: a departed run not handed
\* over, or a Transfer between closing one and opening the next.  The only way
\* to lose it is a Transfer that stops between the two.
CustodyHeld == \A b \in Bol : bolStatus[b] = "submitted" => HasCustodian(b)

\* The milestones of a run come in an order no interleaving of the handlers
\* breaks: handed over only after departure, home only after the load has left
\* its hands.
MilestoneOrder ==
  \A i \in RunIds : /\ runs[i].transferred => runs[i].departed
                    /\ runs[i].deadhead => runs[i].fulfilled \/ runs[i].transferred

\* A segment that starts at a transfer stop has departed and takes over from
\* another segment of its BOL that was closed, and the stops that bound the
\* segments exist.
HandoffRecorded ==
  \A i \in RunIds :
    /\ runs[i].start # 0 =>
         /\ runs[i].departed
         /\ runs[i].start \in 1..Len(stops[runs[i].bol])
         /\ \E j \in RunIds : j # i /\ runs[j].bol = runs[i].bol /\ runs[j].transferred
    /\ runs[i].transferred => runs[i].end \in 1..Len(stops[runs[i].bol])

\* A unit waits out an empty return only after a run of its own was fulfilled.
WindowMeansFulfilled ==
  \A u \in Unit : window[u] # "none" =>
     \E i \in RunIds : runs[i].unit = u /\ runs[i].fulfilled

\* A unit is taken only for a run that was stored: a Create or Transfer that
\* stops half way never blocks a unit nobody drives.
AssignedMeansRun ==
  \A u \in Unit : unitStatus[u] = "assigned" => HasRun(u)

\* Of several drivers logging the last stops at once, at least one sees that
\* all are processed: when none is open and one was logged, a LogStop has
\* noticed, is about to look, or stopped before it did.
LastStopNoticed ==
  \A b \in Bol :
    /\ AllProcessed(b)
    /\ \E k \in 1..Len(stops[b]) : stops[b][k] = "done"
    => b \in noticed \/ InFlight(b, {"log.check"}) \/ <<"log.check", b>> \in died

\* What a handler may count on at its place, although every other handler has
\* been running since it read: rows are never deleted, ids in them never change,
\* and a milestone, a transaction id or a record once stored stays.
PlanHandlerOK(l) ==
  /\ l.pc \in PlanPcs => l.bol \in Bol
  /\ l.pc = "commit.tx" => l.stop \in 1..bills[l.bol]
  /\ l.pc \in {"commit.loading", "load.write"} => Committed(l.bol)

FleetHandlerOK(l) ==
  /\ l.pc \in FleetPcs => l.unit \in Unit
  /\ l.pc = "maintain.status" => maint[l.unit] # <<>>
  /\ l.pc = "break.status" => brk[l.unit] # <<>>
  /\ l.pc = "resolve.closeMaint" => l.row \in 1..Len(maint[l.unit])
  /\ l.pc = "resolve.closeBrk" => l.row \in 1..Len(brk[l.unit])

CreateHandlerOK(l) ==
  /\ l.pc \in CreatePcs \cup TransferPcs => l.unit \in Unit
  /\ l.pc \in (CreatePcs \cup TransferPcs) \ {"create.assign", "transfer.assign"} =>
       l.bol \in Bol /\ l.driver \in Driver /\ Committed(l.bol)
  /\ l.pc \in {"create.assign", "transfer.assign"} => HasRun(l.unit)

RoadHandlerOK(l) ==
  /\ l.pc \in RoadPcs => l.row \in RunIds
  /\ l.pc \in RoadPcs \ {"deadhead.mark"} => l.bol = runs[l.row].bol
  /\ l.pc = "depart.submit" => runs[l.row].departed
  /\ l.pc \in RoadPcs \ {"depart.mark", "depart.submit", "deadhead.mark"} =>
       l.unit = runs[l.row].unit
  /\ l.pc \in {"fulfill.status", "fulfill.pairing", "fulfill.release",
               "fulfill.window"} => runs[l.row].fulfilled
  /\ l.pc = "deadhead.mark" => runs[l.row].fulfilled \/ runs[l.row].transferred

TransferHandlerOK(l) ==
  /\ l.pc \in {"transfer.unit", "transfer.reconcile", "transfer.hos",
               "transfer.stop", "transfer.close", "transfer.release"} =>
       l.row \in RunIds /\ runs[l.row].bol = l.bol /\ runs[l.row].departed
  /\ l.pc \in {"transfer.close", "transfer.release", "transfer.insert"} =>
       l.stop \in 1..Len(stops[l.bol])
  /\ l.pc \in {"transfer.release", "transfer.insert"} =>
       \E j \in RunIds : runs[j].bol = l.bol /\ runs[j].transferred

LogHandlerOK(l) ==
  /\ l.pc \in LogPcs => l.bol \in Bol /\ l.driver \in Driver
  /\ l.pc \in {"log.fulfill", "log.status"} => l.row \in RunIds

HandlerOK(r) ==
  /\ PlanHandlerOK(req[r]) /\ FleetHandlerOK(req[r]) /\ CreateHandlerOK(req[r])
  /\ RoadHandlerOK(req[r]) /\ TransferHandlerOK(req[r]) /\ LogHandlerOK(req[r])

HandlersOK == \A r \in Req : HandlerOK(r)

\* What CustodyHeld rests on: only a departed run can have submitted the BOL,
\* and a BOL with a departed run never loses its custodian again.
CustodyKept ==
  \A b \in Bol :
    /\ bolStatus[b] = "submitted" =>
         \E i \in RunIds : runs[i].bol = b /\ runs[i].departed
    /\ (\E i \in RunIds : runs[i].bol = b /\ runs[i].departed) => HasCustodian(b)

-----------------------------------------------------------------------------
(* What comments of the code say and the code does not keep *)

\* driver_handler.go: LogStop "automatically marks the assignment fulfilled when
\* the last stop is logged": the driver's run on the BOL of that stop.
LogFulfillsItsRun ==
  \A r \in Req, i \in RunIds :
    /\ At(r, "log.fulfill")
    /\ runs[i].bol = req[r].bol /\ runs[i].driver = req[r].driver
    /\ runs[i].departed /\ ~runs[i].transferred /\ ~runs[i].fulfilled
    => runs[req[r].row].bol = req[r].bol
=============================================================================
