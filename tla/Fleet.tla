------------------------------- MODULE Fleet -------------------------------
(***************************************************************************)
(* The equipment of the Go backend: equipment_handler.go, the availability *)
(* rule of assignment_handler.go and the statements of                     *)
(* postgres/equipment.go.  A unit has a status, an empty-return window, and*)
(* maintenance and breakdown records, each open until it is resolved.      *)
(***************************************************************************)
EXTENDS Requests

CONSTANT
  MaxRecords     \* bound: maintenance (and breakdown) records of one unit

ASSUME FleetAssumption == MaxRecords \in Nat

VARIABLES
  unitStatus,    \* equipment.status
  window,        \* empty_return_until: NULL, ahead of the clock, or past
  maint,         \* maint[u]: u's maintenance records, in order of insertion
  brk            \* brk[u]: u's breakdown records, in order of insertion

fleetVars == <<unitStatus, window, maint, brk>>

UnitStatuses == {"available", "assigned", "maintenance", "breakdown"}
RecordStates == {"open", "resolved"}

FleetTypeOK ==
  /\ unitStatus \in [Unit -> UnitStatuses]
  /\ window \in [Unit -> {"none", "running", "elapsed"}]
  /\ maint \in [Unit -> Seq(RecordStates)]
  /\ brk \in [Unit -> Seq(RecordStates)]

FleetOps == {"maintain", "break", "resolve"}

-----------------------------------------------------------------------------
(* The statements *)

\* UpdateStatus also clears empty_return_until.
SetUnitStatus(u, s) ==
  /\ unitStatus' = [unitStatus EXCEPT ![u] = s]
  /\ window' = [window EXCEPT ![u] = "none"]
  /\ UNCHANGED <<maint, brk>>

\* SetEmptyReturnUntil leaves the status alone.
SetEmptyReturnUntil(u) ==
  /\ window' = [window EXCEPT ![u] = "running"]
  /\ UNCHANGED <<unitStatus, maint, brk>>

\* The wall clock passes empty_return_until.
WindowElapses(u) ==
  /\ window[u] = "running"
  /\ window' = [window EXCEPT ![u] = "elapsed"]
  /\ UNCHANGED <<unitStatus, maint, brk>>

-----------------------------------------------------------------------------
(* The availability check that Create and Transfer share *)

\* GetByID, then reconcileEquipmentAvailability decides on the row it read.
CheckUnit(r, wait, reconcile, go) ==
  /\ At(r, wait)
  /\ LET u == req[r].unit IN
       \/ unitStatus[u] = "available" /\ Goto(r, go)
       \/ unitStatus[u] = "assigned" /\ window[u] = "elapsed" /\ Goto(r, reconcile)
  /\ UNCHANGED fleetVars

\* The unit is freed on the strength of that read, whatever it is by now.
Reconcile(r, reconcile, go) ==
  /\ At(r, reconcile)
  /\ SetUnitStatus(req[r].unit, "available")
  /\ Goto(r, go)

-----------------------------------------------------------------------------
(* PATCH /api/equipment/:id/maintenance *)

MaintainRead(r, u) ==
  /\ unitStatus[u] \notin {"maintenance", "breakdown"}
  /\ Begin(r, "maintain", [Idle EXCEPT !.pc = "maintain.record", !.unit = u])
  /\ UNCHANGED fleetVars

\* Mutant: the status is set before the record is inserted.
MaintainStatusFirst(r) ==
  /\ At(r, "maintain.record")
  /\ SetUnitStatus(req[r].unit, "maintenance")
  /\ Goto(r, "maintain.status")

MaintainRecord(r) ==
  /\ At(r, "maintain.record")
  /\ Len(maint[req[r].unit]) < MaxRecords
  /\ maint' = [maint EXCEPT ![req[r].unit] = Append(@, "open")]
  /\ Goto(r, "maintain.status")
  /\ UNCHANGED <<unitStatus, window, brk>>

MaintainStatus(r) ==
  /\ At(r, "maintain.status")
  /\ SetUnitStatus(req[r].unit, "maintenance")
  /\ Finish(r)

(* PATCH /api/equipment/:id/breakdown: the unit's status is not read *)

BreakRecord(r, u) ==
  /\ Len(brk[u]) < MaxRecords
  /\ Begin(r, "break", [Idle EXCEPT !.pc = "break.status", !.unit = u])
  /\ brk' = [brk EXCEPT ![u] = Append(@, "open")]
  /\ UNCHANGED <<unitStatus, window, maint>>

BreakStatus(r) ==
  /\ At(r, "break.status")
  /\ SetUnitStatus(req[r].unit, "breakdown")
  /\ Finish(r)

(* PATCH /api/equipment/:id/resolve *)

ResolveRead(r, u) ==
  /\ \/ /\ unitStatus[u] = "maintenance"
        /\ Begin(r, "resolve", [Idle EXCEPT !.pc = "resolve.maint", !.unit = u])
     \/ /\ unitStatus[u] = "breakdown"
        /\ Begin(r, "resolve", [Idle EXCEPT !.pc = "resolve.brk", !.unit = u])
  /\ UNCHANGED fleetVars

\* GetActiveMaintenanceByEquipment takes the open record with the latest
\* scheduled_at, which the client chose; none answers 404.
ResolveFindMaint(r) ==
  /\ At(r, "resolve.maint")
  /\ \E i \in 1..Len(maint[req[r].unit]) :
       /\ maint[req[r].unit][i] = "open"
       /\ Hold(r, [req[r] EXCEPT !.pc = "resolve.closeMaint", !.row = i])
  /\ UNCHANGED fleetVars

ResolveCloseMaint(r) ==
  /\ At(r, "resolve.closeMaint")
  /\ maint' = [maint EXCEPT ![req[r].unit][req[r].row] = "resolved"]
  /\ Goto(r, "resolve.free")
  /\ UNCHANGED <<unitStatus, window, brk>>

\* GetActiveBreakdownByEquipment: the open record with the latest reported_at;
\* the time is taken before the insert, so it need not be the last inserted.
ResolveFindBrk(r) ==
  /\ At(r, "resolve.brk")
  /\ \E i \in 1..Len(brk[req[r].unit]) :
       /\ brk[req[r].unit][i] = "open"
       /\ Hold(r, [req[r] EXCEPT !.pc = "resolve.closeBrk", !.row = i])
  /\ UNCHANGED fleetVars

ResolveCloseBrk(r) ==
  /\ At(r, "resolve.closeBrk")
  /\ brk' = [brk EXCEPT ![req[r].unit][req[r].row] = "resolved"]
  /\ Goto(r, "resolve.free")
  /\ UNCHANGED <<unitStatus, window, maint>>

ResolveFree(r) ==
  /\ At(r, "resolve.free")
  /\ SetUnitStatus(req[r].unit, "available")
  /\ Finish(r)

-----------------------------------------------------------------------------

FleetBegin(r) ==
  \E u \in Unit : MaintainRead(r, u) \/ BreakRecord(r, u) \/ ResolveRead(r, u)

FleetContinue(r) ==
  \/ MaintainRecord(r)
  \/ MaintainStatus(r)
  \/ BreakStatus(r)
  \/ ResolveFindMaint(r)
  \/ ResolveCloseMaint(r)
  \/ ResolveFindBrk(r)
  \/ ResolveCloseBrk(r)
  \/ ResolveFree(r)

FleetNext ==
  \/ \E r \in Req : FleetBegin(r) \/ FleetContinue(r)
  \/ \E u \in Unit : WindowElapses(u) /\ UNCHANGED reqVars

\* A unit out of service has the paperwork of it, in whatever order requests
\* interleave and wherever they stop: the handlers insert the record first.
OutOfServiceHasRecord ==
  \A u \in Unit : /\ unitStatus[u] = "maintenance" => maint[u] # <<>>
                  /\ unitStatus[u] = "breakdown" => brk[u] # <<>>
=============================================================================
