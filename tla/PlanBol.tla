------------------------------ MODULE PlanBol ------------------------------
(***************************************************************************)
(* The plan BOL and its way to the dock: planbul_handler.go, the persisting*)
(* half of RoutePlannerService.PlanRoute, and the plan_bol_record and      *)
(* plan_bol_stop statements of postgres/planbul.go.  A BOL is planned      *)
(* (draft), claimed (plan-progress), committed to the .NET Logistics API   *)
(* (loading), loaded (validated); departure and delivery are in Dispatch.  *)
(*                                                                         *)
(* Every handler reads the status in one statement and writes it in a      *)
(* later one.  A stop is "auto" when it was inserted processed (the origin,*)
(* a transfer checkpoint), "open" until a driver logs it, then "done".     *)
(***************************************************************************)
EXTENDS Requests

CONSTANTS
  RouteLength,   \* stops of a planned route, the origin included
  MaxStops,      \* bound: stops of one BOL, added ones included
  MaxBills       \* bound: .NET BOLs created for one plan BOL

ASSUME PlanAssumption ==
  /\ RouteLength \in Nat \ {0}
  /\ MaxStops \in Nat
  /\ MaxBills \in Nat

VARIABLES
  bolStatus,     \* plan_bol_record.status, "absent" before the insert
  tx,            \* submitted_transaction_id, 0 for NULL
  bills,         \* how many BOLs the .NET API has created for this plan
  stops,         \* the plan_bol_stop rows in order of insertion
  noticed        \* history: BOLs whose completed stops a LogStop has seen

planVars == <<bolStatus, tx, bills, stops, noticed>>

BolStatuses == {"absent", "draft", "plan-progress", "loading", "validated",
                "submitted", "fulfilled"}
StopStates == {"auto", "open", "done"}

PlanTypeOK ==
  /\ bolStatus \in [Bol -> BolStatuses]
  /\ tx \in [Bol -> Nat]
  /\ bills \in [Bol -> Nat]
  /\ stops \in [Bol -> Seq(StopStates)]
  /\ noticed \in SUBSET Bol

PlanOps == {"plan", "claim", "commit", "load", "return"}

-----------------------------------------------------------------------------
(* The statements *)

SetBolStatus(b, s) ==
  /\ bolStatus' = [bolStatus EXCEPT ![b] = s]
  /\ UNCHANGED <<tx, bills, stops, noticed>>

\* CreateStop; s is "auto" for a stop inserted as processed, else "open".
AppendStop(b, s) ==
  /\ Len(stops[b]) < MaxStops
  /\ stops' = [stops EXCEPT ![b] = Append(@, s)]
  /\ noticed' = IF s = "open" THEN noticed \ {b} ELSE noticed
  /\ UNCHANGED <<bolStatus, tx, bills>>

\* MarkStopProcessed sets the row whatever it was.
MarkStopProcessed(b, k) ==
  /\ stops' = [stops EXCEPT ![b][k] = "done"]
  /\ UNCHANGED <<bolStatus, tx, bills, noticed>>

AllProcessed(b) == \A k \in 1..Len(stops[b]) : stops[b][k] # "open"

-----------------------------------------------------------------------------
(* POST /api/plan-bol: PlanRoute inserts the record, then its stops one by one *)

PlanRecord(r, b) ==
  /\ bolStatus[b] = "absent"
  /\ Begin(r, "plan", [Idle EXCEPT !.pc = "plan.stop", !.bol = b])
  /\ SetBolStatus(b, "draft")

\* Stop 1, the origin warehouse, is inserted as processed.
PlanStop(r) ==
  /\ At(r, "plan.stop")
  /\ LET n == req[r].stop + 1 IN
       /\ AppendStop(req[r].bol, IF n = 1 THEN "auto" ELSE "open")
       /\ IF n = RouteLength THEN Finish(r)
                             ELSE Hold(r, [req[r] EXCEPT !.stop = n])

(* POST /api/plan-bol/:id/begin-planning *)

ClaimRead(r, b) ==
  /\ bolStatus[b] = "draft"
  /\ Begin(r, "claim", [Idle EXCEPT !.pc = "claim.write", !.bol = b])
  /\ UNCHANGED planVars

ClaimWrite(r) ==
  /\ At(r, "claim.write")
  /\ SetBolStatus(req[r].bol, "plan-progress")
  /\ Finish(r)

(* POST /api/plan-bol/:id/commit *)

CommitRead(r, b) ==
  /\ bolStatus[b] = "plan-progress"
  /\ Begin(r, "commit", [Idle EXCEPT !.pc = "commit.bill", !.bol = b])
  /\ UNCHANGED planVars

\* The .NET API creates a BOL and answers with its transaction id.  When the
\* answer is lost, or the call fails after the .NET commit, this is followed by
\* an Abort.
CommitBill(r) ==
  /\ At(r, "commit.bill")
  /\ LET b == req[r].bol IN
       /\ bills[b] < MaxBills
       /\ bills' = [bills EXCEPT ![b] = @ + 1]
       /\ Hold(r, [req[r] EXCEPT !.pc = "commit.tx", !.stop = bills[b] + 1])
  /\ UNCHANGED <<bolStatus, tx, stops, noticed>>

\* Mutant: the plan is set loading before the transaction id is stored.
CommitLoadingFirst(r) ==
  /\ At(r, "commit.tx")
  /\ SetBolStatus(req[r].bol, "loading")
  /\ Goto(r, "commit.tx")

CommitStoreTx(r) ==
  /\ At(r, "commit.tx")
  /\ tx' = [tx EXCEPT ![req[r].bol] = req[r].stop]
  /\ Goto(r, "commit.loading")
  /\ UNCHANGED <<bolStatus, bills, stops, noticed>>

CommitLoading(r) ==
  /\ At(r, "commit.loading")
  /\ SetBolStatus(req[r].bol, "loading")
  /\ Finish(r)

(* PATCH /api/plan-bol/:id/mark-loaded *)

\* Mutant: the status is not checked.
LoadUnchecked(r, b) ==
  /\ bolStatus[b] # "absent"
  /\ Begin(r, "load", [Idle EXCEPT !.pc = "load.write", !.bol = b])
  /\ UNCHANGED planVars

LoadRead(r, b) ==
  /\ bolStatus[b] = "loading"
  /\ Begin(r, "load", [Idle EXCEPT !.pc = "load.write", !.bol = b])
  /\ UNCHANGED planVars

\* Mutant: the endpoint's own name is written as the status.
LoadWriteLoaded(r) ==
  /\ At(r, "load.write")
  /\ SetBolStatus(req[r].bol, "loaded")
  /\ Finish(r)

LoadWrite(r) ==
  /\ At(r, "load.write")
  /\ SetBolStatus(req[r].bol, "validated")
  /\ Finish(r)

(* POST /api/plan-bol/:id/return-depot *)

ReturnRead(r, b) ==
  /\ bolStatus[b] = "submitted"
  /\ Begin(r, "return", [Idle EXCEPT !.pc = "return.stop", !.bol = b])
  /\ UNCHANGED planVars

\* The stops are read only to number the new one.
ReturnStop(r) ==
  /\ At(r, "return.stop")
  /\ AppendStop(req[r].bol, "open")
  /\ Finish(r)

-----------------------------------------------------------------------------

PlanBegin(r) ==
  \E b \in Bol : PlanRecord(r, b) \/ ClaimRead(r, b) \/ CommitRead(r, b)
                 \/ LoadRead(r, b) \/ ReturnRead(r, b)

PlanContinue(r) ==
  \/ PlanStop(r)
  \/ ClaimWrite(r)
  \/ CommitBill(r)
  \/ CommitStoreTx(r)
  \/ CommitLoading(r)
  \/ LoadWrite(r)
  \/ ReturnStop(r)

PlanNext == \E r \in Req : PlanBegin(r) \/ PlanContinue(r)
=============================================================================
