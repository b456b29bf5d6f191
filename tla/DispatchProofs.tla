--------------------------- MODULE DispatchProofs ---------------------------
(***************************************************************************)
(* Proofs about Dispatch for every number of requests, BOLs, units and     *)
(* drivers, every set of served operations and every bound.                *)
(***************************************************************************)
EXTENDS Dispatch, TLAPS

\* The inductive invariant: types, what every handler counts on, and the
\* safety properties in the form a step keeps.
IInv ==
  /\ TypeOK
  /\ HandlersOK
  /\ BillBeforeTruck
  /\ CustodyKept
  /\ MilestoneOrder
  /\ HandoffRecorded
  /\ WindowMeansFulfilled
  /\ AssignedMeansRun
  /\ OutOfServiceHasRecord
  /\ LastStopNoticed

\* What every step does to the tables: rows are added, milestones are set, and
\* nothing a handler has seen is taken back.
Grow ==
  /\ Len(runs) <= Len(runs')
  /\ \A i \in RunIds :
       /\ runs'[i].bol = runs[i].bol
       /\ runs'[i].unit = runs[i].unit
       /\ runs'[i].start = runs[i].start
       /\ runs[i].departed => runs'[i].departed
       /\ runs[i].fulfilled => runs'[i].fulfilled
       /\ runs[i].transferred => runs'[i].transferred
  /\ \A b \in Bol : /\ Len(stops[b]) <= Len(stops'[b])
                    /\ bills[b] <= bills'[b]
                    /\ tx[b] \in 1..bills[b] => tx'[b] \in 1..bills'[b]
  /\ \A u \in Unit : /\ Len(maint[u]) <= Len(maint'[u])
                     /\ Len(brk[u]) <= Len(brk'[u])

\* Request r is at l afterwards, the others where they were.
Moves(r, l) == req' = [req EXCEPT ![r] = l] /\ l \in Local /\ UNCHANGED died

-----------------------------------------------------------------------------
(* Tables *)

LEMMA SeqUpdate ==
  ASSUME NEW S, NEW s \in Seq(S), NEW i \in 1..Len(s), NEW m \in S
  PROVE  LET t == [s EXCEPT ![i] = m] IN
           /\ t \in Seq(S)
           /\ Len(t) = Len(s)
           /\ t[i] = m
           /\ \A j \in 1..Len(s) : j # i => t[j] = s[j]
<1> DEFINE t == [s EXCEPT ![i] = m]
<1>1. s \in [1..Len(s) -> S] /\ Len(s) \in Nat
  OBVIOUS
<1>2. t \in [1..Len(s) -> S]
  BY <1>1
<1>3. t \in Seq(S) /\ Len(t) = Len(s)
  BY <1>1, <1>2
<1> QED BY <1>1, <1>2, <1>3

LEMMA SeqAppend ==
  ASSUME NEW S, NEW s \in Seq(S), NEW m \in S
  PROVE  LET t == Append(s, m) IN
           /\ t \in Seq(S)
           /\ Len(t) = Len(s) + 1
           /\ Len(s) \in Nat
           /\ t[Len(s) + 1] = m
           /\ \A j \in 1..Len(s) : t[j] = s[j]
OBVIOUS

-----------------------------------------------------------------------------
(* Frames *)

LEMMA NothingGrows ==
  ASSUME TypeOK, UNCHANGED <<planVars, fleetVars, runs>>
  PROVE  Grow
BY DEF Grow, TypeOK, PlanTypeOK, FleetTypeOK, planVars, fleetVars, RunIds

\* A handler keeps what it counts on while another one steps.
LEMMA OtherHandler ==
  ASSUME TypeOK, TypeOK', Grow, NEW q \in Req, req'[q] = req[q], HandlerOK(q)
  PROVE  HandlerOK(q)'
<1>1. /\ Len(runs) \in Nat /\ Len(runs') \in Nat
      /\ \A b \in Bol : bills[b] \in Nat /\ Len(stops[b]) \in Nat
      /\ \A u \in Unit : Len(maint[u]) \in Nat /\ Len(brk[u]) \in Nat
  BY DEF TypeOK, PlanTypeOK, FleetTypeOK
<1>2. req[q] \in Local /\ req'[q] = req[q]
  BY DEF TypeOK
\* Rows stay in range, and keep what places speak of.
<1>3. \A i \in RunIds :
        /\ i \in RunIds'
        /\ runs'[i].bol = runs[i].bol /\ runs'[i].unit = runs[i].unit
        /\ runs[i].departed => runs'[i].departed
        /\ runs[i].fulfilled => runs'[i].fulfilled
        /\ runs[i].transferred => runs'[i].transferred
  BY <1>1 DEF Grow, RunIds
<1>4. PlanHandlerOK(req[q])'
  <2>1. req[q].pc \in PlanPcs => req[q].bol \in Bol
    BY DEF HandlerOK, PlanHandlerOK
  <2>2. ASSUME req[q].pc = "commit.tx" PROVE req[q].stop \in 1..bills'[req[q].bol]
    <3>1. req[q].bol \in Bol /\ req[q].stop \in 1..bills[req[q].bol]
      BY <2>1, <2>2 DEF HandlerOK, PlanHandlerOK, PlanPcs
    <3>2. /\ bills[req[q].bol] <= bills'[req[q].bol]
          /\ bills[req[q].bol] \in Nat /\ bills'[req[q].bol] \in Nat
      BY <3>1 DEF Grow, TypeOK, PlanTypeOK
    <3> QED BY <3>1, <3>2
  <2>3. ASSUME req[q].pc \in {"commit.loading", "load.write"}
        PROVE  Committed(req[q].bol)'
    <3>1. req[q].bol \in Bol /\ Committed(req[q].bol)
      BY <2>1, <2>3 DEF HandlerOK, PlanHandlerOK, PlanPcs
    <3> QED BY <1>2, <3>1 DEF Committed, Grow
  <2> QED BY <1>2, <2>1, <2>2, <2>3 DEF PlanHandlerOK, Committed
<1>5. FleetHandlerOK(req[q])'
  BY <1>1, <1>2 DEF HandlerOK, FleetHandlerOK, FleetPcs, Grow, TypeOK, FleetTypeOK
<1>6. CreateHandlerOK(req[q])'
  BY <1>1, <1>2, <1>3 DEF HandlerOK, CreateHandlerOK, Committed, HasRun, Grow
<1>7. RoadHandlerOK(req[q])'
  BY <1>2, <1>3 DEF HandlerOK, RoadHandlerOK, RoadPcs
<1>8. TransferHandlerOK(req[q])'
  <2>1. ASSUME req[q].pc \in {"transfer.close", "transfer.release", "transfer.insert"}
        PROVE  req[q].stop \in 1..Len(stops'[req[q].bol])
    <3>1. req[q].bol \in Bol /\ req[q].stop \in 1..Len(stops[req[q].bol])
      BY <2>1 DEF HandlerOK, TransferHandlerOK, CreateHandlerOK, TransferPcs
    <3>2. Len(stops[req[q].bol]) <= Len(stops'[req[q].bol])
          /\ Len(stops'[req[q].bol]) \in Nat
      BY <3>1 DEF Grow, TypeOK, PlanTypeOK
    <3> QED BY <1>1, <3>1, <3>2
  <2> QED BY <1>2, <1>3, <2>1 DEF HandlerOK, TransferHandlerOK
<1>9. LogHandlerOK(req[q])'
  BY <1>2, <1>3 DEF HandlerOK, LogHandlerOK
<1> QED BY <1>4, <1>5, <1>6, <1>7, <1>8, <1>9 DEF HandlerOK

LEMMA HandlersKept ==
  ASSUME IInv, TypeOK', Grow, NEW r \in Req, NEW l, Moves(r, l), HandlerOK(r)'
  PROVE  HandlersOK'
<1>1. \A q \in Req : q # r => req'[q] = req[q]
  BY DEF IInv, TypeOK, Moves
<1> QED
  BY <1>1, OtherHandler DEF IInv, HandlersOK

\* The step of r does not leave the places CustodyHeld and LastStopNoticed name.
KeepsLoad(r, l) ==
  req[r].pc \in {"transfer.release", "transfer.insert"} =>
    l.pc \in {"transfer.release", "transfer.insert"} /\ l.bol = req[r].bol

Unwatched(r, l) == KeepsLoad(r, l) /\ req[r].pc # "log.check"

LEMMA CustodyFrame ==
  ASSUME IInv, TypeOK', NEW r \in Req, NEW l, Moves(r, l), KeepsLoad(r, l),
         UNCHANGED runs,
         \A b \in Bol : bolStatus'[b] = "submitted" =>
            \E i \in RunIds : runs[i].bol = b /\ runs[i].departed
  PROVE  CustodyKept'
<1> USE DEF IInv, TypeOK, Moves
<1>1. ASSUME NEW b \in Bol, HasCustodian(b) PROVE HasCustodian(b)'
  <2>1. CASE \E i \in RunIds : runs[i].bol = b /\ runs[i].departed /\ ~runs[i].transferred
    BY <2>1 DEF HasCustodian, RunIds
  <2>2. CASE InFlight(b, {"transfer.release", "transfer.insert"})
    <3>1. PICK q \in Req : /\ req[q].bol = b
                           /\ req[q].pc \in {"transfer.release", "transfer.insert"}
      BY <2>2 DEF InFlight
    <3>2. /\ req'[q].bol = b
          /\ req'[q].pc \in {"transfer.release", "transfer.insert"}
      BY <3>1 DEF KeepsLoad
    <3> QED BY <3>2 DEF HasCustodian, InFlight
  <2>3. CASE {<<"transfer.release", b>>, <<"transfer.insert", b>>} \cap died # {}
    BY <2>3 DEF HasCustodian
  <2> QED BY <1>1, <2>1, <2>2, <2>3 DEF HasCustodian
<1> QED BY <1>1 DEF CustodyKept, RunIds

LEMMA NoticedFrame ==
  ASSUME IInv, TypeOK', NEW r \in Req, NEW l, Moves(r, l), Unwatched(r, l),
         UNCHANGED <<stops, noticed>>
  PROVE  LastStopNoticed'
<1> USE DEF IInv, TypeOK, Moves
<1>1. ASSUME NEW b \in Bol, InFlight(b, {"log.check"}) PROVE InFlight(b, {"log.check"})'
  BY <1>1 DEF InFlight, Unwatched
<1> QED BY <1>1 DEF LastStopNoticed, AllProcessed

LEMMA BillFrame ==
  ASSUME IInv, Grow, UNCHANGED runs,
         \A b \in Bol : bolStatus'[b] \in {"loading", "validated", "submitted"} =>
            \/ bolStatus[b] \in {"loading", "validated", "submitted"}
            \/ Committed(b)
  PROVE  BillBeforeTruck'
BY DEF IInv, Grow, BillBeforeTruck, Committed, RunIds

LEMMA RunFields ==
  ASSUME TypeOK, NEW i \in RunIds
  PROVE  /\ runs[i] \in Run
         /\ runs[i].bol \in Bol
         /\ runs[i].unit \in Unit
         /\ runs[i].start \in Nat
         /\ runs[i].end \in Nat
<1>1. runs[i] \in Run
  BY DEF TypeOK, RunIds
<1> QED BY <1>1 DEF Run

LEMMA RunFrame ==
  ASSUME IInv, TypeOK', Grow, UNCHANGED runs
  PROVE  MilestoneOrder' /\ HandoffRecorded'
<1> USE DEF IInv, TypeOK, PlanTypeOK, Grow
<1>1. MilestoneOrder'
  BY DEF MilestoneOrder, RunIds
<1>2. \A b \in Bol : Len(stops[b]) \in Nat /\ Len(stops'[b]) \in Nat
  OBVIOUS
<1>3. \A i \in RunIds : runs[i].bol \in Bol /\ runs[i].start \in Nat /\ runs[i].end \in Nat
  BY RunFields
<1>4. HandoffRecorded'
  BY <1>2, <1>3 DEF HandoffRecorded, RunIds
<1> QED BY <1>1, <1>4

LEMMA FleetFrame ==
  ASSUME IInv, UNCHANGED <<fleetVars, runs>>
  PROVE  WindowMeansFulfilled' /\ AssignedMeansRun' /\ OutOfServiceHasRecord'
BY DEF IInv, WindowMeansFulfilled, AssignedMeansRun, OutOfServiceHasRecord,
   HasRun, RunIds, fleetVars

-----------------------------------------------------------------------------
(* Steps by what they write *)

\* A step that only reads.
LEMMA ReadStep ==
  ASSUME IInv, NEW r \in Req, NEW l, Moves(r, l), Unwatched(r, l),
         UNCHANGED <<planVars, fleetVars, runVars>>, HandlerOK(r)'
  PROVE  IInv'
<1>1. TypeOK'
  BY DEF IInv, TypeOK, PlanTypeOK, FleetTypeOK, Moves, planVars, fleetVars, runVars
<1>2. Grow
  BY NothingGrows DEF IInv, runVars
<1>3. HandlersOK'
  BY <1>1, <1>2, HandlersKept
<1>4. BillBeforeTruck'
  BY <1>2, BillFrame DEF planVars, runVars
<1>5. CustodyKept'
  <2>1. \A b \in Bol : bolStatus'[b] = "submitted" =>
            \E i \in RunIds : runs[i].bol = b /\ runs[i].departed
    BY DEF IInv, CustodyKept, planVars
  <2> QED BY <1>1, <2>1, CustodyFrame DEF runVars, Unwatched
<1>6. LastStopNoticed'
  BY <1>1, NoticedFrame DEF planVars
<1>7. MilestoneOrder' /\ HandoffRecorded'
  BY <1>1, <1>2, RunFrame DEF runVars
<1>8. WindowMeansFulfilled' /\ AssignedMeansRun' /\ OutOfServiceHasRecord'
  BY FleetFrame DEF runVars
<1> QED BY <1>1, <1>3, <1>4, <1>5, <1>6, <1>7, <1>8 DEF IInv

\* A step that sets the status of a plan BOL.
LEMMA StatusStep ==
  ASSUME IInv, NEW r \in Req, NEW l, Moves(r, l), Unwatched(r, l),
         NEW b \in Bol, NEW s \in BolStatuses, SetBolStatus(b, s),
         UNCHANGED <<fleetVars, runVars>>, HandlerOK(r)',
         s \in {"loading", "validated", "submitted"} => Committed(b),
         s = "submitted" => \E i \in RunIds : runs[i].bol = b /\ runs[i].departed
  PROVE  IInv'
<1> USE DEF SetBolStatus
<1>1. TypeOK'
  BY DEF IInv, TypeOK, PlanTypeOK, FleetTypeOK, Moves, fleetVars, runVars
<1>2. Grow
  BY DEF IInv, TypeOK, PlanTypeOK, FleetTypeOK, Grow, fleetVars, runVars, RunIds
<1>3. HandlersOK'
  BY <1>1, <1>2, HandlersKept
<1>4. \A c \in Bol : c # b => bolStatus'[c] = bolStatus[c]
  BY DEF IInv, TypeOK, PlanTypeOK
<1>5. bolStatus'[b] = s
  BY DEF IInv, TypeOK, PlanTypeOK
<1>6. BillBeforeTruck'
  BY <1>2, <1>4, <1>5, BillFrame DEF runVars
<1>7. CustodyKept'
  <2>1. \A c \in Bol : bolStatus'[c] = "submitted" =>
            \E i \in RunIds : runs[i].bol = c /\ runs[i].departed
    BY <1>4, <1>5 DEF IInv, CustodyKept
  <2> QED BY <1>1, <2>1, CustodyFrame DEF runVars, Unwatched
<1>8. LastStopNoticed'
  BY <1>1, NoticedFrame
<1>9. MilestoneOrder' /\ HandoffRecorded'
  BY <1>1, <1>2, RunFrame DEF runVars
<1>10. WindowMeansFulfilled' /\ AssignedMeansRun' /\ OutOfServiceHasRecord'
  BY FleetFrame DEF runVars
<1> QED BY <1>1, <1>3, <1>6, <1>7, <1>8, <1>9, <1>10 DEF IInv

\* A step that changes a unit or its records.
LEMMA FleetStep ==
  ASSUME IInv, NEW r \in Req, NEW l, Moves(r, l), Unwatched(r, l),
         UNCHANGED <<planVars, runVars>>, FleetTypeOK', HandlerOK(r)',
         \A u \in Unit : /\ Len(maint[u]) <= Len(maint'[u])
                         /\ Len(brk[u]) <= Len(brk'[u]),
         WindowMeansFulfilled', AssignedMeansRun', OutOfServiceHasRecord'
  PROVE  IInv'
<1>1. TypeOK'
  BY DEF IInv, TypeOK, PlanTypeOK, Moves, planVars, runVars
<1>2. Grow
  BY DEF IInv, TypeOK, PlanTypeOK, Grow, planVars, runVars, RunIds
<1>3. HandlersOK'
  BY <1>1, <1>2, HandlersKept
<1>4. BillBeforeTruck'
  BY <1>2, BillFrame DEF planVars, runVars
<1>5. CustodyKept'
  <2>1. \A b \in Bol : bolStatus'[b] = "submitted" =>
            \E i \in RunIds : runs[i].bol = b /\ runs[i].departed
    BY DEF IInv, CustodyKept, planVars
  <2> QED BY <1>1, <2>1, CustodyFrame DEF runVars, Unwatched
<1>6. LastStopNoticed'
  BY <1>1, NoticedFrame DEF planVars
<1>7. MilestoneOrder' /\ HandoffRecorded'
  BY <1>1, <1>2, RunFrame DEF runVars
<1> QED BY <1>1, <1>3, <1>4, <1>5, <1>6, <1>7 DEF IInv

LEMMA UnitStep ==
  ASSUME IInv, NEW r \in Req, NEW l, Moves(r, l), Unwatched(r, l),
         NEW u \in Unit, NEW s \in UnitStatuses, SetUnitStatus(u, s),
         UNCHANGED <<planVars, runVars>>, HandlerOK(r)',
         s = "assigned" => HasRun(u),
         s = "maintenance" => maint[u] # <<>>,
         s = "breakdown" => brk[u] # <<>>
  PROVE  IInv'
<1> USE DEF SetUnitStatus, IInv, TypeOK, FleetTypeOK
<1>1. FleetTypeOK'
  OBVIOUS
<1>2. \A v \in Unit : /\ Len(maint[v]) <= Len(maint'[v])
                      /\ Len(brk[v]) <= Len(brk'[v])
  OBVIOUS
<1>3. WindowMeansFulfilled'
  BY DEF WindowMeansFulfilled, RunIds, runVars
<1>4. AssignedMeansRun'
  BY DEF AssignedMeansRun, HasRun, RunIds, runVars
<1>5. OutOfServiceHasRecord'
  BY DEF OutOfServiceHasRecord
<1> HIDE DEF IInv, TypeOK, FleetTypeOK
<1> QED BY <1>1, <1>2, <1>3, <1>4, <1>5, FleetStep

-----------------------------------------------------------------------------
(* Where a request goes *)

LEMMA Began ==
  ASSUME TypeOK, NEW r \in Req, NEW op, NEW l \in Local, Begin(r, op, l)
  PROVE  Moves(r, l) /\ Unwatched(r, l) /\ req'[r] = l
BY DEF TypeOK, Begin, At, Moves, Unwatched, KeepsLoad

LEMMA Held ==
  ASSUME TypeOK, NEW r \in Req, NEW l \in Local, Hold(r, l)
  PROVE  Moves(r, l) /\ req'[r] = l
BY DEF TypeOK, Hold, Moves

LEMMA Gone ==
  ASSUME TypeOK, NEW r \in Req, NEW pc, Goto(r, pc),
         [req[r] EXCEPT !.pc = pc] \in Local
  PROVE  /\ Moves(r, [req[r] EXCEPT !.pc = pc])
         /\ req'[r] = [req[r] EXCEPT !.pc = pc]
BY DEF TypeOK, Goto, Hold, Moves

LEMMA IdleOK ==
  ASSUME NEW r \in Req, req'[r] = Idle
  PROVE  HandlerOK(r)'
BY DEF Idle, HandlerOK, PlanHandlerOK, FleetHandlerOK, CreateHandlerOK,
       RoadHandlerOK, TransferHandlerOK, LogHandlerOK, PlanPcs, FleetPcs,
       CreatePcs, RoadPcs, TransferPcs, LogPcs

LEMMA Finished ==
  ASSUME TypeOK, NEW r \in Req, Finish(r)
  PROVE  Idle \in Local /\ Moves(r, Idle) /\ HandlerOK(r)'
<1>1. Idle \in Local
  BY DEF Idle, Local
<1>2. req' = [req EXCEPT ![r] = Idle] /\ UNCHANGED died
  BY DEF Finish, Hold
<1>3. req'[r] = Idle
  BY <1>2 DEF TypeOK
<1> QED BY <1>1, <1>2, <1>3, IdleOK DEF Moves

\* Where only one part of HandlerOK says anything.
LEMMA PlanPlace ==
  ASSUME NEW r \in Req, req'[r].pc \in PlanPcs, PlanHandlerOK(req[r])'
  PROVE  HandlerOK(r)'
BY DEF HandlerOK, FleetHandlerOK, CreateHandlerOK, RoadHandlerOK, TransferHandlerOK,
       LogHandlerOK, PlanPcs, FleetPcs, CreatePcs, RoadPcs, TransferPcs, LogPcs

LEMMA FleetPlace ==
  ASSUME NEW r \in Req, req'[r].pc \in FleetPcs, FleetHandlerOK(req[r])'
  PROVE  HandlerOK(r)'
BY DEF HandlerOK, PlanHandlerOK, CreateHandlerOK, RoadHandlerOK, TransferHandlerOK,
       LogHandlerOK, PlanPcs, FleetPcs, CreatePcs, RoadPcs, TransferPcs, LogPcs

LEMMA CreatePlace ==
  ASSUME NEW r \in Req, req'[r].pc \in CreatePcs, CreateHandlerOK(req[r])'
  PROVE  HandlerOK(r)'
BY DEF HandlerOK, PlanHandlerOK, FleetHandlerOK, RoadHandlerOK, TransferHandlerOK,
       LogHandlerOK, PlanPcs, FleetPcs, CreatePcs, RoadPcs, TransferPcs, LogPcs

LEMMA RoadPlace ==
  ASSUME NEW r \in Req, req'[r].pc \in RoadPcs, RoadHandlerOK(req[r])'
  PROVE  HandlerOK(r)'
BY DEF HandlerOK, PlanHandlerOK, FleetHandlerOK, CreateHandlerOK, TransferHandlerOK,
       LogHandlerOK, PlanPcs, FleetPcs, CreatePcs, RoadPcs, TransferPcs, LogPcs

LEMMA TransferPlace ==
  ASSUME NEW r \in Req, req'[r].pc \in TransferPcs, CreateHandlerOK(req[r])',
         TransferHandlerOK(req[r])'
  PROVE  HandlerOK(r)'
BY DEF HandlerOK, PlanHandlerOK, FleetHandlerOK, RoadHandlerOK,
       LogHandlerOK, PlanPcs, FleetPcs, CreatePcs, RoadPcs, TransferPcs, LogPcs

LEMMA LogPlace ==
  ASSUME NEW r \in Req, req'[r].pc \in LogPcs, LogHandlerOK(req[r])'
  PROVE  HandlerOK(r)'
BY DEF HandlerOK, PlanHandlerOK, FleetHandlerOK, CreateHandlerOK, RoadHandlerOK,
       TransferHandlerOK, PlanPcs, FleetPcs, CreatePcs, RoadPcs, TransferPcs, LogPcs

-----------------------------------------------------------------------------
(* The steps of the plan BOL *)

\* A step that adds a stop, a bill or a transaction id.
LEMMA PlanTableStep ==
  ASSUME IInv, NEW r \in Req, NEW l, Moves(r, l), KeepsLoad(r, l),
         UNCHANGED <<bolStatus, fleetVars, runVars>>, PlanTypeOK', HandlerOK(r)',
         \A b \in Bol : /\ Len(stops[b]) <= Len(stops'[b])
                        /\ bills[b] <= bills'[b]
                        /\ tx[b] \in 1..bills[b] => tx'[b] \in 1..bills'[b],
         LastStopNoticed'
  PROVE  IInv'
<1>1. TypeOK'
  BY DEF IInv, TypeOK, FleetTypeOK, Moves, fleetVars, runVars
<1>2. Grow
  BY DEF IInv, TypeOK, FleetTypeOK, Grow, fleetVars, runVars, RunIds
<1>3. HandlersOK'
  BY <1>1, <1>2, HandlersKept
<1>4. BillBeforeTruck'
  BY <1>2, BillFrame DEF runVars
<1>5. CustodyKept'
  <2>1. \A b \in Bol : bolStatus'[b] = "submitted" =>
            \E i \in RunIds : runs[i].bol = b /\ runs[i].departed
    BY DEF IInv, CustodyKept
  <2> QED BY <1>1, <2>1, CustodyFrame DEF runVars
<1>6. MilestoneOrder' /\ HandoffRecorded'
  BY <1>1, <1>2, RunFrame DEF runVars
<1>7. WindowMeansFulfilled' /\ AssignedMeansRun' /\ OutOfServiceHasRecord'
  BY FleetFrame DEF runVars
<1> QED BY <1>1, <1>3, <1>4, <1>5, <1>6, <1>7 DEF IInv

LEMMA Appended ==
  ASSUME IInv, NEW b \in Bol, NEW s \in StopStates, AppendStop(b, s)
  PROVE  /\ PlanTypeOK'
         /\ \A c \in Bol : Len(stops[c]) <= Len(stops'[c])
         /\ Len(stops'[b]) = Len(stops[b]) + 1 /\ Len(stops[b]) \in Nat
         /\ \A c \in Bol, k \in Nat :
              k \in 1..Len(stops[c]) => stops'[c][k] = stops[c][k]
         /\ stops'[b][Len(stops[b]) + 1] = s
<1> USE DEF AppendStop, IInv, TypeOK, PlanTypeOK
<1>1. stops[b] \in Seq(StopStates)
  OBVIOUS
<1>2. /\ Append(stops[b], s) \in Seq(StopStates)
      /\ Len(Append(stops[b], s)) = Len(stops[b]) + 1
      /\ Len(stops[b]) \in Nat
      /\ Append(stops[b], s)[Len(stops[b]) + 1] = s
      /\ \A k \in 1..Len(stops[b]) : Append(stops[b], s)[k] = stops[b][k]
  BY <1>1, SeqAppend
<1>3. /\ stops'[b] = Append(stops[b], s)
      /\ \A c \in Bol : c # b => stops'[c] = stops[c]
      /\ stops' \in [Bol -> Seq(StopStates)]
  BY <1>2
<1>4. \A c \in Bol : Len(stops[c]) \in Nat
  OBVIOUS
<1>5. noticed' \in SUBSET Bol
  OBVIOUS
<1> QED BY <1>2, <1>3, <1>4, <1>5

\* An open stop ends the notice, a checkpoint changes nothing that was noticed.
LEMMA AppendNoticed ==
  ASSUME IInv, NEW r \in Req, NEW l, Moves(r, l), req[r].pc # "log.check",
         NEW b \in Bol, NEW s \in {"auto", "open"}, AppendStop(b, s)
  PROVE  LastStopNoticed'
<1> SUFFICES ASSUME NEW c \in Bol, AllProcessed(c)',
                    NEW k \in 1..Len(stops'[c]), stops'[c][k] = "done"
             PROVE  (c \in noticed \/ InFlight(c, {"log.check"})
                                  \/ <<"log.check", c>> \in died)'
  BY DEF LastStopNoticed
<1>0. s \in StopStates
  BY DEF StopStates
<1>1. /\ \A d \in Bol : Len(stops[d]) \in Nat /\ Len(stops[d]) <= Len(stops'[d])
      /\ Len(stops'[b]) = Len(stops[b]) + 1
      /\ \A d \in Bol, j \in Nat : j \in 1..Len(stops[d]) => stops'[d][j] = stops[d][j]
      /\ stops'[b][Len(stops[b]) + 1] = s
      /\ \A d \in Bol : d # b => stops'[d] = stops[d]
  <2>1. stops \in [Bol -> Seq(StopStates)]
    BY DEF IInv, TypeOK, PlanTypeOK
  <2>2. \A d \in Bol : Len(stops[d]) \in Nat
    BY <2>1
  <2>3. \A d \in Bol : d # b => stops'[d] = stops[d]
    BY <2>1 DEF AppendStop
  <2> QED BY <1>0, <2>2, <2>3, Appended
<1>2. ~(c = b /\ s = "open")
  BY <1>1 DEF AllProcessed
<1>3. k \in 1..Len(stops[c]) /\ stops[c][k] = "done"
  BY <1>1
<1>4. AllProcessed(c)
  BY <1>1 DEF AllProcessed
<1>5. c \in noticed => c \in noticed'
  BY <1>2 DEF AppendStop
<1>6. InFlight(c, {"log.check"}) => InFlight(c, {"log.check"})'
  BY DEF InFlight, Moves, IInv, TypeOK
<1> QED BY <1>3, <1>4, <1>5, <1>6 DEF IInv, LastStopNoticed, Moves

LEMMA PlanReadSteps ==
  ASSUME IInv, NEW r \in Req, NEW b \in Bol, UNCHANGED <<fleetVars, runVars>>,
         ClaimRead(r, b) \/ CommitRead(r, b) \/ LoadRead(r, b) \/ ReturnRead(r, b)
  PROVE  IInv'
<1> DEFINE l(pc) == [Idle EXCEPT !.pc = pc, !.bol = b]
<1>1. TypeOK
  BY DEF IInv
<1>2. ASSUME NEW pc \in {"claim.write", "commit.bill", "load.write", "return.stop"}
      PROVE  l(pc) \in Local /\ l(pc).pc = pc /\ l(pc).bol = b
  BY DEF Idle, Local, PlanPcs
<1>3. ASSUME NEW op, NEW pc \in {"claim.write", "commit.bill", "load.write", "return.stop"},
             Begin(r, op, l(pc)), UNCHANGED planVars,
             pc = "load.write" => Committed(b)
      PROVE  IInv'
  <2> HIDE DEF l
  <2>1. Moves(r, l(pc)) /\ Unwatched(r, l(pc)) /\ req'[r] = l(pc)
    BY <1>1, <1>2, <1>3, Began
  <2>2. req'[r].pc \in PlanPcs /\ PlanHandlerOK(req[r])'
    BY <1>2, <1>3, <2>1 DEF PlanPcs, PlanHandlerOK, Committed, planVars
  <2> QED BY <1>3, <2>1, <2>2, PlanPlace, ReadStep
<1>4. CASE ClaimRead(r, b)
  BY <1>3, <1>4 DEF ClaimRead
<1>5. CASE CommitRead(r, b)
  BY <1>3, <1>5 DEF CommitRead
<1>6. CASE LoadRead(r, b)
  BY <1>3, <1>6 DEF LoadRead, IInv, BillBeforeTruck
<1>7. CASE ReturnRead(r, b)
  BY <1>3, <1>7 DEF ReturnRead
<1> QED BY <1>4, <1>5, <1>6, <1>7

LEMMA PlanStatusSteps ==
  ASSUME IInv, NEW r \in Req, UNCHANGED <<fleetVars, runVars>>,
         ClaimWrite(r) \/ CommitLoading(r) \/ LoadWrite(r)
  PROVE  IInv'
<1>1. TypeOK /\ HandlerOK(r)
  BY DEF IInv, HandlersOK
<1>2. ASSUME NEW s \in BolStatuses, Finish(r), req[r].pc \in PlanPcs,
             SetBolStatus(req[r].bol, s), s # "submitted",
             s \in {"loading", "validated"} => Committed(req[r].bol)
      PROVE  IInv'
  <2>1. req[r].bol \in Bol
    BY <1>1, <1>2 DEF HandlerOK, PlanHandlerOK
  <2>2. Moves(r, Idle) /\ HandlerOK(r)'
    BY <1>1, <1>2, Finished
  <2>3. Unwatched(r, Idle)
    BY <1>2 DEF Unwatched, KeepsLoad, PlanPcs
  <2> QED BY <1>2, <2>1, <2>2, <2>3, StatusStep
<1>3. CASE ClaimWrite(r)
  BY <1>2, <1>3 DEF ClaimWrite, At, PlanPcs, BolStatuses
<1>4. CASE CommitLoading(r)
  BY <1>1, <1>2, <1>4 DEF CommitLoading, At, PlanPcs, BolStatuses, HandlerOK, PlanHandlerOK
<1>5. CASE LoadWrite(r)
  BY <1>1, <1>2, <1>5 DEF LoadWrite, At, PlanPcs, BolStatuses, HandlerOK, PlanHandlerOK
<1> QED BY <1>3, <1>4, <1>5

LEMMA PlanRecordStep ==
  ASSUME IInv, NEW r \in Req, NEW b \in Bol, UNCHANGED <<fleetVars, runVars>>,
         PlanRecord(r, b)
  PROVE  IInv'
<1> DEFINE l == [Idle EXCEPT !.pc = "plan.stop", !.bol = b]
<1>1. TypeOK
  BY DEF IInv
<1>2. l \in Local /\ l.pc = "plan.stop" /\ l.bol = b
  BY DEF Idle, Local, PlanPcs
<1>3. Begin(r, "plan", l) /\ SetBolStatus(b, "draft")
  BY DEF PlanRecord
<1> HIDE DEF l
<1>4. Moves(r, l) /\ Unwatched(r, l) /\ req'[r] = l
  BY <1>1, <1>2, <1>3, Began
<1>5. HandlerOK(r)'
  BY <1>2, <1>4, PlanPlace DEF PlanPcs, PlanHandlerOK
<1> QED BY <1>3, <1>4, <1>5, StatusStep DEF BolStatuses

\* PlanStop, ReturnStop and TransferStop: a request in no watched place appends.
LEMMA AppendStep ==
  ASSUME IInv, NEW r \in Req, NEW l, Moves(r, l), Unwatched(r, l),
         NEW b \in Bol, NEW s \in {"auto", "open"}, AppendStop(b, s),
         UNCHANGED <<fleetVars, runVars>>, HandlerOK(r)'
  PROVE  IInv'
<1>1. s \in StopStates
  BY DEF StopStates
<1>2. PlanTypeOK' /\ \A c \in Bol : Len(stops[c]) <= Len(stops'[c])
  BY <1>1, Appended
<1>3. UNCHANGED <<bolStatus, tx, bills>> /\ \A c \in Bol : bills[c] \in Nat
  BY DEF AppendStop, IInv, TypeOK, PlanTypeOK
<1>4. LastStopNoticed'
  BY AppendNoticed DEF Unwatched
<1> QED BY <1>2, <1>3, <1>4, PlanTableStep DEF Unwatched

LEMMA PlanAppendSteps ==
  ASSUME IInv, NEW r \in Req, UNCHANGED <<fleetVars, runVars>>,
         PlanStop(r) \/ ReturnStop(r)
  PROVE  IInv'
<1>1. TypeOK /\ HandlerOK(r) /\ req[r] \in Local
  BY DEF IInv, HandlersOK, TypeOK
<1>2. req[r].pc \in PlanPcs /\ req[r].bol \in Bol
  BY <1>1 DEF PlanStop, ReturnStop, At, PlanPcs, HandlerOK, PlanHandlerOK
<1>3. \A l : Unwatched(r, l)
  BY <1>2 DEF Unwatched, KeepsLoad, PlanPcs
<1>4. ASSUME Finish(r), NEW s \in {"auto", "open"}, AppendStop(req[r].bol, s)
      PROVE  IInv'
  BY <1>1, <1>2, <1>3, <1>4, Finished, AppendStep
<1>5. CASE PlanStop(r)
  <2> DEFINE n == req[r].stop + 1
             s == IF n = 1 THEN "auto" ELSE "open"
             l == [req[r] EXCEPT !.stop = n]
  <2>1. s \in {"auto", "open"} /\ AppendStop(req[r].bol, s)
    BY <1>5 DEF PlanStop
  <2>2. CASE Hold(r, l)
    <3>1. l \in Local /\ l.pc = "plan.stop" /\ l.bol \in Bol
      BY <1>1, <1>2, <1>5 DEF PlanStop, At, Local
    <3>2. Moves(r, l) /\ req'[r] = l
      BY <1>1, <2>2, <3>1, Held
    <3>3. HandlerOK(r)'
      BY <3>1, <3>2, PlanPlace DEF PlanPcs, PlanHandlerOK
    <3> QED BY <1>2, <1>3, <2>1, <3>2, <3>3, AppendStep
  <2> QED BY <1>4, <1>5, <2>1, <2>2 DEF PlanStop
<1>6. CASE ReturnStop(r)
  BY <1>4, <1>6 DEF ReturnStop
<1> QED BY <1>5, <1>6

LEMMA PlanBillSteps ==
  ASSUME IInv, NEW r \in Req, UNCHANGED <<fleetVars, runVars>>,
         CommitBill(r) \/ CommitStoreTx(r)
  PROVE  IInv'
<1> DEFINE b == req[r].bol
<1>1. TypeOK /\ PlanTypeOK /\ HandlerOK(r) /\ req[r] \in Local
  BY DEF IInv, HandlersOK, TypeOK
<1>2. req[r].pc \in PlanPcs /\ b \in Bol /\ UNCHANGED <<bolStatus, stops, noticed>>
  BY <1>1 DEF CommitBill, CommitStoreTx, At, PlanPcs, HandlerOK, PlanHandlerOK
<1>3. \A l : Unwatched(r, l)
  BY <1>2 DEF Unwatched, KeepsLoad, PlanPcs
<1>4. \A c \in Bol : tx[c] \in Nat /\ bills[c] \in Nat
  BY <1>1 DEF PlanTypeOK
<1>5. ASSUME NEW l, Moves(r, l), HandlerOK(r)', tx' \in [Bol -> Nat],
             bills' \in [Bol -> Nat],
             \A c \in Bol : /\ bills[c] <= bills'[c]
                            /\ tx[c] \in 1..bills[c] => tx'[c] \in 1..bills'[c]
      PROVE  IInv'
  <2>1. PlanTypeOK' /\ \A c \in Bol : Len(stops[c]) <= Len(stops'[c])
    BY <1>1, <1>2, <1>5 DEF PlanTypeOK
  <2>2. TypeOK'
    BY <1>1, <1>5, <2>1 DEF TypeOK, FleetTypeOK, fleetVars, runVars, Moves
  <2>3. LastStopNoticed'
    BY <1>2, <1>3, <1>5, <2>2, NoticedFrame
  <2> QED BY <1>2, <1>3, <1>5, <2>1, <2>3, PlanTableStep DEF Unwatched
<1>6. CASE CommitBill(r)
  <2> DEFINE l == [req[r] EXCEPT !.pc = "commit.tx", !.stop = bills[b] + 1]
  <2>1. bills' = [bills EXCEPT ![b] = @ + 1] /\ UNCHANGED tx /\ Hold(r, l)
    BY <1>6 DEF CommitBill
  <2>2. l \in Local /\ l.pc = "commit.tx" /\ l.bol = b /\ l.stop = bills[b] + 1
    <3>1. ASSUME NEW n \in Nat
          PROVE  LET m == [req[r] EXCEPT !.pc = "commit.tx", !.stop = n] IN
                   m \in Local /\ m.pc = "commit.tx" /\ m.bol = b /\ m.stop = n
      BY <1>1 DEF Local, PlanPcs
    <3>2. bills[b] + 1 \in Nat
      BY <1>2, <1>4
    <3> QED BY <3>1, <3>2
  <2>3. bills' \in [Bol -> Nat] /\ bills'[b] = bills[b] + 1
        /\ \A c \in Bol : bills[c] <= bills'[c]
    BY <1>1, <1>2, <1>4, <2>1 DEF PlanTypeOK
  <2> HIDE DEF l
  <2>4. Moves(r, l) /\ req'[r] = l
    BY <1>1, <2>1, <2>2, Held
  <2>5. HandlerOK(r)'
    BY <1>2, <1>4, <2>2, <2>3, <2>4, PlanPlace DEF PlanPcs, PlanHandlerOK
  <2>6. \A c \in Bol : tx[c] \in 1..bills[c] => tx'[c] \in 1..bills'[c]
    BY <1>4, <2>1, <2>3
  <2> QED BY <1>1, <1>5, <2>1, <2>3, <2>4, <2>5, <2>6 DEF PlanTypeOK
<1>7. CASE CommitStoreTx(r)
  <2> DEFINE l == [req[r] EXCEPT !.pc = "commit.loading"]
  <2>1. tx' = [tx EXCEPT ![b] = req[r].stop] /\ UNCHANGED bills
        /\ Goto(r, "commit.loading")
    BY <1>7 DEF CommitStoreTx
  <2>2. req[r].stop \in 1..bills[b]
    BY <1>1, <1>7 DEF CommitStoreTx, At, HandlerOK, PlanHandlerOK
  <2>3. l \in Local /\ l.pc = "commit.loading" /\ l.bol = b
    BY <1>1, <1>2 DEF Local, PlanPcs
  <2>4. tx' \in [Bol -> Nat] /\ tx'[b] = req[r].stop
        /\ \A c \in Bol : c # b => tx'[c] = tx[c]
    BY <1>1, <1>2, <1>4, <2>1, <2>2 DEF PlanTypeOK
  <2>5. Moves(r, l) /\ req'[r] = l
    BY <1>1, <2>1, <2>3, Gone
  <2> HIDE DEF l
  <2>6. HandlerOK(r)'
    BY <1>2, <2>1, <2>2, <2>3, <2>4, <2>5, PlanPlace
    DEF PlanPcs, PlanHandlerOK, Committed
  <2>7. \A c \in Bol : tx[c] \in 1..bills[c] => tx'[c] \in 1..bills'[c]
    BY <2>1, <2>2, <2>4
  <2> QED BY <1>1, <1>4, <1>5, <2>1, <2>4, <2>5, <2>6, <2>7 DEF PlanTypeOK
<1> QED BY <1>6, <1>7

LEMMA PlanKeepsIInv ==
  ASSUME IInv, PlanNext, UNCHANGED <<fleetVars, runVars>>
  PROVE  IInv'
<1>1. PICK r \in Req : PlanBegin(r) \/ PlanContinue(r)
  BY DEF PlanNext
<1>2. CASE PlanBegin(r)
  BY <1>2, PlanRecordStep, PlanReadSteps DEF PlanBegin
<1>3. CASE PlanContinue(r)
  BY <1>3, PlanStatusSteps, PlanAppendSteps, PlanBillSteps DEF PlanContinue
<1> QED BY <1>1, <1>2, <1>3

-----------------------------------------------------------------------------
(* The steps of the fleet *)

LEMMA FleetReadSteps ==
  ASSUME IInv, NEW r \in Req, UNCHANGED <<planVars, runVars>>,
         (\E u \in Unit : MaintainRead(r, u) \/ ResolveRead(r, u))
           \/ ResolveFindMaint(r) \/ ResolveFindBrk(r)
  PROVE  IInv'
<1>1. TypeOK /\ FleetTypeOK /\ HandlerOK(r) /\ req[r] \in Local
  BY DEF IInv, HandlersOK, TypeOK
<1>2. ASSUME NEW u \in Unit, NEW op,
             NEW pc \in {"maintain.record", "resolve.maint", "resolve.brk"},
             Begin(r, op, [Idle EXCEPT !.pc = pc, !.unit = u]), UNCHANGED fleetVars
      PROVE  IInv'
  <2> DEFINE l == [Idle EXCEPT !.pc = pc, !.unit = u]
  <2>1. l \in Local /\ l.pc = pc /\ l.unit = u
    BY DEF Idle, Local, FleetPcs
  <2> HIDE DEF l
  <2>2. Moves(r, l) /\ Unwatched(r, l) /\ req'[r] = l
    BY <1>1, <1>2, <2>1, Began DEF l
  <2>3. HandlerOK(r)'
    BY <2>1, <2>2, FleetPlace DEF FleetPcs, FleetHandlerOK
  <2> QED BY <1>2, <2>2, <2>3, ReadStep
<1>3. ASSUME NEW i \in Nat, NEW pc \in {"resolve.closeMaint", "resolve.closeBrk"},
             req[r].pc \in FleetPcs, UNCHANGED fleetVars,
             Hold(r, [req[r] EXCEPT !.pc = pc, !.row = i]),
             pc = "resolve.closeMaint" => i \in 1..Len(maint[req[r].unit]),
             pc = "resolve.closeBrk" => i \in 1..Len(brk[req[r].unit])
      PROVE  IInv'
  <2> DEFINE l == [req[r] EXCEPT !.pc = pc, !.row = i]
  <2>1. l \in Local /\ l.pc = pc /\ l.row = i /\ l.unit = req[r].unit
    BY <1>1 DEF Local, FleetPcs
  <2> HIDE DEF l
  <2>2. Moves(r, l) /\ req'[r] = l
    BY <1>1, <1>3, <2>1, Held DEF l
  <2>3. Unwatched(r, l)
    BY <1>3 DEF Unwatched, KeepsLoad, FleetPcs
  <2>4. req[r].unit \in Unit
    BY <1>1, <1>3 DEF HandlerOK, FleetHandlerOK
  <2>5. HandlerOK(r)'
    BY <1>3, <2>1, <2>2, <2>4, FleetPlace DEF FleetPcs, FleetHandlerOK, fleetVars
  <2> QED BY <1>3, <2>2, <2>3, <2>5, ReadStep
<1>4. ASSUME NEW u \in Unit, MaintainRead(r, u) PROVE IInv'
  BY <1>2, <1>4 DEF MaintainRead
<1>5. ASSUME NEW u \in Unit, ResolveRead(r, u) PROVE IInv'
  BY <1>2, <1>5 DEF ResolveRead
<1>6. CASE ResolveFindMaint(r)
  <2>1. PICK i \in 1..Len(maint[req[r].unit]) :
          Hold(r, [req[r] EXCEPT !.pc = "resolve.closeMaint", !.row = i])
    BY <1>6 DEF ResolveFindMaint
  <2>2. req[r].pc \in FleetPcs /\ UNCHANGED fleetVars
    BY <1>6 DEF ResolveFindMaint, At, FleetPcs
  <2>3. i \in Nat
    OBVIOUS
  <2> QED BY <1>3, <2>1, <2>2, <2>3
<1>7. CASE ResolveFindBrk(r)
  <2>1. PICK i \in 1..Len(brk[req[r].unit]) :
          Hold(r, [req[r] EXCEPT !.pc = "resolve.closeBrk", !.row = i])
    BY <1>7 DEF ResolveFindBrk
  <2>2. req[r].pc \in FleetPcs /\ UNCHANGED fleetVars
    BY <1>7 DEF ResolveFindBrk, At, FleetPcs
  <2>3. i \in Nat
    OBVIOUS
  <2> QED BY <1>3, <2>1, <2>2, <2>3
<1> QED BY <1>4, <1>5, <1>6, <1>7

LEMMA FleetStatusSteps ==
  ASSUME IInv, NEW r \in Req, UNCHANGED <<planVars, runVars>>,
         MaintainStatus(r) \/ BreakStatus(r) \/ ResolveFree(r)
  PROVE  IInv'
<1>1. TypeOK /\ HandlerOK(r)
  BY DEF IInv, HandlersOK
<1>2. req[r].pc \in FleetPcs /\ Finish(r)
  BY DEF MaintainStatus, BreakStatus, ResolveFree, At, FleetPcs
<1>3. req[r].unit \in Unit
  BY <1>1, <1>2 DEF HandlerOK, FleetHandlerOK
<1>4. Moves(r, Idle) /\ HandlerOK(r)'
  BY <1>1, <1>2, Finished
<1>5. Unwatched(r, Idle)
  BY <1>2 DEF Unwatched, KeepsLoad, FleetPcs
<1>6. CASE MaintainStatus(r)
  <2>1. maint[req[r].unit] # <<>> /\ SetUnitStatus(req[r].unit, "maintenance")
    BY <1>1, <1>6 DEF MaintainStatus, At, HandlerOK, FleetHandlerOK
  <2> QED BY <1>3, <1>4, <1>5, <2>1, UnitStep DEF UnitStatuses
<1>7. CASE BreakStatus(r)
  <2>1. brk[req[r].unit] # <<>> /\ SetUnitStatus(req[r].unit, "breakdown")
    BY <1>1, <1>7 DEF BreakStatus, At, HandlerOK, FleetHandlerOK
  <2> QED BY <1>3, <1>4, <1>5, <2>1, UnitStep DEF UnitStatuses
<1>8. CASE ResolveFree(r)
  BY <1>3, <1>4, <1>5, <1>8, UnitStep DEF ResolveFree, UnitStatuses
<1> QED BY <1>6, <1>7, <1>8

\* A step that adds or closes a record.
LEMMA RecordStep ==
  ASSUME IInv, NEW r \in Req, NEW l, Moves(r, l), Unwatched(r, l),
         UNCHANGED <<planVars, runVars, unitStatus, window>>, HandlerOK(r)',
         maint' \in [Unit -> Seq(RecordStates)],
         brk' \in [Unit -> Seq(RecordStates)],
         \A u \in Unit : /\ Len(maint[u]) <= Len(maint'[u])
                         /\ Len(brk[u]) <= Len(brk'[u])
  PROVE  IInv'
<1>1. FleetTypeOK'
  BY DEF IInv, TypeOK, FleetTypeOK
<1>2. WindowMeansFulfilled' /\ AssignedMeansRun'
  BY DEF IInv, WindowMeansFulfilled, AssignedMeansRun, HasRun, RunIds, runVars
<1>3. ASSUME NEW s \in Seq(RecordStates), NEW t \in Seq(RecordStates),
             s # <<>>, Len(s) <= Len(t)
      PROVE  t # <<>>
  BY <1>3
<1>4. \A u \in Unit : /\ maint[u] # <<>> => maint'[u] # <<>>
                      /\ brk[u] # <<>> => brk'[u] # <<>>
  BY <1>3 DEF IInv, TypeOK, FleetTypeOK
<1>5. OutOfServiceHasRecord'
  BY <1>4 DEF IInv, OutOfServiceHasRecord
<1> QED BY <1>1, <1>2, <1>5, FleetStep

LEMMA RecordAdded ==
  ASSUME NEW table \in [Unit -> Seq(RecordStates)], NEW u \in Unit
  PROVE  LET t == [table EXCEPT ![u] = Append(@, "open")] IN
           /\ t \in [Unit -> Seq(RecordStates)]
           /\ \A v \in Unit : Len(table[v]) <= Len(t[v])
           /\ t[u] # <<>>
<1>1. table[u] \in Seq(RecordStates) /\ "open" \in RecordStates
  BY DEF RecordStates
<1>2. /\ Append(table[u], "open") \in Seq(RecordStates)
      /\ Len(Append(table[u], "open")) = Len(table[u]) + 1
      /\ Len(table[u]) \in Nat
  BY <1>1, SeqAppend
<1>3. Append(table[u], "open") # <<>>
  BY <1>2
<1>4. \A v \in Unit : Len(table[v]) \in Nat
  OBVIOUS
<1> QED BY <1>2, <1>3, <1>4

LEMMA RecordClosed ==
  ASSUME NEW table \in [Unit -> Seq(RecordStates)], NEW u \in Unit,
         NEW i \in 1..Len(table[u])
  PROVE  LET t == [table EXCEPT ![u][i] = "resolved"] IN
           /\ t \in [Unit -> Seq(RecordStates)]
           /\ \A v \in Unit : Len(table[v]) <= Len(t[v])
<1> DEFINE s == [table[u] EXCEPT ![i] = "resolved"]
<1>1. table[u] \in Seq(RecordStates) /\ "resolved" \in RecordStates
  BY DEF RecordStates
<1>2. s \in Seq(RecordStates) /\ Len(s) = Len(table[u])
  BY <1>1, SeqUpdate
<1> HIDE DEF s
<1>3. [table EXCEPT ![u][i] = "resolved"] = [table EXCEPT ![u] = s]
  BY DEF s
<1>4. \A v \in Unit : Len(table[v]) \in Nat
  OBVIOUS
<1> QED BY <1>2, <1>3, <1>4

LEMMA RecordSteps ==
  ASSUME IInv, NEW r \in Req, UNCHANGED <<planVars, runVars>>,
         MaintainRecord(r) \/ (\E u \in Unit : BreakRecord(r, u))
           \/ ResolveCloseMaint(r) \/ ResolveCloseBrk(r)
  PROVE  IInv'
<1>1. TypeOK /\ FleetTypeOK /\ HandlerOK(r) /\ req[r] \in Local
  BY DEF IInv, HandlersOK, TypeOK
<1>2. maint \in [Unit -> Seq(RecordStates)] /\ brk \in [Unit -> Seq(RecordStates)]
      /\ \A u \in Unit : Len(maint[u]) \in Nat /\ Len(brk[u]) \in Nat
  BY <1>1 DEF FleetTypeOK
\* The step of a handler that is already at one of FleetPcs.
<1>3. ASSUME NEW pc \in {"maintain.status", "resolve.free"}, req[r].pc \in FleetPcs,
             Goto(r, pc)
      PROVE  LET l == [req[r] EXCEPT !.pc = pc] IN
               /\ Moves(r, l) /\ Unwatched(r, l) /\ req'[r] = l
               /\ l.pc = pc /\ l.unit = req[r].unit /\ req[r].unit \in Unit
  <2>1. [req[r] EXCEPT !.pc = pc] \in Local
    BY <1>1 DEF Local, FleetPcs
  <2>2. req[r].unit \in Unit
    BY <1>1, <1>3 DEF HandlerOK, FleetHandlerOK
  <2>3. Unwatched(r, [req[r] EXCEPT !.pc = pc])
    BY <1>3 DEF Unwatched, KeepsLoad, FleetPcs
  <2> QED BY <1>1, <1>3, <2>1, <2>2, <2>3, Gone DEF Local
<1>4. CASE MaintainRecord(r)
  <2> DEFINE u == req[r].unit
             l == [req[r] EXCEPT !.pc = "maintain.status"]
  <2>1. /\ Moves(r, l) /\ Unwatched(r, l) /\ req'[r] = l
        /\ l.pc = "maintain.status" /\ l.unit = u /\ u \in Unit
    BY <1>3, <1>4 DEF MaintainRecord, At, FleetPcs
  <2> HIDE DEF l
  <2>2. /\ maint' = [maint EXCEPT ![u] = Append(@, "open")]
        /\ UNCHANGED <<unitStatus, window, brk>>
    BY <1>4 DEF MaintainRecord
  <2>3. maint' \in [Unit -> Seq(RecordStates)] /\ maint'[u] # <<>>
        /\ \A v \in Unit : Len(maint[v]) <= Len(maint'[v])
    BY <1>2, <2>1, <2>2, RecordAdded
  <2>4. HandlerOK(r)'
    BY <2>1, <2>3, FleetPlace DEF FleetPcs, FleetHandlerOK
  <2>5. brk' \in [Unit -> Seq(RecordStates)]
        /\ \A v \in Unit : Len(brk[v]) <= Len(brk'[v])
    BY <1>2, <2>2
  <2> QED BY <2>1, <2>2, <2>3, <2>4, <2>5, RecordStep
<1>5. ASSUME NEW u \in Unit, BreakRecord(r, u) PROVE IInv'
  <2> DEFINE l == [Idle EXCEPT !.pc = "break.status", !.unit = u]
  <2>1. l \in Local /\ l.pc = "break.status" /\ l.unit = u
    BY DEF Idle, Local, FleetPcs
  <2>2. /\ brk' = [brk EXCEPT ![u] = Append(@, "open")] /\ Begin(r, "break", l)
        /\ UNCHANGED <<unitStatus, window, maint>>
    BY <1>5 DEF BreakRecord
  <2> HIDE DEF l
  <2>3. Moves(r, l) /\ Unwatched(r, l) /\ req'[r] = l
    BY <1>1, <2>1, <2>2, Began
  <2>4. brk' \in [Unit -> Seq(RecordStates)] /\ brk'[u] # <<>>
        /\ \A v \in Unit : Len(brk[v]) <= Len(brk'[v])
    BY <1>2, <2>2, RecordAdded
  <2>5. HandlerOK(r)'
    BY <2>1, <2>3, <2>4, FleetPlace DEF FleetPcs, FleetHandlerOK
  <2> QED BY <1>2, <2>2, <2>3, <2>4, <2>5, RecordStep
<1>6. CASE ResolveCloseMaint(r)
  <2> DEFINE l == [req[r] EXCEPT !.pc = "resolve.free"]
  <2>1. /\ Moves(r, l) /\ Unwatched(r, l) /\ req'[r] = l
        /\ l.pc = "resolve.free" /\ l.unit = req[r].unit /\ req[r].unit \in Unit
    BY <1>3, <1>6 DEF ResolveCloseMaint, At, FleetPcs
  <2> HIDE DEF l
  <2>2. /\ maint' = [maint EXCEPT ![req[r].unit][req[r].row] = "resolved"]
        /\ UNCHANGED <<unitStatus, window, brk>>
    BY <1>6 DEF ResolveCloseMaint
  <2>3. req[r].row \in 1..Len(maint[req[r].unit])
    BY <1>1, <1>6 DEF ResolveCloseMaint, At, HandlerOK, FleetHandlerOK
  <2>4. maint' \in [Unit -> Seq(RecordStates)]
        /\ \A v \in Unit : Len(maint[v]) <= Len(maint'[v])
    BY <1>2, <2>1, <2>2, <2>3, RecordClosed
  <2>5. HandlerOK(r)'
    BY <2>1, FleetPlace DEF FleetPcs, FleetHandlerOK
  <2> QED BY <1>2, <2>1, <2>2, <2>4, <2>5, RecordStep
<1>7. CASE ResolveCloseBrk(r)
  <2> DEFINE l == [req[r] EXCEPT !.pc = "resolve.free"]
  <2>1. /\ Moves(r, l) /\ Unwatched(r, l) /\ req'[r] = l
        /\ l.pc = "resolve.free" /\ l.unit = req[r].unit /\ req[r].unit \in Unit
    BY <1>3, <1>7 DEF ResolveCloseBrk, At, FleetPcs
  <2> HIDE DEF l
  <2>2. /\ brk' = [brk EXCEPT ![req[r].unit][req[r].row] = "resolved"]
        /\ UNCHANGED <<unitStatus, window, maint>>
    BY <1>7 DEF ResolveCloseBrk
  <2>3. req[r].row \in 1..Len(brk[req[r].unit])
    BY <1>1, <1>7 DEF ResolveCloseBrk, At, HandlerOK, FleetHandlerOK
  <2>4. brk' \in [Unit -> Seq(RecordStates)]
        /\ \A v \in Unit : Len(brk[v]) <= Len(brk'[v])
    BY <1>2, <2>1, <2>2, <2>3, RecordClosed
  <2>5. HandlerOK(r)'
    BY <2>1, FleetPlace DEF FleetPcs, FleetHandlerOK
  <2> QED BY <1>2, <2>1, <2>2, <2>4, <2>5, RecordStep
<1> QED BY <1>4, <1>5, <1>6, <1>7

\* A step outside every request: the clock, a pairing, or none at all.
LEMMA StillStep ==
  ASSUME IInv, UNCHANGED <<reqVars, planVars, unitStatus, maint, brk, runs>>,
         paired' \in [Bol -> BOOLEAN],
         window' \in [Unit -> {"none", "running", "elapsed"}],
         \A u \in Unit : window'[u] # "none" => window[u] # "none"
  PROVE  IInv'
<1>1. TypeOK'
  BY DEF IInv, TypeOK, PlanTypeOK, FleetTypeOK, reqVars, planVars
<1>2. Grow
  BY DEF IInv, TypeOK, PlanTypeOK, FleetTypeOK, Grow, planVars, RunIds
<1>3. HandlersOK'
  BY <1>1, <1>2, OtherHandler DEF IInv, HandlersOK, reqVars
<1>4. BillBeforeTruck'
  BY <1>2, BillFrame DEF planVars
<1>5. CustodyKept'
  BY DEF IInv, CustodyKept, HasCustodian, InFlight, RunIds, reqVars, planVars
<1>6. LastStopNoticed'
  BY DEF IInv, LastStopNoticed, AllProcessed, InFlight, reqVars, planVars
<1>7. MilestoneOrder' /\ HandoffRecorded'
  BY <1>1, <1>2, RunFrame
<1>8. WindowMeansFulfilled' /\ AssignedMeansRun' /\ OutOfServiceHasRecord'
  BY DEF IInv, WindowMeansFulfilled, AssignedMeansRun, OutOfServiceHasRecord,
         HasRun, RunIds
<1> QED BY <1>1, <1>3, <1>4, <1>5, <1>6, <1>7, <1>8 DEF IInv

LEMMA FleetKeepsIInv ==
  ASSUME IInv, FleetNext, UNCHANGED <<planVars, runVars>>
  PROVE  IInv'
<1>1. ASSUME NEW r \in Req, FleetBegin(r) PROVE IInv'
  BY <1>1, FleetReadSteps, RecordSteps DEF FleetBegin
<1>2. ASSUME NEW r \in Req, FleetContinue(r) PROVE IInv'
  BY <1>2, FleetReadSteps, FleetStatusSteps, RecordSteps DEF FleetContinue
<1>3. ASSUME NEW u \in Unit, WindowElapses(u), UNCHANGED reqVars PROVE IInv'
  <2>1. /\ paired' \in [Bol -> BOOLEAN]
        /\ window' \in [Unit -> {"none", "running", "elapsed"}]
        /\ \A v \in Unit : window'[v] # "none" => window[v] # "none"
    BY <1>3 DEF IInv, TypeOK, FleetTypeOK, WindowElapses, runVars
  <2> QED BY <1>3, <2>1, StillStep DEF WindowElapses, runVars
<1> QED BY <1>1, <1>2, <1>3 DEF FleetNext

LEMMA AbortKeepsIInv ==
  ASSUME IInv, NEW r \in Req, Abort(r), UNCHANGED <<planVars, fleetVars, runVars>>
  PROVE  IInv'
<1>1. /\ req' = [req EXCEPT ![r] = Idle]
      /\ died' = IF req[r].pc \in WatchedPcs THEN died \cup {<<req[r].pc, req[r].bol>>}
                                             ELSE died
  BY DEF Abort
<1>2. req'[r] = Idle /\ \A q \in Req : q # r => req'[q] = req[q]
  BY <1>1 DEF IInv, TypeOK
<1>3. HandlerOK(r) /\ req[r] \in Local
  BY DEF IInv, HandlersOK, TypeOK
<1>4. req[r].pc \in WatchedPcs => req[r].bol \in Bol
  BY <1>3 DEF WatchedPcs, HandlerOK, CreateHandlerOK, LogHandlerOK, TransferPcs,
              CreatePcs, LogPcs
<1>5. req' \in [Req -> Local]
  <2>1. Idle \in Local
    BY DEF Idle, Local
  <2> QED BY <1>1, <2>1 DEF IInv, TypeOK
<1>6. died' \in SUBSET (WatchedPcs \X Bol) /\ died \subseteq died'
  BY <1>1, <1>4 DEF IInv, TypeOK
<1>7. TypeOK'
  BY <1>5, <1>6 DEF IInv, TypeOK, PlanTypeOK, FleetTypeOK, planVars, fleetVars, runVars
<1>8. Grow
  BY NothingGrows DEF IInv, runVars
<1>9. HandlersOK'
  BY <1>2, <1>7, <1>8, IdleOK, OtherHandler DEF IInv, HandlersOK
<1>10. BillBeforeTruck'
  BY <1>8, BillFrame DEF planVars, runVars
<1>11. CustodyKept'
  <2>1. ASSUME NEW b \in Bol, HasCustodian(b) PROVE HasCustodian(b)'
    <3>1. CASE InFlight(b, {"transfer.release", "transfer.insert"})
      <4>1. PICK q \in Req : /\ req[q].bol = b
                             /\ req[q].pc \in {"transfer.release", "transfer.insert"}
        BY <3>1 DEF InFlight
      <4>2. CASE q = r
        BY <1>1, <4>1, <4>2 DEF HasCustodian, WatchedPcs
      <4>3. CASE q # r
        BY <1>2, <4>1, <4>3 DEF HasCustodian, InFlight
      <4> QED BY <4>2, <4>3
    <3>2. CASE ~InFlight(b, {"transfer.release", "transfer.insert"})
      BY <1>6, <2>1, <3>2 DEF HasCustodian, RunIds, runVars
    <3> QED BY <3>1, <3>2
  <2> QED BY <2>1 DEF IInv, CustodyKept, RunIds, planVars, runVars
<1>12. LastStopNoticed'
  <2>1. ASSUME NEW b \in Bol, InFlight(b, {"log.check"})
        PROVE  InFlight(b, {"log.check"})' \/ <<"log.check", b>> \in died'
    BY <1>1, <1>2, <2>1 DEF InFlight, WatchedPcs
  <2> QED BY <1>6, <2>1 DEF IInv, LastStopNoticed, AllProcessed, planVars
<1>13. MilestoneOrder' /\ HandoffRecorded'
  BY <1>7, <1>8, RunFrame DEF runVars
<1>14. WindowMeansFulfilled' /\ AssignedMeansRun' /\ OutOfServiceHasRecord'
  BY FleetFrame DEF runVars
<1> QED BY <1>7, <1>9, <1>10, <1>11, <1>12, <1>13, <1>14 DEF IInv

-----------------------------------------------------------------------------
(* The steps of the runs *)

\* A new row.  If r leaves a watched place, it is its load's new custodian.
LEMMA InsertStep ==
  ASSUME IInv, NEW r \in Req, NEW l, Moves(r, l), req[r].pc # "log.check",
         UNCHANGED <<planVars, fleetVars>>, NEW m \in Run, InsertRun(m),
         HandlerOK(r)', Committed(m.bol), ~m.transferred, ~m.deadhead,
         KeepsLoad(r, l) \/ (m.bol = req[r].bol /\ m.departed),
         m.start # 0 => /\ m.departed
                        /\ m.start \in 1..Len(stops[m.bol])
                        /\ \E j \in RunIds : runs[j].bol = m.bol /\ runs[j].transferred
  PROVE  IInv'
<1> DEFINE n == Len(runs) + 1
<1>1. /\ runs' \in Seq(Run) /\ Len(runs') = n /\ Len(runs) \in Nat
      /\ runs'[n] = m /\ \A j \in RunIds : runs'[j] = runs[j]
      /\ UNCHANGED paired
  BY SeqAppend DEF IInv, TypeOK, InsertRun, RunIds
<1>2. /\ n \in RunIds' /\ RunIds \subseteq RunIds' /\ n \notin RunIds
      /\ \A j \in RunIds' : j \in RunIds \/ j = n
  BY <1>1 DEF RunIds
<1>3. TypeOK'
  BY <1>1 DEF IInv, TypeOK, PlanTypeOK, FleetTypeOK, Moves, planVars, fleetVars
<1>4. Grow
  BY <1>1, <1>2 DEF IInv, TypeOK, PlanTypeOK, FleetTypeOK, Grow, planVars, fleetVars
<1>5. HandlersOK'
  BY <1>3, <1>4, HandlersKept
<1> HIDE DEF n
<1>6. BillBeforeTruck'
  BY <1>1, <1>2 DEF IInv, BillBeforeTruck, Committed, planVars
<1>7. CustodyKept'
  <2>1. ASSUME NEW b \in Bol, \E i \in RunIds' : runs'[i].bol = b /\ runs'[i].departed
        PROVE  HasCustodian(b)'
    <3>1. CASE m.bol = b /\ m.departed
      BY <1>1, <1>2, <3>1 DEF HasCustodian
    <3>2. CASE ~(m.bol = b /\ m.departed)
      <4>1. HasCustodian(b)
        BY <1>1, <1>2, <2>1, <3>2 DEF IInv, CustodyKept
      <4>2. CASE \E i \in RunIds : runs[i].bol = b /\ runs[i].departed
                                   /\ ~runs[i].transferred
        BY <1>1, <1>2, <4>2 DEF HasCustodian
      <4>3. CASE InFlight(b, {"transfer.release", "transfer.insert"})
        BY <3>2, <4>3 DEF HasCustodian, InFlight, KeepsLoad, Moves, IInv, TypeOK
      <4>4. CASE {<<"transfer.release", b>>, <<"transfer.insert", b>>} \cap died # {}
        BY <4>4 DEF HasCustodian, Moves
      <4> QED BY <4>1, <4>2, <4>3, <4>4 DEF HasCustodian
    <3> QED BY <3>1, <3>2
  <2>2. ASSUME NEW b \in Bol, bolStatus'[b] = "submitted"
        PROVE  \E i \in RunIds' : runs'[i].bol = b /\ runs'[i].departed
    BY <1>1, <1>2, <2>2 DEF IInv, CustodyKept, planVars
  <2> QED BY <2>1, <2>2 DEF CustodyKept
<1>8. LastStopNoticed'
  BY DEF IInv, LastStopNoticed, AllProcessed, InFlight, Moves, TypeOK, planVars
<1>9. MilestoneOrder'
  BY <1>1, <1>2 DEF IInv, MilestoneOrder
<1>10. HandoffRecorded'
  BY <1>1, <1>2 DEF IInv, HandoffRecorded, planVars
<1>11. WindowMeansFulfilled' /\ AssignedMeansRun' /\ OutOfServiceHasRecord'
  BY <1>1, <1>2 DEF IInv, WindowMeansFulfilled, AssignedMeansRun, HasRun,
                    OutOfServiceHasRecord, fleetVars
<1> QED BY <1>3, <1>5, <1>6, <1>7, <1>8, <1>9, <1>10, <1>11 DEF IInv

\* A row that is updated.  If it is handed over, r becomes its load's custodian.
LEMMA UpdateStep ==
  ASSUME IInv, NEW r \in Req, NEW l, Moves(r, l), Unwatched(r, l),
         UNCHANGED <<planVars, fleetVars, paired>>,
         NEW i \in RunIds, NEW m \in Run, runs' = [runs EXCEPT ![i] = m],
         HandlerOK(r)',
         m.bol = runs[i].bol, m.unit = runs[i].unit, m.start = runs[i].start,
         runs[i].departed => m.departed,
         runs[i].fulfilled => m.fulfilled,
         runs[i].transferred => m.transferred,
         m.transferred => /\ m.departed
                          /\ m.end \in 1..Len(stops[m.bol])
                          /\ runs[i].transferred
                             \/ (l.pc = "transfer.release" /\ l.bol = m.bol),
         m.deadhead => m.fulfilled \/ m.transferred
  PROVE  IInv'
<1>1. /\ runs' \in Seq(Run) /\ Len(runs') = Len(runs) /\ RunIds' = RunIds
      /\ runs'[i] = m /\ \A j \in RunIds : j # i => runs'[j] = runs[j]
  BY SeqUpdate DEF IInv, TypeOK, RunIds
<1>2. TypeOK'
  BY <1>1 DEF IInv, TypeOK, PlanTypeOK, FleetTypeOK, Moves, planVars, fleetVars
<1>3. Len(runs) \in Nat
  BY DEF IInv, TypeOK
<1>4. Grow
  BY <1>1, <1>3 DEF IInv, TypeOK, PlanTypeOK, FleetTypeOK, Grow, planVars, fleetVars
<1>5. HandlersOK'
  BY <1>2, <1>4, HandlersKept
<1>6. BillBeforeTruck'
  BY <1>1 DEF IInv, BillBeforeTruck, Committed, planVars
<1>7. CustodyKept'
  <2>1. ASSUME NEW b \in Bol, \E j \in RunIds : runs'[j].bol = b /\ runs'[j].departed
        PROVE  HasCustodian(b)'
    <3>1. CASE m.bol = b /\ l.pc = "transfer.release" /\ l.bol = m.bol
      BY <3>1 DEF HasCustodian, InFlight, Moves, IInv, TypeOK
    <3>2. CASE /\ ~(m.bol = b /\ l.pc = "transfer.release" /\ l.bol = m.bol)
               /\ m.bol = b /\ m.departed /\ ~runs[i].departed
      BY <1>1, <3>2 DEF HasCustodian, IInv, MilestoneOrder
    <3>3. CASE /\ ~(m.bol = b /\ l.pc = "transfer.release" /\ l.bol = m.bol)
               /\ ~(m.bol = b /\ m.departed /\ ~runs[i].departed)
      <4>1. HasCustodian(b)
        BY <1>1, <2>1, <3>3 DEF IInv, CustodyKept
      <4>2. CASE \E j \in RunIds : runs[j].bol = b /\ runs[j].departed
                                   /\ ~runs[j].transferred
        BY <1>1, <3>3, <4>2 DEF HasCustodian
      <4>3. CASE InFlight(b, {"transfer.release", "transfer.insert"})
        BY <4>3 DEF HasCustodian, InFlight, Unwatched, KeepsLoad, Moves, IInv, TypeOK
      <4>4. CASE {<<"transfer.release", b>>, <<"transfer.insert", b>>} \cap died # {}
        BY <4>4 DEF HasCustodian, Moves
      <4> QED BY <4>1, <4>2, <4>3, <4>4 DEF HasCustodian
    <3> QED BY <3>1, <3>2, <3>3
  <2>2. ASSUME NEW b \in Bol, bolStatus'[b] = "submitted"
        PROVE  \E j \in RunIds : runs'[j].bol = b /\ runs'[j].departed
    BY <1>1, <2>2 DEF IInv, CustodyKept, planVars
  <2> QED BY <1>1, <2>1, <2>2 DEF CustodyKept
<1>8. LastStopNoticed'
  BY <1>2, NoticedFrame DEF planVars
<1>9. MilestoneOrder'
  BY <1>1 DEF IInv, MilestoneOrder
<1>10. HandoffRecorded'
  BY <1>1 DEF IInv, HandoffRecorded, planVars
<1>11. WindowMeansFulfilled' /\ AssignedMeansRun' /\ OutOfServiceHasRecord'
  BY <1>1 DEF IInv, WindowMeansFulfilled, AssignedMeansRun, HasRun,
              OutOfServiceHasRecord, fleetVars
<1> QED BY <1>2, <1>5, <1>6, <1>7, <1>8, <1>9, <1>10, <1>11 DEF IInv

LEMMA RunBeginSteps ==
  ASSUME IInv, NEW r \in Req, RunBegin(r)
  PROVE  IInv'
<1>1. TypeOK /\ PlanTypeOK /\ Idle \in Local
  BY DEF IInv, TypeOK, Idle, Local
<1>2. ASSUME NEW op, NEW l \in Local, Begin(r, op, l), HandlerOK(r)',
             UNCHANGED <<planVars, fleetVars, runVars>>
      PROVE  IInv'
  BY <1>1, <1>2, Began, ReadStep
<1>3. ASSUME NEW b \in Bol, NEW u \in Unit, NEW d \in Driver,
             CreateReadBol(r, b, u, d) \/ TransferReadBol(r, b, u, d)
      PROVE  IInv'
  <2> DEFINE l(pc) == [Idle EXCEPT !.pc = pc, !.bol = b, !.unit = u, !.driver = d]
  <2>1. Committed(b) /\ UNCHANGED <<planVars, fleetVars, runVars>>
    BY <1>3 DEF CreateReadBol, TransferReadBol, IInv, BillBeforeTruck
  <2>2. ASSUME NEW op, NEW pc \in {"create.unit", "transfer.current"},
               Begin(r, op, l(pc))
        PROVE  IInv'
    <3>1. l(pc) \in Local /\ l(pc).pc = pc /\ l(pc).bol = b /\ l(pc).unit = u
          /\ l(pc).driver = d
      BY DEF Idle, Local, CreatePcs, TransferPcs
    <3> HIDE DEF l
    <3>2. req'[r] = l(pc)
      BY <1>1, <2>2, <3>1, Began
    <3>3. CreateHandlerOK(req[r])' /\ TransferHandlerOK(req[r])'
      BY <2>1, <3>1, <3>2 DEF CreateHandlerOK, TransferHandlerOK, Committed, planVars
    <3>4. req'[r].pc \in CreatePcs \/ req'[r].pc \in TransferPcs
      BY <3>1, <3>2 DEF CreatePcs, TransferPcs
    <3>5. HandlerOK(r)'
      BY <3>3, <3>4, CreatePlace, TransferPlace
    <3> QED BY <1>2, <2>1, <2>2, <3>1, <3>5
  <2> QED BY <1>3, <2>2 DEF CreateReadBol, TransferReadBol
<1>4. ASSUME NEW i \in RunIds, DepartRead(r, i) PROVE IInv'
  <2> DEFINE l == [Idle EXCEPT !.pc = "depart.mark", !.row = i, !.bol = runs[i].bol]
  <2>1. l \in Local /\ l.pc = "depart.mark" /\ l.row = i /\ l.bol = runs[i].bol
    <3>1. i \in Nat /\ runs[i].bol \in Bol /\ runs[i].unit \in Unit
      BY <1>1, RunFields DEF RunIds
    <3> QED BY <3>1 DEF Idle, Local, RoadPcs
  <2>2. Begin(r, "depart", l) /\ UNCHANGED <<planVars, fleetVars, runVars>>
    BY <1>4 DEF DepartRead
  <2> HIDE DEF l
  <2>3. req'[r] = l
    BY <1>1, <2>1, <2>2, Began
  <2>4. HandlerOK(r)'
    BY <2>1, <2>2, <2>3, RoadPlace DEF RoadPcs, RoadHandlerOK, RunIds, runVars
  <2> QED BY <1>2, <2>1, <2>2, <2>4
<1>5. ASSUME NEW i \in RunIds, FulfillRead(r, i) PROVE IInv'
  <2> DEFINE l == [Idle EXCEPT !.pc = "fulfill.mark", !.row = i,
                               !.bol = runs[i].bol, !.unit = runs[i].unit]
  <2>1. /\ l \in Local /\ l.pc = "fulfill.mark" /\ l.row = i
        /\ l.bol = runs[i].bol /\ l.unit = runs[i].unit
    <3>1. i \in Nat /\ runs[i].bol \in Bol /\ runs[i].unit \in Unit
      BY <1>1, RunFields DEF RunIds
    <3> QED BY <3>1 DEF Idle, Local, RoadPcs
  <2>2. Begin(r, "fulfill", l) /\ UNCHANGED <<planVars, fleetVars, runVars>>
    BY <1>5 DEF FulfillRead
  <2> HIDE DEF l
  <2>3. req'[r] = l
    BY <1>1, <2>1, <2>2, Began
  <2>4. HandlerOK(r)'
    BY <2>1, <2>2, <2>3, RoadPlace DEF RoadPcs, RoadHandlerOK, RunIds, runVars
  <2> QED BY <1>2, <2>1, <2>2, <2>4
<1>6. ASSUME NEW i \in RunIds, DeadheadRead(r, i) PROVE IInv'
  <2> DEFINE l == [Idle EXCEPT !.pc = "deadhead.mark", !.row = i]
  <2>1. l \in Local /\ l.pc = "deadhead.mark" /\ l.row = i
    <3>1. i \in Nat
      BY DEF RunIds
    <3> QED BY <3>1 DEF Idle, Local, RoadPcs
  <2>2. /\ Begin(r, "deadhead", l) /\ UNCHANGED <<planVars, fleetVars, runVars>>
        /\ runs[i].fulfilled \/ runs[i].transferred
    BY <1>6 DEF DeadheadRead
  <2> HIDE DEF l
  <2>3. req'[r] = l
    BY <1>1, <2>1, <2>2, Began
  <2>4. HandlerOK(r)'
    BY <2>1, <2>2, <2>3, RoadPlace DEF RoadPcs, RoadHandlerOK, RunIds, runVars
  <2> QED BY <1>2, <2>1, <2>2, <2>4
<1>7. ASSUME NEW b \in Bol, NEW d \in Driver, NEW k \in 1..Len(stops[b]),
             LogMark(r, d, b, k)
      PROVE  IInv'
  <2> DEFINE l == [Idle EXCEPT !.pc = "log.check", !.bol = b, !.driver = d]
  <2>1. l \in Local /\ l.pc = "log.check" /\ l.bol = b /\ l.driver = d
    BY <1>1 DEF Idle, Local, LogPcs
  <2>2. /\ Begin(r, "log", l) /\ UNCHANGED <<fleetVars, runVars>>
        /\ stops' = [stops EXCEPT ![b][k] = "done"]
        /\ UNCHANGED <<bolStatus, tx, bills, noticed>>
    BY <1>7 DEF LogMark, MarkStopProcessed
  <2> HIDE DEF l
  <2>3. Moves(r, l) /\ Unwatched(r, l) /\ req'[r] = l
    BY <1>1, <2>1, <2>2, Began
  <2>4. HandlerOK(r)'
    BY <2>1, <2>2, <2>3, LogPlace DEF LogPcs, LogHandlerOK
  <2>5. /\ stops' \in [Bol -> Seq(StopStates)]
        /\ \A c \in Bol : c # b => stops'[c] = stops[c]
        /\ \A c \in Bol : Len(stops[c]) <= Len(stops'[c])
    <3> DEFINE s == [stops[b] EXCEPT ![k] = "done"]
    <3>1. stops[b] \in Seq(StopStates) /\ "done" \in StopStates
      BY <1>1 DEF PlanTypeOK, StopStates
    <3>2. s \in Seq(StopStates) /\ Len(s) = Len(stops[b])
      BY <3>1, SeqUpdate
    <3>3. stops' = [stops EXCEPT ![b] = s]
      BY <2>2
    <3> HIDE DEF s
    <3>4. \A c \in Bol : Len(stops[c]) \in Nat
      BY <1>1 DEF PlanTypeOK
    <3> QED BY <1>1, <3>2, <3>3, <3>4 DEF PlanTypeOK
  <2>6. PlanTypeOK' /\ \A c \in Bol : bills[c] \in Nat
    BY <1>1, <2>2, <2>5 DEF PlanTypeOK
  <2>7. LastStopNoticed'
    <3>1. InFlight(b, {"log.check"})'
      BY <2>1, <2>3 DEF InFlight
    <3>2. ASSUME NEW c \in Bol, InFlight(c, {"log.check"})
          PROVE  InFlight(c, {"log.check"})'
      BY <2>3, <3>2 DEF InFlight, Unwatched, Moves, IInv, TypeOK
    <3> QED BY <2>2, <2>3, <2>5, <3>1, <3>2
            DEF IInv, LastStopNoticed, AllProcessed, Moves
  <2> QED BY <2>2, <2>3, <2>4, <2>5, <2>6, <2>7, PlanTableStep DEF Unwatched
<1> QED BY <1>3, <1>4, <1>5, <1>6, <1>7 DEF RunBegin

\* A Create that goes on to another of its places with what it holds.
LEMMA CreateMoves ==
  ASSUME IInv, NEW r \in Req, NEW l \in Local, Hold(r, l), UNCHANGED planVars,
         req[r].pc \in CreatePcs \ {"create.assign"},
         l.pc \in CreatePcs \ {"create.assign"},
         l.bol = req[r].bol, l.unit = req[r].unit, l.driver = req[r].driver
  PROVE  Moves(r, l) /\ Unwatched(r, l) /\ HandlerOK(r)' /\ l.unit \in Unit
<1>1. TypeOK /\ HandlerOK(r)
  BY DEF IInv, HandlersOK
<1>2. Moves(r, l) /\ req'[r] = l
  BY <1>1, Held
<1>3. Unwatched(r, l)
  BY DEF Unwatched, KeepsLoad, CreatePcs
<1>4. l.bol \in Bol /\ l.unit \in Unit /\ l.driver \in Driver /\ Committed(l.bol)
  BY <1>1 DEF HandlerOK, CreateHandlerOK, CreatePcs
<1>5. CreateHandlerOK(req[r])'
  BY <1>2, <1>4 DEF CreateHandlerOK, Committed, CreatePcs, planVars
<1> QED BY <1>2, <1>3, <1>4, <1>5, CreatePlace

LEMMA InsertedRun ==
  ASSUME TypeOK, NEW m \in Run, InsertRun(m)
  PROVE  \E i \in RunIds' : runs'[i].unit = m.unit
<1>1. /\ Len(runs') = Len(runs) + 1 /\ Len(runs) \in Nat
      /\ runs'[Len(runs) + 1] = m
  BY SeqAppend DEF TypeOK, InsertRun
<1>2. Len(runs) + 1 \in 1..Len(runs')
  BY <1>1
<1> QED BY <1>1, <1>2 DEF RunIds

LEMMA CreateSteps ==
  ASSUME IInv, NEW r \in Req, CreateContinue(r)
  PROVE  IInv'
<1>1. TypeOK /\ HandlerOK(r) /\ req[r] \in Local /\ Len(runs) \in Nat
  BY DEF IInv, HandlersOK, TypeOK
<1>2. ASSUME NEW pc \in CreatePcs
      PROVE  LET l == [req[r] EXCEPT !.pc = pc] IN
               /\ l \in Local /\ l.pc = pc /\ l.bol = req[r].bol
               /\ l.unit = req[r].unit /\ l.driver = req[r].driver
  BY <1>1 DEF Local
<1>3. CASE CreateCheckUnit(r)
  <2>1. /\ req[r].pc = "create.unit" /\ UNCHANGED <<planVars, fleetVars, runVars>>
        /\ Goto(r, "create.reconcile") \/ Goto(r, "create.hos")
    BY <1>3 DEF CreateCheckUnit, CheckUnit, At
  <2>2. ASSUME NEW pc \in CreatePcs \ {"create.assign"}, Goto(r, pc) PROVE IInv'
    BY <1>2, <2>1, <2>2, CreateMoves, ReadStep DEF Goto, CreatePcs
  <2> QED BY <2>1, <2>2 DEF CreatePcs
<1>4. CASE CreateReconcile(r)
  <2> DEFINE l == [req[r] EXCEPT !.pc = "create.hos"]
  <2>1. /\ req[r].pc = "create.reconcile" /\ UNCHANGED <<planVars, runVars>>
        /\ SetUnitStatus(req[r].unit, "available") /\ Hold(r, l)
    BY <1>4 DEF CreateReconcile, Reconcile, At, Goto
  <2>2. l \in Local /\ Moves(r, l) /\ Unwatched(r, l) /\ HandlerOK(r)'
        /\ req[r].unit \in Unit
    BY <1>2, <2>1, CreateMoves DEF CreatePcs
  <2> QED BY <2>1, <2>2, UnitStep DEF UnitStatuses
<1>5. CASE CreateHos(r)
  <2> DEFINE l == [req[r] EXCEPT !.pc = "create.insert", !.seen = Len(runs)]
  <2>1. /\ req[r].pc = "create.hos" /\ UNCHANGED <<planVars, fleetVars, runVars>>
        /\ Hold(r, l)
    BY <1>5 DEF CreateHos, At
  <2>2. /\ l \in Local /\ l.pc = "create.insert" /\ l.bol = req[r].bol
        /\ l.unit = req[r].unit /\ l.driver = req[r].driver
    BY <1>1 DEF Local, CreatePcs
  <2>3. Moves(r, l) /\ Unwatched(r, l) /\ HandlerOK(r)'
    BY <2>1, <2>2, CreateMoves DEF CreatePcs
  <2> QED BY <2>1, <2>3, ReadStep
<1>6. CASE CreateInsert(r)
  <2> DEFINE m == [bol |-> req[r].bol, driver |-> req[r].driver, unit |-> req[r].unit,
                   departed |-> FALSE, fulfilled |-> FALSE, transferred |-> FALSE,
                   deadhead |-> FALSE, start |-> 0, end |-> 0, seen |-> req[r].seen]
             l == [Idle EXCEPT !.pc = "create.assign", !.unit = req[r].unit]
  <2>1. /\ req[r].pc = "create.insert" /\ UNCHANGED <<planVars, fleetVars>>
        /\ InsertRun(m) /\ Hold(r, l)
    BY <1>6 DEF CreateInsert, At
  <2>2. /\ req[r].bol \in Bol /\ req[r].unit \in Unit /\ req[r].driver \in Driver
        /\ Committed(req[r].bol)
    BY <1>1, <2>1 DEF HandlerOK, CreateHandlerOK, CreatePcs
  <2>3. m \in Run
    BY <1>1, <2>2 DEF Run, Local
  <2>4. /\ m.bol = req[r].bol /\ m.unit = req[r].unit
        /\ ~m.transferred /\ ~m.deadhead /\ m.start = 0
    OBVIOUS
  <2>5. l \in Local /\ l.pc = "create.assign" /\ l.unit = req[r].unit
    BY <2>2 DEF Idle, Local, CreatePcs
  <2> HIDE DEF l, m
  <2>6. Moves(r, l) /\ req'[r] = l
    BY <1>1, <2>1, <2>5, Held
  <2>7. \E i \in RunIds' : runs'[i].unit = m.unit
    BY <1>1, <2>1, <2>3, InsertedRun
  <2>8. HandlerOK(r)'
    <3>1. \E i \in RunIds' : runs'[i].unit = req'[r].unit
      BY <2>4, <2>5, <2>6, <2>7
    <3>2. CreateHandlerOK(req[r])'
      BY <2>2, <2>5, <2>6, <3>1 DEF CreatePcs, TransferPcs, CreateHandlerOK, HasRun
    <3> QED BY <2>5, <2>6, <3>2, CreatePlace DEF CreatePcs
  <2>9. KeepsLoad(r, l) /\ req[r].pc # "log.check"
    BY <2>1 DEF KeepsLoad
  <2> QED BY <2>1, <2>2, <2>3, <2>4, <2>6, <2>8, <2>9, InsertStep
<1>7. CASE CreateAssign(r)
  <2>1. /\ req[r].pc = "create.assign" /\ UNCHANGED <<planVars, runVars>>
        /\ SetUnitStatus(req[r].unit, "assigned") /\ Finish(r)
    BY <1>7 DEF CreateAssign, At
  <2>2. req[r].unit \in Unit /\ HasRun(req[r].unit)
    BY <1>1, <2>1 DEF HandlerOK, CreateHandlerOK, CreatePcs
  <2>3. Moves(r, Idle) /\ HandlerOK(r)' /\ Unwatched(r, Idle)
    BY <1>1, <2>1, Finished DEF Unwatched, KeepsLoad
  <2> QED BY <2>1, <2>2, <2>3, UnitStep DEF UnitStatuses
<1> QED BY <1>3, <1>4, <1>5, <1>6, <1>7 DEF CreateContinue

\* Setting one milestone of a row whose others allow it.
LEMMA MarkStep ==
  ASSUME IInv, NEW r \in Req, NEW l, Moves(r, l), Unwatched(r, l),
         UNCHANGED <<planVars, fleetVars, paired>>, HandlerOK(r)',
         NEW i \in RunIds,
         \/ MarkDeparted(i)
         \/ MarkFulfilled(i)
         \/ MarkDeadhead(i) /\ (runs[i].fulfilled \/ runs[i].transferred)
  PROVE  IInv'
<1>1. runs[i] \in Run
  BY RunFields DEF IInv
<1>2. /\ runs[i].transferred => /\ runs[i].departed
                                /\ runs[i].end \in 1..Len(stops[runs[i].bol])
      /\ runs[i].deadhead => runs[i].fulfilled \/ runs[i].transferred
  BY DEF IInv, MilestoneOrder, HandoffRecorded
<1>3. ASSUME NEW m \in Run, runs' = [runs EXCEPT ![i] = m],
             m.bol = runs[i].bol, m.unit = runs[i].unit, m.start = runs[i].start,
             m.end = runs[i].end, m.transferred = runs[i].transferred,
             runs[i].departed => m.departed, runs[i].fulfilled => m.fulfilled,
             m.deadhead => m.fulfilled \/ m.transferred
      PROVE  IInv'
  BY <1>2, <1>3, UpdateStep
<1>4. CASE MarkDeparted(i)
  <2> DEFINE m == [runs[i] EXCEPT !.departed = TRUE]
  <2>1. m \in Run /\ m = [runs[i] EXCEPT !.departed = TRUE]
        /\ runs' = [runs EXCEPT ![i] = m]
    BY <1>1, <1>4 DEF Run, MarkDeparted
  <2>2. /\ m.bol = runs[i].bol /\ m.unit = runs[i].unit /\ m.start = runs[i].start
        /\ m.end = runs[i].end /\ m.transferred = runs[i].transferred
        /\ m.departed /\ m.fulfilled = runs[i].fulfilled
        /\ m.deadhead = runs[i].deadhead
    BY <1>1 DEF Run
  <2> HIDE DEF m
  <2> QED BY <1>2, <1>3, <2>1, <2>2
<1>5. CASE MarkFulfilled(i)
  <2> DEFINE m == [runs[i] EXCEPT !.fulfilled = TRUE]
  <2>1. m \in Run /\ runs' = [runs EXCEPT ![i] = m]
    BY <1>1, <1>5 DEF Run, MarkFulfilled
  <2>2. /\ m.bol = runs[i].bol /\ m.unit = runs[i].unit /\ m.start = runs[i].start
        /\ m.end = runs[i].end /\ m.transferred = runs[i].transferred
        /\ m.departed = runs[i].departed /\ m.fulfilled
        /\ m.deadhead = runs[i].deadhead
    BY <1>1 DEF Run
  <2> HIDE DEF m
  <2> QED BY <1>2, <1>3, <2>1, <2>2
<1>6. CASE MarkDeadhead(i) /\ (runs[i].fulfilled \/ runs[i].transferred)
  <2> DEFINE m == [runs[i] EXCEPT !.deadhead = TRUE]
  <2>1. m \in Run /\ runs' = [runs EXCEPT ![i] = m]
    BY <1>1, <1>6 DEF Run, MarkDeadhead
  <2>2. /\ m.bol = runs[i].bol /\ m.unit = runs[i].unit /\ m.start = runs[i].start
        /\ m.end = runs[i].end /\ m.transferred = runs[i].transferred
        /\ m.departed = runs[i].departed /\ m.fulfilled = runs[i].fulfilled
    BY <1>1 DEF Run
  <2> HIDE DEF m
  <2> QED BY <1>3, <1>6, <2>1, <2>2
<1> QED BY <1>4, <1>5, <1>6

\* After a mark or not, the rows are where they were and no milestone is lost.
LEMMA Marked ==
  ASSUME TypeOK, NEW i \in RunIds,
         MarkDeparted(i) \/ MarkFulfilled(i) \/ UNCHANGED runVars
  PROVE  /\ RunIds' = RunIds
         /\ \A j \in RunIds : /\ runs'[j].bol = runs[j].bol
                              /\ runs'[j].unit = runs[j].unit
                              /\ runs[j].departed => runs'[j].departed
                              /\ runs[j].fulfilled => runs'[j].fulfilled
         /\ MarkDeparted(i) => runs'[i].departed
         /\ MarkFulfilled(i) => runs'[i].fulfilled
<1> DEFINE dep == [runs[i] EXCEPT !.departed = TRUE]
           ful == [runs[i] EXCEPT !.fulfilled = TRUE]
<1>1. runs[i] \in Run /\ runs \in Seq(Run)
  BY RunFields DEF TypeOK
<1>2. /\ dep \in Run /\ dep.bol = runs[i].bol /\ dep.unit = runs[i].unit
      /\ dep.departed /\ dep.fulfilled = runs[i].fulfilled
      /\ ful \in Run /\ ful.bol = runs[i].bol /\ ful.unit = runs[i].unit
      /\ ful.departed = runs[i].departed /\ ful.fulfilled
  BY <1>1 DEF Run
<1>3. CASE MarkDeparted(i)
  <2>1. runs' = [runs EXCEPT ![i] = dep]
    BY <1>3 DEF MarkDeparted
  <2> HIDE DEF dep, ful
  <2>2. Len(runs') = Len(runs) /\ runs'[i] = dep
        /\ \A j \in RunIds : j # i => runs'[j] = runs[j]
    BY <1>1, <1>2, <2>1, SeqUpdate DEF RunIds
  <2>3. MarkFulfilled(i) => runs' = [runs EXCEPT ![i] = ful]
    BY DEF MarkFulfilled, ful
  <2>4. MarkFulfilled(i) => runs'[i] = ful
    BY <1>1, <1>2, <2>3, SeqUpdate DEF RunIds
  <2> QED BY <1>2, <2>2, <2>4 DEF RunIds
<1>4. CASE MarkFulfilled(i)
  <2>1. runs' = [runs EXCEPT ![i] = ful]
    BY <1>4 DEF MarkFulfilled
  <2>2. MarkDeparted(i) => runs' = [runs EXCEPT ![i] = dep]
    BY DEF MarkDeparted
  <2> HIDE DEF dep, ful
  <2>3. Len(runs') = Len(runs) /\ runs'[i] = ful
        /\ \A j \in RunIds : j # i => runs'[j] = runs[j]
    BY <1>1, <1>2, <2>1, SeqUpdate DEF RunIds
  <2>4. MarkDeparted(i) => runs'[i] = dep
    BY <1>1, <1>2, <2>2, SeqUpdate DEF RunIds
  <2> QED BY <1>2, <2>3, <2>4 DEF RunIds
<1>5. CASE UNCHANGED runVars /\ ~MarkDeparted(i) /\ ~MarkFulfilled(i)
  BY <1>5 DEF RunIds, runVars
<1> QED BY <1>3, <1>4, <1>5

LEMMA RoadSteps ==
  ASSUME IInv, NEW r \in Req, RoadContinue(r)
  PROVE  IInv'
<1> DEFINE i == req[r].row
<1>1. TypeOK /\ HandlerOK(r) /\ req[r] \in Local
  BY DEF IInv, HandlersOK, TypeOK
<1>2. req[r].pc \in RoadPcs
  BY DEF RoadContinue, DepartMark, DepartSubmit, FulfillMark, FulfillStatus,
         FulfillPairing, FulfillRelease, FulfillWindow, DeadheadMark, At, RoadPcs
<1>3. i \in RunIds /\ \A l : Unwatched(r, l)
  BY <1>1, <1>2 DEF HandlerOK, RoadHandlerOK, Unwatched, KeepsLoad, RoadPcs
<1>4. /\ runs[i].bol \in Bol /\ runs[i].unit \in Unit
      /\ req[r].pc # "deadhead.mark" => req[r].bol = runs[i].bol
      /\ req[r].pc \notin {"depart.mark", "depart.submit", "deadhead.mark"} =>
           req[r].unit = runs[i].unit
  BY <1>1, <1>2, <1>3, RunFields DEF HandlerOK, RoadHandlerOK
<1>5. Finish(r) => Moves(r, Idle) /\ HandlerOK(r)'
  BY <1>1, Finished
<1>6. ASSUME NEW pc \in RoadPcs, Goto(r, pc)
      PROVE  LET l == [req[r] EXCEPT !.pc = pc] IN
               /\ Moves(r, l) /\ req'[r] = l /\ l.pc = pc /\ l.row = i
               /\ l.bol = req[r].bol /\ l.unit = req[r].unit
  <2>1. [req[r] EXCEPT !.pc = pc] \in Local
    BY <1>1 DEF Local
  <2> QED BY <1>1, <1>6, <2>1, Gone DEF Local
<1>7. CASE DepartMark(r)
  <2> DEFINE l == [req[r] EXCEPT !.pc = "depart.submit"]
  <2>1. /\ req[r].pc = "depart.mark" /\ MarkDeparted(i) /\ Goto(r, "depart.submit")
        /\ UNCHANGED <<planVars, fleetVars, paired>>
    BY <1>7 DEF DepartMark, At, MarkDeparted
  <2>2. /\ Moves(r, l) /\ req'[r] = l /\ l.pc = "depart.submit" /\ l.row = i
        /\ l.bol = req[r].bol
    BY <1>6, <2>1 DEF RoadPcs
  <2>3. i \in RunIds' /\ runs'[i].bol = runs[i].bol /\ runs'[i].departed
    BY <1>1, <1>3, <2>1, Marked
  <2> HIDE DEF l
  <2>4. HandlerOK(r)'
    BY <1>4, <2>1, <2>2, <2>3, RoadPlace DEF RoadPcs, RoadHandlerOK
  <2> QED BY <1>3, <2>1, <2>2, <2>4, MarkStep
<1>8. CASE DepartSubmit(r)
  <2>1. /\ req[r].pc = "depart.submit" /\ SetBolStatus(req[r].bol, "submitted")
        /\ Finish(r) /\ UNCHANGED <<fleetVars, runVars>>
    BY <1>8 DEF DepartSubmit, At
  <2>2. req[r].bol = runs[i].bol /\ runs[i].departed
    BY <1>1, <1>4, <2>1 DEF HandlerOK, RoadHandlerOK
  <2>3. Committed(req[r].bol)
    BY <1>3, <1>4, <2>2 DEF IInv, BillBeforeTruck
  <2> QED BY <1>3, <1>4, <1>5, <2>1, <2>2, <2>3, StatusStep DEF BolStatuses
<1>9. CASE FulfillMark(r)
  <2> DEFINE l == [req[r] EXCEPT !.pc = "fulfill.status"]
  <2>1. /\ req[r].pc = "fulfill.mark" /\ MarkFulfilled(i) /\ Goto(r, "fulfill.status")
        /\ UNCHANGED <<planVars, fleetVars, paired>>
    BY <1>9 DEF FulfillMark, At, MarkFulfilled
  <2>2. /\ Moves(r, l) /\ req'[r] = l /\ l.pc = "fulfill.status" /\ l.row = i
        /\ l.bol = req[r].bol /\ l.unit = req[r].unit
    BY <1>6, <2>1 DEF RoadPcs
  <2>3. /\ i \in RunIds' /\ runs'[i].bol = runs[i].bol /\ runs'[i].unit = runs[i].unit
        /\ runs'[i].fulfilled
    BY <1>1, <1>3, <2>1, Marked
  <2> HIDE DEF l
  <2>4. HandlerOK(r)'
    BY <1>4, <2>1, <2>2, <2>3, RoadPlace DEF RoadPcs, RoadHandlerOK
  <2> QED BY <1>3, <2>1, <2>2, <2>4, MarkStep
\* The places after the mark only move on.
<1>10. ASSUME req[r].pc \in {"fulfill.status", "fulfill.pairing"},
              NEW pc \in {"fulfill.pairing", "fulfill.release", "fulfill.window"},
              Goto(r, pc), UNCHANGED runs
       PROVE  HandlerOK(r)'
  <2>1. /\ req'[r].pc = pc /\ req'[r].row = i /\ req'[r].bol = runs[i].bol
        /\ req'[r].unit = runs[i].unit
    BY <1>4, <1>6, <1>10 DEF RoadPcs
  <2>2. runs[i].fulfilled
    BY <1>1, <1>10 DEF HandlerOK, RoadHandlerOK
  <2> QED BY <1>3, <1>10, <2>1, <2>2, RoadPlace DEF RoadPcs, RoadHandlerOK, RunIds
<1>11. CASE FulfillStatus(r)
  <2>1. /\ req[r].pc = "fulfill.status" /\ SetBolStatus(req[r].bol, "fulfilled")
        /\ Goto(r, "fulfill.pairing") /\ UNCHANGED <<fleetVars, runVars>>
    BY <1>11 DEF FulfillStatus, At
  <2>2. HandlerOK(r)' /\ Moves(r, [req[r] EXCEPT !.pc = "fulfill.pairing"])
    BY <1>6, <1>10, <2>1 DEF RoadPcs, runVars
  <2> QED BY <1>3, <1>4, <2>1, <2>2, StatusStep DEF BolStatuses
<1>12. CASE FulfillPairing(r)
  <2>1. /\ req[r].pc = "fulfill.pairing" /\ UNCHANGED <<planVars, fleetVars, runVars>>
        /\ Goto(r, "fulfill.release") \/ Goto(r, "fulfill.window")
    BY <1>12 DEF FulfillPairing, At
  <2>2. ASSUME NEW pc \in {"fulfill.release", "fulfill.window"}, Goto(r, pc)
        PROVE  IInv'
    <3>1. HandlerOK(r)' /\ Moves(r, [req[r] EXCEPT !.pc = pc])
      BY <1>6, <1>10, <2>1, <2>2 DEF RoadPcs, runVars
    <3> QED BY <1>3, <2>1, <3>1, ReadStep
  <2> QED BY <2>1, <2>2
<1>13. CASE FulfillRelease(r)
  BY <1>3, <1>4, <1>5, <1>13, UnitStep DEF FulfillRelease, At, UnitStatuses
<1>14. CASE FulfillWindow(r)
  <2>1. /\ req[r].pc = "fulfill.window" /\ Finish(r) /\ UNCHANGED <<planVars, runVars>>
        /\ window' = [window EXCEPT ![req[r].unit] = "running"]
        /\ UNCHANGED <<unitStatus, maint, brk>>
    BY <1>14 DEF FulfillWindow, At, SetEmptyReturnUntil
  <2>2. runs[i].fulfilled /\ runs[i].unit = req[r].unit
    BY <1>1, <1>4, <2>1 DEF HandlerOK, RoadHandlerOK
  <2>3. FleetTypeOK'
    BY <1>1, <2>1 DEF TypeOK, FleetTypeOK
  <2>4. WindowMeansFulfilled'
    BY <1>1, <1>3, <2>1, <2>2 DEF IInv, TypeOK, FleetTypeOK, WindowMeansFulfilled,
                                  RunIds, runVars
  <2>5. AssignedMeansRun' /\ OutOfServiceHasRecord'
    BY <2>1 DEF IInv, AssignedMeansRun, HasRun, OutOfServiceHasRecord, RunIds, runVars
  <2>6. \A u \in Unit : Len(maint[u]) <= Len(maint'[u]) /\ Len(brk[u]) <= Len(brk'[u])
    BY <1>1, <2>1 DEF TypeOK, FleetTypeOK
  <2> QED BY <1>3, <1>5, <2>1, <2>3, <2>4, <2>5, <2>6, FleetStep
<1>15. CASE DeadheadMark(r)
  <2>1. /\ req[r].pc = "deadhead.mark" /\ MarkDeadhead(i) /\ Finish(r)
        /\ UNCHANGED <<planVars, fleetVars, paired>>
    BY <1>15 DEF DeadheadMark, At, MarkDeadhead
  <2>2. runs[i].fulfilled \/ runs[i].transferred
    BY <1>1, <2>1 DEF HandlerOK, RoadHandlerOK
  <2> QED BY <1>3, <1>5, <2>1, <2>2, MarkStep
<1> QED BY <1>7, <1>8, <1>9, <1>11, <1>12, <1>13, <1>14, <1>15 DEF RoadContinue

\* A Transfer that goes on, before the outgoing segment is closed, with what it
\* holds; the tables its places speak of are where they were, or a stop longer.
LEMMA TransferMoves ==
  ASSUME IInv, NEW r \in Req, NEW l \in Local, Hold(r, l),
         UNCHANGED <<tx, bills, runs>>,
         req[r].pc \in TransferPcs \ {"transfer.close", "transfer.release",
                                      "transfer.insert", "transfer.assign"},
         l.pc \in TransferPcs \ {"transfer.release", "transfer.insert",
                                 "transfer.assign"},
         l.bol = req[r].bol, l.unit = req[r].unit, l.driver = req[r].driver,
         l.pc # "transfer.current" =>
           l.row \in RunIds /\ runs[l.row].bol = l.bol /\ runs[l.row].departed,
         l.pc = "transfer.close" => l.stop \in 1..Len(stops'[l.bol])
  PROVE  Moves(r, l) /\ Unwatched(r, l) /\ HandlerOK(r)'
<1>1. TypeOK /\ HandlerOK(r)
  BY DEF IInv, HandlersOK
<1>2. Moves(r, l) /\ req'[r] = l
  BY <1>1, Held
<1>3. Unwatched(r, l)
  BY DEF Unwatched, KeepsLoad, TransferPcs
<1>4. l.bol \in Bol /\ l.unit \in Unit /\ l.driver \in Driver /\ Committed(l.bol)
  BY <1>1 DEF HandlerOK, CreateHandlerOK, TransferPcs
<1>5. CreateHandlerOK(req[r])'
  BY <1>2, <1>4 DEF CreateHandlerOK, Committed, TransferPcs
<1>6. TransferHandlerOK(req[r])'
  BY <1>2 DEF TransferHandlerOK, RunIds
<1> QED BY <1>2, <1>3, <1>5, <1>6, TransferPlace

LEMMA TransferApproachSteps ==
  ASSUME IInv, NEW r \in Req,
         TransferCurrent(r) \/ TransferCheckUnit(r) \/ TransferReconcile(r)
           \/ TransferHos(r) \/ TransferStop(r)
  PROVE  IInv'
<1>1. TypeOK /\ HandlerOK(r) /\ req[r] \in Local /\ Len(runs) \in Nat
  BY DEF IInv, HandlersOK, TypeOK
<1>2. req[r].pc \in {"transfer.current", "transfer.unit", "transfer.reconcile",
                     "transfer.hos", "transfer.stop"}
  BY DEF TransferCurrent, TransferCheckUnit, CheckUnit, TransferReconcile, Reconcile,
         TransferHos, TransferStop, At
<1>3. req[r].bol \in Bol /\ req[r].unit \in Unit
  BY <1>1, <1>2 DEF HandlerOK, CreateHandlerOK, TransferPcs
<1>4. req[r].pc # "transfer.current" =>
        /\ req[r].row \in RunIds
        /\ runs[req[r].row].bol = req[r].bol /\ runs[req[r].row].departed
  BY <1>1, <1>2 DEF HandlerOK, TransferHandlerOK
<1>5. ASSUME NEW pc \in {"transfer.reconcile", "transfer.hos"}, Goto(r, pc),
             req[r].pc \in {"transfer.unit", "transfer.reconcile"},
             UNCHANGED <<planVars, runVars>>
      PROVE  LET l == [req[r] EXCEPT !.pc = pc] IN
               Moves(r, l) /\ Unwatched(r, l) /\ HandlerOK(r)'
  <2> DEFINE l == [req[r] EXCEPT !.pc = pc]
  <2>1. /\ l \in Local /\ l.pc = pc /\ l.bol = req[r].bol /\ l.unit = req[r].unit
        /\ l.driver = req[r].driver /\ l.row = req[r].row
    BY <1>1 DEF Local, TransferPcs
  <2>2. Hold(r, l)
    BY <1>5 DEF Goto
  <2> HIDE DEF l
  <2>3. Moves(r, l) /\ Unwatched(r, l) /\ HandlerOK(r)'
    BY <1>4, <1>5, <2>1, <2>2, TransferMoves DEF TransferPcs, planVars, runVars
  <2> QED BY <2>3 DEF l
<1>6. CASE TransferCurrent(r)
  <2>1. /\ req[r].pc = "transfer.current" /\ UNCHANGED <<planVars, fleetVars, runVars>>
    BY <1>6 DEF TransferCurrent, At
  <2>2. PICK i \in GetByPlanBOL(req[r].bol) :
          /\ runs[i].departed
          /\ Hold(r, [req[r] EXCEPT !.pc = "transfer.unit", !.row = i])
    BY <1>6 DEF TransferCurrent
  <2>3. i \in RunIds /\ i \in Nat /\ runs[i].bol = req[r].bol
    BY <2>2 DEF GetByPlanBOL, Latest, RunIds
  <2> DEFINE l == [req[r] EXCEPT !.pc = "transfer.unit", !.row = i]
  <2>4. /\ l \in Local /\ l.pc = "transfer.unit" /\ l.bol = req[r].bol
        /\ l.unit = req[r].unit /\ l.driver = req[r].driver /\ l.row = i
    BY <1>1, <2>3 DEF Local, TransferPcs
  <2>5. Hold(r, l)
    BY <2>2
  <2> HIDE DEF l
  <2>6. Moves(r, l) /\ Unwatched(r, l) /\ HandlerOK(r)'
    BY <2>1, <2>2, <2>3, <2>4, <2>5, TransferMoves DEF TransferPcs, planVars, runVars
  <2> QED BY <2>1, <2>6, ReadStep
<1>7. CASE TransferCheckUnit(r)
  <2>1. /\ req[r].pc = "transfer.unit" /\ UNCHANGED <<planVars, fleetVars, runVars>>
        /\ Goto(r, "transfer.reconcile") \/ Goto(r, "transfer.hos")
    BY <1>7 DEF TransferCheckUnit, CheckUnit, At
  <2>2. ASSUME NEW pc \in {"transfer.reconcile", "transfer.hos"}, Goto(r, pc) PROVE IInv'
    BY <1>5, <2>1, <2>2, ReadStep
  <2> QED BY <2>1, <2>2
<1>8. CASE TransferReconcile(r)
  <2>1. /\ req[r].pc = "transfer.reconcile" /\ UNCHANGED <<planVars, runVars>>
        /\ SetUnitStatus(req[r].unit, "available") /\ Goto(r, "transfer.hos")
    BY <1>8 DEF TransferReconcile, Reconcile, At
  <2> QED BY <1>3, <1>5, <2>1, UnitStep DEF UnitStatuses
<1>9. CASE TransferHos(r)
  <2> DEFINE l == [req[r] EXCEPT !.pc = "transfer.stop", !.seen = Len(runs)]
  <2>1. /\ req[r].pc = "transfer.hos" /\ UNCHANGED <<planVars, fleetVars, runVars>>
        /\ Hold(r, l)
    BY <1>9 DEF TransferHos, At
  <2>2. /\ l \in Local /\ l.pc = "transfer.stop" /\ l.bol = req[r].bol
        /\ l.unit = req[r].unit /\ l.driver = req[r].driver /\ l.row = req[r].row
    BY <1>1 DEF Local, TransferPcs
  <2> HIDE DEF l
  <2>3. Moves(r, l) /\ Unwatched(r, l) /\ HandlerOK(r)'
    BY <1>4, <2>1, <2>2, TransferMoves DEF TransferPcs, planVars, runVars
  <2> QED BY <2>1, <2>3, ReadStep
<1>10. CASE TransferStop(r)
  <2> DEFINE k == Len(stops[req[r].bol]) + 1
             l == [req[r] EXCEPT !.pc = "transfer.close", !.stop = k]
  <2>1. /\ req[r].pc = "transfer.stop" /\ UNCHANGED <<fleetVars, runVars>>
        /\ AppendStop(req[r].bol, "auto") /\ Hold(r, l)
    BY <1>10 DEF TransferStop, At
  <2>2. k \in Nat /\ k \in 1..Len(stops'[req[r].bol])
    BY <1>3, <2>1, Appended DEF StopStates
  <2> HIDE DEF k
  <2>3. /\ l \in Local /\ l.pc = "transfer.close" /\ l.bol = req[r].bol
        /\ l.unit = req[r].unit /\ l.driver = req[r].driver /\ l.row = req[r].row
        /\ l.stop = k
    BY <1>1, <2>2 DEF Local, TransferPcs
  <2> HIDE DEF l
  <2>4. UNCHANGED <<tx, bills, runs>>
    BY <2>1 DEF AppendStop, runVars
  <2>5. Moves(r, l) /\ Unwatched(r, l) /\ HandlerOK(r)'
    BY <1>4, <2>1, <2>2, <2>3, <2>4, TransferMoves DEF TransferPcs
  <2> QED BY <1>3, <2>1, <2>5, AppendStep
<1> QED BY <1>6, <1>7, <1>8, <1>9, <1>10

LEMMA TransferHandoffSteps ==
  ASSUME IInv, NEW r \in Req,
         TransferClose(r) \/ TransferRelease(r) \/ TransferInsert(r) \/ TransferAssign(r)
  PROVE  IInv'
<1> DEFINE i == req[r].row
<1>1. TypeOK /\ HandlerOK(r) /\ req[r] \in Local
  BY DEF IInv, HandlersOK, TypeOK
<1>2. req[r].pc \in {"transfer.close", "transfer.release", "transfer.insert",
                     "transfer.assign"}
  BY DEF TransferClose, TransferRelease, TransferInsert, TransferAssign, At
<1>3. req[r].unit \in Unit
  BY <1>1, <1>2 DEF HandlerOK, CreateHandlerOK, TransferPcs
<1>4. req[r].pc # "transfer.assign" =>
        /\ req[r].bol \in Bol /\ req[r].driver \in Driver /\ Committed(req[r].bol)
        /\ req[r].stop \in 1..Len(stops[req[r].bol])
  BY <1>1, <1>2 DEF HandlerOK, CreateHandlerOK, TransferHandlerOK, TransferPcs
<1>5. CASE TransferClose(r)
  <2> DEFINE l == [req[r] EXCEPT !.pc = "transfer.release"]
             m == [runs[i] EXCEPT !.transferred = TRUE, !.end = req[r].stop]
  <2>1. /\ req[r].pc = "transfer.close" /\ Goto(r, "transfer.release")
        /\ UNCHANGED <<planVars, fleetVars, paired>>
        /\ runs' = [runs EXCEPT ![i].transferred = TRUE, ![i].end = req[r].stop]
    BY <1>5 DEF TransferClose, At, InitiateTransfer
  <2>2. i \in RunIds /\ runs[i].bol = req[r].bol /\ runs[i].departed
    BY <1>1, <2>1 DEF HandlerOK, TransferHandlerOK
  <2>3. runs[i] \in Run
    BY <1>1, <2>2, RunFields
  <2>4. req[r].stop \in Nat
    BY <1>1 DEF Local
  <2>5. /\ m \in Run /\ m.bol = runs[i].bol /\ m.unit = runs[i].unit
        /\ m.start = runs[i].start /\ m.departed = runs[i].departed
        /\ m.fulfilled = runs[i].fulfilled /\ m.transferred /\ m.end = req[r].stop
    BY <2>3, <2>4 DEF Run
  <2>6. runs' = [runs EXCEPT ![i] = m]
    BY <1>1, <2>1, <2>2 DEF TypeOK, RunIds
  <2>7. [req[r] EXCEPT !.pc = "transfer.release"] \in Local
    BY <1>1 DEF Local, TransferPcs
  <2>8. Moves(r, l) /\ req'[r] = l
    BY <1>1, <2>1, <2>7, Gone
  <2>9. /\ l.pc = "transfer.release" /\ l.bol = req[r].bol /\ l.unit = req[r].unit
        /\ l.driver = req[r].driver /\ l.row = i /\ l.stop = req[r].stop
    BY <1>1 DEF Local
  <2> HIDE DEF l, m
  <2>10. /\ runs'[i] = m /\ i \in RunIds'
    BY <1>1, <2>2, <2>5, <2>6, SeqUpdate DEF TypeOK, RunIds
  <2>11. CreateHandlerOK(req[r])'
    BY <1>3, <1>4, <2>1, <2>8, <2>9 DEF CreateHandlerOK, Committed, TransferPcs, planVars
  <2>12. TransferHandlerOK(req[r])'
    BY <1>4, <2>1, <2>2, <2>5, <2>8, <2>9, <2>10 DEF TransferHandlerOK, planVars
  <2>13. HandlerOK(r)'
    BY <2>8, <2>9, <2>11, <2>12, TransferPlace DEF TransferPcs
  <2>14. Unwatched(r, l)
    BY <2>1 DEF Unwatched, KeepsLoad
  <2>15. m.deadhead => m.fulfilled \/ m.transferred
    BY <2>5
  <2>16. /\ m.departed /\ m.end \in 1..Len(stops[m.bol])
         /\ l.pc = "transfer.release" /\ l.bol = m.bol
    BY <1>4, <2>1, <2>2, <2>5, <2>9
  <2>17. /\ runs[i].departed => m.departed
         /\ runs[i].fulfilled => m.fulfilled
         /\ runs[i].transferred => m.transferred
         /\ i \in RunIds /\ m \in Run
         /\ m.bol = runs[i].bol /\ m.unit = runs[i].unit /\ m.start = runs[i].start
    BY <2>2, <2>5
  <2> HIDE DEF i
  <2>18. UNCHANGED <<planVars, fleetVars, paired>>
    BY <2>1
  <2>19. Moves(r, l)
    BY <2>8
  <2> QED BY <2>6, <2>13, <2>14, <2>15, <2>16, <2>17, <2>18, <2>19, UpdateStep
<1>6. CASE TransferRelease(r)
  <2> DEFINE l == [req[r] EXCEPT !.pc = "transfer.insert", !.row = 0]
  <2>1. /\ req[r].pc = "transfer.release" /\ UNCHANGED <<planVars, runVars>>
        /\ SetUnitStatus(runs[i].unit, "available") /\ Hold(r, l)
    BY <1>6 DEF TransferRelease, At
  <2>2. runs[i].unit \in Unit
    BY <1>1, <2>1, RunFields DEF HandlerOK, TransferHandlerOK
  <2>3. \E j \in RunIds : runs[j].bol = req[r].bol /\ runs[j].transferred
    BY <1>1, <2>1 DEF HandlerOK, TransferHandlerOK
  <2>4. /\ l \in Local /\ l.pc = "transfer.insert" /\ l.bol = req[r].bol
        /\ l.unit = req[r].unit /\ l.driver = req[r].driver /\ l.stop = req[r].stop
    BY <1>1 DEF Local, TransferPcs
  <2> HIDE DEF l
  <2>5. Moves(r, l) /\ req'[r] = l
    BY <1>1, <2>1, <2>4, Held
  <2>6. CreateHandlerOK(req[r])'
    BY <1>3, <1>4, <2>1, <2>4, <2>5 DEF CreateHandlerOK, Committed, TransferPcs, planVars
  <2>7. TransferHandlerOK(req[r])'
    BY <1>4, <2>1, <2>3, <2>4, <2>5 DEF TransferHandlerOK, RunIds, planVars, runVars
  <2>8. HandlerOK(r)'
    BY <2>4, <2>5, <2>6, <2>7, TransferPlace DEF TransferPcs
  <2>9. Unwatched(r, l)
    BY <2>1, <2>4 DEF Unwatched, KeepsLoad
  <2> QED BY <2>1, <2>2, <2>5, <2>8, <2>9, UnitStep DEF UnitStatuses
<1>7. CASE TransferInsert(r)
  <2> DEFINE m == [bol |-> req[r].bol, driver |-> req[r].driver, unit |-> req[r].unit,
                   departed |-> TRUE, fulfilled |-> FALSE, transferred |-> FALSE,
                   deadhead |-> FALSE, start |-> req[r].stop, end |-> 0,
                   seen |-> req[r].seen]
             l == [Idle EXCEPT !.pc = "transfer.assign", !.unit = req[r].unit]
  <2>1. /\ req[r].pc = "transfer.insert" /\ UNCHANGED <<planVars, fleetVars>>
        /\ InsertRun(m) /\ Hold(r, l)
    BY <1>7 DEF TransferInsert, At
  <2>2. \E j \in RunIds : runs[j].bol = req[r].bol /\ runs[j].transferred
    BY <1>1, <2>1 DEF HandlerOK, TransferHandlerOK
  <2>3. m \in Run
    BY <1>1, <1>3, <1>4, <2>1 DEF Run, Local
  <2>4. /\ m.bol = req[r].bol /\ m.unit = req[r].unit /\ m.departed
        /\ ~m.transferred /\ ~m.deadhead /\ m.start = req[r].stop
    OBVIOUS
  <2>5. l \in Local /\ l.pc = "transfer.assign" /\ l.unit = req[r].unit
    BY <1>3 DEF Idle, Local, TransferPcs
  <2> HIDE DEF l, m
  <2>6. Moves(r, l) /\ req'[r] = l
    BY <1>1, <2>1, <2>5, Held
  <2>7. \E j \in RunIds' : runs'[j].unit = m.unit
    BY <1>1, <2>1, <2>3, InsertedRun
  <2>8. HandlerOK(r)'
    <3>1. \E j \in RunIds' : runs'[j].unit = req'[r].unit
      BY <2>4, <2>5, <2>6, <2>7
    <3>2. CreateHandlerOK(req[r])'
      BY <1>3, <2>5, <2>6, <3>1 DEF CreatePcs, TransferPcs, CreateHandlerOK, HasRun
    <3>3. TransferHandlerOK(req[r])'
      BY <2>5, <2>6 DEF TransferHandlerOK
    <3> QED BY <2>5, <2>6, <3>2, <3>3, TransferPlace DEF TransferPcs
  <2>9. /\ Committed(m.bol) /\ m.start \in 1..Len(stops[m.bol])
        /\ \E j \in RunIds : runs[j].bol = m.bol /\ runs[j].transferred
    BY <1>4, <2>1, <2>2, <2>4
  <2> QED BY <2>1, <2>3, <2>4, <2>6, <2>8, <2>9, InsertStep
<1>8. CASE TransferAssign(r)
  <2>1. /\ req[r].pc = "transfer.assign" /\ UNCHANGED <<planVars, runVars>>
        /\ SetUnitStatus(req[r].unit, "assigned") /\ Finish(r)
    BY <1>8 DEF TransferAssign, At
  <2>2. HasRun(req[r].unit)
    BY <1>1, <2>1 DEF HandlerOK, CreateHandlerOK
  <2>3. Moves(r, Idle) /\ HandlerOK(r)' /\ Unwatched(r, Idle)
    BY <1>1, <2>1, Finished DEF Unwatched, KeepsLoad
  <2> QED BY <1>3, <2>1, <2>2, <2>3, UnitStep DEF UnitStatuses
<1> QED BY <1>5, <1>6, <1>7, <1>8

LEMMA LogSteps ==
  ASSUME IInv, NEW r \in Req, LogContinue(r)
  PROVE  IInv'
<1>1. TypeOK /\ PlanTypeOK /\ HandlerOK(r) /\ req[r] \in Local
  BY DEF IInv, HandlersOK, TypeOK
<1>2. req[r].pc \in LogPcs
  BY DEF LogContinue, LogCheck, LogFind, LogFulfill, LogStatus, At, LogPcs
<1>3. req[r].bol \in Bol /\ req[r].driver \in Driver
  BY <1>1, <1>2 DEF HandlerOK, LogHandlerOK
<1>4. \A l : KeepsLoad(r, l)
  BY <1>2 DEF KeepsLoad, LogPcs
<1>5. Finish(r) => Moves(r, Idle) /\ HandlerOK(r)'
  BY <1>1, Finished
<1>6. CASE LogCheck(r)
  <2> DEFINE b == req[r].bol
  <2>1. /\ req[r].pc = "log.check"
        /\ UNCHANGED <<bolStatus, tx, bills, stops, fleetVars, runVars>>
    BY <1>6 DEF LogCheck, At
  <2>2. /\ \A c \in Bol : bills[c] \in Nat /\ Len(stops[c]) \in Nat
        /\ noticed \subseteq Bol
    BY <1>1 DEF PlanTypeOK
\* Whoever was about to look still is, but r, whose BOL is noticed or not done.
  <2>3. ASSUME NEW l, Moves(r, l), noticed \subseteq noticed', HandlerOK(r)',
               noticed' \subseteq Bol, b \in noticed' \/ ~AllProcessed(b)
        PROVE  IInv'
    <3>1. PlanTypeOK'
      BY <1>1, <2>1, <2>3 DEF PlanTypeOK
    <3>2. LastStopNoticed'
      <4>1. ASSUME NEW c \in Bol, c # b, InFlight(c, {"log.check"})
            PROVE  InFlight(c, {"log.check"})'
        BY <1>1, <2>3, <4>1 DEF InFlight, Moves, TypeOK
      <4> QED BY <2>1, <2>3, <4>1 DEF IInv, LastStopNoticed, AllProcessed, Moves
    <3> QED BY <1>4, <2>1, <2>2, <2>3, <3>1, <3>2, PlanTableStep
  <2>4. CASE AllProcessed(b)
    <3> DEFINE l == [req[r] EXCEPT !.pc = "log.find"]
    <3>1. Goto(r, "log.find") /\ noticed' = noticed \cup {b}
      BY <1>6, <2>4 DEF LogCheck
    <3>2. l \in Local /\ l.pc = "log.find" /\ l.bol = b /\ l.driver = req[r].driver
      BY <1>1 DEF Local, LogPcs
    <3>3. Moves(r, l) /\ req'[r] = l
      BY <1>1, <3>1, <3>2, Gone
    <3> HIDE DEF l
    <3>4. HandlerOK(r)'
      BY <1>3, <3>2, <3>3, LogPlace DEF LogPcs, LogHandlerOK
    <3> QED BY <1>3, <2>2, <2>3, <3>1, <3>3, <3>4
  <2>5. CASE ~AllProcessed(b)
    BY <1>5, <1>6, <2>2, <2>3, <2>5 DEF LogCheck
  <2> QED BY <2>4, <2>5
<1>7. CASE LogFind(r)
  <2>1. /\ req[r].pc = "log.find" /\ UNCHANGED <<planVars, fleetVars, runVars>>
    BY <1>7 DEF LogFind, At
  <2>2. \A l : Unwatched(r, l)
    BY <1>4, <2>1 DEF Unwatched
  <2>3. CASE Finish(r)
    BY <1>5, <2>1, <2>2, <2>3, ReadStep
  <2>4. ASSUME NEW i \in RunIds,
               Hold(r, [req[r] EXCEPT !.pc = "log.fulfill", !.row = i])
        PROVE  IInv'
    <3> DEFINE l == [req[r] EXCEPT !.pc = "log.fulfill", !.row = i]
    <3>0. i \in Nat
      BY DEF RunIds
    <3>1. /\ l \in Local /\ l.pc = "log.fulfill" /\ l.bol = req[r].bol
          /\ l.driver = req[r].driver /\ l.row = i
      BY <1>1, <3>0 DEF Local, LogPcs
    <3>2. Hold(r, l)
      BY <2>4
    <3> HIDE DEF l
    <3>3. Moves(r, l) /\ req'[r] = l
      BY <1>1, <3>1, <3>2, Held
    <3>4. HandlerOK(r)'
      BY <1>3, <2>1, <3>1, <3>3, LogPlace DEF LogPcs, LogHandlerOK, RunIds, runVars
    <3> QED BY <2>1, <2>2, <3>3, <3>4, ReadStep
  <2>5. GetActiveByDriver(req[r].driver) \subseteq RunIds
    BY DEF GetActiveByDriver, Latest
  <2> QED BY <1>7, <2>3, <2>4, <2>5 DEF LogFind
<1>8. CASE LogFulfill(r)
  <2> DEFINE l == [req[r] EXCEPT !.pc = "log.status"]
  <2>1. /\ req[r].pc = "log.fulfill" /\ UNCHANGED <<planVars, fleetVars, paired>>
        /\ Goto(r, "log.status")
        /\ MarkFulfilled(req[r].row) \/ UNCHANGED runVars
    BY <1>8 DEF LogFulfill, At, MarkFulfilled, runVars
  <2>2. req[r].row \in RunIds
    BY <1>1, <2>1 DEF HandlerOK, LogHandlerOK
  <2>3. /\ l \in Local /\ l.pc = "log.status" /\ l.bol = req[r].bol
        /\ l.driver = req[r].driver /\ l.row = req[r].row
    BY <1>1 DEF Local, LogPcs
  <2>4. Moves(r, l) /\ req'[r] = l
    BY <1>1, <2>1, <2>3, Gone
  <2>5. RunIds' = RunIds
    BY <1>1, <2>1, <2>2, Marked
  <2> HIDE DEF l
  <2>6. HandlerOK(r)'
    BY <1>3, <2>2, <2>3, <2>4, <2>5, LogPlace DEF LogPcs, LogHandlerOK
  <2>7. Unwatched(r, l)
    BY <1>4, <2>1 DEF Unwatched
  <2>8. CASE MarkFulfilled(req[r].row)
    BY <2>1, <2>2, <2>4, <2>6, <2>7, <2>8, MarkStep
  <2>9. CASE UNCHANGED runVars
    BY <2>1, <2>4, <2>6, <2>7, <2>9, ReadStep
  <2> QED BY <2>1, <2>8, <2>9
<1>9. CASE LogStatus(r)
  <2>1. /\ req[r].pc = "log.status" /\ SetBolStatus(req[r].bol, "fulfilled")
        /\ Finish(r) /\ UNCHANGED <<fleetVars, runVars>>
    BY <1>9 DEF LogStatus, At
  <2> QED BY <1>3, <1>4, <1>5, <2>1, StatusStep DEF BolStatuses, Unwatched
<1> QED BY <1>6, <1>7, <1>8, <1>9 DEF LogContinue

-----------------------------------------------------------------------------
(* The theorems *)

LEMMA InitIInv == Init => IInv
<1> SUFFICES ASSUME Init PROVE IInv
  OBVIOUS
<1> USE DEF Init
<1>1. req \in [Req -> Local]
  BY DEF Idle, Local
<1>2. /\ tx \in [Bol -> Nat] /\ bills = tx
      /\ \A b \in Bol : Start = "validated" => tx[b] = 1
      /\ bolStatus \in [Bol -> BolStatuses] /\ \A b \in Bol : bolStatus[b] = Start
  BY DispatchAssumption DEF BolStatuses
<1>3. stops \in [Bol -> Seq(StopStates)]
      /\ \A b \in Bol : \A k \in 1..Len(stops[b]) : stops[b][k] # "done"
  <2> DEFINE s == [k \in 1..RouteLength |-> IF k = 1 THEN "auto" ELSE "open"]
  <2>1. s \in Seq(StopStates) /\ Len(s) = RouteLength
        /\ \A k \in 1..Len(s) : s[k] # "done"
    BY PlanAssumption DEF StopStates
  <2>2. <<>> \in Seq(StopStates) /\ Len(<<>>) = 0
    OBVIOUS
  <2>3. stops = [b \in Bol |-> IF Start = "absent" THEN <<>> ELSE s]
    OBVIOUS
  <2> HIDE DEF s
  <2>4. CASE Start = "absent"
    BY <2>2, <2>3, <2>4
  <2>5. CASE Start # "absent"
    BY <2>1, <2>3, <2>5
  <2> QED BY <2>4, <2>5
<1>4. PlanTypeOK
  BY <1>2, <1>3 DEF PlanTypeOK
<1>5. FleetTypeOK
  BY DEF FleetTypeOK, UnitStatuses
<1>6. runs = <<>> /\ runs \in Seq(Run) /\ RunIds = {}
  BY DEF RunIds
<1>7. TypeOK
  BY <1>1, <1>4, <1>5, <1>6 DEF TypeOK
<1>8. HandlersOK
  BY DEF HandlersOK, Idle, HandlerOK, PlanHandlerOK, FleetHandlerOK, CreateHandlerOK,
         RoadHandlerOK, TransferHandlerOK, LogHandlerOK, PlanPcs, FleetPcs, CreatePcs,
         RoadPcs, TransferPcs, LogPcs
<1>9. BillBeforeTruck
  BY <1>2, <1>6, DispatchAssumption DEF BillBeforeTruck, Committed
<1>10. CustodyKept /\ MilestoneOrder /\ HandoffRecorded /\ AssignedMeansRun
  BY <1>2, <1>6, DispatchAssumption DEF CustodyKept, MilestoneOrder, HandoffRecorded,
                                        AssignedMeansRun
<1>11. WindowMeansFulfilled /\ OutOfServiceHasRecord
  BY DEF WindowMeansFulfilled, OutOfServiceHasRecord
<1>12. LastStopNoticed
  BY <1>3 DEF LastStopNoticed
<1> QED BY <1>7, <1>8, <1>9, <1>10, <1>11, <1>12 DEF IInv

LEMMA NextIInv == IInv /\ [Next]_vars => IInv'
<1> SUFFICES ASSUME IInv, [Next]_vars PROVE IInv'
  OBVIOUS
<1>1. ASSUME NEW r \in Req, RunBegin(r) \/ RunContinue(r) PROVE IInv'
  BY <1>1, RunBeginSteps, CreateSteps, RoadSteps, TransferApproachSteps,
     TransferHandoffSteps, LogSteps DEF RunContinue, TransferContinue
<1>2. CASE PlanNext /\ UNCHANGED <<fleetVars, runVars>>
  BY <1>2, PlanKeepsIInv
<1>3. CASE FleetNext /\ UNCHANGED <<planVars, runVars>>
  BY <1>3, FleetKeepsIInv
<1>4. ASSUME NEW b \in Bol, PairBol(b) \/ CancelPairing(b) PROVE IInv'
  <2>1. /\ UNCHANGED <<reqVars, planVars, unitStatus, maint, brk, runs, window>>
        /\ paired' \in [Bol -> BOOLEAN]
        /\ window' \in [Unit -> {"none", "running", "elapsed"}]
    BY <1>4 DEF IInv, TypeOK, FleetTypeOK, PairBol, CancelPairing, fleetVars
  <2> QED BY <2>1, StillStep
<1>5. ASSUME NEW r \in Req, Abort(r), UNCHANGED <<planVars, fleetVars, runVars>>
      PROVE  IInv'
  BY <1>5, AbortKeepsIInv
<1>6. CASE UNCHANGED vars
  <2>1. /\ UNCHANGED <<reqVars, planVars, unitStatus, maint, brk, runs, window>>
        /\ paired' \in [Bol -> BOOLEAN]
        /\ window' \in [Unit -> {"none", "running", "elapsed"}]
    BY <1>6 DEF IInv, TypeOK, FleetTypeOK, vars, fleetVars, runVars
  <2> QED BY <2>1, StillStep
<1> QED BY <1>1, <1>2, <1>3, <1>4, <1>5, <1>6 DEF Next

\* The invariant holds of every behaviour of the Go backend.
THEOREM Inductive == Spec => []IInv
BY InitIInv, NextIInv, PTL DEF Spec

\* Every row, record and handler keeps its type.
THEOREM TypeCorrect == Spec => []TypeOK
<1>1. IInv => TypeOK
  BY DEF IInv
<1> QED BY <1>1, Inductive, PTL

\* What a handler read and still relies on holds wherever the others are.
THEOREM HandlersCanRely == Spec => []HandlersOK
<1>1. IInv => HandlersOK
  BY DEF IInv
<1> QED BY <1>1, Inductive, PTL

\* No plan is loaded, on the road or assigned without its .NET BOL.
THEOREM NoTruckWithoutBill == Spec => []BillBeforeTruck
<1>1. IInv => BillBeforeTruck
  BY DEF IInv
<1> QED BY <1>1, Inductive, PTL

\* A submitted load has a custodian, or the Transfer that held it died.
THEOREM LoadNeverUnattended == Spec => []CustodyHeld
<1>1. IInv => CustodyHeld
  BY DEF IInv, CustodyKept, CustodyHeld
<1> QED BY <1>1, Inductive, PTL

\* Milestones are never out of order, whatever handlers race on a run.
THEOREM MilestonesInOrder == Spec => []MilestoneOrder
<1>1. IInv => MilestoneOrder
  BY DEF IInv
<1> QED BY <1>1, Inductive, PTL

\* The chain of custody is on record on both sides of every transfer.
THEOREM HandoffsOnRecord == Spec => []HandoffRecorded
<1>1. IInv => HandoffRecorded
  BY DEF IInv
<1> QED BY <1>1, Inductive, PTL

\* No run enters the empty-return window before its fulfilment is stored.
THEOREM WindowsOpenedByFulfilment == Spec => []WindowMeansFulfilled
<1>1. IInv => WindowMeansFulfilled
  BY DEF IInv
<1> QED BY <1>1, Inductive, PTL

\* A unit is never assigned without a run or a request that explains it.
THEOREM AssignmentsExplained == Spec => []AssignedMeansRun
<1>1. IInv => AssignedMeansRun
  BY DEF IInv
<1> QED BY <1>1, Inductive, PTL

\* A unit out of service has a record that says why.
THEOREM OutOfServiceExplained == Spec => []OutOfServiceHasRecord
<1>1. IInv => OutOfServiceHasRecord
  BY DEF IInv
<1> QED BY <1>1, Inductive, PTL

\* The last stop of a BOL is noticed by whoever logs it, unless that LogStop dies.
THEOREM LastStopSeen == Spec => []LastStopNoticed
<1>1. IInv => LastStopNoticed
  BY DEF IInv
<1> QED BY <1>1, Inductive, PTL
=============================================================================
