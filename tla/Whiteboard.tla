----------------------------- MODULE Whiteboard -----------------------------
(***************************************************************************)
(* The dispatch board: WhiteboardService.GetBoardState and the pages of    *)
(* whiteboard_handler.go.  The board is not stored: every request builds it*)
(* from a dozen queries, one after the other and in no transaction, while  *)
(* the handlers of Dispatch keep writing.  Cards hold copies of rows, so   *)
(* the finished page mixes what was true at different moments.             *)
(*                                                                         *)
(* One page is enough: a reader writes nothing, so pages do not influence  *)
(* each other.  Left out: the equipment column, the hours-of-service       *)
(* colours (module DriverCards) and the alerts derived from the cards.     *)
(***************************************************************************)
EXTENDS Dispatch

VARIABLES
  step,          \* the query the page waits for; "idle" when none is built
  board,         \* the cards so far
  due            \* history: BOLs that the finished page has to show

boardVars == <<step, board, due>>

\* Mutant: the loaded plans are read before the loading ones.
ColumnsSwapped == <<"draft", "plan-progress", "validated", "loading">>

\* The statuses of the pipeline columns, in the order they are read.
Columns == <<"draft", "plan-progress", "loading", "validated">>

DockStatuses == {"draft", "plan-progress", "loading", "validated"}

Steps == {"idle", "pairings", "drivers", "done"} \cup DockStatuses

\* road: BOL and driver of the In Delivery cards; delivered: Delivered cards;
\* home: drivers on Empty Return cards; ask: BOL and driver of the fulfilled runs
\* whose pairing is not looked up yet; overlay: the driver assigned and not
\* departed; busy: activeDriverIDs; column: the BOLs read in each status; pool:
\* drivers of the Available column.
Board == [road: SUBSET (Bol \X Driver), delivered: SUBSET Bol, home: SUBSET Driver,
          ask: SUBSET (Bol \X Driver), overlay: [Bol -> Driver \cup {None}],
          busy: SUBSET Driver, column: [DockStatuses -> SUBSET Bol],
          pool: SUBSET Driver]

Blank == [road |-> {}, delivered |-> {}, home |-> {}, ask |-> {},
          overlay |-> [b \in Bol |-> None], busy |-> {},
          column |-> [s \in DockStatuses |-> {}], pool |-> {}]

BoardInit == Init /\ step = "idle" /\ board = Blank /\ due = {}

-----------------------------------------------------------------------------
(* The plans a page has to show *)

OnDock(b) == bolStatus[b] \in DockStatuses

\* A Transfer of b is between closing one segment and opening the next, or died
\* there.
InHandover(b) ==
  \/ InFlight(b, {"transfer.release", "transfer.insert"})
  \/ {<<"transfer.release", b>>, <<"transfer.insert", b>>} \cap died # {}

\* A run that has b is confirmed home: archived, not shown.
Archived(b) ==
  \E i \in RunIds : runs[i].bol = b /\ ~runs[i].transferred /\ runs[i].deadhead

OnRoad(b) == bolStatus[b] = "submitted" /\ ~InHandover(b) /\ ~Archived(b)

\* How far along the columns a status, or the page being built, is.
Rank(s) ==
  CASE s = "draft" -> 1 [] s = "plan-progress" -> 2 [] s = "loading" -> 3
    [] s = "validated" -> 4 [] s \in {"drivers", "done"} -> 5 [] OTHER -> 0

\* While a page is built, a plan on the dock is no longer due when it departs,
\* or when a slow claim pulls it back, maybe to a column already read.
Ahead(b) ==
  OnDock(b) => /\ bolStatus'[b] \in DockStatuses
               /\ Rank(bolStatus[b]) <= Rank(bolStatus'[b])

-----------------------------------------------------------------------------
(* GetBoardState *)

\* GetAllActive: one statement, so the rows of one moment.
Active == {i \in RunIds : ~runs[i].deadhead}

\* assignedBOLs: the rows come in order of assigned_at and a later one replaces
\* an earlier one; a departed run is no overlay.
Overlays(b) ==
  LET owner == Latest({i \in Active : runs[i].bol = b /\ ~runs[i].transferred}) IN
    IF owner = {} THEN {None}
    ELSE {IF runs[i].departed THEN None ELSE runs[i].driver : i \in owner}

\* Mutant: the busy rows, not their drivers.
BusyRows == Active

\* Mutant: a driver is busy only once departed.
BusyDeparted == {runs[i].driver : i \in {j \in Active : runs[j].departed}}

Busy == {runs[i].driver : i \in Active}

BolAndDriver(S) == {<<runs[i].bol, runs[i].driver>> : i \in S}

\* A row not departed is only an overlay; a transferred one sends its driver
\* home; any other is In Delivery until it is fulfilled.
ReadRuns ==
  LET gone == {i \in Active : runs[i].departed}
      held == {i \in gone : ~runs[i].transferred}
      done == {i \in held : runs[i].fulfilled} IN
    /\ step = "idle"
    /\ \E overlay \in [Bol -> Driver \cup {None}] :
         /\ \A b \in Bol : overlay[b] \in Overlays(b)
         /\ board' = [Blank EXCEPT !.road = BolAndDriver(held \ done),
                                   !.delivered = {runs[i].bol : i \in done},
                                   !.home = {runs[i].driver : i \in gone \ held},
                                   !.ask = BolAndDriver(done),
                                   !.overlay = overlay,
                                   !.busy = Busy]
    /\ step' = "pairings"
    /\ due' = {b \in Bol : OnDock(b) \/ OnRoad(b)}
    /\ UNCHANGED vars

\* GetByActiveBOL for one fulfilled run; its error is ignored and counts as no
\* pairing.
LookUpPairing ==
  /\ step = "pairings"
  /\ \E card \in board.ask :
       \/ /\ paired[card[1]]
          /\ board' = [board EXCEPT !.ask = @ \ {card}]
       \/ board' = [board EXCEPT !.ask = @ \ {card}, !.home = @ \cup {card[2]}]
  /\ UNCHANGED <<vars, step, due>>

PairingsRead ==
  /\ step = "pairings"
  /\ board.ask = {}
  /\ step' = Columns[1]
  /\ UNCHANGED <<vars, board, due>>

\* GetByStatus: the BOLs that have the column's status by now.
ReadColumn(k) ==
  /\ step = Columns[k]
  /\ board' = [board EXCEPT !.column[step] = @ \cup {b \in Bol : bolStatus[b] = step}]
  /\ step' = IF k < Len(Columns) THEN Columns[k + 1] ELSE "drivers"
  /\ UNCHANGED <<vars, due>>

\* The drivers without a row among those read at the start.
ReadDrivers ==
  /\ step = "drivers"
  /\ board' = [board EXCEPT !.pool = Driver \ board.busy]
  /\ step' = "done"
  /\ UNCHANGED <<vars, due>>

\* The page is answered; or a query before that fails and there is no page.
EndPage ==
  /\ step # "idle"
  /\ step' = "idle" /\ board' = Blank /\ due' = {}
  /\ UNCHANGED vars

ReaderNext ==
  \/ ReadRuns \/ LookUpPairing \/ PairingsRead
  \/ \E k \in 1..Len(Columns) : ReadColumn(k)
  \/ ReadDrivers \/ EndPage

WriterNext ==
  /\ Next
  /\ due' = {b \in due : Ahead(b)}
  /\ UNCHANGED <<step, board>>

BoardNext == ReaderNext \/ WriterNext

BoardSpec == BoardInit /\ [][BoardNext]_<<vars, boardVars>>

-----------------------------------------------------------------------------
(* Properties *)

BoardTypeOK ==
  /\ TypeOK
  /\ step \in Steps
  /\ board \in Board
  /\ due \in SUBSET Bol

Shown(b) ==
  \/ \E d \in Driver : <<b, d>> \in board.road
  \/ b \in board.delivered
  \/ \E s \in DockStatuses : b \in board.column[s]

\* A finished page shows every plan that was on the dock or on the road when it
\* was begun and stayed on its way, although its columns were read at different
\* times: a plan moves on through the statuses in the order they are read.
DuePlansShown == step = "done" => \A b \in due : Shown(b)

\* The drivers with a card on the page outside the pool.
OnCard ==
  {d \in Driver :
     \/ \E b \in Bol : <<b, d>> \in board.road
     \/ d \in board.home
     \/ \E b \in board.column["loading"] \cup board.column["validated"] :
          board.overlay[b] = d}

\* No finished page offers a driver as available who is on a run, on an empty
\* return or waiting at the dock on another card of the same page.
NoDriverTwice == step = "done" => board.pool \cap OnCard = {}
=============================================================================
