-------------------------- MODULE WhiteboardProofs --------------------------
(***************************************************************************)
(* Proofs about Whiteboard for any number of requests, BOLs and drivers.   *)
(* A page is built beside every behaviour of Dispatch, so what is proved of*)
(* Dispatch holds here too; the rest is an invariant that relates the page *)
(* under construction to the plans it still has to meet.                   *)
(***************************************************************************)
EXTENDS Whiteboard, DispatchProofs

BoardType ==
  /\ step \in Steps
  /\ board \in Board
  /\ due \in SUBSET Bol

\* A plan that is due is on a card, or it waits in a column not read yet.
Met(b) == Shown(b) \/ (OnDock(b) /\ Rank(step) <= Rank(bolStatus[b]))

\* Every driver on a card, or about to be, came from a row read at the start;
\* the pool is made of the others.
DriversApart ==
  /\ \A b \in Bol, d \in Driver :
       <<b, d>> \in board.road \cup board.ask => d \in board.busy
  /\ board.home \subseteq board.busy
  /\ \A b \in Bol : board.overlay[b] # None => board.overlay[b] \in board.busy
  /\ board.pool \cap board.busy = {}

BoardInv == BoardType /\ (\A b \in due : Met(b)) /\ DriversApart

-----------------------------------------------------------------------------
(* The order of the columns *)

LEMMA RankValues ==
  /\ Rank("pairings") = 0 /\ Rank("draft") = 1 /\ Rank("plan-progress") = 2
  /\ Rank("loading") = 3 /\ Rank("validated") = 4
  /\ Rank("drivers") = 5 /\ Rank("done") = 5
BY DEF Rank

LEMMA RankOfDock == ASSUME NEW s \in DockStatuses PROVE Rank(s) \in 1..4
BY RankValues DEF DockStatuses

\* Two statuses of the dock with the same rank are the same status.
LEMMA RankTellsApart ==
  ASSUME NEW s \in DockStatuses, NEW t \in DockStatuses, Rank(s) = Rank(t)
  PROVE  s = t
BY RankValues DEF DockStatuses

LEMMA ColumnOrder ==
  /\ Len(Columns) = 4
  /\ Columns[1] = "draft" /\ Columns[2] = "plan-progress"
  /\ Columns[3] = "loading" /\ Columns[4] = "validated"
BY DEF Columns

\* After a column comes the next one, or the drivers after the last.
LEMMA NextColumn ==
  ASSUME NEW k \in 1..Len(Columns)
  PROVE  LET s == Columns[k]
             t == IF k < Len(Columns) THEN Columns[k + 1] ELSE "drivers" IN
           s \in DockStatuses /\ t \in Steps /\ Rank(t) = Rank(s) + 1
<1>1. k \in {1, 2, 3, 4}
  BY ColumnOrder
<1>2. CASE k = 1
  BY <1>2, ColumnOrder, RankValues DEF DockStatuses, Steps
<1>3. CASE k = 2
  BY <1>3, ColumnOrder, RankValues DEF DockStatuses, Steps
<1>4. CASE k = 3
  BY <1>4, ColumnOrder, RankValues DEF DockStatuses, Steps
<1>5. CASE k = 4
  BY <1>5, ColumnOrder, RankValues DEF DockStatuses, Steps
<1> QED BY <1>1, <1>2, <1>3, <1>4, <1>5

-----------------------------------------------------------------------------
(* A page changes nothing *)

\* Every step of the composed specification is a step of Dispatch or leaves its
\* variables alone.
LEMMA BoardStep == [BoardNext]_<<vars, boardVars>> => [Next]_vars
BY DEF BoardNext, ReaderNext, WriterNext, ReadRuns, LookUpPairing, PairingsRead,
       ReadColumn, ReadDrivers, EndPage, boardVars

\* Building pages implements the runs: whatever is read when, the tables behave as
\* they do without a reader.
THEOREM PagesChangeNothing == BoardSpec => Spec
<1>1. BoardInit => Init
  BY DEF BoardInit
<1> QED BY <1>1, BoardStep, PTL DEF BoardSpec, Spec

-----------------------------------------------------------------------------
(* The steps of the reader *)

LEMMA BlankType == Blank \in Board
BY DEF Blank, Board

LEMMA InitBoardInv == BoardInit => BoardInv
<1> SUFFICES ASSUME BoardInit PROVE BoardInv
  OBVIOUS
<1>1. BoardType
  BY BlankType DEF BoardInit, BoardType, Steps
<1>2. DriversApart
  BY DEF BoardInit, DriversApart, Blank
<1> QED BY <1>1, <1>2 DEF BoardInit, BoardInv

\* The rows that GetAllActive returns, as the reader sorts them.
DepartedRows == {i \in Active : runs[i].departed}
KeptRows == {i \in DepartedRows : ~runs[i].transferred}
Done == {i \in KeptRows : runs[i].fulfilled}

LEMMA DriverOfRun ==
  ASSUME TypeOK, NEW i \in RunIds
  PROVE  runs[i].driver \in Driver
BY RunFields DEF Run

\* A plan on the road has a run that was read and is on a card.
LEMMA OnRoadRead ==
  ASSUME TypeOK, CustodyHeld, NEW b \in Bol, OnRoad(b)
  PROVE  \E i \in KeptRows : runs[i].bol = b
<1>1. HasCustodian(b)
  BY DEF CustodyHeld, OnRoad
<1>2. PICK i \in RunIds : runs[i].bol = b /\ runs[i].departed /\ ~runs[i].transferred
  BY <1>1 DEF HasCustodian, OnRoad, InHandover
<1>3. ~runs[i].deadhead
  BY <1>2 DEF OnRoad, Archived
<1> QED BY <1>2, <1>3 DEF KeptRows, DepartedRows, Active

LEMMA ReadRunsInv ==
  ASSUME TypeOK, CustodyHeld, NoneAssumption, ReadRuns
  PROVE  BoardInv'
<1>1. PICK overlay \in [Bol -> Driver \cup {None}] :
        /\ \A b \in Bol : overlay[b] \in Overlays(b)
        /\ board' = [Blank EXCEPT !.road = BolAndDriver(KeptRows \ Done),
                                  !.delivered = {runs[i].bol : i \in Done},
                                  !.home = {runs[i].driver : i \in DepartedRows \ KeptRows},
                                  !.ask = BolAndDriver(Done),
                                  !.overlay = overlay,
                                  !.busy = Busy]
  BY DEF ReadRuns, DepartedRows, KeptRows, Done
<1>2. /\ board'.road = BolAndDriver(KeptRows \ Done)
      /\ board'.delivered = {runs[i].bol : i \in Done}
      /\ board'.home = {runs[i].driver : i \in DepartedRows \ KeptRows}
      /\ board'.ask = BolAndDriver(Done)
      /\ board'.overlay = overlay
      /\ board'.busy = Busy
      /\ board'.pool = {}
      /\ board'.column = [s \in DockStatuses |-> {}]
  BY <1>1 DEF Blank
<1>3. /\ step' = "pairings" /\ due' = {b \in Bol : OnDock(b) \/ OnRoad(b)}
      /\ bolStatus' = bolStatus
  BY DEF ReadRuns, vars, planVars
<1>4. Active \subseteq RunIds /\ DepartedRows \subseteq Active /\ KeptRows \subseteq DepartedRows
      /\ Done \subseteq KeptRows
  BY DEF Active, DepartedRows, KeptRows, Done
<1>5. BoardType'
  <2>1. BolAndDriver(KeptRows \ Done) \in SUBSET (Bol \X Driver)
        /\ BolAndDriver(Done) \in SUBSET (Bol \X Driver)
    BY <1>4, RunFields, DriverOfRun DEF BolAndDriver
  <2>2. /\ {runs[i].bol : i \in Done} \in SUBSET Bol
        /\ {runs[i].driver : i \in DepartedRows \ KeptRows} \in SUBSET Driver
        /\ Busy \in SUBSET Driver
    BY <1>4, RunFields, DriverOfRun DEF Busy
  <2>3. board' \in Board
    BY <1>1, <2>1, <2>2 DEF Board, Blank
  <2> QED BY <1>3, <2>3 DEF BoardType, Steps
<1>6. ASSUME NEW b \in due' PROVE Met(b)'
  <2>1. CASE OnDock(b)
    <3>1. Rank(bolStatus[b]) \in 1..4
      BY <2>1, RankOfDock DEF OnDock
    <3>2. Rank(step') <= Rank(bolStatus[b])
      BY <3>1, <1>3, RankValues
    <3> QED BY <2>1, <3>2, <1>3 DEF Met, OnDock
  <2>2. CASE OnRoad(b)
    <3>1. PICK i \in KeptRows : runs[i].bol = b
      BY <2>2, <1>3, OnRoadRead
    <3>2. CASE i \in Done
      BY <3>1, <3>2, <1>2 DEF Met, Shown
    <3>3. CASE i \notin Done
      <4>1. <<b, runs[i].driver>> \in board'.road
        BY <3>1, <3>3, <1>2 DEF BolAndDriver
      <4>2. runs[i].driver \in Driver
        BY <1>4, DriverOfRun
      <4> QED BY <4>1, <4>2 DEF Met, Shown
    <3> QED BY <3>2, <3>3
  <2> QED BY <1>3, <2>1, <2>2
<1>7. DriversApart'
  <2>1. ASSUME NEW S, S \subseteq Active, NEW b, NEW d, <<b, d>> \in BolAndDriver(S)
        PROVE  d \in Busy
    BY <2>1 DEF BolAndDriver, Busy
  <2>2. \A b \in Bol, d \in Driver :
          <<b, d>> \in board'.road \cup board'.ask => d \in board'.busy
    BY <2>1, <1>2, <1>4
  <2>3. board'.home \subseteq board'.busy
    BY <1>2, <1>4 DEF Busy
  <2>4. ASSUME NEW b \in Bol, overlay[b] # None PROVE overlay[b] \in Busy
    <3>1. overlay[b] \in Overlays(b)
      BY <1>1
    <3>2. PICK i \in Latest({j \in Active : runs[j].bol = b /\ ~runs[j].transferred}) :
            overlay[b] = IF runs[i].departed THEN None ELSE runs[i].driver
      BY <2>4, <3>1 DEF Overlays
    <3>3. i \in Active
      BY <3>2 DEF Latest
    <3> QED BY <2>4, <3>2, <3>3 DEF Busy
  <2> QED BY <1>2, <2>2, <2>3, <2>4 DEF DriversApart
<1> QED BY <1>5, <1>6, <1>7 DEF BoardInv

LEMMA LookUpPairingInv == BoardInv /\ LookUpPairing => BoardInv'
<1> SUFFICES ASSUME BoardInv, LookUpPairing PROVE BoardInv'
  OBVIOUS
<1>1. PICK card \in board.ask :
        \/ board' = [board EXCEPT !.ask = @ \ {card}]
        \/ board' = [board EXCEPT !.ask = @ \ {card}, !.home = @ \cup {card[2]}]
  BY DEF LookUpPairing
<1>2. /\ board \in Board /\ step = "pairings"
      /\ step' = step /\ due' = due /\ bolStatus' = bolStatus
  BY DEF BoardInv, BoardType, LookUpPairing, vars, planVars
<1>3. /\ card \in Bol \X Driver
      /\ card[1] \in Bol /\ card[2] \in Driver /\ card = <<card[1], card[2]>>
  BY <1>1, <1>2 DEF Board
<1>4. card[2] \in board.busy
  BY <1>1, <1>3 DEF BoardInv, DriversApart
<1>5. board' \in Board
  <2>1. board.ask \ {card} \in SUBSET (Bol \X Driver)
        /\ board.home \cup {card[2]} \in SUBSET Driver
    BY <1>2, <1>3 DEF Board
  <2>2. CASE board' = [board EXCEPT !.ask = @ \ {card}]
    BY <1>2, <2>1, <2>2 DEF Board
  <2>3. CASE board' = [board EXCEPT !.ask = @ \ {card}, !.home = @ \cup {card[2]}]
    BY <1>2, <2>1, <2>3 DEF Board
  <2> QED BY <1>1, <2>2, <2>3
<1>6. /\ board'.road = board.road /\ board'.delivered = board.delivered
      /\ board'.column = board.column /\ board'.overlay = board.overlay
      /\ board'.busy = board.busy /\ board'.pool = board.pool
      /\ board'.ask = board.ask \ {card}
      /\ board'.home = board.home \/ board'.home = board.home \cup {card[2]}
  BY <1>1, <1>2 DEF Board
<1>7. BoardType'
  BY <1>2, <1>5 DEF BoardInv, BoardType
<1>8. DriversApart'
  BY <1>4, <1>6 DEF BoardInv, DriversApart
<1>9. ASSUME NEW b \in due' PROVE Met(b)'
  BY <1>2, <1>6 DEF BoardInv, Met, Shown, OnDock
<1> QED BY <1>7, <1>8, <1>9 DEF BoardInv

LEMMA PairingsReadInv == BoardInv /\ PairingsRead => BoardInv'
<1> SUFFICES ASSUME BoardInv, PairingsRead PROVE BoardInv'
  OBVIOUS
<1>1. /\ step = "pairings" /\ step' = "draft"
      /\ board' = board /\ due' = due /\ bolStatus' = bolStatus
  BY ColumnOrder DEF PairingsRead, vars, planVars
<1>2. ASSUME NEW b \in due' PROVE Met(b)'
  <2>1. CASE Shown(b)
    BY <2>1, <1>1 DEF Met, Shown
  <2>2. CASE OnDock(b)
    BY <2>2, <1>1, RankOfDock, RankValues DEF Met, OnDock
  <2> QED BY <2>1, <2>2, <1>1, <1>2 DEF BoardInv, Met
<1> QED BY <1>1, <1>2 DEF BoardInv, BoardType, DriversApart, Steps, DockStatuses

\* Reading a column meets the plans that are in it, and those further on are
\* still to come.
LEMMA ReadColumnInv ==
  ASSUME BoardInv, NEW k \in 1..Len(Columns), ReadColumn(k)
  PROVE  BoardInv'
<1> DEFINE s == Columns[k]
           t == IF k < Len(Columns) THEN Columns[k + 1] ELSE "drivers"
           read == board.column[s] \cup {b \in Bol : bolStatus[b] = s}
<1>1. s \in DockStatuses /\ t \in Steps /\ Rank(t) = Rank(s) + 1
  BY NextColumn
<1>2. /\ step = s /\ step' = t /\ due' = due /\ bolStatus' = bolStatus
      /\ board' = [board EXCEPT !.column[s] = read]
  BY DEF ReadColumn, vars, planVars
<1>3. board \in Board /\ due \subseteq Bol
  BY DEF BoardInv, BoardType
<1>4. /\ board'.road = board.road /\ board'.delivered = board.delivered
      /\ board'.home = board.home /\ board'.ask = board.ask
      /\ board'.overlay = board.overlay
      /\ board'.busy = board.busy /\ board'.pool = board.pool
      /\ board'.column = [board.column EXCEPT ![s] = read]
  BY <1>2, <1>3 DEF Board
<1>5. board.column \in [DockStatuses -> SUBSET Bol]
  BY <1>3 DEF Board
<1>6. /\ board'.column[s] = read
      /\ \A c \in DockStatuses : board.column[c] \subseteq board'.column[c]
  BY <1>1, <1>4, <1>5
<1>7. BoardType'
  <2>1. board'.column \in [DockStatuses -> SUBSET Bol]
    BY <1>4, <1>5
  <2>2. board' \in Board
    BY <1>2, <1>3, <2>1 DEF Board
  <2> QED BY <1>1, <1>2, <1>3, <2>2 DEF BoardType
<1>8. DriversApart'
  BY <1>4 DEF BoardInv, DriversApart
<1>9. ASSUME NEW b \in due' PROVE Met(b)'
  <2>1. b \in Bol /\ Met(b)
    BY <1>2, <1>3 DEF BoardInv
  <2>2. CASE OnDock(b) /\ bolStatus[b] = s
    BY <2>1, <2>2, <1>1, <1>6 DEF Met, Shown
  <2>3. CASE OnDock(b) /\ bolStatus[b] # s /\ Rank(step) <= Rank(bolStatus[b])
    <3>1. Rank(s) \in 1..4 /\ Rank(bolStatus[b]) \in 1..4
      BY <1>1, <2>3, RankOfDock DEF OnDock
    <3>2. Rank(s) # Rank(bolStatus[b])
      BY <1>1, <2>3, RankTellsApart DEF OnDock
    <3>3. Rank(t) <= Rank(bolStatus[b])
      BY <3>1, <3>2, <2>3, <1>1, <1>2
    <3> QED BY <3>3, <2>3, <1>2 DEF Met, OnDock
  <2>4. CASE Shown(b)
    BY <2>4, <1>4, <1>6 DEF Met, Shown
  <2> QED BY <2>1, <2>2, <2>3, <2>4 DEF Met
<1> QED BY <1>7, <1>8, <1>9 DEF BoardInv

LEMMA ReadDriversInv == BoardInv /\ ReadDrivers => BoardInv'
<1> SUFFICES ASSUME BoardInv, ReadDrivers PROVE BoardInv'
  OBVIOUS
<1>1. /\ board \in Board /\ due \subseteq Bol
      /\ step = "drivers" /\ step' = "done" /\ due' = due /\ bolStatus' = bolStatus
      /\ board' = [board EXCEPT !.pool = Driver \ board.busy]
  BY DEF BoardInv, BoardType, ReadDrivers, vars, planVars
<1>2. /\ board'.road = board.road /\ board'.delivered = board.delivered
      /\ board'.home = board.home /\ board'.ask = board.ask
      /\ board'.overlay = board.overlay /\ board'.busy = board.busy
      /\ board'.column = board.column /\ board'.pool = Driver \ board.busy
  BY <1>1 DEF Board
<1>3. board' \in Board
  BY <1>1 DEF Board
<1>4. ASSUME NEW b \in due' PROVE Met(b)'
  BY <1>1, <1>2, RankValues DEF BoardInv, Met, Shown, OnDock
<1> QED BY <1>1, <1>2, <1>3, <1>4 DEF BoardInv, BoardType, DriversApart, Steps

LEMMA EndPageInv == BoardInv /\ EndPage => BoardInv'
<1> SUFFICES ASSUME EndPage PROVE BoardInv'
  OBVIOUS
<1>1. step' = "idle" /\ board' = Blank /\ due' = {}
  BY DEF EndPage
<1> QED BY <1>1, BlankType DEF BoardInv, BoardType, DriversApart, Blank, Steps

\* A step of a handler moves plans along or takes them off the list of those due.
LEMMA WriterInv == BoardInv /\ WriterNext => BoardInv'
<1> SUFFICES ASSUME BoardInv, WriterNext PROVE BoardInv'
  OBVIOUS
<1>1. step' = step /\ board' = board /\ due' = {b \in due : Ahead(b)}
  BY DEF WriterNext
<1>2. ASSUME NEW b \in due' PROVE Met(b)'
  <2>1. b \in due /\ Ahead(b) /\ Met(b)
    BY <1>1 DEF BoardInv
  <2>2. CASE Shown(b)
    BY <2>2, <1>1 DEF Met, Shown
  <2>3. CASE OnDock(b) /\ Rank(step) <= Rank(bolStatus[b])
    <3>1. /\ bolStatus'[b] \in DockStatuses
          /\ Rank(bolStatus[b]) <= Rank(bolStatus'[b])
      BY <2>1, <2>3 DEF Ahead
    <3>2. Rank(bolStatus[b]) \in 1..4 /\ Rank(bolStatus'[b]) \in 1..4
      BY <2>3, <3>1, RankOfDock DEF OnDock
    <3>3. Rank(step) \in 0..5
      BY RankValues DEF BoardInv, BoardType, Steps, DockStatuses, Rank
    <3>4. Rank(step') <= Rank(bolStatus'[b])
      BY <3>1, <3>2, <3>3, <2>3, <1>1
    <3> QED BY <3>1, <3>4 DEF Met, OnDock
  <2> QED BY <2>1, <2>2, <2>3 DEF Met
<1> QED BY <1>1, <1>2 DEF BoardInv, BoardType, DriversApart

-----------------------------------------------------------------------------
(* The theorems *)

LEMMA BoardInductive ==
  ASSUME TypeOK, CustodyHeld, BoardInv, [BoardNext]_<<vars, boardVars>>
  PROVE  BoardInv'
<1>1. CASE ReadRuns
  BY <1>1, ReadRunsInv, NoneAssumption
<1>2. CASE LookUpPairing
  BY <1>2, LookUpPairingInv
<1>3. CASE PairingsRead
  BY <1>3, PairingsReadInv
<1>4. CASE \E k \in 1..Len(Columns) : ReadColumn(k)
  BY <1>4, ReadColumnInv
<1>5. CASE ReadDrivers
  BY <1>5, ReadDriversInv
<1>6. CASE EndPage
  BY <1>6, EndPageInv
<1>7. CASE WriterNext
  BY <1>7, WriterInv
<1>8. CASE UNCHANGED <<vars, boardVars>>
  BY <1>8 DEF boardVars, vars, planVars, BoardInv, BoardType, Met, Shown, OnDock,
              DriversApart
<1> QED BY <1>1, <1>2, <1>3, <1>4, <1>5, <1>6, <1>7, <1>8 DEF BoardNext, ReaderNext

LEMMA BoardInvAlways == BoardSpec => [](BoardInv /\ TypeOK /\ CustodyHeld)
<1>1. BoardSpec => []TypeOK /\ []CustodyHeld
  BY PagesChangeNothing, TypeCorrect, LoadNeverUnattended, PTL
<1>2. TypeOK /\ CustodyHeld /\ BoardInv /\ [BoardNext]_<<vars, boardVars>>
        => BoardInv'
  BY BoardInductive
<1> QED BY <1>1, <1>2, InitBoardInv, PTL DEF BoardSpec

\* Pages and tables keep their types, whatever is read when.
THEOREM BoardTypeCorrect == BoardSpec => []BoardTypeOK
<1>1. BoardInv /\ TypeOK => BoardTypeOK
  BY DEF BoardInv, BoardType, BoardTypeOK
<1> QED BY <1>1, BoardInvAlways, PTL

\* A finished page shows every plan that was on the dock or on the road when the
\* page was begun and stayed on its way.
THEOREM NoPlanOverlooked == BoardSpec => []DuePlansShown
<1>1. BoardInv => DuePlansShown
  <2> SUFFICES ASSUME BoardInv, step = "done", NEW b \in due PROVE Shown(b)
    BY DEF DuePlansShown
  <2>1. Met(b)
    BY DEF BoardInv
  <2>2. ~(OnDock(b) /\ Rank(step) <= Rank(bolStatus[b]))
    <3>1. ASSUME OnDock(b) PROVE Rank(bolStatus[b]) \in 1..4
      BY <3>1, RankOfDock DEF OnDock
    <3> QED BY <3>1, RankValues
  <2> QED BY <2>1, <2>2 DEF Met
<1> QED BY <1>1, BoardInvAlways, PTL

\* No page offers a driver as available who is on another card of it.
THEOREM NoDriverOfferedTwice == BoardSpec => []NoDriverTwice
<1>1. BoardInv => NoDriverTwice
  <2> SUFFICES ASSUME BoardInv, NEW d \in OnCard PROVE d \in board.busy
    BY DEF NoDriverTwice, BoardInv, DriversApart
  <2>1. board.column["loading"] \subseteq Bol /\ board.column["validated"] \subseteq Bol
    BY DEF BoardInv, BoardType, Board, DockStatuses
  <2>2. d # None
    BY NoneAssumption DEF OnCard
  <2> QED BY <2>1, <2>2 DEF OnCard, BoardInv, DriversApart
<1> QED BY <1>1, BoardInvAlways, PTL
=============================================================================
