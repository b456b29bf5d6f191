----------------------------- MODULE HosService -----------------------------
(***************************************************************************)
(* Hours of service: hos_service.go and the hos_window statements of       *)
(* postgres/hos.go.  Every operation reads a driver's window, computes the *)
(* new window from it and writes the whole row back in a second statement, *)
(* without a version check, so concurrent operations overwrite each other. *)
(*                                                                         *)
(* Times and hours are whole units.  A stop's time comes from the client   *)
(* (logged_at of the request or of the event), so it is any time at all.   *)
(* Only OnStopLogged has callers in the backend (LogStop and the           *)
(* stop_logged event); the other three are the service's interface, as its *)
(* tests use it.  CanAssign reads and decides and changes nothing.         *)
(***************************************************************************)
EXTENDS Integers, FiniteSets

CONSTANTS
  Driver,        \* driver ids, each with one hos_window row or none
  Call,          \* service calls in flight at a time
  None,          \* NULL
  BreakAfter,    \* hours that require the 30-minute break: 8 in the code
  MaxTime,       \* bound: times a client sends
  MaxHours,      \* bound: weekly hours a stop log brings a window to
  MaxSeed        \* bound: hours already used when the row is inserted

ASSUME HosAssumption ==
  /\ BreakAfter \in Nat \ {0}
  /\ MaxTime \in Nat
  /\ MaxHours \in Nat
  /\ MaxSeed \in Nat
  /\ None \notin Int

VARIABLES
  window,        \* the hos_window rows
  call           \* call[c]: driver and new row of an operation not yet saved

vars == <<window, call>>

Times == 0..MaxTime

\* daily, weekly: hours used; last: last_activity_at; rested: break_30_taken;
\* stopped: mandated_stop_at is set.  Three fields are history that no guard
\* reads: used, the daily hours when the count began; counted, the hours i (from
\* i to i + 1) that stop logs have added since; backdated, a break was dated
\* before the last activity.
Window == [daily: Nat, weekly: Nat, last: Times \cup {None}, rested: BOOLEAN,
           stopped: BOOLEAN, used: Nat, counted: SUBSET (0..(MaxTime - 1)),
           backdated: BOOLEAN]

\* NULL is not a row.
ASSUME RowAssumption == None \notin Window

Waiting == [driver |-> None]
Saving == [driver: Driver, row: Window]

TypeOK ==
  /\ window \in [Driver -> Window \cup {None}]
  /\ call \in [Call -> Saving \cup {Waiting}]

\* A row of the seeds: any hours, the break hours and the limits included, a
\* mandated stop or none, and no break and no activity, which no seed sets.
Seeded ==
  {w \in [daily: 0..MaxSeed, weekly: 0..MaxSeed, last: {None}, rested: {FALSE},
          stopped: BOOLEAN, used: 0..MaxSeed, counted: {{}}, backdated: {FALSE}] :
     w.daily <= w.weekly /\ w.used = w.daily}

\* A driver may have no row: no handler inserts one.
Init ==
  /\ window \in [Driver -> Seeded \cup {None}]
  /\ call = [c \in Call |-> Waiting]

-----------------------------------------------------------------------------

\* GetWindowByDriver, then the new row; the save is a step of its own.
Read(c, d, row) ==
  /\ call[c] = Waiting
  /\ call' = [call EXCEPT ![c] = [driver |-> d, row |-> row]]
  /\ UNCHANGED window

\* A driver without a row: the operation returns the error of the lookup.
GetWindowFails(c, d) ==
  /\ call[c] = Waiting
  /\ window[d] = None
  /\ UNCHANGED vars

\* The hours of the leg that ends at t; none before the first activity.
Leg(w, t) == IF w.last = None THEN 0 ELSE t - w.last

\* Those hours themselves, for the history.
LegHours(w, t) == IF w.last = None THEN {} ELSE w.last..(t - 1)

\* Mutant: the last activity stays where it was.
AfterStopSameActivity(w, t) ==
  [w EXCEPT !.daily = @ + Leg(w, t), !.weekly = @ + Leg(w, t),
            !.last = IF w.last = None THEN t ELSE @,
            !.counted = @ \cup LegHours(w, t)]

AfterStop(w, t) ==
  [w EXCEPT !.daily = @ + Leg(w, t), !.weekly = @ + Leg(w, t), !.last = t,
            !.counted = @ \cup LegHours(w, t)]

\* Mutant: a stop before the last activity is taken as a leg like any other.
OnStopLoggedUnordered(c, d, t) ==
  LET w == window[d] IN
    /\ w.rested \/ AfterStop(w, t).daily < BreakAfter
    /\ AfterStop(w, t).weekly <= MaxHours
    /\ Read(c, d, AfterStop(w, t))

\* Mutant: the break is asked for only past the limit.
OnStopLoggedLate(c, d, t) ==
  LET w == window[d] IN
    /\ Leg(w, t) >= 0
    /\ w.rested \/ AfterStop(w, t).daily <= BreakAfter
    /\ AfterStop(w, t).weekly <= MaxHours
    /\ Read(c, d, AfterStop(w, t))

\* A stop before the last activity is refused, and so is one that reaches the
\* break hours without a break; neither saves anything.
OnStopLogged(c, d, t) ==
  LET w == window[d] IN
    /\ Leg(w, t) >= 0
    /\ w.rested \/ AfterStop(w, t).daily < BreakAfter
    /\ AfterStop(w, t).weekly <= MaxHours
    /\ Read(c, d, AfterStop(w, t))

\* The hours since the last activity are not counted and takenAt is not
\* compared with it: a break may move the last activity back, and the next stop
\* then counts again what lies between.
AfterBreak(w, t) ==
  [w EXCEPT !.rested = TRUE, !.last = t,
            !.backdated = @ \/ (w.last # None /\ t < w.last)]

RecordBreak(c, d, t) == Read(c, d, AfterBreak(window[d], t))

RecordMandatedStop(c, d) == Read(c, d, [window[d] EXCEPT !.stopped = TRUE])

\* Mutant: the weekly clock is reset alone.
ResetWindowWeekly(c, d, weekly) ==
  Read(c, d, [window[d] EXCEPT !.weekly = IF weekly THEN 0 ELSE @])

AfterReset(w, weekly) ==
  [daily |-> 0, weekly |-> IF weekly THEN 0 ELSE w.weekly, last |-> None,
   rested |-> FALSE, stopped |-> FALSE, used |-> 0, counted |-> {}, backdated |-> FALSE]

ResetWindow(c, d, weekly) == Read(c, d, AfterReset(window[d], weekly))

\* UpdateWindow writes every column but window_start.
UpdateWindow(c) ==
  /\ call[c] # Waiting
  /\ window' = [window EXCEPT ![call[c].driver] = call[c].row]
  /\ call' = [call EXCEPT ![c] = Waiting]

\* The statement fails, the request is cancelled or the process dies.
Fail(c) ==
  /\ call[c] # Waiting
  /\ call' = [call EXCEPT ![c] = Waiting]
  /\ UNCHANGED window

Begin(c, d) ==
  /\ window[d] # None
  /\ \/ \E t \in Times : OnStopLogged(c, d, t) \/ RecordBreak(c, d, t)
     \/ RecordMandatedStop(c, d)
     \/ \E weekly \in BOOLEAN : ResetWindow(c, d, weekly)

Next ==
  \/ \E c \in Call, d \in Driver : Begin(c, d) \/ GetWindowFails(c, d)
  \/ \E c \in Call : UpdateWindow(c) \/ Fail(c)

Spec == Init /\ [][Next]_vars

-----------------------------------------------------------------------------
(* Properties *)

\* A stored window past the break hours without the break is one nobody has
\* driven on since it was inserted: no order of stop logs, breaks and resets that
\* overwrite each other's rows stores such a window with an activity.
BreakBeforeEight ==
  \A d \in Driver : window[d] # None =>
     (window[d].daily >= BreakAfter => window[d].rested \/ window[d].last = None)

\* The daily clock never runs ahead of the weekly one, although the two are
\* reset separately and rows overwrite each other.
DailyWithinWeekly ==
  \A d \in Driver : window[d] # None => window[d].daily <= window[d].weekly

\* No hour is counted twice: the daily hours are those the count began with and
\* as many as there are different hours in the legs since, also when stops logged
\* at the same time computed their legs from the same last activity.  The one
\* exception is a break dated before the last activity, which RecordBreak accepts.
HoursCountedOnce ==
  \A d \in Driver : window[d] # None =>
     \/ window[d].backdated
     \/ window[d].daily = window[d].used + Cardinality(window[d].counted)
=============================================================================
