---------------------------- MODULE DriverCards ----------------------------
(***************************************************************************)
(* What the backend makes of a driver's window: HOSService.CanAssign, which*)
(* admits a run, and the driver cards of whiteboard_service.go, which tell *)
(* a dispatcher whom to give one.  Two files decide on the same hours, by  *)
(* conditions of their own; here they meet on every window that the        *)
(* operations of HosService can store.                                     *)
(*                                                                         *)
(* Each looks up a hos_limit row of its own: the card by the driver's      *)
(* licence state and the configured default cycle, the check by the state  *)
(* and the cycle of the request.  Nothing ties the two, and either may find*)
(* no row: then the check refuses and the card ignores the error.  So a    *)
(* limit is any row or None, chosen for the card and the check apart.      *)
(***************************************************************************)
EXTENDS HosService

CONSTANTS
  Limits,        \* the hos_limit rows: driving hours a day and a cycle, and rests
  Warning        \* HOS_WARNING_THRESHOLD_HOURS

\* The daily limit is one in every row the migrations seed, and the weekly reset
\* is the longer rest; the weekly limits differ by cycle.
ASSUME LimitAssumption ==
  /\ Limits \subseteq [daily: Nat \ {0}, weekly: Nat \ {0}, rest: Nat, reset: Nat]
  /\ \A l \in Limits : l.rest < l.reset
  /\ \A l, m \in Limits : l.daily = m.daily
  /\ None \notin Limits
  /\ Warning \in Nat

\* What a lookup of a limit finds.
Lookups == Limits \cup {None}

\* The driver may take a run of h hours.
CanAssign(w, h, l) ==
  /\ w # None
  /\ l # None
  /\ w.daily + h <= l.daily
  /\ w.weekly + h <= l.weekly

\* Mutant: a driver is red only past the limit.
HosStateLate(w, l) ==
  IF w = None \/ l = None THEN "green"
  ELSE LET remaining == l.daily - w.daily IN
         IF remaining < 0 THEN "red" ELSE IF remaining <= Warning THEN "yellow" ELSE "green"

\* hosStateForWindow: the colour of the card, by the daily hours alone; green
\* when there is no window or no limit to judge it by.
HosState(w, l) ==
  IF w = None \/ l = None THEN "green"
  ELSE LET remaining == l.daily - w.daily IN
         IF remaining <= 0 THEN "red" ELSE IF remaining <= Warning THEN "yellow" ELSE "green"

\* Mutant: the weekly reset is asked for only past the limit.
RestTypeLate(w, l) ==
  CASE ~w.stopped -> ""
    [] w.stopped /\ l # None /\ w.weekly > l.weekly /\ l.reset > l.rest -> "weekly"
    [] OTHER -> "daily"

\* computeRestEnd: which of the two rests ends later and is announced; none
\* without a mandated stop, and the daily one (ten hours) without a limit.
RestType(w, l) ==
  CASE ~w.stopped -> ""
    [] w.stopped /\ l # None /\ w.weekly >= l.weekly /\ l.reset > l.rest -> "weekly"
    [] OTHER -> "daily"

\* The window that ResetWindow stores when the announced rest is confirmed.
Rested(w, l) == AfterReset(w, RestType(w, l) = "weekly")

-----------------------------------------------------------------------------
(* Properties *)

\* "Ensures the driver exits rest fully legal, not just daily-legal", as far as it
\* goes: after the rest that the card announces a resting driver can be assigned
\* again, whatever interleaving of stops, breaks and resets led to the hours,
\* unless the weekly hours of the check are used up and the card judged them by a
\* higher weekly limit, or by none because its lookup found no row.
RestEndsLegal ==
  \A d \in Driver, card \in Lookups, check \in Limits :
     window[d] # None /\ window[d].stopped =>
       \/ CanAssign(Rested(window[d], card), 1, check)
       \/ /\ window[d].weekly >= check.weekly
          /\ card = None \/ card.weekly > check.weekly

\* What the colour of a card tells about the check, whichever rows the two look
\* up: a red driver is always refused, and one who is not red is refused only for
\* the weekly hours, which the colour leaves out, or because the window, the
\* check's limit or the card's limit is missing.
CardsMatchCheck ==
  \A d \in Driver, card, check \in Lookups :
     IF HosState(window[d], card) = "red"
     THEN ~CanAssign(window[d], 1, check)
     ELSE \/ CanAssign(window[d], 1, check)
          \/ window[d] = None \/ card = None \/ check = None
          \/ window[d].weekly >= check.weekly
=============================================================================
