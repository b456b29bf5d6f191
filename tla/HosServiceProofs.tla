-------------------------- MODULE HosServiceProofs --------------------------
(***************************************************************************)
(* Proofs about HosService for any drivers, calls, seeds and limits.  Rows *)
(* are written back whole, so it is enough that every operation computes a *)
(* sound row from a sound row: an interleaving only chooses among them.    *)
(* What the cards and the check decide follows from the type correctness   *)
(* and the form of the limits.                                             *)
(***************************************************************************)
EXTENDS DriverCards, FiniteSetTheorems, TLAPS

\* The account of the daily hours: as many as the hours counted, all of them
\* before the last activity, so that the next leg brings other hours.
Account(w) ==
  /\ w.daily = w.used + Cardinality(w.counted)
  /\ w.last = None => w.counted = {}
  /\ w.last # None => \A h \in w.counted : h < w.last

\* What every stored row and every row about to be saved satisfies.
Sound(w) ==
  /\ w.daily >= BreakAfter => w.rested \/ w.last = None
  /\ w.daily <= w.weekly
  /\ w.backdated \/ Account(w)

IInv ==
  /\ TypeOK
  /\ \A d \in Driver : window[d] # None => Sound(window[d])
  /\ \A c \in Call : call[c] # Waiting => Sound(call[c].row)

\* The hours a stop log adds are as many as the leg has, all below its time.
LEMMA LegCounts ==
  ASSUME NEW w \in Window, NEW t \in Times, Leg(w, t) >= 0
  PROVE  /\ Leg(w, t) \in Nat
         /\ LegHours(w, t) \in SUBSET (0..(MaxTime - 1))
         /\ IsFiniteSet(LegHours(w, t))
         /\ Cardinality(LegHours(w, t)) = Leg(w, t)
         /\ \A h \in LegHours(w, t) : h < t
<1>1. t \in Nat /\ t <= MaxTime /\ MaxTime \in Nat
  BY HosAssumption DEF Times
<1>2. CASE w.last = None
  BY <1>2, FS_EmptySet DEF Leg, LegHours
<1>3. CASE w.last # None
  <2>1. w.last \in Nat /\ w.last <= t
    BY <1>1, <1>3 DEF Window, Times, Leg
  <2>2. Leg(w, t) = t - w.last /\ LegHours(w, t) = w.last..(t - 1)
    BY <1>3 DEF Leg, LegHours
  <2>3. IsFiniteSet(w.last..(t - 1))
        /\ Cardinality(w.last..(t - 1)) = IF w.last > t - 1 THEN 0 ELSE (t - 1) - w.last + 1
    <3>1. w.last \in Int /\ t - 1 \in Int
      BY <1>1, <2>1
    <3>2. \A a, b \in Int : /\ IsFiniteSet(a..b)
                            /\ Cardinality(a..b) = IF a > b THEN 0 ELSE b - a + 1
      BY FS_Interval
    <3> QED BY <3>1, <3>2
  <2> QED BY <1>1, <2>1, <2>2, <2>3
<1> QED BY <1>2, <1>3

\* The row a stop log computes is well typed and sound when its checks pass.
LEMMA StopLogSound ==
  ASSUME NEW w \in Window, NEW t \in Times, Sound(w), Leg(w, t) >= 0,
         w.rested \/ AfterStop(w, t).daily < BreakAfter
  PROVE  AfterStop(w, t) \in Window /\ Sound(AfterStop(w, t))
<1> DEFINE v == AfterStop(w, t)
<1>1. /\ w.daily \in Nat /\ w.weekly \in Nat /\ w.used \in Nat /\ w.backdated \in BOOLEAN
      /\ w.counted \in SUBSET (0..(MaxTime - 1))
      /\ t \in Nat /\ w.daily <= w.weekly
  BY HosAssumption DEF Window, Times, Sound
<1>2. /\ Leg(w, t) \in Nat
      /\ LegHours(w, t) \in SUBSET (0..(MaxTime - 1))
  BY LegCounts
<1>3. /\ v.daily = w.daily + Leg(w, t)
      /\ v.weekly = w.weekly + Leg(w, t)
      /\ v.last = t
      /\ v.rested = w.rested
      /\ v.used = w.used
      /\ v.counted = w.counted \cup LegHours(w, t)
      /\ v.backdated = w.backdated
  BY DEF AfterStop, Window
<1>4. v \in Window
  <2>1. w.daily + Leg(w, t) \in Nat /\ w.weekly + Leg(w, t) \in Nat
    BY <1>1, <1>2
  <2>2. w.counted \cup LegHours(w, t) \in SUBSET (0..(MaxTime - 1))
    BY <1>1, <1>2
  <2> QED BY <2>1, <2>2 DEF AfterStop, Window
<1>5. v.daily <= v.weekly
  BY <1>1, <1>2, <1>3
<1>6. v.daily >= BreakAfter => v.rested
  <2>1. v.daily \in Nat /\ BreakAfter \in Nat
    BY <1>4, HosAssumption DEF Window
  <2> QED BY <1>3, <2>1
<1>7. ASSUME ~w.backdated PROVE Account(v)
  <2>1. Account(w)
    BY <1>7 DEF Sound
  <2>2. IsFiniteSet(w.counted)
    <3>1. IsFiniteSet(0..(MaxTime - 1))
      <4>1. MaxTime - 1 \in Int
        BY HosAssumption
      <4> QED BY <4>1, FS_Interval
    <3> QED BY <1>1, <3>1, FS_Subset
  <2>3. w.counted \cap LegHours(w, t) = {}
    BY <1>1, <2>1, HosAssumption DEF Account, LegHours, Window, Times
  <2>4. /\ IsFiniteSet(LegHours(w, t))
        /\ Cardinality(LegHours(w, t)) = Leg(w, t)
        /\ \A h \in LegHours(w, t) : h < t
    BY LegCounts
  <2>5. Cardinality(v.counted) = Cardinality(w.counted) + Leg(w, t)
    <3>1. Cardinality(w.counted \cup LegHours(w, t))
            = Cardinality(w.counted) + Cardinality(LegHours(w, t))
                - Cardinality(w.counted \cap LegHours(w, t))
      BY <2>2, <2>4, FS_Union
    <3>2. Cardinality({}) = 0
      BY FS_EmptySet
    <3>3. Cardinality(w.counted) \in Nat
      BY <2>2, FS_CardinalityType
    <3>4. v.counted = w.counted \cup LegHours(w, t)
      BY <1>3
    <3>5. Cardinality(w.counted \cap LegHours(w, t)) = 0
      BY <2>3, <3>2
    <3>6. Cardinality(w.counted \cup LegHours(w, t)) = Cardinality(w.counted) + Leg(w, t)
      BY <1>2, <2>4, <3>1, <3>3, <3>5
    <3> HIDE DEF v
    <3> QED BY <3>4, <3>6
  <2>6. Cardinality(w.counted) \in Nat
    BY <2>2, FS_CardinalityType
  <2>7. v.daily = v.used + Cardinality(v.counted)
    <3>1. w.daily = w.used + Cardinality(w.counted)
      BY <2>1 DEF Account
    <3> QED BY <1>1, <1>2, <1>3, <2>5, <2>6, <3>1
  <2>8. \A h \in w.counted : h < t
    <3> SUFFICES ASSUME NEW h \in w.counted PROVE h < t
      OBVIOUS
    <3>1. w.last # None /\ h < w.last
      BY <2>1 DEF Account
    <3>2. w.last \in Nat /\ w.last <= t
      BY <1>1, <3>1 DEF Window, Times, Leg
    <3> QED BY <1>1, <3>1, <3>2
  <2>9. v.last # None
    BY <1>1, <1>3, HosAssumption
  <2> QED BY <1>3, <2>4, <2>7, <2>8, <2>9 DEF Account
<1> QED BY <1>3, <1>4, <1>5, <1>6, <1>7 DEF Sound

\* A break keeps a row sound, and marks it when it is dated back.
LEMMA BreakSound ==
  ASSUME NEW w \in Window, NEW t \in Times, Sound(w)
  PROVE  AfterBreak(w, t) \in Window /\ Sound(AfterBreak(w, t))
<1> DEFINE v == AfterBreak(w, t)
<1>1. /\ v.daily = w.daily /\ v.weekly = w.weekly /\ v.last = t
      /\ v.rested = TRUE /\ v.used = w.used /\ v.counted = w.counted
      /\ v.backdated = (w.backdated \/ (w.last # None /\ t < w.last))
  BY DEF AfterBreak, Window
<1>2. v \in Window
  <2>1. (w.backdated \/ (w.last # None /\ t < w.last)) \in BOOLEAN
    OBVIOUS
  <2> QED BY <2>1 DEF AfterBreak, Window
<1>3. ASSUME ~v.backdated PROVE Account(v)
  <2>1. ~w.backdated /\ ~(w.last # None /\ t < w.last)
    BY <1>1, <1>3
  <2>2. Account(w)
    BY <2>1 DEF Sound
  <2>3. t \in Nat /\ t # None
    BY HosAssumption DEF Times
  <2>4. \A h \in w.counted : h < t
    <3> SUFFICES ASSUME NEW h \in w.counted PROVE h < t
      OBVIOUS
    <3>1. w.last # None /\ h < w.last
      BY <2>2 DEF Account
    <3>2. w.last \in Nat /\ h \in Int
      BY <3>1, HosAssumption DEF Window, Times
    <3> QED BY <2>1, <2>3, <3>1, <3>2
  <2> QED BY <1>1, <2>2, <2>3, <2>4 DEF Account
<1> QED BY <1>1, <1>2, <1>3 DEF Sound

\* A reset starts the account anew.
LEMMA ResetSound ==
  ASSUME NEW w \in Window, NEW weekly \in BOOLEAN
  PROVE  AfterReset(w, weekly) \in Window /\ Sound(AfterReset(w, weekly))
<1> DEFINE v == AfterReset(w, weekly)
<1>1. w.weekly \in Nat /\ (IF weekly THEN 0 ELSE w.weekly) \in Nat
  BY DEF Window
<1>2. /\ v.daily = 0 /\ v.weekly = (IF weekly THEN 0 ELSE w.weekly) /\ v.last = None
      /\ v.used = 0 /\ v.counted = {}
  BY DEF AfterReset
<1>3. v \in Window
  BY <1>1 DEF AfterReset, Window
<1>4. Account(v)
  BY <1>2, FS_EmptySet DEF Account
<1> QED BY <1>1, <1>2, <1>3, <1>4 DEF Sound

\* A call that holds a sound row keeps the invariant.
LEMMA ReadKeeps ==
  ASSUME IInv, NEW c \in Call, NEW d \in Driver, NEW row \in Window, Sound(row),
         Read(c, d, row)
  PROVE  IInv'
<1>1. TypeOK'
  BY DEF IInv, TypeOK, Read, Saving
<1>2. \A e \in Driver : window'[e] # None => Sound(window'[e])
  BY DEF IInv, Read
<1>3. \A b \in Call : (call[b] # Waiting => Sound(call[b].row))'
  <2> SUFFICES ASSUME NEW b \in Call, call'[b] # Waiting PROVE Sound(call'[b].row)
    BY DEF Sound, Waiting
  <2>1. CASE b = c
    BY <2>1 DEF IInv, TypeOK, Read
  <2>2. CASE b # c
    BY <2>2 DEF IInv, TypeOK, Read
  <2> QED BY <2>1, <2>2
<1> QED BY <1>1, <1>2, <1>3 DEF IInv

LEMMA BeginKeeps ==
  ASSUME IInv, NEW c \in Call, NEW d \in Driver, Begin(c, d)
  PROVE  IInv'
<1> DEFINE w == window[d]
<1>1. w \in Window /\ Sound(w)
  BY DEF IInv, TypeOK, Begin
<1>2. ASSUME NEW t \in Times, OnStopLogged(c, d, t) PROVE IInv'
  BY <1>1, <1>2, StopLogSound, ReadKeeps DEF OnStopLogged
<1>3. ASSUME NEW t \in Times, RecordBreak(c, d, t) PROVE IInv'
  BY <1>1, <1>3, BreakSound, ReadKeeps DEF RecordBreak
<1>4. ASSUME RecordMandatedStop(c, d) PROVE IInv'
  <2> DEFINE row == [w EXCEPT !.stopped = TRUE]
  <2>1. row \in Window
    BY <1>1 DEF Window
  <2>2. Sound(row)
    <3>1. /\ row.daily = w.daily /\ row.weekly = w.weekly /\ row.last = w.last
          /\ row.rested = w.rested /\ row.used = w.used /\ row.counted = w.counted
          /\ row.backdated = w.backdated
      BY <1>1 DEF Window
    <3> HIDE DEF row
    <3> QED BY <1>1, <3>1 DEF Sound, Account
  <2>3. Read(c, d, row)
    BY <1>4 DEF RecordMandatedStop
  <2> HIDE DEF row
  <2> QED BY <2>1, <2>2, <2>3, ReadKeeps
<1>5. ASSUME NEW weekly \in BOOLEAN, ResetWindow(c, d, weekly) PROVE IInv'
  BY <1>1, <1>5, ResetSound, ReadKeeps DEF ResetWindow
<1> QED BY <1>2, <1>3, <1>4, <1>5 DEF Begin

LEMMA UpdateKeeps ==
  ASSUME IInv, NEW c \in Call, UpdateWindow(c)
  PROVE  IInv'
<1>1. /\ call[c] \in Saving
      /\ Sound(call[c].row)
  BY DEF IInv, TypeOK, UpdateWindow
<1>2. TypeOK'
  BY <1>1 DEF IInv, TypeOK, UpdateWindow, Saving
<1>3. \A d \in Driver : window'[d] # None => Sound(window'[d])
  <2> SUFFICES ASSUME NEW d \in Driver, window'[d] # None PROVE Sound(window'[d])
    OBVIOUS
  <2>1. CASE d = call[c].driver
    BY <1>1, <2>1 DEF IInv, TypeOK, UpdateWindow
  <2>2. CASE d # call[c].driver
    BY <2>2 DEF IInv, TypeOK, UpdateWindow
  <2> QED BY <2>1, <2>2
<1>4. \A b \in Call : call'[b] # Waiting => Sound(call'[b].row)
  BY DEF IInv, TypeOK, UpdateWindow
<1> QED BY <1>2, <1>3, <1>4 DEF IInv, Sound, Account, Waiting

LEMMA FailKeeps ==
  ASSUME IInv, NEW c \in Call, Fail(c)
  PROVE  IInv'
<1>1. TypeOK'
  BY DEF IInv, TypeOK, Fail
<1>2. \A d \in Driver : window'[d] # None => Sound(window'[d])
  BY DEF IInv, Fail
<1>3. \A b \in Call : call'[b] # Waiting => Sound(call'[b].row)
  BY DEF IInv, TypeOK, Fail
<1> QED BY <1>1, <1>2, <1>3 DEF IInv, Sound, Account, Waiting

\* Every seeded row is well typed and sound: its hours are those the count
\* begins with, and nothing was logged on it.
LEMMA SeededSound ==
  ASSUME NEW w \in Seeded
  PROVE  w \in Window /\ Sound(w)
<1>1. /\ w.daily \in 0..MaxSeed /\ w.weekly \in 0..MaxSeed /\ w.last = None
      /\ w.rested = FALSE /\ w.stopped \in BOOLEAN /\ w.counted = {} /\ w.backdated = FALSE
      /\ w.daily <= w.weekly /\ w.used = w.daily
  BY DEF Seeded
<1>2. w.daily \in Nat /\ w.weekly \in Nat
  BY <1>1, HosAssumption
<1>3. w = [daily |-> w.daily, weekly |-> w.weekly, last |-> None, rested |-> FALSE,
           stopped |-> w.stopped, used |-> w.used, counted |-> {}, backdated |-> FALSE]
  BY DEF Seeded
<1>4. w \in Window
  <2>1. \A n, k, u \in Nat, b \in BOOLEAN :
           [daily |-> n, weekly |-> k, last |-> None, rested |-> FALSE, stopped |-> b,
            used |-> u, counted |-> {}, backdated |-> FALSE] \in Window
    BY DEF Window
  <2> QED BY <1>1, <1>2, <1>3, <2>1
<1>5. Sound(w)
  BY <1>1, <1>2, FS_EmptySet DEF Sound, Account
<1> QED BY <1>4, <1>5

LEMMA InitHolds == Init => IInv
<1> SUFFICES ASSUME Init PROVE IInv
  OBVIOUS
<1>1. window \in [Driver -> Window \cup {None}]
  BY SeededSound DEF Init
<1>2. \A d \in Driver : window[d] # None => Sound(window[d])
  BY SeededSound DEF Init
<1>3. call \in [Call -> Saving \cup {Waiting}] /\ \A c \in Call : call[c] = Waiting
  BY DEF Init
<1> QED BY <1>1, <1>2, <1>3 DEF IInv, TypeOK

\* The inductive invariant holds in every reachable state.
THEOREM Inductive == Spec => []IInv
<1>1. IInv /\ [Next]_vars => IInv'
  <2> SUFFICES ASSUME IInv, [Next]_vars PROVE IInv'
    OBVIOUS
  <2>1. CASE UNCHANGED vars
    BY <2>1 DEF vars, IInv, TypeOK, Sound, Account, Waiting
  <2>2. ASSUME NEW c \in Call, NEW d \in Driver, GetWindowFails(c, d) PROVE IInv'
    BY <2>1, <2>2 DEF GetWindowFails
  <2>3. CASE Next
    BY <2>2, <2>3, BeginKeeps, UpdateKeeps, FailKeeps DEF Next
  <2> QED BY <2>1, <2>3
<1> QED BY InitHolds, <1>1, PTL DEF Spec

\* Every reachable state is well typed; in particular no leg is ever negative.
THEOREM TypeCorrect == Spec => []TypeOK
<1>1. IInv => TypeOK
  BY DEF IInv
<1> QED BY Inductive, <1>1, PTL

\* Whatever the seeds hold, no window with an activity is stored with the break
\* hours reached and no break taken.
THEOREM NoDrivingPastBreak == Spec => []BreakBeforeEight
<1>1. IInv => BreakBeforeEight
  BY DEF IInv, Sound, BreakBeforeEight
<1> QED BY Inductive, <1>1, PTL

\* The daily and the weekly clock of a window agree.
THEOREM ClocksAgree == Spec => []DailyWithinWeekly
<1>1. IInv => DailyWithinWeekly
  BY DEF IInv, Sound, DailyWithinWeekly
<1> QED BY Inductive, <1>1, PTL

\* Concurrent stop logs never count an hour twice, unless a break was dated back
\* before the last activity.
THEOREM NoHourTwice == Spec => []HoursCountedOnce
<1>1. IInv => HoursCountedOnce
  BY DEF IInv, Sound, Account, HoursCountedOnce
<1> QED BY Inductive, <1>1, PTL

-----------------------------------------------------------------------------
(* The driver cards *)

LEMMA WindowHours ==
  ASSUME TypeOK, NEW d \in Driver, window[d] # None
  PROVE  window[d].daily \in Nat /\ window[d].weekly \in Nat
BY DEF TypeOK, Window

LEMMA LimitHours ==
  ASSUME NEW l \in Limits
  PROVE  /\ l # None
         /\ l.daily \in Nat \ {0} /\ l.weekly \in Nat \ {0}
         /\ l.rest \in Nat /\ l.reset \in Nat /\ l.reset > l.rest
         /\ \A m \in Limits : l.daily = m.daily
<1>1. l \in [daily: Nat \ {0}, weekly: Nat \ {0}, rest: Nat, reset: Nat]
  BY LimitAssumption
<1>2. l # None /\ l.rest < l.reset /\ \A m \in Limits : l.daily = m.daily
  BY LimitAssumption
<1>3. l.rest \in Nat /\ l.reset \in Nat
  BY <1>1
<1> QED BY <1>1, <1>2, <1>3

\* The announced rest makes a driver assignable again, except for weekly hours
\* that the card did not judge by the limit of the check.
THEOREM DriversExitRestLegal == Spec => []RestEndsLegal
<1>1. TypeOK => RestEndsLegal
  <2> SUFFICES ASSUME TypeOK, NEW d \in Driver, NEW card \in Lookups, NEW check \in Limits,
                      window[d] # None, window[d].stopped,
                      ~(/\ window[d].weekly >= check.weekly
                        /\ card = None \/ card.weekly > check.weekly)
               PROVE  CanAssign(Rested(window[d], card), 1, check)
    BY DEF RestEndsLegal
  <2> DEFINE w == window[d]
  <2>1. w.daily \in Nat /\ w.weekly \in Nat
    BY WindowHours
  <2>2. check # None /\ check.daily \in Nat \ {0} /\ check.weekly \in Nat \ {0}
    BY LimitHours
  <2>3. /\ Rested(w, card) # None
        /\ Rested(w, card).daily = 0
        /\ Rested(w, card).weekly = IF RestType(w, card) = "weekly" THEN 0 ELSE w.weekly
    <3>1. Rested(w, card) \in Window
      BY ResetSound DEF Rested, TypeOK
    <3> QED BY <3>1, RowAssumption DEF Rested, AfterReset
  <2>4. RestType(w, card) = "weekly" \/ w.weekly < check.weekly
    <3>1. CASE w.weekly >= check.weekly
      <4>1. card \in Limits /\ ~(card.weekly > check.weekly)
        BY <3>1 DEF Lookups
      <4>2. card # None /\ card.weekly \in Nat /\ card.reset > card.rest
        BY <4>1, LimitHours
      <4>3. w.weekly >= card.weekly
        BY <2>1, <2>2, <3>1, <4>1, <4>2
      <4> QED BY <4>2, <4>3 DEF RestType
    <3> QED BY <2>1, <2>2, <3>1
  <2>5. Rested(w, card).weekly + 1 <= check.weekly
    BY <2>1, <2>2, <2>3, <2>4
  <2> QED BY <2>2, <2>3, <2>5 DEF CanAssign
<1> QED BY <1>1, TypeCorrect, PTL

\* The board's colour tells of the check what CardsMatchCheck says, for any rows
\* that the two lookups find.
THEOREM CardsAgreeWithCheck == Spec => []CardsMatchCheck
<1>1. TypeOK => CardsMatchCheck
  <2> SUFFICES ASSUME TypeOK, NEW d \in Driver, NEW card \in Lookups, NEW check \in Lookups
               PROVE  IF HosState(window[d], card) = "red"
                      THEN ~CanAssign(window[d], 1, check)
                      ELSE \/ CanAssign(window[d], 1, check)
                           \/ window[d] = None \/ card = None \/ check = None
                           \/ window[d].weekly >= check.weekly
    BY DEF CardsMatchCheck
  <2> DEFINE w == window[d]
  <2>1. CASE w = None \/ check = None
    BY <2>1 DEF CanAssign
  <2>2. CASE card = None
    BY <2>2 DEF HosState
  <2>3. CASE w # None /\ check # None /\ card # None
    <3>1. w.daily \in Nat /\ w.weekly \in Nat
      BY <2>3, WindowHours
    <3>2. card \in Limits /\ check \in Limits
      BY <2>3 DEF Lookups
    <3>3. /\ card.daily \in Nat /\ check.weekly \in Nat /\ check.daily = card.daily
      BY <3>2, LimitHours
    <3>4. HosState(w, card) = "red" <=> w.daily >= card.daily
      BY <2>3, <3>1, <3>3 DEF HosState
    <3>5. CanAssign(w, 1, check)
            <=> w.daily + 1 <= card.daily /\ w.weekly + 1 <= check.weekly
      BY <2>3, <3>3 DEF CanAssign
    <3> QED BY <3>1, <3>3, <3>4, <3>5
  <2> QED BY <2>1, <2>2, <2>3
<1> QED BY <1>1, TypeCorrect, PTL
=============================================================================
