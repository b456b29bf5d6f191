---------------------------- MODULE FoldTheorems ----------------------------
(***************************************************************************)
(* Induction over naturals and sequences, and what FoldLeft computes, in a *)
(* form that the provers can use: an induction hypothesis is a set, and    *)
(* the step of the fold is the constant op of this module, so that each    *)
(* fold of a specification has its facts from an instance.  The first      *)
(* argument of op is whatever the fold takes from its surroundings.        *)
(***************************************************************************)
EXTENDS SequencesExt, WellFoundedInduction, TLAPS

CONSTANT op(_, _, _)

Below == {p \in Nat \X Nat : p[1] < p[2]}

\* The order of the naturals has a least element in every set, for SetInduction.
LEMMA BelowWF == IsWellFoundedOn(Below, Nat)
<1>1. OpToRel(<, Nat) = Below
  BY DEF OpToRel, Below
<1> QED BY <1>1, NatLessThanWellFounded

\* A set that has 0 and every successor of its naturals has all naturals.
THEOREM SetInduction ==
  ASSUME NEW S, 0 \in S, \A n \in Nat : n \in S => n + 1 \in S
  PROVE  Nat \subseteq S
<1> DEFINE T == Nat \ S
<1>1. SUFFICES ASSUME T # {} PROVE FALSE
  OBVIOUS
<1>2. PICK x \in T : \A y \in T : ~(<<y, x>> \in Below)
  <2>1. T \subseteq Nat
    OBVIOUS
  <2> HIDE DEF T
  <2> QED BY <1>1, <2>1, BelowWF, WFMin
<1>3. x # 0 /\ x - 1 \in Nat
  OBVIOUS
<1>4. <<x - 1, x>> \in Below
  BY <1>3 DEF Below
<1>5. x - 1 \in S
  BY <1>2, <1>3, <1>4
<1>6. x - 1 + 1 = x
  OBVIOUS
<1> QED BY <1>3, <1>5, <1>6

\* A set that has the empty sequence and, with a sequence, every longer one has
\* all sequences.
THEOREM SeqInduction ==
  ASSUME NEW E, NEW S, <<>> \in S,
         \A s \in Seq(E), e \in E : s \in S => Append(s, e) \in S
  PROVE  Seq(E) \subseteq S
<1> DEFINE T == {n \in Nat : \A s \in Seq(E) : Len(s) = n => s \in S}
<1>1. 0 \in T
  <2>1. \A s \in Seq(E) : Len(s) = 0 => s = <<>>
    OBVIOUS
  <2> QED BY <2>1
<1>2. ASSUME NEW n \in Nat, n \in T
      PROVE  n + 1 \in T
  <2> SUFFICES ASSUME NEW s \in Seq(E), Len(s) = n + 1
               PROVE  s \in S
    OBVIOUS
  <2> DEFINE f == SubSeq(s, 1, n)
  <2>1. f \in Seq(E) /\ Len(f) = n /\ s[n + 1] \in E
    OBVIOUS
  <2>2. s = Append(f, s[n + 1])
    OBVIOUS
  <2>3. f \in S
    BY <1>2, <2>1
  <2> HIDE DEF f
  <2> QED BY <2>1, <2>2, <2>3
<1> HIDE DEF T
<1>3. Nat \subseteq T
  BY <1>1, <1>2, SetInduction
<1> USE DEF T
<1> QED BY <1>3

-----------------------------------------------------------------------------
(* FoldLeft *)

\* A set of places of a sequence has a last one, which MapThenFoldSet picks first.
LEMMA MaxOfBounded ==
  ASSUME NEW n \in Nat, NEW X \in SUBSET (1..n), X # {}
  PROVE  Max(X) \in X /\ \A y \in X : Max(X) >= y
<1> DEFINE T == {m \in Nat : \A Y \in SUBSET (1..m) :
                    Y # {} => \E x \in Y : \A y \in Y : x >= y}
<1>1. 0 \in T
  <2>1. 1..0 = {}
    OBVIOUS
  <2> QED BY <2>1
<1>2. ASSUME NEW m \in Nat, m \in T
      PROVE  m + 1 \in T
  <2> SUFFICES ASSUME NEW Y \in SUBSET (1..(m + 1)), Y # {}
               PROVE  \E x \in Y : \A y \in Y : x >= y
    OBVIOUS
  <2>1. CASE m + 1 \in Y
    BY <2>1
  <2>2. CASE m + 1 \notin Y
    <3>1. Y \in SUBSET (1..m)
      BY <2>2
    <3> QED BY <1>2, <3>1
  <2> QED BY <2>1, <2>2
<1> HIDE DEF T
<1>3. n \in T
  BY <1>1, <1>2, SetInduction
<1>4. \E x \in X : \A y \in X : x >= y
  BY <1>3 DEF T
<1> QED BY <1>4 DEF Max

\* The fold that an instance is about.
Fold(c, base, s) == FoldLeft(LAMBDA v, e : op(c, v, e), base, s)

\* g is the function that MapThenFoldSet recurses with, on the first n places.
Runs(g, c, base, s, n) ==
  g = [X \in SUBSET (1..n) |->
         IF X = {} THEN base ELSE op(c, g[X \ {Max(X)}], s[Max(X)])]

\* There is such a function for every sequence.
LEMMA RunsExists ==
  ASSUME NEW c, NEW base, NEW s, NEW n \in Nat
  PROVE  \E g : Runs(g, c, base, s, n)
<1> DEFINE T == {m \in Nat : \E g : Runs(g, c, base, s, m)}
<1>1. 0 \in T
  <2> DEFINE g == [X \in SUBSET (1..0) |-> base]
  <2>1. Runs(g, c, base, s, 0)
    BY DEF Runs
  <2> QED BY <2>1
<1>2. ASSUME NEW m \in Nat, m \in T
      PROVE  m + 1 \in T
  <2>1. PICK g : Runs(g, c, base, s, m)
    BY <1>2
  <2> DEFINE h == [X \in SUBSET (1..(m + 1)) |->
                     IF m + 1 \in X THEN op(c, g[X \ {m + 1}], s[m + 1]) ELSE g[X]]
  <2>2. ASSUME NEW X \in SUBSET (1..(m + 1)), X # {}
        PROVE  h[X] = op(c, h[X \ {Max(X)}], s[Max(X)])
    <3>1. Max(X) \in X /\ \A y \in X : Max(X) >= y
      <4>1. m + 1 \in Nat
        OBVIOUS
      <4> HIDE DEF h, T
      <4> QED BY <2>2, <4>1, MaxOfBounded
    <3>2. CASE m + 1 \in X
      <4>1. Max(X) = m + 1
        <5>1. Max(X) >= m + 1 /\ Max(X) \in 1..(m + 1)
          BY <3>1, <3>2
        <5> HIDE DEF h
        <5> QED BY <5>1
      <4>2. X \ {m + 1} \in SUBSET (1..(m + 1)) /\ m + 1 \notin X \ {m + 1}
        OBVIOUS
      <4>3. h[X \ {m + 1}] = g[X \ {m + 1}]
        BY <4>2
      <4> QED BY <3>2, <4>1, <4>3
    <3>3. CASE m + 1 \notin X
      <4>1. X \in SUBSET (1..m)
        BY <3>3
      <4>2. h[X] = op(c, g[X \ {Max(X)}], s[Max(X)])
        BY <2>1, <2>2, <3>3, <4>1 DEF Runs
      <4>3. h[X \ {Max(X)}] = g[X \ {Max(X)}]
        BY <3>3
      <4> QED BY <4>2, <4>3
    <3> QED BY <3>2, <3>3
  <2>3. h[{}] = base
    BY <2>1 DEF Runs
  <2>4. h = [X \in SUBSET (1..(m + 1)) |->
               IF X = {} THEN base ELSE op(c, h[X \ {Max(X)}], s[Max(X)])]
    <3> HIDE DEF h
    <3>1. h = [X \in SUBSET (1..(m + 1)) |-> h[X]]
      BY DEF h
    <3> QED BY <2>2, <2>3, <3>1
  <2> HIDE DEF h
  <2>5. Runs(h, c, base, s, m + 1)
    BY <2>4 DEF Runs
  <2> QED BY <2>5
<1> HIDE DEF T
<1>3. n \in T
  BY <1>1, <1>2, SetInduction
<1> QED BY <1>3 DEF T

\* On the first places it takes one step of op per place.
LEMMA RunsSteps ==
  ASSUME NEW c, NEW base, NEW s, NEW n \in Nat, NEW g, Runs(g, c, base, s, n)
  PROVE  /\ g[{}] = base
         /\ \A i \in 1..n : g[1..i] = op(c, g[1..(i - 1)], s[i])
<1>1. g[{}] = base
  BY DEF Runs
<1>2. ASSUME NEW i \in 1..n
      PROVE  g[1..i] = op(c, g[1..(i - 1)], s[i])
  <2>1. 1..i \in SUBSET (1..n) /\ 1..i # {}
    OBVIOUS
  <2>2. Max(1..i) = i
    <3>1. Max(1..i) \in 1..i /\ \A y \in 1..i : Max(1..i) >= y
      BY <2>1, MaxOfBounded
    <3> QED BY <3>1
  <2>3. (1..i) \ {i} = 1..(i - 1)
    OBVIOUS
  <2> QED BY <2>1, <2>2, <2>3 DEF Runs
<1> QED BY <1>1, <1>2

\* FoldLeft has the value of such a function on all places.
LEMMA FoldRuns ==
  ASSUME NEW c, NEW base, NEW E, NEW s \in Seq(E)
  PROVE  \E g : /\ Runs(g, c, base, s, Len(s))
                /\ Fold(c, base, s) = g[1..Len(s)]
<1> DEFINE it == CHOOSE g : Runs(g, c, base, s, Len(s))
<1>1. Len(s) \in Nat /\ DOMAIN s = 1..Len(s)
  OBVIOUS
<1>2. Runs(it, c, base, s, Len(s))
  BY <1>1, RunsExists
<1>3. Fold(c, base, s) = it[1..Len(s)]
  BY <1>1 DEF Fold, FoldLeft, MapThenFoldSet, Runs
<1> HIDE DEF it
<1> QED BY <1>2, <1>3

\* The fold of an empty sequence is the base.
THEOREM FoldEmpty ==
  ASSUME NEW c, NEW base
  PROVE  Fold(c, base, <<>>) = base
<1>1. <<>> \in Seq({}) /\ Len(<<>>) = 0 /\ 1..0 = {}
  OBVIOUS
<1>2. PICK g : /\ Runs(g, c, base, <<>>, Len(<<>>))
               /\ Fold(c, base, <<>>) = g[1..Len(<<>>)]
  BY <1>1, FoldRuns
<1>3. g[{}] = base
  BY <1>1, <1>2 DEF Runs
<1> QED BY <1>1, <1>2, <1>3

\* The fold of a longer sequence is a step after the fold of the shorter one.
THEOREM FoldAppend ==
  ASSUME NEW c, NEW base, NEW E, NEW s \in Seq(E), NEW x \in E
  PROVE  Fold(c, base, Append(s, x))
           = op(c, Fold(c, base, s), x)
<1> DEFINE t == Append(s, x)
           n == Len(s)
<1>1. /\ t \in Seq(E) /\ Len(t) = n + 1 /\ n \in Nat
      /\ t[n + 1] = x
      /\ \A i \in 1..n : t[i] = s[i]
  OBVIOUS
<1>2. PICK g : /\ Runs(g, c, base, s, n)
               /\ Fold(c, base, s) = g[1..n]
  BY FoldRuns
<1>3. PICK h : /\ Runs(h, c, base, t, n + 1)
               /\ Fold(c, base, t) = h[1..(n + 1)]
  <2> HIDE DEF t, n
  <2> QED BY <1>1, FoldRuns
<1> HIDE DEF t, n
<1>4. /\ g[{}] = base
      /\ \A i \in 1..n : g[1..i] = op(c, g[1..(i - 1)], s[i])
  BY <1>1, <1>2, RunsSteps
<1>5. /\ h[{}] = base
      /\ \A i \in 1..(n + 1) : h[1..i] = op(c, h[1..(i - 1)], t[i])
  <2> DEFINE m == n + 1
  <2>1. m \in Nat /\ Runs(h, c, base, t, m)
    BY <1>1, <1>3
  <2> HIDE DEF m
  <2>2. /\ h[{}] = base
        /\ \A i \in 1..m : h[1..i] = op(c, h[1..(i - 1)], t[i])
    BY <2>1, RunsSteps
  <2> QED BY <2>2 DEF m
<1> DEFINE T == {i \in Nat : i <= n => h[1..i] = g[1..i]}
<1>6. 0 \in T
  <2>1. 1..0 = {}
    OBVIOUS
  <2> QED BY <1>4, <1>5, <2>1
<1>7. ASSUME NEW i \in Nat, i \in T
      PROVE  i + 1 \in T
  <2> SUFFICES ASSUME i + 1 <= n
               PROVE  h[1..(i + 1)] = g[1..(i + 1)]
    OBVIOUS
  <2>1. i + 1 \in 1..n /\ i + 1 \in 1..(n + 1) /\ (i + 1) - 1 = i /\ i <= n
    BY <1>1
  <2>2. h[1..i] = g[1..i] /\ t[i + 1] = s[i + 1]
    BY <1>1, <1>7, <2>1
  <2> QED BY <1>4, <1>5, <2>1, <2>2
<1> HIDE DEF T
<1>8. n \in T
  BY <1>1, <1>6, <1>7, SetInduction
<1>9. h[1..n] = g[1..n]
  BY <1>1, <1>8 DEF T
<1>10. n + 1 \in 1..(n + 1) /\ (n + 1) - 1 = n
  BY <1>1
<1>11. h[1..(n + 1)] = op(c, h[1..n], x)
  BY <1>1, <1>5, <1>10
<1> QED BY <1>2, <1>3, <1>9, <1>11 DEF t
=============================================================================
