------------------------- MODULE LineEntriesProofs -------------------------
(***************************************************************************)
(* Proofs about LineEntries for any locations, entries, requests and       *)
(* bounds.  The argument: a primary key names the same goods in every row  *)
(* anybody has ever seen under it, in the primary, in the replica or in a  *)
(* request's memory, so writing back old rows can only write old goods     *)
(* under their own keys, and copies get keys nobody has seen.              *)
(***************************************************************************)
EXTENDS LineEntries, TLAPS

Msg == {Free, Creating} \cup Processing \cup Moving \cup Deleting

\* The rows a request has in memory and may save.
RowsOf(m) == IF m.op \in {"process", "move", "delete"} THEN m.rows ELSE {}

Seen == {r \in Row : \/ \E i \in DOMAIN saved : r \in saved[i]
                     \/ \E c \in Call : r \in RowsOf(call[c])}

\* Keys 1..n have been given out and each names one row's goods.
Named(S, n) ==
  /\ \A r \in S : r.key \in 1..n
  /\ \A r, s \in S : r.key = s.key => r.good = s.good

KeyIsId(S) == \A r, s \in S : r.key = s.key => r = s

Like(r, s) == r.key = s.key /\ r.good = s.good

OneEach(S) == \A g \in Goods : \E r \in S :
                 r.good = g /\ \A s \in S : s.good = g => s = r

IInv ==
  /\ TypeOK
  /\ Named(Seen, lastKey)
  /\ \A i \in DOMAIN saved : KeyIsId(saved[i])
  /\ \A c \in Call : KeyIsId(RowsOf(call[c]))
  /\ \A c \in Call : call[c].op = "process" => \A r \in call[c].rows : r.done
  /\ clean /\ lastKey # 0 => OneEach(Current)

\* The table S after the rows G were deleted and R copied under keys above n.
Moved(S, G, R, n, to) ==
  {r \in S : r.key \notin Keys(G)} \cup
  {[key |-> n + r.key, good |-> r.good, loc |-> to, done |-> FALSE] : r \in R}

-----------------------------------------------------------------------------
(* Rows and keys *)

LEMMA InheritNames ==
  ASSUME NEW S \in SUBSET Row, NEW T \in SUBSET Row, NEW n \in Nat, Named(S, n),
         \A r \in T : \E s \in S : Like(r, s)
  PROVE  Named(T, n)
BY DEF Named, Like, Row

LEMMA ExtendNames ==
  ASSUME NEW S \in SUBSET Row, NEW T \in SUBSET Row, NEW n \in Nat, Named(S, n),
         \A r \in T : \E s \in S : r.good = s.good /\ r.key \in {s.key, n + s.key}
  PROVE  Named(T, 2 * n)
<1>1. \A s \in S : s.key \in Nat /\ 1 <= s.key /\ s.key <= n
  BY DEF Named, Row
<1>2. ASSUME NEW r \in T PROVE r.key \in 1..(2 * n)
  <2>1. PICK s \in S : r.key \in {s.key, n + s.key}
    OBVIOUS
  <2> QED BY <1>1, <2>1
<1>3. ASSUME NEW r \in T, NEW q \in T, r.key = q.key PROVE r.good = q.good
  <2>1. PICK s \in S : r.good = s.good /\ r.key \in {s.key, n + s.key}
    OBVIOUS
  <2>2. PICK t \in S : q.good = t.good /\ q.key \in {t.key, n + t.key}
    OBVIOUS
  <2>3. s.key = t.key
    BY <1>1, <1>3, <2>1, <2>2
  <2> QED BY <2>1, <2>2, <2>3 DEF Named
<1> QED BY <1>2, <1>3 DEF Named

LEMMA MsgCases ==
  ASSUME NEW m \in Msg
  PROVE  /\ m.op = "process" => m \in Processing
         /\ m.op = "move" => m \in Moving
         /\ m.op = "delete" => m \in Deleting
         /\ RowsOf(m) \in SUBSET Row
BY DEF Msg, Free, Creating, Processing, Moving, Deleting, RowsOf

\* Writing back rows over the ones with their keys keeps one row of each good.
LEMMA WriteBack ==
  ASSUME NEW S \in SUBSET Row, NEW R \in SUBSET Row, KeyIsId(S), KeyIsId(R),
         \A r \in R, s \in S : r.key = s.key => r.good = s.good,
         Keys(R) \subseteq Keys(S)
  PROVE  LET T == {r \in S : r.key \notin Keys(R)} \cup R
         IN  KeyIsId(T) /\ Keys(T) = Keys(S) /\ (OneEach(S) => OneEach(T))
<1> DEFINE T == {r \in S : r.key \notin Keys(R)} \cup R
<1>1. KeyIsId(T)
  BY DEF KeyIsId, Keys
<1>2. Keys(T) = Keys(S)
  BY DEF Keys
<1>3. ASSUME OneEach(S) PROVE OneEach(T)
  <2> SUFFICES ASSUME NEW g \in Goods
               PROVE  \E r \in T : r.good = g /\ \A s \in T : s.good = g => s = r
    BY DEF OneEach
  <2>1. PICK r \in S : r.good = g /\ \A s \in S : s.good = g => s = r
    BY <1>3 DEF OneEach
  <2>2. ASSUME NEW q \in R, q.good = g PROVE q.key = r.key
    <3>1. PICK s \in S : s.key = q.key
      BY DEF Keys
    <3> QED BY <2>1, <2>2, <3>1
  <2>3. CASE r.key \in Keys(R)
    <3>1. PICK q \in R : q.key = r.key
      BY <2>3 DEF Keys
    <3>2. q \in T /\ q.good = g
      BY <2>1, <3>1
    <3>3. ASSUME NEW s \in T, s.good = g PROVE s = q
      <4>1. CASE s \in R
        BY <2>2, <3>1, <3>3, <4>1 DEF KeyIsId
      <4>2. CASE s \in S /\ s.key \notin Keys(R)
        BY <2>1, <2>3, <3>3, <4>2
      <4> QED BY <4>1, <4>2
    <3> QED BY <3>2, <3>3
  <2>4. CASE r.key \notin Keys(R)
    <3>1. r \in T
      BY <2>4
    <3>2. ASSUME NEW s \in T, s.good = g PROVE s = r
      <4>1. CASE s \in R
        BY <2>2, <2>4, <3>2, <4>1 DEF Keys
      <4>2. CASE s \in S
        BY <2>1, <3>2, <4>2
      <4> QED BY <4>1, <4>2
    <3> QED BY <2>1, <3>1, <3>2
  <2> QED BY <2>3, <2>4
<1> QED BY <1>1, <1>2, <1>3

\* Moving rows to fresh keys keeps one row of each good when the rows deleted are
\* the rows copied.
LEMMA Relocate ==
  ASSUME NEW S \in SUBSET Row, NEW R \in SUBSET Row, NEW G \in SUBSET Row,
         NEW n \in Nat, NEW to \in Location,
         KeyIsId(S), KeyIsId(R), \A s \in S : s.key <= n,
         \A r \in R : 1 <= r.key,
         \A r \in R, s \in S : r.key = s.key => r.good = s.good,
         Keys(G) \subseteq Keys(S)
  PROVE  LET T == Moved(S, G, R, n, to)
         IN  /\ T \in SUBSET Row
             /\ KeyIsId(T)
             /\ OneEach(S) /\ Keys(G) = Keys(R) => OneEach(T)
<1> DEFINE Copy(r) == [key |-> n + r.key, good |-> r.good, loc |-> to, done |-> FALSE]
           C == {Copy(r) : r \in R}
           T == {r \in S : r.key \notin Keys(G)} \cup C
<1>1. \A r \in R : Copy(r) \in Row /\ Copy(r).key = n + r.key /\ Copy(r).good = r.good
  BY DEF Row
<1>2. T \in SUBSET Row
  BY <1>1
<1>3. \A s \in S, r \in R : s.key # Copy(r).key
  BY <1>1 DEF Row
<1>4. \A r, q \in R : Copy(r).key = Copy(q).key => r = q
  BY <1>1 DEF Row, KeyIsId
<1>5. KeyIsId(T)
  <2> SUFFICES ASSUME NEW a \in T, NEW b \in T, a.key = b.key PROVE a = b
    BY DEF KeyIsId
  <2>1. CASE a \in S /\ b \in S
    BY <2>1 DEF KeyIsId
  <2>2. CASE a \in C /\ b \in C
    <3>1. PICK r \in R, q \in R : a = Copy(r) /\ b = Copy(q)
      BY <2>2
    <3> QED BY <1>4, <3>1
  <2>3. CASE (a \in C /\ b \in S) \/ (a \in S /\ b \in C)
    BY <1>3, <2>3
  <2> QED BY <2>1, <2>2, <2>3
<1>6. ASSUME OneEach(S), Keys(G) = Keys(R) PROVE OneEach(T)
  <2> SUFFICES ASSUME NEW g \in Goods
               PROVE  \E r \in T : r.good = g /\ \A s \in T : s.good = g => s = r
    BY DEF OneEach
  <2>1. PICK r \in S : r.good = g /\ \A s \in S : s.good = g => s = r
    BY <1>6 DEF OneEach
  <2>2. ASSUME NEW q \in R, q.good = g PROVE q.key = r.key
    <3>1. PICK s \in S : s.key = q.key
      BY <1>6 DEF Keys
    <3> QED BY <2>1, <2>2, <3>1
  <2>3. CASE r.key \in Keys(G)
    <3>1. PICK q \in R : q.key = r.key
      BY <1>6, <2>3 DEF Keys
    <3>2. Copy(q) \in T /\ Copy(q).good = g
      BY <1>1, <2>1, <3>1
    <3>3. ASSUME NEW s \in T, s.good = g PROVE s = Copy(q)
      <4>1. CASE s \in C
        <5>1. PICK p \in R : s = Copy(p)
          BY <4>1
        <5>2. p = q
          BY <1>1, <2>2, <3>1, <3>3, <5>1 DEF KeyIsId
        <5> QED BY <5>1, <5>2
      <4>2. CASE s \in S /\ s.key \notin Keys(G)
        BY <2>1, <2>3, <3>3, <4>2
      <4> QED BY <4>1, <4>2
    <3> HIDE DEF Copy, T
    <3> QED BY <3>2, <3>3
  <2>4. CASE r.key \notin Keys(G)
    <3>1. r \in T
      BY <2>4
    <3>2. ASSUME NEW s \in T, s.good = g PROVE s = r
      <4>1. CASE s \in C
        <5>1. PICK p \in R : s = Copy(p)
          BY <4>1
        <5>2. p.key = r.key
          BY <1>1, <2>2, <3>2, <5>1
        <5> QED BY <1>6, <2>4, <5>2 DEF Keys
      <4>2. CASE s \in S
        BY <2>1, <3>2, <4>2
      <4> QED BY <4>1, <4>2
    <3> HIDE DEF Copy, T
    <3> QED BY <2>1, <3>1, <3>2
  <2> QED BY <2>3, <2>4
<1>7. T = Moved(S, G, R, n, to)
  BY DEF Moved
<1> HIDE DEF T
<1> QED BY <1>2, <1>5, <1>6, <1>7
-----------------------------------------------------------------------------
(* Steps *)

LEMMA CurrentKnown ==
  ASSUME TypeOK
  PROVE  Len(saved) \in DOMAIN saved /\ Current \in SUBSET Row
BY DEF TypeOK, Current

\* What a reader of the replica sees is a content the primary table has had.
LEMMA VisibleKnown ==
  ASSUME IInv
  PROVE  Visible \in SUBSET Seen /\ KeyIsId(Visible)
<1>1. CASE shown["LineEntry"] = Empty
  BY <1>1 DEF Visible, KeyIsId
<1>2. CASE shown["LineEntry"] # Empty
  <2> DEFINE i == shown["LineEntry"] + 1
  <2>1. shown["LineEntry"] \in 0..(Len(saved) - 1)
    BY <1>2 DEF IInv, TypeOK
  <2>2. Len(saved) \in Nat /\ DOMAIN saved = 1..Len(saved)
    BY DEF IInv, TypeOK
  <2>3. i \in DOMAIN saved
    BY <2>1, <2>2
  <2>4. Visible = saved[i]
    BY <1>2 DEF Visible
  <2>5. saved[i] \in SUBSET Row
    BY <2>3 DEF IInv, TypeOK
  <2> QED BY <2>3, <2>4, <2>5 DEF IInv, Seen
<1> QED BY <1>1, <1>2

\* A request that only changes what it has in memory keeps the invariant when
\* its new rows are like rows seen before.
LEMMA KeepKeeps ==
  ASSUME IInv, NEW c \in Call, NEW m \in Msg, Keep(c, m),
         \A r \in RowsOf(m) : \E s \in Seen : Like(r, s),
         KeyIsId(RowsOf(m)),
         m.op = "process" => \A r \in m.rows : r.done
  PROVE  IInv'
<1>1. TypeOK'
  BY DEF IInv, TypeOK, Keep, Msg
<1>2. \A d \in Call : call'[d] = IF d = c THEN m ELSE call[d]
  BY DEF IInv, TypeOK, Keep
<1>3. Named(Seen, lastKey)'
  <2>1. \A r \in Seen' : \E s \in Seen : Like(r, s)
    <3> SUFFICES ASSUME NEW r \in Seen' PROVE \E s \in Seen : Like(r, s)
      OBVIOUS
    <3>1. CASE r \in RowsOf(m)
      BY <3>1
    <3>2. CASE r \notin RowsOf(m)
      <4>1. r \in Seen
        BY <1>2, <3>2 DEF Seen, Keep
      <4> QED BY <4>1 DEF Like
    <3> QED BY <3>1, <3>2
  <2>2. Seen \in SUBSET Row /\ Seen' \in SUBSET Row /\ lastKey \in Nat
    BY DEF Seen, IInv, TypeOK, Row
  <2>3. Named(Seen', lastKey)
    BY <2>1, <2>2, InheritNames DEF IInv
  <2> QED BY <2>3 DEF Keep, Named
<1>4. (\A i \in DOMAIN saved : KeyIsId(saved[i]))'
  BY DEF IInv, Keep, KeyIsId
<1>5. (\A d \in Call : KeyIsId(RowsOf(call[d])))'
  BY <1>2 DEF IInv, KeyIsId
<1>6. (\A d \in Call : call[d].op = "process" => \A r \in call[d].rows : r.done)'
  BY <1>2 DEF IInv
<1>7. (clean /\ lastKey # 0 => OneEach(Current))'
  BY DEF IInv, Keep, Current, OneEach
<1> QED BY <1>1, <1>3, <1>4, <1>5, <1>6, <1>7 DEF IInv

\* A request that saves the table T keeps what does not depend on lastKey and clean.
LEMMA SaveKeeps ==
  ASSUME IInv, NEW c \in Call, NEW m \in {Free, Creating}, NEW T \in SUBSET Row,
         saved' = Append(saved, T), call' = [call EXCEPT ![c] = m],
         UNCHANGED <<shown, floor>>, lastKey' \in Nat, clean' \in BOOLEAN,
         KeyIsId(T)
  PROVE  /\ TypeOK'
         /\ Current' = T
         /\ \A r \in Seen' : r \in Seen \/ r \in T
         /\ (\A i \in DOMAIN saved : KeyIsId(saved[i]))'
         /\ (\A d \in Call : KeyIsId(RowsOf(call[d])))'
         /\ (\A d \in Call : call[d].op = "process" => \A r \in call[d].rows : r.done)'
<1>1. /\ Len(saved') = Len(saved) + 1 /\ Len(saved) \in Nat
      /\ DOMAIN saved = 1..Len(saved) /\ DOMAIN saved' = 1..(Len(saved) + 1)
      /\ \A i \in DOMAIN saved : saved'[i] = saved[i]
      /\ saved'[Len(saved) + 1] = T
      /\ saved' \in Seq(SUBSET Row) /\ saved' # <<>>
  BY DEF IInv, TypeOK
<1>2. \A d \in Call : call'[d] = IF d = c THEN m ELSE call[d]
  BY DEF IInv, TypeOK
<1>3. m.op # "process" /\ RowsOf(m) = {}
  BY DEF RowsOf, Free, Creating
<1>4. TypeOK'
  <2>1. shown' \in [{"LineEntry"} -> 0..(Len(saved') - 1) \cup {Empty}]
    BY <1>1 DEF IInv, TypeOK
  <2>2. floor' \in [{"LineEntry"} -> 0..(Len(saved') - 1)]
    BY <1>1 DEF IInv, TypeOK
  <2>3. call' \in [Call -> {Free, Creating} \cup Processing \cup Moving \cup Deleting]
    BY DEF IInv, TypeOK
  <2> QED BY <1>1, <2>1, <2>2, <2>3 DEF TypeOK
<1>5. Current' = T
  BY <1>1 DEF Current
<1>6. \A r \in Seen' : r \in Seen \/ r \in T
  BY <1>1, <1>2, <1>3 DEF Seen
<1>7. \A i \in DOMAIN saved' : KeyIsId(saved'[i])
  <2> SUFFICES ASSUME NEW i \in DOMAIN saved' PROVE KeyIsId(saved'[i])
    OBVIOUS
  <2>1. CASE i \in DOMAIN saved
    BY <1>1, <2>1 DEF IInv
  <2>2. CASE i = Len(saved) + 1
    BY <1>1, <2>2
  <2> QED BY <1>1, <2>1, <2>2
<1>8. \A d \in Call : KeyIsId(RowsOf(call'[d]))
  <2> SUFFICES ASSUME NEW d \in Call PROVE KeyIsId(RowsOf(call'[d]))
    OBVIOUS
  <2>1. CASE d = c
    BY <1>2, <1>3, <2>1 DEF KeyIsId
  <2>2. CASE d # c
    BY <1>2, <2>2 DEF IInv
  <2> QED BY <2>1, <2>2
<1>9. \A d \in Call : call'[d].op = "process" => \A r \in call'[d].rows : r.done
  BY <1>2, <1>3 DEF IInv
<1> QED BY <1>4, <1>5, <1>6, <1>7, <1>8, <1>9 DEF KeyIsId, RowsOf

LEMMA CreateKeeps ==
  ASSUME IInv, NEW c \in Call, NEW place \in [Goods -> Location], Create(c, place)
  PROVE  IInv'
<1> DEFINE Made(g) == [key |-> g, good |-> g, loc |-> place[g], done |-> FALSE]
           T == {Made(g) : g \in Goods}
<1>1. \A g \in Goods : Made(g) \in Row /\ Made(g).key = g /\ Made(g).good = g
  BY DEF Row, Goods
<1>2. T \in SUBSET Row /\ KeyIsId(T)
  <2>1. T \in SUBSET Row
    BY <1>1
  <2>2. KeyIsId(T)
    <3> SUFFICES ASSUME NEW a \in T, NEW b \in T, a.key = b.key PROVE a = b
      BY DEF KeyIsId
    <3>1. PICK g \in Goods, h \in Goods : a = Made(g) /\ b = Made(h)
      OBVIOUS
    <3> QED BY <1>1, <3>1
  <2> QED BY <2>1, <2>2
<1>3. /\ saved' = Append(saved, T) /\ call' = [call EXCEPT ![c] = Creating]
      /\ UNCHANGED <<shown, floor, clean>> /\ lastKey = 0 /\ lastKey' = Entries
  BY DEF Create
<1>4. lastKey' \in Nat /\ clean' \in BOOLEAN
  BY <1>3, LineEntriesAssumption DEF IInv, TypeOK
<1> HIDE DEF T, Made
<1>5. /\ TypeOK'
      /\ Current' = T
      /\ \A r \in Seen' : r \in Seen \/ r \in T
      /\ (\A i \in DOMAIN saved : KeyIsId(saved[i]))'
      /\ (\A d \in Call : KeyIsId(RowsOf(call[d])))'
      /\ (\A d \in Call : call[d].op = "process" => \A r \in call[d].rows : r.done)'
  BY <1>2, <1>3, <1>4, SaveKeeps
<1>6. Seen = {}
  <2>1. \A r \in Seen : r.key \in 1..0
    BY <1>3 DEF IInv, Named
  <2> QED BY <2>1
<1>7. Named(Seen, lastKey)'
  <2>1. \A r \in Seen' : r \in T
    BY <1>5, <1>6
  <2>2. \A r \in T : r.key \in 1..Entries /\ r.good = r.key
    BY <1>1 DEF T, Goods
  <2> QED BY <1>3, <2>1, <2>2 DEF Named
<1>8. OneEach(T)
  <2> SUFFICES ASSUME NEW g \in Goods
               PROVE  \E r \in T : r.good = g /\ \A s \in T : s.good = g => s = r
    BY DEF OneEach
  <2>1. Made(g) \in T /\ Made(g).good = g
    BY <1>1 DEF T
  <2>2. \A s \in T : s.good = g => s = Made(g)
    BY <1>1 DEF T
  <2> QED BY <2>1, <2>2
<1> QED BY <1>5, <1>7, <1>8 DEF IInv, OneEach

LEMMA ProcessReadKeeps ==
  ASSUME IInv, NEW c \in Call, NEW loc \in Location, ProcessRead(c, loc)
  PROVE  IInv'
<1> DEFINE Marked(r) == [r EXCEPT !.done = TRUE]
           R == {Marked(r) : r \in VisibleAt(loc)}
           m == [op |-> "process", rows |-> R]
<1>1. VisibleAt(loc) \in SUBSET Row /\ VisibleAt(loc) \in SUBSET Seen
      /\ KeyIsId(VisibleAt(loc))
  BY VisibleKnown DEF VisibleAt, Seen, KeyIsId
<1>2. \A r \in VisibleAt(loc) : Marked(r) \in Row /\ Like(Marked(r), r) /\ Marked(r).done
  BY <1>1 DEF Row, Like
<1>3. \A r \in R : \E s \in Seen : Like(r, s)
  BY <1>1, <1>2
<1>4. KeyIsId(R)
  <2> SUFFICES ASSUME NEW a \in R, NEW b \in R, a.key = b.key PROVE a = b
    BY DEF KeyIsId
  <2>1. PICK r \in VisibleAt(loc), q \in VisibleAt(loc) : a = Marked(r) /\ b = Marked(q)
    OBVIOUS
  <2>2. r = q
    BY <1>1, <1>2, <2>1 DEF Like, KeyIsId
  <2> QED BY <2>1, <2>2
<1>5. R \in (SUBSET Row) \ {{}} /\ \A r \in R : r.done
  <2>1. PICK q : q \in VisibleAt(loc)
    BY DEF ProcessRead
  <2>2. Marked(q) \in R
    BY <2>1
  <2>3. \A r \in R : r \in Row /\ r.done
    BY <1>2
  <2> HIDE DEF R, Marked
  <2> QED BY <2>2, <2>3
<1>6. Keep(c, m)
  BY DEF ProcessRead
<1> HIDE DEF R, Marked
<1>7. m \in Msg /\ RowsOf(m) = R
  BY <1>5 DEF Msg, Processing, RowsOf
<1> QED BY <1>3, <1>4, <1>5, <1>6, <1>7, KeepKeeps

LEMMA ProcessSaveKeeps ==
  ASSUME IInv, NEW c \in Call, ProcessSave(c)
  PROVE  IInv'
<1> DEFINE R == call[c].rows
           T == {r \in Current : r.key \notin Keys(R)} \cup R
<1>1. call[c] \in Processing /\ RowsOf(call[c]) = R /\ R \in SUBSET Row
  BY MsgCases DEF ProcessSave, Holds, IInv, TypeOK, Msg, RowsOf
<1>2. R \in SUBSET Seen /\ Current \in SUBSET Seen /\ KeyIsId(R) /\ KeyIsId(Current)
  BY <1>1, CurrentKnown DEF IInv, Seen, Current
<1>3. \A r \in R, s \in Current : r.key = s.key => r.good = s.good
  BY <1>2 DEF IInv, Named
<1>4. Keys(R) \subseteq Keys(Current) /\ T \in SUBSET Row /\ Current \in SUBSET Row
  BY <1>1, CurrentKnown DEF ProcessSave, IInv
<1>5. KeyIsId(T) /\ (OneEach(Current) => OneEach(T))
  BY <1>1, <1>2, <1>3, <1>4, WriteBack
<1>6. /\ saved' = Append(saved, T) /\ call' = [call EXCEPT ![c] = Free]
      /\ UNCHANGED <<shown, floor, lastKey, clean>>
  BY DEF ProcessSave, Save
<1>7. lastKey' \in Nat /\ clean' \in BOOLEAN /\ lastKey \in Nat
  BY <1>6 DEF IInv, TypeOK
<1>8. T \in SUBSET Seen
  BY <1>2
<1> HIDE DEF T, R
<1>9. /\ TypeOK'
      /\ Current' = T
      /\ \A r \in Seen' : r \in Seen \/ r \in T
      /\ (\A i \in DOMAIN saved : KeyIsId(saved[i]))'
      /\ (\A d \in Call : KeyIsId(RowsOf(call[d])))'
      /\ (\A d \in Call : call[d].op = "process" => \A r \in call[d].rows : r.done)'
  BY <1>4, <1>5, <1>6, <1>7, SaveKeeps
<1>10. Named(Seen, lastKey)'
  BY <1>6, <1>8, <1>9 DEF IInv, Named
<1> QED BY <1>5, <1>6, <1>9, <1>10 DEF IInv, OneEach

LEMMA MoveReadKeeps ==
  ASSUME IInv, NEW c \in Call, NEW old \in Location, NEW new \in Location,
         MoveRead(c, old, new)
  PROVE  IInv'
<1> DEFINE R == VisibleAt(old)
           m == [op |-> "move", from |-> old, to |-> new, rows |-> R]
<1>1. R \in (SUBSET Row) \ {{}} /\ R \in SUBSET Seen /\ KeyIsId(R)
  <2>1. R # {}
    BY DEF MoveRead
  <2>2. R \in SUBSET Visible
    BY DEF VisibleAt
  <2>3. Seen \in SUBSET Row
    BY DEF Seen
  <2> HIDE DEF R
  <2>4. KeyIsId(R)
    BY <2>2, VisibleKnown DEF KeyIsId
  <2> QED BY <2>1, <2>2, <2>3, <2>4, VisibleKnown
<1>2. Keep(c, m)
  BY DEF MoveRead
<1> HIDE DEF R
<1>3. m \in Msg /\ RowsOf(m) = R
  BY <1>1 DEF Msg, Moving, RowsOf
<1> QED BY <1>1, <1>2, <1>3, KeepKeeps DEF Like

LEMMA MoveLoadKeeps ==
  ASSUME IInv, NEW c \in Call, MoveLoad(c)
  PROVE  IInv'
<1> DEFINE R == call[c].rows
           G == {r \in Current : r.loc = call[c].from}
           m == [op |-> "delete", to |-> call[c].to, rows |-> R, gone |-> G]
<1>1. call[c] \in Moving /\ RowsOf(call[c]) = R
  BY MsgCases DEF MoveLoad, Holds, IInv, TypeOK, Msg, RowsOf
<1>2. R \in (SUBSET Row) \ {{}} /\ call[c].to \in Location
  BY <1>1 DEF Moving
<1>3. R \in SUBSET Seen /\ KeyIsId(R)
  BY <1>1, <1>2 DEF IInv, Seen
<1>4. G \in SUBSET Row
  BY CurrentKnown DEF IInv
<1>5. Keep(c, m)
  BY DEF MoveLoad
<1> HIDE DEF R, G
<1>6. m \in Msg /\ RowsOf(m) = R
  BY <1>2, <1>4 DEF Msg, Deleting, RowsOf
<1> QED BY <1>3, <1>5, <1>6, KeepKeeps DEF Like

LEMMA MoveSaveKeeps ==
  ASSUME IInv, NEW c \in Call, MoveSave(c)
  PROVE  IInv'
<1> DEFINE R == call[c].rows
           G == call[c].gone
           C == {[key |-> lastKey + r.key, good |-> r.good, loc |-> call[c].to,
                  done |-> FALSE] : r \in R}
           T == {r \in Current : r.key \notin Keys(G)} \cup C
<1>1. call[c] \in Deleting /\ RowsOf(call[c]) = R /\ R \in SUBSET Row
  BY MsgCases DEF MoveSave, Holds, IInv, TypeOK, Msg, RowsOf
<1>2. G \in SUBSET Row /\ call[c].to \in Location /\ lastKey \in Nat
  BY <1>1 DEF Deleting, IInv, TypeOK
<1>3. R \in SUBSET Seen /\ Current \in SUBSET Seen /\ KeyIsId(R) /\ KeyIsId(Current)
      /\ Current \in SUBSET Row
  BY <1>1, CurrentKnown DEF IInv, Seen, Current
<1>4. /\ \A r \in R, s \in Current : r.key = s.key => r.good = s.good
      /\ \A s \in Current : s.key <= lastKey
      /\ \A r \in R : 1 <= r.key
  <2>1. \A r \in Seen : r.key \in 1..lastKey
    BY DEF IInv, Named
  <2>2. \A r, s \in Seen : r.key = s.key => r.good = s.good
    BY DEF IInv, Named
  <2>3. \A n \in 1..lastKey : 1 <= n /\ n <= lastKey
    BY <1>2
  <2> QED BY <1>3, <2>1, <2>2, <2>3
<1>5. Keys(G) \subseteq Keys(Current)
  BY DEF MoveSave
<1>6. /\ T \in SUBSET Row /\ KeyIsId(T)
      /\ OneEach(Current) /\ Keys(G) = Keys(R) => OneEach(T)
  <2>1. T = Moved(Current, G, R, lastKey, call[c].to)
    BY DEF Moved
  <2> HIDE DEF R, G, T
  <2> QED BY <1>1, <1>2, <1>3, <1>4, <1>5, <2>1, Relocate
<1>7. /\ saved' = Append(saved, T) /\ call' = [call EXCEPT ![c] = Free]
      /\ UNCHANGED <<shown, floor>> /\ lastKey' = 2 * lastKey
      /\ clean' = (clean /\ Keys(G) = Keys(R))
  BY DEF MoveSave, Save, Copies
<1>8. lastKey' \in Nat /\ clean' \in BOOLEAN
  BY <1>2, <1>7 DEF IInv, TypeOK
<1>9. \A r \in T : \E s \in Seen : r.good = s.good /\ r.key \in {s.key, lastKey + s.key}
  BY <1>3
<1> HIDE DEF T, C, R, G
<1>10. /\ TypeOK'
       /\ Current' = T
       /\ \A r \in Seen' : r \in Seen \/ r \in T
       /\ (\A i \in DOMAIN saved : KeyIsId(saved[i]))'
       /\ (\A d \in Call : KeyIsId(RowsOf(call[d])))'
       /\ (\A d \in Call : call[d].op = "process" => \A r \in call[d].rows : r.done)'
  BY <1>6, <1>7, <1>8, SaveKeeps
<1>11. Named(Seen, lastKey)'
  <2>1. \A r \in Seen' : \E s \in Seen : r.good = s.good
                                         /\ r.key \in {s.key, lastKey + s.key}
    BY <1>9, <1>10
  <2>2. Seen \in SUBSET Row /\ Seen' \in SUBSET Row
    BY DEF Seen, Row
  <2>3. Named(Seen', 2 * lastKey)
    BY <1>2, <2>1, <2>2, ExtendNames DEF IInv
  <2> QED BY <1>7, <2>3 DEF Named
<1>12. (clean /\ lastKey # 0 => OneEach(Current))'
  <2> SUFFICES ASSUME clean', lastKey' # 0 PROVE OneEach(T)
    BY <1>10 DEF OneEach
  <2>1. lastKey # 0
    BY <1>2, <1>7
  <2>2. clean /\ Keys(G) = Keys(R)
    BY <1>7, Zenon
  <2> QED BY <1>6, <2>1, <2>2 DEF IInv
<1> QED BY <1>10, <1>11, <1>12 DEF IInv

\* Nobody's memory changes and the primary stays as it is.
LEMMA SyncKeeps ==
  ASSUME IInv, Sync
  PROVE  IInv'
<1>1. shown' \in [{"LineEntry"} -> 0..(Len(saved) - 1) \cup {Empty}]
      /\ floor' \in [{"LineEntry"} -> 0..(Len(saved) - 1)]
  <2>1. CASE Replica!Blank("LineEntry")
    BY <2>1 DEF Replica!Blank, IInv, TypeOK
  <2>2. CASE Replica!Publish("LineEntry")
    <3>1. PICK v \in floor["LineEntry"]..(Len(saved) - 1) :
            /\ shown' = [shown EXCEPT !["LineEntry"] = v]
            /\ floor' = [floor EXCEPT !["LineEntry"] = v]
      BY <2>2 DEF Replica!Publish
    <3>2. v \in 0..(Len(saved) - 1)
      BY DEF IInv, TypeOK
    <3> QED BY <3>1, <3>2 DEF IInv, TypeOK
  <2> QED BY <2>1, <2>2 DEF Sync
<1>2. UNCHANGED <<saved, lastKey, call, clean>>
  BY DEF Sync
<1>3. TypeOK'
  BY <1>1, <1>2 DEF IInv, TypeOK
<1>4. Seen' = Seen /\ Current' = Current
  BY <1>2 DEF Seen, Current, RowsOf
<1> QED BY <1>2, <1>3, <1>4 DEF IInv, Named, KeyIsId, RowsOf, OneEach

LEMMA FreeKeeps ==
  ASSUME IInv, NEW c \in Call, CreateOrigin(c) \/ Fail(c)
  PROVE  IInv'
<1>1. Keep(c, Free)
  BY DEF CreateOrigin, Fail
<1>2. Free \in Msg /\ RowsOf(Free) = {} /\ Free.op # "process"
  BY DEF Msg, Free, RowsOf
<1> QED BY <1>1, <1>2, KeepKeeps DEF KeyIsId

LEMMA InitHolds == Init => IInv
<1> SUFFICES ASSUME Init PROVE IInv
  OBVIOUS
<1>1. saved = << {} >> /\ lastKey = 0 /\ clean = TRUE /\ \A c \in Call : call[c] = Free
  BY DEF Init
<1>2. TypeOK
  <2>1. saved \in Seq(SUBSET Row) /\ saved # <<>> /\ Len(saved) = 1
    BY <1>1
  <2>2. shown \in [{"LineEntry"} -> 0..(Len(saved) - 1) \cup {Empty}]
        /\ floor \in [{"LineEntry"} -> 0..(Len(saved) - 1)]
    BY <2>1 DEF Init, Replica!AInit
  <2>3. call \in [Call -> {Free, Creating} \cup Processing \cup Moving \cup Deleting]
    BY DEF Init
  <2> QED BY <1>1, <2>1, <2>2, <2>3 DEF TypeOK
<1>3. RowsOf(Free) = {} /\ Free.op # "process"
  BY DEF RowsOf, Free
<1>4. \A i \in DOMAIN saved : saved[i] = {}
  BY <1>1
<1>5. Seen = {}
  BY <1>1, <1>3, <1>4 DEF Seen
<1> QED BY <1>1, <1>2, <1>3, <1>4, <1>5 DEF IInv, Named, KeyIsId

-----------------------------------------------------------------------------
(* What a step does to the primary table *)

\* The rows S can become T: no key up to n that is gone comes back, and a row that
\* is done stays done.
Advances(S, T, n) ==
  /\ \A k \in 1..n : k \notin Keys(S) => k \notin Keys(T)
  /\ \A r \in S : r.done => \A s \in T : s.key = r.key => s.done

LEMMA CurrentNamed ==
  ASSUME IInv
  PROVE  /\ KeyIsId(Current) /\ lastKey \in Nat
         /\ \A r \in Current : r.key \in 1..lastKey
<1>1. Len(saved) \in DOMAIN saved /\ Current \in SUBSET Row /\ lastKey \in Nat
  BY CurrentKnown DEF IInv, TypeOK
<1>2. Current \in SUBSET Seen /\ KeyIsId(Current)
  BY <1>1 DEF IInv, Seen, Current
<1> QED BY <1>1, <1>2 DEF IInv, Named

LEMMA SaveIsCurrent ==
  ASSUME TypeOK, NEW c \in Call, NEW T \in SUBSET Row, saved' = Append(saved, T)
  PROVE  Current' = T
<1>1. Len(saved') = Len(saved) + 1 /\ saved'[Len(saved) + 1] = T
  BY DEF TypeOK
<1> QED BY <1>1 DEF Current

LEMMA CreateAdvances ==
  ASSUME IInv, NEW c \in Call, NEW place \in [Goods -> Location], Create(c, place)
  PROVE  Advances(Current, Current', lastKey)
<1>1. lastKey = 0
  BY DEF Create
<1>2. Current = {}
  BY <1>1, CurrentNamed
<1> QED BY <1>1, <1>2 DEF Advances

LEMMA ProcessSaveAdvances ==
  ASSUME IInv, NEW c \in Call, ProcessSave(c)
  PROVE  Advances(Current, Current', lastKey)
<1> DEFINE R == call[c].rows
           T == {r \in Current : r.key \notin Keys(R)} \cup R
<1>1. call[c] \in Processing /\ R \in SUBSET Row /\ \A r \in R : r.done
  BY MsgCases DEF ProcessSave, Holds, IInv, TypeOK, Msg, Processing
<1>2. T \in SUBSET Row
  BY <1>1, CurrentKnown DEF IInv
<1>3. saved' = Append(saved, T) /\ Keys(R) \subseteq Keys(Current)
  BY DEF ProcessSave, Save
<1>4. Keys(T) = Keys(Current)
  BY <1>3 DEF Keys
<1>5. \A r \in Current : r.done => \A s \in T : s.key = r.key => s.done
  BY <1>1, CurrentNamed DEF KeyIsId
<1> HIDE DEF T, R
<1>6. Current' = T
  BY <1>2, <1>3, SaveIsCurrent DEF IInv
<1> QED BY <1>4, <1>5, <1>6 DEF Advances

LEMMA MoveSaveAdvances ==
  ASSUME IInv, NEW c \in Call, MoveSave(c)
  PROVE  Advances(Current, Current', lastKey)
<1> DEFINE R == call[c].rows
           G == call[c].gone
           T == {r \in Current : r.key \notin Keys(G)} \cup Copies(c)
<1>1. R \in SUBSET Row /\ R \in SUBSET Seen /\ call[c].to \in Location
  BY MsgCases DEF MoveSave, Holds, IInv, TypeOK, Msg, Deleting, RowsOf, Seen
<1>2. \A r \in R : r.key \in 1..lastKey
  BY <1>1 DEF IInv, Named
<1>3. \A s \in Copies(c) : s \in Row /\ s.key \in Nat /\ s.key > lastKey
  <2>1. lastKey \in Nat
    BY DEF IInv, TypeOK
  <2> SUFFICES ASSUME NEW r \in R,
                      NEW s, s = [key |-> lastKey + r.key, good |-> r.good,
                                  loc |-> call[c].to, done |-> FALSE]
               PROVE  s \in Row /\ s.key \in Nat /\ s.key > lastKey
    BY DEF Copies
  <2>2. r.key \in Nat /\ r.key >= 1 /\ r.good \in Goods
    BY <1>1, <1>2, <2>1 DEF Row
  <2> QED BY <1>1, <2>1, <2>2 DEF Row
<1>4. T \in SUBSET Row
  BY <1>3, CurrentKnown DEF IInv
<1>5. \A k \in 1..lastKey : k \notin Keys(Current) => k \notin Keys(T)
  BY <1>3, CurrentNamed DEF Keys
<1>6. \A r \in Current : r.done => \A s \in T : s.key = r.key => s.done
  <2> SUFFICES ASSUME NEW r \in Current, r.done, NEW s \in T, s.key = r.key
               PROVE  s.done
    OBVIOUS
  <2>1. s \notin Copies(c)
    BY <1>3, CurrentNamed
  <2> QED BY <2>1, CurrentNamed DEF KeyIsId
<1>7. saved' = Append(saved, T)
  BY DEF MoveSave, Save
<1> HIDE DEF T
<1>8. Current' = T
  BY <1>4, <1>7, SaveIsCurrent DEF IInv
<1> QED BY <1>5, <1>6, <1>8 DEF Advances

LEMMA NextAdvances == IInv /\ [Next]_vars => Advances(Current, Current', lastKey)
<1> SUFFICES ASSUME IInv, [Next]_vars PROVE Advances(Current, Current', lastKey)
  OBVIOUS
<1>1. ASSUME saved' = saved PROVE Advances(Current, Current', lastKey)
  <2>1. Current' = Current
    BY <1>1 DEF Current
  <2> QED BY <2>1, CurrentNamed DEF Advances, KeyIsId
<1>2. CASE Sync \/ UNCHANGED vars
  BY <1>1, <1>2 DEF Sync, vars
<1>3. ASSUME NEW c \in Call, Request(c) PROVE Advances(Current, Current', lastKey)
  <2>1. ASSUME NEW m, Keep(c, m) PROVE Advances(Current, Current', lastKey)
    BY <1>1, <2>1 DEF Keep
  <2>2. CASE CreateOrigin(c) \/ MoveLoad(c) \/ Fail(c)
    BY <2>1, <2>2 DEF CreateOrigin, MoveLoad, Fail
  <2>3. CASE \E loc \in Location : ProcessRead(c, loc)
    BY <2>1, <2>3 DEF ProcessRead
  <2>4. CASE \E old, new \in Location : MoveRead(c, old, new)
    BY <2>1, <2>4 DEF MoveRead
  <2> QED BY <1>3, <2>2, <2>3, <2>4, CreateAdvances, ProcessSaveAdvances,
             MoveSaveAdvances DEF Request
<1> QED BY <1>2, <1>3 DEF Next

-----------------------------------------------------------------------------
(* Theorems *)

LEMMA NextKeeps == IInv /\ [Next]_vars => IInv'
<1> SUFFICES ASSUME IInv, [Next]_vars PROVE IInv'
  OBVIOUS
<1>1. CASE Sync
  BY <1>1, SyncKeeps
<1>2. ASSUME NEW c \in Call, Request(c) PROVE IInv'
  BY <1>2, CreateKeeps, FreeKeeps, ProcessReadKeeps, ProcessSaveKeeps,
     MoveReadKeeps, MoveLoadKeeps, MoveSaveKeeps DEF Request
<1>3. CASE UNCHANGED vars
  <2>1. TypeOK' /\ Seen' = Seen /\ Current' = Current
    BY <1>3 DEF vars, IInv, TypeOK, Seen, Current, RowsOf
  <2> QED BY <1>3, <2>1 DEF vars, IInv, Named, KeyIsId, RowsOf, OneEach
<1> QED BY <1>1, <1>2, <1>3 DEF Next

\* The inductive invariant holds in every reachable state.
THEOREM Inductive == Spec => []IInv
BY InitHolds, NextKeeps, PTL DEF Spec

\* Every reachable state is well typed.
THEOREM TypeCorrect == Spec => []TypeOK
<1>1. IInv => TypeOK
  BY DEF IInv
<1> QED BY Inductive, <1>1, PTL

\* Moves that delete what they copied lose and duplicate nothing.
THEOREM GoodsHeldOnce == Spec => []MovedOnceUnlessStale
<1>1. IInv => MovedOnceUnlessStale
  BY DEF IInv, OneEach, MovedOnceUnlessStale
<1> QED BY Inductive, <1>1, PTL

\* No stop log brings back a row that a move deleted.
THEOREM NothingComesBack == Spec => DeletedStayDeleted
<1>1. IInv /\ [Next]_vars =>
        [\A k \in 1..lastKey : k \notin Keys(Current) => k \notin Keys(Current)']_vars
  BY NextAdvances DEF Advances, Keys
<1> QED BY Inductive, <1>1, PTL DEF Spec, DeletedStayDeleted

\* No request overwrites a processed row with an unprocessed one.
THEOREM MarksAreKept == Spec => ProcessedStays
<1>1. IInv /\ [Next]_vars =>
        [\A r \in Current : r.done =>
            \A s \in Current' : s.key = r.key => s.done]_vars
  BY NextAdvances DEF Advances
<1> QED BY Inductive, <1>1, PTL DEF Spec, ProcessedStays
=============================================================================
