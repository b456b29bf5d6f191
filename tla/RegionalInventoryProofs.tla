---------------------- MODULE RegionalInventoryProofs ----------------------
(***************************************************************************)
(* Proofs about TokenProvider, for any calls, timeouts and token lifetime  *)
(* that satisfy TimesAssumption, and about RegionalInventory, for any      *)
(* warehouses, categories and other calls.  The token's invariant bounds,  *)
(* for every step of a call, how far its deadline is from the clock and    *)
(* from the end of the token it holds; the stored expiry lags the true one *)
(* by at most a refresh.  A regional request is one more user of the       *)
(* token, so what is proved of it holds there; the rest relates what       *)
(* either wait collected to the calls it waited for.                       *)
(***************************************************************************)
EXTENDS RegionalInventory, TLAPS

-----------------------------------------------------------------------------
(* The token *)

\* The longest time from the issue of a token to its storing.
Lag == RefreshTimeout + Delay

\* The stored expiry leaves room for one refresh and one call.
TokenFresh == tokenExpiry = 0 \/ tokenExpiry + Margin <= token + Lag

Running == {"asking", "fetching", "issued", "stored", "sent"}

Timely(r) ==
  /\ r.pc \in Running => now <= r.by
  /\ r.pc = "fetching" => r.by <= now + Lag
  /\ r.pc = "issued" => r.by + Lifetime <= r.token + Lag
  /\ r.pc = "stored" =>
       /\ r.by <= now + Delay
       /\ r.by + Lifetime <= tokenExpiry + Margin + Delay
       /\ tokenExpiry + Margin <= token + Lag
  /\ r.pc = "sent" => r.token = NoToken \/ r.by < r.token

TokenInv == TypeOK /\ TokenFresh /\ \A c \in Call : Timely(call[c])

-----------------------------------------------------------------------------

LEMMA Times ==
  /\ Lifetime \in Nat /\ Margin \in Nat /\ RefreshTimeout \in Nat
  /\ CallTimeout \in Nat /\ Delay \in Nat /\ MaxTime \in Nat
  /\ RefreshTimeout + CallTimeout + 2 * Delay <= Margin
  /\ RefreshTimeout + CallTimeout + 3 * Delay < Lifetime
BY TimesAssumption

LEMMA TypeOfCall ==
  ASSUME TypeOK, NEW c \in Call
  PROVE  /\ call[c] \in [pc: Steps, by: Nat, token: Nat]
         /\ call[c].pc \in Steps /\ call[c].by \in Nat /\ call[c].token \in Nat
BY DEF TypeOK

\* A call that goes to a step in time, while the token stays as it is, leaves
\* every call in time.
LEMMA GotoKeeps ==
  ASSUME TokenInv, NEW c \in Call, NEW pc \in Steps, NEW by \in Nat, NEW t \in Nat,
         Goto(c, pc, by, t), UNCHANGED <<now, token, tokenExpiry>>,
         Timely([pc |-> pc, by |-> by, token |-> t])
  PROVE  TokenInv'
<1>1. call' = [call EXCEPT ![c] = [pc |-> pc, by |-> by, token |-> t]]
  BY DEF Goto
<1>2. TypeOK'
  BY <1>1 DEF TokenInv, TypeOK
<1>3. TokenFresh'
  BY DEF TokenInv, TokenFresh, Lag
<1>4. ASSUME NEW d \in Call PROVE Timely(call[d])'
  <2>1. CASE d = c
    BY <1>1, <2>1 DEF TokenInv, TypeOK, Timely, Lag
  <2>2. CASE d # c
    <3>1. call'[d] = call[d] /\ Timely(call[d])
      BY <1>1, <2>2 DEF TokenInv, TypeOK
    <3> QED BY <3>1 DEF Timely, Lag
  <2> QED BY <2>1, <2>2
<1> QED BY <1>2, <1>3, <1>4 DEF TokenInv

\* Setting several calls to records that run nothing or are about to ask.
LEMMA ResetKeeps ==
  ASSUME TokenInv, NEW cs \in SUBSET Call, UNCHANGED <<now, token, tokenExpiry>>,
         NEW r \in [pc: {"idle", "asking"}, by: Nat, token: Nat],
         r.pc = "asking" => now <= r.by,
         call' = [c \in Call |-> IF c \in cs THEN r ELSE call[c]]
  PROVE  TokenInv'
<1>1. TypeOK'
  BY DEF TokenInv, TypeOK, Steps
<1>2. TokenFresh'
  BY DEF TokenInv, TokenFresh, Lag
<1>3. ASSUME NEW d \in Call PROVE Timely(call[d])'
  <2>1. CASE d \in cs
    <3>1. call'[d] = r
      BY <2>1
    <3> QED BY <3>1 DEF Timely, Running
  <2>2. CASE d \notin cs
    <3>1. call'[d] = call[d] /\ Timely(call[d])
      BY <2>2 DEF TokenInv
    <3> QED BY <3>1 DEF Timely, Lag
  <2> QED BY <2>1, <2>2
<1> QED BY <1>1, <1>2, <1>3 DEF TokenInv

\* A request sent with nothing, or with a token that outlives the call, is in time.
LEMMA SentInTime ==
  ASSUME TokenInv, NEW t \in Nat,
         t = NoToken \/ now + Delay + CallTimeout < t
  PROVE  /\ CallDeadline \in Nat
         /\ Timely([pc |-> "sent", by |-> CallDeadline, token |-> t])
BY Times DEF TokenInv, TypeOK, Timely, CallDeadline, Running

-----------------------------------------------------------------------------
(* The actions *)

LEMMA BeginKeeps ==
  ASSUME TokenInv, NEW cs \in SUBSET Call, Begin(cs) PROVE TokenInv'
<1> DEFINE r == [pc |-> "asking", by |-> now + Delay, token |-> NoToken]
<1>2. r \in [pc: {"idle", "asking"}, by: Nat, token: Nat] /\ now <= r.by
  BY Times DEF TokenInv, TypeOK, NoToken
<1>3. call' = [c \in Call |-> IF c \in cs THEN r ELSE call[c]]
  BY DEF Begin
<1> HIDE DEF r
<1> QED BY <1>2, <1>3, ResetKeeps DEF Begin

LEMMA ReturnKeeps ==
  ASSUME TokenInv, NEW cs \in SUBSET Call, Return(cs) PROVE TokenInv'
<1>1. Idle \in [pc: {"idle", "asking"}, by: Nat, token: Nat] /\ Idle.pc # "asking"
  BY DEF Idle, NoToken
<1> QED BY <1>1, ResetKeeps DEF Return

LEMMA AskKeeps == ASSUME TokenInv, NEW c \in Call, Ask(c) PROVE TokenInv'
<1>1. CASE now < tokenExpiry
  <2>1. now + Delay + CallTimeout < token /\ token \in Nat
    BY <1>1, Times DEF TokenInv, TypeOK, TokenFresh, Lag
  <2> QED BY <1>1, <2>1, SentInTime, GotoKeeps DEF Ask, Steps
<1>2. CASE ~(now < tokenExpiry)
  <2>1. /\ RefreshDeadline \in Nat
        /\ Timely([pc |-> "fetching", by |-> RefreshDeadline, token |-> NoToken])
    BY Times DEF TokenInv, TypeOK, RefreshDeadline, Timely, Lag, Running
  <2> QED BY <1>2, <2>1, GotoKeeps DEF Ask, Steps, NoToken
<1> QED BY <1>1, <1>2

LEMMA IssueKeeps == ASSUME TokenInv, NEW c \in Call, Issue(c) PROVE TokenInv'
<1>1. call[c].by \in Nat /\ now + Lifetime \in Nat
  BY TypeOfCall, Times DEF TokenInv, TypeOK
<1>2. now <= call[c].by /\ call[c].by <= now + Lag
  BY DEF TokenInv, Timely, Issue, Running
<1>3. Timely([pc |-> "issued", by |-> call[c].by, token |-> now + Lifetime])
  BY <1>1, <1>2, Times DEF TokenInv, TypeOK, Timely, Lag, Running
<1> QED BY <1>1, <1>3, GotoKeeps DEF Issue, Steps

\* The only step that touches the shared token.
LEMMA StoreKeeps == ASSUME TokenInv, NEW c \in Call, Store(c) PROVE TokenInv'
<1>1. call[c].by \in Nat /\ call[c].token \in Nat /\ now \in Nat
  BY TypeOfCall DEF TokenInv, TypeOK
<1>2. now <= call[c].by /\ call[c].by + Lifetime <= call[c].token + Lag
  BY DEF TokenInv, Timely, Store, Running
<1>3. /\ token' = call[c].token /\ now' = now
      /\ tokenExpiry' = now + Lifetime - Margin
      /\ call' = [call EXCEPT ![c] = [pc |-> "stored", by |-> now + Delay,
                                      token |-> NoToken]]
  BY DEF Store, Goto, Fresh
<1>4. TypeOK'
  BY <1>1, <1>3, Times DEF TokenInv, TypeOK, Steps, NoToken
<1>5. tokenExpiry' + Margin = now + Lifetime /\ now + Lifetime <= token' + Lag
  BY <1>1, <1>2, <1>3, Times DEF Lag
<1>6. TokenFresh'
  BY <1>5, <1>1, Times DEF TokenFresh, Lag
<1>7. ASSUME NEW d \in Call PROVE Timely(call[d])'
  <2>1. CASE d = c
    <3>1. call'[d] = [pc |-> "stored", by |-> now + Delay, token |-> NoToken]
      BY <1>3, <2>1 DEF TokenInv, TypeOK
    <3> QED BY <3>1, <1>1, <1>3, <1>5, Times DEF Timely, Lag, Running
  <2>2. CASE d # c
    <3>1. call'[d] = call[d] /\ Timely(call[d]) /\ call[d].by \in Nat
      BY <1>3, <2>2, TypeOfCall DEF TokenInv, TypeOK
    <3>2. call[d].pc = "stored" =>
            /\ call[d].by + Lifetime <= tokenExpiry' + Margin + Delay
            /\ tokenExpiry' + Margin <= token' + Lag
      BY <3>1, <1>1, <1>5, Times DEF Timely
    <3> QED BY <3>1, <3>2, <1>3 DEF Timely, Lag
  <2> QED BY <2>1, <2>2
<1> QED BY <1>4, <1>6, <1>7 DEF TokenInv

LEMMA RefreshFailsKeeps ==
  ASSUME TokenInv, NEW c \in Call, RefreshFails(c) PROVE TokenInv'
BY SentInTime, GotoKeeps DEF RefreshFails, Steps, NoToken

LEMMA ReReadKeeps == ASSUME TokenInv, NEW c \in Call, ReRead(c) PROVE TokenInv'
<1>1. call[c].by \in Nat /\ token \in Nat /\ now \in Nat /\ tokenExpiry \in Int
  BY TypeOfCall DEF TokenInv, TypeOK
<1>2. /\ now <= call[c].by
      /\ call[c].by + Lifetime <= tokenExpiry + Margin + Delay
      /\ tokenExpiry + Margin <= token + Lag
  BY DEF TokenInv, Timely, ReRead, Running
<1>3. now + Delay + CallTimeout < token
  BY <1>1, <1>2, Times DEF Lag
<1> QED BY <1>1, <1>3, SentInTime, GotoKeeps DEF ReRead, Steps

LEMMA EndKeeps ==
  ASSUME TokenInv, NEW c \in Call, Answered(c) \/ CallFails(c) PROVE TokenInv'
<1>1. /\ Timely([pc |-> "ok", by |-> 0, token |-> NoToken])
      /\ Timely([pc |-> "failed", by |-> 0, token |-> NoToken])
  BY DEF Timely, Running
<1>2. CASE Answered(c)
  BY <1>1, <1>2, GotoKeeps DEF Answered, Steps, NoToken
<1>3. CASE CallFails(c)
  BY <1>1, <1>3, GotoKeeps DEF CallFails, Steps, NoToken
<1> QED BY <1>2, <1>3

LEMMA TickKeeps == ASSUME TokenInv, Tick PROVE TokenInv'
<1>1. now' = now + 1 /\ now \in Nat /\ UNCHANGED <<token, tokenExpiry, call>>
  BY DEF Tick, TokenInv, TypeOK
<1>2. TypeOK' /\ TokenFresh'
  BY <1>1 DEF TokenInv, TypeOK, TokenFresh, Lag
<1>3. ASSUME NEW c \in Call PROVE Timely(call[c])'
  <2>1. Timely(call[c]) /\ call[c].by \in Nat
    BY TypeOfCall DEF TokenInv
  <2>2. call[c].pc \in Running => now < call[c].by
    BY DEF Tick, Ended, Running
  <2> QED BY <1>1, <2>1, <2>2, Times DEF Timely, Lag
<1> QED BY <1>2, <1>3 DEF TokenInv

LEMMA InvInit == Init => TokenInv
BY DEF Init, TokenInv, TypeOK, TokenFresh, Timely, Running, Idle, NoToken, Steps

LEMMA InvNext == ASSUME TokenInv, [Next]_tokenVars PROVE TokenInv'
<1>1. CASE UNCHANGED tokenVars
  BY <1>1 DEF tokenVars, TokenInv, TypeOK, TokenFresh, Timely, Lag
<1>2. ASSUME NEW cs \in SUBSET Call, Begin(cs) \/ Return(cs) PROVE TokenInv'
  BY <1>2, BeginKeeps, ReturnKeeps
<1>3. ASSUME NEW c \in Call, CallStep(c) PROVE TokenInv'
  BY <1>3, AskKeeps, IssueKeeps, StoreKeeps, RefreshFailsKeeps, ReReadKeeps, EndKeeps
     DEF CallStep
<1>4. CASE Tick
  BY <1>4, TickKeeps
<1> QED BY <1>1, <1>2, <1>3, <1>4 DEF Next

-----------------------------------------------------------------------------

LEMMA SpecInv == Spec => []TokenInv
BY InvInit, InvNext, PTL DEF Spec

\* The clock, the shared token and every call are well typed.
THEOREM TypeCorrect == Spec => []TypeOK
BY SpecInv, PTL DEF TokenInv

\* No call is under way with a token that has expired, however many refreshes
\* run beside each other and however late within their timeouts they answer.
THEOREM TokensOutliveCalls == Spec => []TokensLive
<1>1. TokenInv => TokensLive
  <2> SUFFICES ASSUME TokenInv, NEW c \in Call, call[c].pc = "sent"
               PROVE  call[c].token = NoToken \/ now < call[c].token
    BY DEF TokensLive
  <2>1. call[c].by \in Nat /\ call[c].token \in Nat /\ now \in Nat
    BY TypeOfCall DEF TokenInv, TypeOK
  <2>2. now <= call[c].by /\ (call[c].token = NoToken \/ call[c].by < call[c].token)
    BY DEF TokenInv, Timely, Running
  <2> QED BY <2>1, <2>2
<1> QED BY <1>1, SpecInv, PTL

-----------------------------------------------------------------------------
(* The regional request *)

Collected(w) ==
  located[w] \in {"items", "error"} =>
    /\ \A k \in Category : Ended(<<w, k>>)
    /\ located[w] = "items" <=> \A k \in Category : call[<<w, k>>].pc = "ok"

Responded ==
  region \in {"ok", "badGateway"} =>
    /\ AllLocated
    /\ region = "ok" <=> \A w \in Asked : located[w] = "items"

RegionInv ==
  /\ located \in [Warehouse -> {"none", "waiting", "items", "error"}]
  /\ region \in {"idle", "waiting", "ok", "badGateway"}
  /\ \A w \in Warehouse : Collected(w)
  /\ Responded

AllNext == RegionNext \/ CallNext

allVars == <<tokenVars, regionVars>>

-----------------------------------------------------------------------------
(* A regional request makes calls like any other *)

LEMMA FetchesAreCalls ==
  ASSUME NEW w \in Warehouse, NEW k \in Category
  PROVE  <<w, k>> \in Call /\ <<w, k>> \in Fetches
BY FetchAssumption DEF Fetches

LEMMA FetchesOfAreCalls ==
  ASSUME NEW ws \in SUBSET Warehouse PROVE FetchesOf(ws) \in SUBSET Call
BY FetchAssumption DEF FetchesOf, Fetches

LEMMA RegionStep == [AllNext]_allVars => [Next]_tokenVars
<1> SUFFICES ASSUME [AllNext]_allVars PROVE [Next]_tokenVars
  OBVIOUS
<1>1. ASSUME NEW ws \in SUBSET Warehouse, GetRegional(ws) PROVE Next
  BY <1>1, FetchesOfAreCalls DEF GetRegional, Next
<1>2. ASSUME NEW w \in Warehouse, GetByLocation(w) PROVE UNCHANGED tokenVars
  BY <1>2 DEF GetByLocation
<1>3. CASE Respond
  BY <1>3 DEF Respond
<1>4. CASE Finish
  <2>1. Asked \in SUBSET Warehouse
    BY DEF Asked
  <2> QED BY <1>4, <2>1, FetchesOfAreCalls DEF Finish, Next
<1>5. CASE CallNext
  BY <1>5 DEF CallNext, Next
<1>6. CASE UNCHANGED allVars
  BY <1>6 DEF allVars
<1> QED BY <1>1, <1>2, <1>3, <1>4, <1>5, <1>6 DEF AllNext, RegionNext

\* With regional requests in flight, clock, token and calls behave as TokenProvider
\* says of calls alone.
THEOREM RequestsAreCalls == RegionSpec => Spec
<1>1. RegionInit => Init
  BY DEF RegionInit
<1> QED BY <1>1, RegionStep, PTL DEF RegionSpec, Spec, AllNext, allVars

-----------------------------------------------------------------------------
(* What the waits collected *)

\* A call that has ended stays as it is until its caller returns.
LEMMA EndedStays ==
  ASSUME TypeOK, CallNext, NEW f \in Fetches, Ended(f)
  PROVE  call'[f] = call[f]
<1>0. f \in Call
  BY FetchAssumption
<1>1. ASSUME NEW cs \in SUBSET (Call \ Fetches), Begin(cs) \/ Return(cs)
      PROVE  call'[f] = call[f]
  BY <1>0, <1>1 DEF Begin, Return
<1>2. ASSUME NEW c \in Call, CallStep(c) PROVE call'[f] = call[f]
  <2>1. c # f
    BY <1>2 DEF CallStep, Ask, Issue, Store, RefreshFails, ReRead, Answered, CallFails,
              Ended
  <2>2. \E r : call' = [call EXCEPT ![c] = r]
    BY <1>2 DEF CallStep, Ask, Issue, Store, RefreshFails, ReRead, Answered, CallFails, Goto
  <2> QED BY <1>0, <2>1, <2>2 DEF TypeOK
<1>3. CASE Tick
  BY <1>3 DEF Tick
<1> QED BY <1>1, <1>2, <1>3 DEF CallNext

LEMMA CallsKeepRegion ==
  ASSUME TypeOK, RegionInv, CallNext PROVE RegionInv'
<1>1. UNCHANGED <<located, region>>
  BY DEF CallNext, regionVars
<1>2. ASSUME NEW w \in Warehouse PROVE Collected(w)'
  <2> SUFFICES ASSUME located[w] \in {"items", "error"} PROVE Collected(w)'
    BY <1>1 DEF Collected
  <2>1. Collected(w) /\ \A k \in Category : Ended(<<w, k>>)
    BY DEF RegionInv, Collected
  <2>2. \A k \in Category : call'[<<w, k>>] = call[<<w, k>>]
    BY <2>1, EndedStays, FetchesAreCalls
  <2> QED BY <1>1, <2>1, <2>2 DEF Collected, Ended
<1>3. Responded'
  BY <1>1 DEF RegionInv, Responded, AllLocated, Asked
<1> QED BY <1>1, <1>2, <1>3 DEF RegionInv

LEMMA RequestsKeepRegion ==
  ASSUME TypeOK, RegionInv, RegionNext PROVE RegionInv'
<1>1. ASSUME NEW ws \in SUBSET Warehouse, GetRegional(ws) PROVE RegionInv'
  BY <1>1 DEF GetRegional, RegionInv, Collected, Responded
<1>2. ASSUME NEW w \in Warehouse, GetByLocation(w) PROVE RegionInv'
  <2>1. /\ located' = [located EXCEPT ![w] = Found(w)]
        /\ UNCHANGED <<call, region>> /\ Found(w) \in {"items", "error"}
        /\ located[w] = "waiting" /\ \A k \in Category : Ended(<<w, k>>)
    BY <1>2 DEF GetByLocation, tokenVars, Found
  <2>2. ASSUME NEW v \in Warehouse PROVE Collected(v)'
    <3>1. CASE v = w
      BY <2>1, <3>1 DEF RegionInv, Collected, Found, Ended
    <3>2. CASE v # w
      BY <2>1, <3>2 DEF RegionInv, Collected, Ended
    <3> QED BY <3>1, <3>2
  <2>3. region \notin {"ok", "badGateway"}
    BY <2>1 DEF RegionInv, Responded, AllLocated, Asked
  <2> QED BY <2>1, <2>2, <2>3 DEF RegionInv, Responded
<1>3. CASE Respond
  <2>1. /\ UNCHANGED <<call, located>> /\ AllLocated
        /\ region' = IF \E w \in Asked : located[w] = "error" THEN "badGateway" ELSE "ok"
    BY <1>3 DEF Respond, tokenVars
  <2>2. Asked' = Asked /\ AllLocated'
    BY <2>1 DEF Asked, AllLocated
  <2>3. \A w \in Asked : located[w] = "items" <=> located[w] # "error"
    BY <2>1 DEF RegionInv, AllLocated, Asked
  <2>4. Responded'
    BY <2>1, <2>2, <2>3 DEF Responded
  <2> QED BY <2>1, <2>4 DEF RegionInv, Collected, Ended
<1>4. CASE Finish
  BY <1>4 DEF Finish, RegionInv, Collected, Responded
<1> QED BY <1>1, <1>2, <1>3, <1>4 DEF RegionNext

LEMMA RegionInvHolds == RegionSpec => []RegionInv
<1>1. RegionInit => RegionInv
  BY DEF RegionInit, RegionInv, Collected, Responded
<1>2. ASSUME TypeOK, RegionInv, [AllNext]_allVars PROVE RegionInv'
  <2>1. CASE UNCHANGED allVars
    <3>1. UNCHANGED <<call, located, region>>
      BY <2>1 DEF allVars, tokenVars, regionVars
    <3>2. \A w \in Warehouse : Collected(w)'
      BY <1>2, <3>1 DEF RegionInv, Collected, Ended
    <3>3. Responded'
      BY <1>2, <3>1 DEF RegionInv, Responded, AllLocated, Asked
    <3> QED BY <1>2, <3>1, <3>2, <3>3 DEF RegionInv
  <2> QED BY <1>2, <2>1, CallsKeepRegion, RequestsKeepRegion DEF AllNext
<1>3. RegionSpec => []TypeOK
  BY RequestsAreCalls, TypeCorrect, PTL
<1> QED BY <1>1, <1>2, <1>3, PTL DEF RegionSpec, AllNext, allVars

-----------------------------------------------------------------------------

\* The calls and the request that makes them are well typed.
THEOREM RegionTypeCorrect == RegionSpec => []RegionTypeOK
<1>1. TypeOK /\ RegionInv => RegionTypeOK
  BY DEF RegionInv, RegionTypeOK
<1> QED BY <1>1, RegionInvHolds, RequestsAreCalls, TypeCorrect, PTL

\* 200 means that every fetch of every warehouse asked succeeded, and an error
\* that one of them did not.
THEOREM WholeRegionOrError == RegionSpec => []RegionWhole
<1>1. RegionInv => RegionWhole
  <2> SUFFICES ASSUME RegionInv, region \in {"ok", "badGateway"}
               PROVE  region = "ok" <=> \A f \in FetchesOf(Asked) : call[f].pc = "ok"
    BY DEF RegionWhole
  <2>1. region = "ok" <=> \A w \in Asked : located[w] = "items"
    BY DEF RegionInv, Responded
  <2>2. ASSUME NEW w \in Asked
        PROVE  located[w] = "items" <=> \A k \in Category : call[<<w, k>>].pc = "ok"
    BY <2>2 DEF RegionInv, Responded, AllLocated, Asked, Collected
  <2>3. (\A f \in FetchesOf(Asked) : call[f].pc = "ok") <=>
          \A w \in Asked : \A k \in Category : call[<<w, k>>].pc = "ok"
    BY DEF FetchesOf
  <2> QED BY <2>1, <2>2, <2>3
<1> QED BY <1>1, RegionInvHolds, PTL

\* The token of a regional request's fetches outlives them too.
THEOREM RegionTokensOutliveCalls == RegionSpec => []TokensLive
BY RequestsAreCalls, TokensOutliveCalls, PTL

=============================================================================
