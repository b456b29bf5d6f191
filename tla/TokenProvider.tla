--------------------------- MODULE TokenProvider ---------------------------
(***************************************************************************)
(* Outgoing calls to the .NET APIs and the one Auth0 token they share:     *)
(* TokenProvider and refreshToken of events/handler.go, and the clients of *)
(* internal/integrations that ask for the token while they set the headers *)
(* of a request.                                                           *)
(*                                                                         *)
(* A token is the time at which it stops being accepted; NoToken is the    *)
(* empty string.  The code's own steps take at most Delay, a refresh and a *)
(* call end at the latest when their http.Client gives up, and time does   *)
(* not pass a deadline (call[c].by) before the step it belongs to.  Auth0  *)
(* and the APIs answer at any time before that, or never.                  *)
(***************************************************************************)
EXTENDS Integers

CONSTANTS
  Call,            \* outgoing calls, each used again once its caller returned
  Lifetime,        \* expires_in of a token
  Margin,          \* the 60 seconds a token is refreshed early
  RefreshTimeout,  \* timeout of the client that fetches tokens: 10 s
  CallTimeout,     \* timeout of the integration clients: 30 s
  Delay,           \* the longest one of the code's own steps takes
  MaxTime          \* bound: the last time there is; calls begin early enough to end

\* 10 s and 30 s against 60 s: what is left over is for delays, and no token
\* is so short-lived that the call that fetched it cannot use it.
ASSUME TimesAssumption ==
  /\ {Lifetime, Margin, RefreshTimeout, CallTimeout, Delay, MaxTime} \subseteq Nat
  /\ RefreshTimeout + CallTimeout + 2 * Delay <= Margin
  /\ RefreshTimeout + CallTimeout + 3 * Delay < Lifetime
  /\ Delay > 0

VARIABLES
  now,             \* the clock
  token,           \* Handler.token, shared by every call
  tokenExpiry,     \* Handler.tokenExpiry
  call             \* per call: its step, its deadline and the token it holds

tokenVars == <<now, token, tokenExpiry, call>>

NoToken == 0

Steps == {"idle", "asking", "fetching", "issued", "stored", "sent", "ok", "failed"}

Idle == [pc |-> "idle", by |-> 0, token |-> NoToken]

Ended(c) == call[c].pc \in {"ok", "failed"}

TypeOK ==
  /\ now \in Nat
  /\ token \in Nat
  /\ tokenExpiry \in Int
  /\ call \in [Call -> [pc: Steps, by: Nat, token: Nat]]

Init ==
  /\ now = 0
  /\ token = NoToken
  /\ tokenExpiry = 0
  /\ call = [c \in Call |-> Idle]

Goto(c, pc, by, t) == call' = [call EXCEPT ![c] = [pc |-> pc, by |-> by, token |-> t]]

\* Mutant: a client without a timeout.
CallDeadlineUnset == MaxTime + 1

\* The time by which a request sent now has ended.
CallDeadline == now + Delay + CallTimeout

\* The time by which a token asked for now is stored.
RefreshDeadline == now + RefreshTimeout + Delay

\* The calls cs of one request begin: their goroutines are about to ask for
\* the token.
Begin(cs) ==
  /\ cs # {} /\ \A c \in cs : call[c].pc = "idle"
  /\ now + RefreshTimeout + CallTimeout + 4 * Delay <= MaxTime
  /\ call' = [c \in Call |->
                IF c \in cs
                THEN [pc |-> "asking", by |-> now + Delay, token |-> NoToken]
                ELSE call[c]]
  /\ UNCHANGED <<now, token, tokenExpiry>>

\* The provider under the read lock: a token that is fresh enough goes into
\* the request, which is sent; otherwise a new one is fetched.
Ask(c) ==
  /\ call[c].pc = "asking"
  /\ IF now < tokenExpiry THEN Goto(c, "sent", CallDeadline, token)
                          ELSE Goto(c, "fetching", RefreshDeadline, NoToken)
  /\ UNCHANGED <<now, token, tokenExpiry>>

\* Auth0 issues a token; its answer is on the way.
Issue(c) ==
  /\ call[c].pc = "fetching"
  /\ Goto(c, "issued", call[c].by, now + Lifetime)
  /\ UNCHANGED <<now, token, tokenExpiry>>

\* Mutant: the token is used to its last second.
FreshWhole == now + Lifetime

\* The expiry is counted from the arrival of the answer.
Fresh == now + Lifetime - Margin

\* The answer has been read and is stored under the lock, over whatever
\* another refresh has stored meanwhile.
Store(c) ==
  /\ call[c].pc = "issued"
  /\ token' = call[c].token
  /\ tokenExpiry' = Fresh
  /\ Goto(c, "stored", now + Delay, NoToken)
  /\ UNCHANGED now

\* No answer in time, another status, or a body that is not a token: the
\* provider returns the empty string and the request is sent with it.
RefreshFails(c) ==
  /\ call[c].pc \in {"fetching", "issued"}
  /\ Goto(c, "sent", CallDeadline, NoToken)
  /\ UNCHANGED <<now, token, tokenExpiry>>

\* Back under the read lock: the token may be another refresh's by now.
ReRead(c) ==
  /\ call[c].pc = "stored"
  /\ Goto(c, "sent", CallDeadline, token)
  /\ UNCHANGED <<now, token, tokenExpiry>>

\* The API accepts the token and answers with the status the client wants.
Answered(c) ==
  /\ call[c].pc = "sent" /\ now < call[c].token
  /\ Goto(c, "ok", 0, NoToken)
  /\ UNCHANGED <<now, token, tokenExpiry>>

\* Another status, a cancelled request, a connection that breaks or times out.
CallFails(c) ==
  /\ call[c].pc = "sent"
  /\ Goto(c, "failed", 0, NoToken)
  /\ UNCHANGED <<now, token, tokenExpiry>>

\* The callers of cs have their results and are done.
Return(cs) ==
  /\ cs # {} /\ \A c \in cs : Ended(c)
  /\ call' = [c \in Call |-> IF c \in cs THEN Idle ELSE call[c]]
  /\ UNCHANGED <<now, token, tokenExpiry>>

Tick ==
  /\ now < MaxTime
  /\ \A c \in Call : call[c].pc = "idle" \/ Ended(c) \/ now < call[c].by
  /\ now' = now + 1
  /\ UNCHANGED <<token, tokenExpiry, call>>

CallStep(c) ==
  \/ Ask(c) \/ Issue(c) \/ Store(c) \/ RefreshFails(c) \/ ReRead(c)
  \/ Answered(c) \/ CallFails(c)

Next ==
  \/ \E cs \in SUBSET Call : Begin(cs) \/ Return(cs)
  \/ \E c \in Call : CallStep(c)
  \/ Tick

Spec == Init /\ [][Next]_tokenVars

\* Time passes, the code takes its own steps, and its two clients give up when
\* their timeout has passed.  Nothing is assumed of Auth0 and of the APIs.
CallsProgress ==
  /\ WF_tokenVars(Tick)
  /\ \A c \in Call :
       /\ WF_tokenVars(Ask(c))
       /\ WF_tokenVars(ReRead(c))
       /\ WF_tokenVars(RefreshFails(c) /\ now = call[c].by)
       /\ WF_tokenVars(CallFails(c) /\ now = call[c].by)

-----------------------------------------------------------------------------

(***************************************************************************)
(* "Refresh 60 seconds before actual expiry to avoid races at the          *)
(* boundary" (events/handler.go, refreshToken): from the moment a call     *)
(* takes a token until the call ends, the token it carries is accepted, or *)
(* it is the empty string of a refresh that failed.  The code counts the   *)
(* expiry from the arrival of the answer, not from the issue, and several  *)
(* refreshes may store their tokens in any order.                          *)
(***************************************************************************)
TokensLive ==
  \A c \in Call : call[c].pc = "sent" =>
                    call[c].token = NoToken \/ now < call[c].token

=============================================================================
