------------------------------ MODULE Requests ------------------------------
(***************************************************************************)
(* The requests of the Go backend.  net/http runs every request in its own *)
(* goroutine; a handler is a sequence of SQL statements, each committed by *)
(* itself (the repositories use the pool directly, never a transaction),   *)
(* so statements of different requests interleave freely.  A request is a  *)
(* program counter and the values its handler has read and still uses.     *)
(*                                                                         *)
(* A handler may stop between any two statements: a check fails, a         *)
(* statement returns an error, the client's context is cancelled or the    *)
(* process dies.  All of these are Abort: what was written stays written.  *)
(***************************************************************************)
EXTENDS Naturals, Sequences, FiniteSets

CONSTANTS
  Req,        \* requests in flight at a time
  Bol,        \* plan_bol_record ids
  Unit,       \* equipment ids
  Driver,     \* driver ids
  None,       \* no value read yet
  Ops         \* the operations this instance serves (all of them: AllOps)

ASSUME NoneAssumption == None \notin Bol \cup Unit \cup Driver

VARIABLES
  req,        \* req[r]: where request r is and what its handler holds
  died        \* history: <<pc, bol>> of requests that stopped at WatchedPcs

reqVars == <<req, died>>

\* bol, unit, driver: ids from the request or from a row read; row: the run or
\* the record in hand; stop: the stop, or the .NET transaction, in hand; seen:
\* how many runs existed when the handler took the time it will store.
Idle == [pc |-> "idle", bol |-> None, unit |-> None, driver |-> None,
         row |-> 0, stop |-> 0, seen |-> 0]

At(r, pc) == req[r].pc = pc

\* The first statement of operation op; l is what the handler holds after it.
Begin(r, op, l) ==
  /\ op \in Ops
  /\ At(r, "idle")
  /\ req' = [req EXCEPT ![r] = l]
  /\ UNCHANGED died

Hold(r, l) == req' = [req EXCEPT ![r] = l] /\ UNCHANGED died

Goto(r, pc) == Hold(r, [req[r] EXCEPT !.pc = pc])

Finish(r) == Hold(r, Idle)

\* The places where stopping leaves something half done that a property must
\* except by name.
WatchedPcs == {"log.check", "transfer.release", "transfer.insert"}

Abort(r) ==
  /\ ~At(r, "idle")
  /\ req' = [req EXCEPT ![r] = Idle]
  /\ died' = IF req[r].pc \in WatchedPcs THEN died \cup {<<req[r].pc, req[r].bol>>}
                                         ELSE died
=============================================================================
