--------------------------- MODULE MonotonicCopy ---------------------------
(***************************************************************************)
(* What a reader of a .NET read replica is promised, and no more: a table  *)
(* of the replica is either empty or a snapshot of the primary's table at  *)
(* least as new as every snapshot of it shown before.  How jobs, the       *)
(* channel and the sync worker arrange that is ReplicaSync.                *)
(***************************************************************************)
EXTENDS Naturals

CONSTANTS
  Tables,      \* the entity types one API keeps in its database
  Empty        \* the content of a replica table with no rows

VARIABLES
  source,      \* source[t]: version of table t in the primary database
  copy,        \* copy[t]: version a reader of the replica sees, or Empty
  floor        \* floor[t]: newest version of t any reader has been shown

abstractVars == <<source, copy, floor>>

AInit ==
  /\ source = [t \in Tables |-> 0]
  /\ copy = [t \in Tables |-> Empty]
  /\ floor = [t \in Tables |-> 0]

\* A committed SaveChanges moves some tables of the primary forward.
Write ==
  /\ source' \in [Tables -> Nat]
  /\ \A t \in Tables : source'[t] >= source[t]
  /\ UNCHANGED <<copy, floor>>

\* A reader may find a table empty at any moment (it is being refilled).
Blank(t) ==
  /\ copy' = [copy EXCEPT ![t] = Empty]
  /\ UNCHANGED <<source, floor>>

\* A new snapshot is never older than one already shown, nor invented.
Publish(t) ==
  /\ \E v \in floor[t]..source[t] :
       /\ copy' = [copy EXCEPT ![t] = v]
       /\ floor' = [floor EXCEPT ![t] = v]
  /\ UNCHANGED source

ANext == Write \/ \E t \in Tables : Blank(t) \/ Publish(t)

ASpec == AInit /\ [][ANext]_abstractVars
=============================================================================
