------------------------- MODULE ReplicaSyncProofs -------------------------
(***************************************************************************)
(* Proofs about ReplicaSync, for every set of tables and of writers and    *)
(* every bound: the type invariant, the two freshness invariants of the    *)
(* sync worker, and that the replica implements MonotonicCopy.             *)
(***************************************************************************)
EXTENDS ReplicaSync, TLAPS

\* The inductive invariant.  StaleImpliesOwed alone is not inductive: a refill
\* copies the snapshot in hand, so that snapshot must itself be current or
\* owed (HeldItemsCurrentOrOwed) and belong to the job in hand (WorkerInJob).
IInv ==
  /\ TypeOK
  /\ WorkerInJob
  /\ StaleImpliesOwed
  /\ HeldItemsCurrentOrOwed
  /\ NeverRollsBack

-----------------------------------------------------------------------------
(* What the channel carries *)

LEMMA QueuedAppend ==
  ASSUME channel \in Seq(Jobs), NEW T \in Jobs, channel' = Append(channel, T)
  PROVE  Queued' = Queued \cup T
<1>1. Len(channel') = Len(channel) + 1
  OBVIOUS
<1>2. \A i \in 1..Len(channel) : channel'[i] = channel[i]
  OBVIOUS
<1>3. channel'[Len(channel) + 1] = T
  OBVIOUS
<1>4. Len(channel) \in Nat
  OBVIOUS
<1>5. ASSUME NEW x \in Queued' PROVE x \in Queued \cup T
  <2>1. PICK i \in 1..Len(channel') : x \in channel'[i]
    BY <1>5 DEF Queued
  <2>2. CASE i \in 1..Len(channel)
    BY <2>1, <2>2, <1>2 DEF Queued
  <2>3. CASE i = Len(channel) + 1
    BY <2>1, <2>3, <1>3
  <2> QED BY <2>1, <2>2, <2>3, <1>1, <1>4
<1>6. ASSUME NEW x \in Queued PROVE x \in Queued'
  <2>1. PICK i \in 1..Len(channel) : x \in channel[i]
    BY <1>6 DEF Queued
  <2>2. i \in 1..Len(channel') /\ x \in channel'[i]
    BY <2>1, <1>1, <1>2, <1>4
  <2> QED BY <2>2 DEF Queued
<1>7. ASSUME NEW x \in T PROVE x \in Queued'
  <2>1. Len(channel) + 1 \in 1..Len(channel')
    BY <1>1, <1>4
  <2> QED BY <2>1, <1>3, <1>7 DEF Queued
<1> QED BY <1>5, <1>6, <1>7

LEMMA QueuedTail ==
  ASSUME channel \in Seq(Jobs), channel # <<>>, channel' = Tail(channel)
  PROVE  Queued \subseteq Queued' \cup Head(channel)
<1>1. Len(channel) \in Nat /\ Len(channel) # 0 /\ Len(channel') = Len(channel) - 1
  OBVIOUS
<1>2. \A i \in 1..Len(channel') : channel'[i] = channel[i + 1]
  OBVIOUS
<1>3. Head(channel) = channel[1]
  OBVIOUS
<1>4. ASSUME NEW x \in Queued PROVE x \in Queued' \cup Head(channel)
  <2>1. PICK i \in 1..Len(channel) : x \in channel[i]
    BY <1>4 DEF Queued
  <2>2. CASE i = 1
    BY <2>1, <2>2, <1>3
  <2>3. CASE i # 1
    <3>1. i - 1 \in 1..Len(channel') /\ (i - 1) + 1 = i
      BY <2>3, <1>1
    <3>2. x \in channel'[i - 1]
      BY <3>1, <2>1, <1>2
    <3> QED BY <3>1, <3>2 DEF Queued
  <2> QED BY <2>2, <2>3
<1> QED BY <1>4

\* A worker between tables, with some of a job left, is well typed.
LEMMA WaitingWorkerType ==
  ASSUME NEW S \in SUBSET Tables
  PROVE  [todo |-> S, step |-> "idle", table |-> None, items |-> 0] \in
           [todo: SUBSET Tables, step: {"idle", "loaded", "cleared"},
            table: Tables \cup {None}, items: 0..MaxVersion]
BY ConstantsAssumption

-----------------------------------------------------------------------------
(* The inductive invariant holds initially and is kept by every step *)

LEMMA InitIInv == Init => IInv
<1> SUFFICES ASSUME Init PROVE IInv
  OBVIOUS
<1> USE ConstantsAssumption DEF Init, StartupJob, Idle
<1>1. TypeOK
  <2>1. Tables \in Jobs
    BY DEF Jobs
  <2> QED BY <2>1 DEF TypeOK
<1>2. WorkerInJob
  BY DEF WorkerInJob
<1>3. StaleImpliesOwed
  <2>1. Queued = Tables
    BY DEF Queued
  <2> QED BY <2>1 DEF StaleImpliesOwed
<1>4. HeldItemsCurrentOrOwed /\ NeverRollsBack
  BY DEF HeldItemsCurrentOrOwed, NeverRollsBack
<1> QED
  BY <1>1, <1>2, <1>3, <1>4 DEF IInv

LEMMA CommitIInv ==
  ASSUME IInv, NEW w \in Writers, NEW T \in Jobs, Commit(w, T)
  PROVE  IInv'
<1> USE ConstantsAssumption DEF IInv, TypeOK, Commit
<1>1. /\ primary' \in [Tables -> 0..MaxVersion]
      /\ \A t \in Tables : primary[t] <= primary'[t]
      /\ \A t \in Tables \ T : primary'[t] = primary[t]
  BY DEF Jobs
<1>2. unsent' \in [Writers -> SUBSET Tables] /\ Unsent' = Unsent \cup T
  BY DEF Jobs, Unsent
<1>3. Queued' = Queued
  BY DEF Queued
<1>4. TypeOK'
  BY <1>1, <1>2
<1>5. WorkerInJob' /\ NeverRollsBack'
  BY <1>1 DEF WorkerInJob, NeverRollsBack
<1>6. StaleImpliesOwed'
  BY <1>1, <1>2, <1>3 DEF StaleImpliesOwed
<1>7. HeldItemsCurrentOrOwed'
  BY <1>1, <1>2, <1>3 DEF HeldItemsCurrentOrOwed, WorkerInJob
<1> QED
  BY <1>4, <1>5, <1>6, <1>7

LEMMA EnqueueIInv ==
  ASSUME IInv, NEW w \in Writers, Enqueue(w)
  PROVE  IInv'
<1> USE ConstantsAssumption DEF IInv, TypeOK, Enqueue
<1>1. unsent[w] \in Jobs
  BY DEF Jobs
<1>2. Queued' = Queued \cup unsent[w]
  BY <1>1, QueuedAppend
<1>3. unsent' \in [Writers -> SUBSET Tables] /\ Unsent \subseteq Unsent' \cup unsent[w]
  BY DEF Unsent
<1>4. TypeOK'
  BY <1>1, <1>3
<1>5. WorkerInJob' /\ NeverRollsBack'
  BY DEF WorkerInJob, NeverRollsBack
<1>6. StaleImpliesOwed'
  BY <1>2, <1>3 DEF StaleImpliesOwed
<1>7. HeldItemsCurrentOrOwed'
  BY <1>2, <1>3 DEF HeldItemsCurrentOrOwed
<1> QED
  BY <1>4, <1>5, <1>6, <1>7

LEMMA TakeJobIInv == IInv /\ TakeJob => IInv'
<1> SUFFICES ASSUME IInv, TakeJob PROVE IInv'
  OBVIOUS
<1> USE ConstantsAssumption DEF IInv, TypeOK, TakeJob
<1>1. Head(channel) \in Jobs /\ Tail(channel) \in Seq(Jobs)
  OBVIOUS
<1>2. Queued \subseteq Queued' \cup Head(channel)
  BY QueuedTail
<1>3. worker' = [todo |-> Head(channel), step |-> "idle", table |-> None, items |-> 0]
  BY DEF Idle
<1>4. TypeOK'
  <2>1. Head(channel) \in SUBSET Tables
    BY <1>1 DEF Jobs
  <2>2. worker' \in [todo: SUBSET Tables, step: {"idle", "loaded", "cleared"},
                    table: Tables \cup {None}, items: 0..MaxVersion]
    BY <1>3, <2>1, WaitingWorkerType
  <2> QED BY <1>1, <2>2
<1>5. WorkerInJob' /\ NeverRollsBack' /\ HeldItemsCurrentOrOwed'
  BY <1>3 DEF WorkerInJob, NeverRollsBack, HeldItemsCurrentOrOwed
<1>6. StaleImpliesOwed'
  BY <1>2, <1>3 DEF StaleImpliesOwed, Unsent
<1> QED
  BY <1>4, <1>5, <1>6

LEMMA ReadPrimaryIInv ==
  ASSUME IInv, NEW t \in Tables, ReadPrimary(t)
  PROVE  IInv'
<1> USE ConstantsAssumption DEF IInv, TypeOK, ReadPrimary
<1>1. worker' = [worker EXCEPT !.step = "loaded", !.table = t, !.items = primary[t]]
  OBVIOUS
<1>2. TypeOK'
  BY <1>1
<1>3. WorkerInJob' /\ HeldItemsCurrentOrOwed' /\ NeverRollsBack'
  BY <1>1 DEF WorkerInJob, HeldItemsCurrentOrOwed, NeverRollsBack
<1>4. StaleImpliesOwed'
  <2>1. worker'.todo = worker.todo /\ Queued' = Queued /\ Unsent' = Unsent
    BY <1>1 DEF Queued, Unsent
  <2> QED BY <2>1 DEF StaleImpliesOwed
<1> QED
  BY <1>2, <1>3, <1>4

LEMMA ClearReplicaIInv == IInv /\ ClearReplica => IInv'
<1> SUFFICES ASSUME IInv, ClearReplica PROVE IInv'
  OBVIOUS
<1> USE ConstantsAssumption DEF IInv, TypeOK, ClearReplica
<1>1. worker.table \in worker.todo /\ worker.table \in Tables
  BY DEF WorkerInJob
<1>2. worker' = [worker EXCEPT !.step = "cleared"]
  OBVIOUS
<1>3. Queued' = Queued /\ Unsent' = Unsent
  BY DEF Queued, Unsent
<1>4. TypeOK'
  BY <1>1, <1>2
<1>5. WorkerInJob' /\ HeldItemsCurrentOrOwed' /\ NeverRollsBack'
  BY <1>1, <1>2, <1>3 DEF WorkerInJob, HeldItemsCurrentOrOwed, NeverRollsBack
<1>6. StaleImpliesOwed'
  BY <1>1, <1>2, <1>3 DEF StaleImpliesOwed
<1> QED
  BY <1>4, <1>5, <1>6

LEMMA FillReplicaIInv == IInv /\ FillReplica => IInv'
<1> SUFFICES ASSUME IInv, FillReplica PROVE IInv'
  OBVIOUS
<1> USE ConstantsAssumption DEF IInv, TypeOK, FillReplica
<1>1. worker.table \in worker.todo /\ worker.table \in Tables
  BY DEF WorkerInJob
<1>2. worker' = [todo |-> worker.todo \ {worker.table}, step |-> "idle",
                 table |-> None, items |-> 0]
  BY DEF Idle
<1>3. Queued' = Queued /\ Unsent' = Unsent
  BY DEF Queued, Unsent
<1>4. TypeOK'
  <2>1. worker.todo \ {worker.table} \in SUBSET Tables /\ worker.items \in 0..MaxVersion
    OBVIOUS
  <2>2. worker' \in [todo: SUBSET Tables, step: {"idle", "loaded", "cleared"},
                    table: Tables \cup {None}, items: 0..MaxVersion]
    BY <1>2, <2>1, WaitingWorkerType
  <2>3. /\ replica' \in [Tables -> 0..MaxVersion \cup {Empty}]
        /\ shown' \in [Tables -> 0..MaxVersion]
    BY <1>1, <2>1
  <2> QED BY <2>2, <2>3
<1>5. WorkerInJob' /\ HeldItemsCurrentOrOwed' /\ NeverRollsBack'
  BY <1>1, <1>2 DEF WorkerInJob, HeldItemsCurrentOrOwed, NeverRollsBack
<1>6. StaleImpliesOwed'
  <2> SUFFICES ASSUME NEW u \in Tables, replica'[u] # primary[u]
               PROVE  u \in missed' \cup Unsent \cup Queued \cup worker'.todo
    BY <1>3 DEF StaleImpliesOwed
  <2>1. CASE u = worker.table
    <3>1. worker.items # primary[u]
      BY <2>1
    <3> QED BY <2>1, <3>1 DEF HeldItemsCurrentOrOwed
  <2>2. CASE u # worker.table
    <3>1. u \in missed \cup Unsent \cup Queued \cup worker.todo
      BY <2>2 DEF StaleImpliesOwed
    <3> QED BY <2>2, <3>1, <1>2
  <2> QED BY <2>1, <2>2
<1> QED
  BY <1>4, <1>5, <1>6

LEMMA FailJobIInv == IInv /\ FailJob => IInv'
<1> SUFFICES ASSUME IInv, FailJob PROVE IInv'
  OBVIOUS
<1> USE ConstantsAssumption DEF IInv, TypeOK, FailJob, Idle
<1>1. TypeOK'
  OBVIOUS
<1>2. WorkerInJob' /\ HeldItemsCurrentOrOwed' /\ NeverRollsBack'
  BY DEF WorkerInJob, HeldItemsCurrentOrOwed, NeverRollsBack
<1>3. StaleImpliesOwed'
  <2>1. Queued' = Queued /\ Unsent' = Unsent
    BY DEF Queued, Unsent
  <2>2. missed' = missed \cup worker.todo /\ worker'.todo = {}
    OBVIOUS
  <2> QED BY <2>1, <2>2 DEF StaleImpliesOwed
<1> QED
  BY <1>1, <1>2, <1>3

LEMMA RestartIInv == IInv /\ Restart => IInv'
<1> SUFFICES ASSUME IInv, Restart PROVE IInv'
  OBVIOUS
<1> USE ConstantsAssumption DEF IInv, TypeOK, Restart, StartupJob, Idle
<1>1. TypeOK'
  <2>1. Tables \in Jobs
    BY DEF Jobs
  <2> QED BY <2>1
<1>2. WorkerInJob' /\ HeldItemsCurrentOrOwed' /\ NeverRollsBack'
  BY DEF WorkerInJob, HeldItemsCurrentOrOwed, NeverRollsBack
<1>3. StaleImpliesOwed'
  <2>1. Queued' = Tables
    BY DEF Queued
  <2> QED BY <2>1 DEF StaleImpliesOwed
<1> QED
  BY <1>1, <1>2, <1>3

LEMMA NextIInv == IInv /\ [Next]_vars => IInv'
<1> SUFFICES ASSUME IInv, [Next]_vars PROVE IInv'
  OBVIOUS
<1>1. CASE \E w \in Writers, T \in Jobs : Commit(w, T)
  BY <1>1, CommitIInv
<1>2. CASE \E w \in Writers : Enqueue(w)
  BY <1>2, EnqueueIInv
<1>3. CASE WorkerStep
  BY <1>3, TakeJobIInv, ReadPrimaryIInv, ClearReplicaIInv, FillReplicaIInv DEF WorkerStep
<1>4. CASE FailJob
  BY <1>4, FailJobIInv
<1>5. CASE Restart
  BY <1>5, RestartIInv
<1>6. CASE UNCHANGED vars
  BY <1>6 DEF vars, IInv, TypeOK, WorkerInJob, StaleImpliesOwed,
     HeldItemsCurrentOrOwed, NeverRollsBack, Queued, Unsent
<1> QED
  BY <1>1, <1>2, <1>3, <1>4, <1>5, <1>6 DEF Next

THEOREM Inductive == Spec => []IInv
<1> QED
  BY InitIInv, NextIInv, PTL DEF Spec

-----------------------------------------------------------------------------

\* Every variable of the sync pipeline keeps its type.
THEOREM TypeCorrect == Spec => []TypeOK
<1>1. IInv => TypeOK
  BY DEF IInv
<1> QED
  BY <1>1, Inductive, PTL

\* No commit is forgotten: a replica table that differs from the primary is owed
\* a refill by a request, a queued job or the job in hand, or lost one to a
\* failed job.
THEOREM NoCommitForgotten == Spec => []StaleImpliesOwed
<1>1. IInv => StaleImpliesOwed
  BY DEF IInv
<1> QED
  BY <1>1, Inductive, PTL

\* The snapshot in the worker's hands is current or a job that will replace it
\* is still to come.
THEOREM HeldSnapshotRedeemed == Spec => []HeldItemsCurrentOrOwed
<1>1. IInv => HeldItemsCurrentOrOwed
  BY DEF IInv
<1> QED
  BY <1>1, Inductive, PTL

-----------------------------------------------------------------------------
(* Refinement *)

LEMMA InitRefines == Init => Promise!AInit
  BY DEF Init, Promise!AInit

LEMMA StepRefines == IInv /\ IInv' /\ [Next]_vars => [Promise!ANext]_<<primary, replica, shown>>
<1> SUFFICES ASSUME IInv, IInv', [Next]_vars
             PROVE  [Promise!ANext]_<<primary, replica, shown>>
  OBVIOUS
<1> USE ConstantsAssumption DEF IInv, TypeOK
<1>1. ASSUME NEW w \in Writers, NEW T \in Jobs, Commit(w, T)
      PROVE  Promise!Write
  <2>1. primary' \in [Tables -> Nat] /\ \A t \in Tables : primary'[t] >= primary[t]
    BY <1>1 DEF Commit
  <2> QED BY <1>1, <2>1 DEF Commit, Promise!Write
<1>2. CASE ClearReplica
  <2>1. worker.table \in Tables
    BY <1>2 DEF ClearReplica, WorkerInJob
  <2>2. Promise!Blank(worker.table)
    BY <1>2 DEF ClearReplica, Promise!Blank
  <2> QED BY <2>1, <2>2 DEF Promise!ANext
<1>3. CASE FillReplica
  <2>1. worker.table \in Tables
    BY <1>3 DEF FillReplica, WorkerInJob
  <2>2. worker.items \in shown[worker.table]..primary[worker.table]
    BY <1>3, <2>1 DEF FillReplica, NeverRollsBack
  <2>3. Promise!Publish(worker.table)
    BY <1>3, <2>2 DEF FillReplica, Promise!Publish
  <2> QED BY <2>1, <2>3 DEF Promise!ANext
<1>4. CASE (\E w \in Writers : Enqueue(w)) \/ TakeJob \/ (\E t \in Tables : ReadPrimary(t))
           \/ FailJob \/ Restart \/ UNCHANGED vars
  BY <1>4 DEF Enqueue, TakeJob, ReadPrimary, FailJob, Restart, vars
<1> QED
  BY <1>1, <1>2, <1>3, <1>4 DEF Next, WorkerStep, Promise!ANext

\* A reader of the replica sees, per table, no rows or a snapshot of the primary
\* that is never older than one seen before, whatever jobs fail and whenever the
\* process dies.
THEOREM ReplicaImplementsMonotonicCopy == Spec => ReadsAreMonotonic
<1> QED
  BY InitRefines, StepRefines, Inductive, PTL
     DEF Spec, ReadsAreMonotonic, Promise!ASpec, Promise!abstractVars
=============================================================================
