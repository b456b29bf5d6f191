---------------------------- MODULE ReplicaSync ----------------------------
(***************************************************************************)
(* The CQRS read replica of the two .NET APIs.  A request saves to the     *)
(* primary database (UnitOfWork.SaveChangesAsync); the SaveChanges         *)
(* interceptor remembers which entity types changed and, after the commit, *)
(* writes one SyncJob to an unbounded channel; one BackgroundService reads *)
(* the jobs and refills each changed table: read all rows of the primary,  *)
(* delete all rows of the replica (committed at once), insert what was     *)
(* read.  A failure in any of these steps drops the rest of the job.       *)
(*                                                                         *)
(* A table's content is abstracted to the number of commits that changed   *)
(* it.  A request is one writer at a time between its commit and its       *)
(* enqueue; the two are separate steps, and the process may die between.   *)
(***************************************************************************)
EXTENDS Naturals, Sequences, FiniteSets

CONSTANTS
  Tables,       \* entity types mapped by the API's DbContext
  Writers,      \* requests that save concurrently
  MaxVersion,   \* bound: commits that change one table
  None,         \* the worker holds no table
  Empty         \* the content of a replica table with no rows

ASSUME ConstantsAssumption ==
  /\ MaxVersion \in Nat
  /\ Empty \notin Nat
  /\ Tables # {} /\ None \notin Tables

VARIABLES
  primary,      \* primary[t]: version of table t in the primary database
  replica,      \* replica[t]: version in the read database, or Empty
  shown,        \* history: newest version of t the replica ever held
  unsent,       \* unsent[w]: types w committed and has not enqueued yet
  channel,      \* the SyncJobs waiting, oldest first
  worker,       \* the BackgroundService: job in hand and place in it
  missed        \* history: types whose last refill was dropped by a failure

vars == <<primary, replica, shown, unsent, channel, worker, missed>>

Jobs == (SUBSET Tables) \ {{}}

Idle == [todo |-> {}, step |-> "idle", table |-> None, items |-> 0]

TypeOK ==
  /\ primary \in [Tables -> 0..MaxVersion]
  /\ replica \in [Tables -> 0..MaxVersion \cup {Empty}]
  /\ shown \in [Tables -> 0..MaxVersion]
  /\ unsent \in [Writers -> SUBSET Tables]
  /\ channel \in Seq(Jobs)
  /\ worker \in [todo: SUBSET Tables, step: {"idle", "loaded", "cleared"},
                 table: Tables \cup {None}, items: 0..MaxVersion]
  /\ missed \in SUBSET Tables

\* Program.cs creates the channel, migrates both databases and enqueues a job
\* with every type before the worker starts.
StartupJob == <<Tables>>

Init ==
  /\ primary = [t \in Tables |-> 0]
  /\ replica = [t \in Tables |-> Empty]
  /\ shown = [t \in Tables |-> 0]
  /\ unsent = [w \in Writers |-> {}]
  /\ channel = StartupJob
  /\ worker = Idle
  /\ missed = {}

-----------------------------------------------------------------------------
(* Requests *)

\* SavingChangesAsync collects the changed types T, then the database commits.
Commit(w, T) ==
  /\ unsent[w] = {}
  /\ \A t \in T : primary[t] < MaxVersion
  /\ primary' = [t \in Tables |-> IF t \in T THEN primary[t] + 1
                                             ELSE primary[t]]
  /\ unsent' = [unsent EXCEPT ![w] = T]
  /\ UNCHANGED <<replica, shown, channel, worker, missed>>

\* Mutant: the interceptor writes a job even when no type changed.
EnqueueUnchecked(w) ==
  /\ channel' = Append(channel, unsent[w])
  /\ Len(channel) < 3
  /\ unsent' = [unsent EXCEPT ![w] = {}]
  /\ UNCHANGED <<primary, replica, shown, worker, missed>>

\* Mutant: no job is written for types the worker is refilling anyway.
EnqueueUnlessInHand(w) ==
  /\ unsent[w] # {}
  /\ channel' = IF unsent[w] \subseteq worker.todo THEN channel
                                                   ELSE Append(channel, unsent[w])
  /\ unsent' = [unsent EXCEPT ![w] = {}]
  /\ UNCHANGED <<primary, replica, shown, worker, missed>>

\* SavedChangesAsync writes the job; the channel is unbounded, so this never
\* waits and never fails.
Enqueue(w) ==
  /\ unsent[w] # {}
  /\ channel' = Append(channel, unsent[w])
  /\ unsent' = [unsent EXCEPT ![w] = {}]
  /\ UNCHANGED <<primary, replica, shown, worker, missed>>

-----------------------------------------------------------------------------
(* The sync worker *)

\* Mutant: the worker coalesces the queue into its newest job.
TakeNewestJob ==
  /\ worker.todo = {}
  /\ channel # <<>>
  /\ worker' = [Idle EXCEPT !.todo = channel[Len(channel)]]
  /\ channel' = <<>>
  /\ UNCHANGED <<primary, replica, shown, unsent, missed>>

\* The worker asks for the next job once every table of the last is done.
TakeJob ==
  /\ worker.todo = {}
  /\ channel # <<>>
  /\ worker' = [Idle EXCEPT !.todo = Head(channel)]
  /\ channel' = Tail(channel)
  /\ UNCHANGED <<primary, replica, shown, unsent, missed>>

\* Mutant: without AsNoTracking a long-lived context returns rows as it first
\* read them.
ReadTracked(t) ==
  /\ worker.step = "idle"
  /\ t \in worker.todo
  /\ \E v \in 0..primary[t] :
       worker' = [worker EXCEPT !.step = "loaded", !.table = t, !.items = v]
  /\ UNCHANGED <<primary, replica, shown, unsent, channel, missed>>

\* ToListAsync: the foreach over a HashSet takes the types in any order.
ReadPrimary(t) ==
  /\ worker.step = "idle"
  /\ t \in worker.todo
  /\ worker' = [worker EXCEPT !.step = "loaded", !.table = t,
                              !.items = primary[t]]
  /\ UNCHANGED <<primary, replica, shown, unsent, channel, missed>>

\* ExecuteDeleteAsync commits by itself: readers now find no rows.
ClearReplica ==
  /\ worker.step = "loaded"
  /\ replica' = [replica EXCEPT ![worker.table] = Empty]
  /\ worker' = [worker EXCEPT !.step = "cleared"]
  /\ UNCHANGED <<primary, shown, unsent, channel, missed>>

\* AddRange and SaveChangesAsync insert the rows read from the primary.
FillReplica ==
  /\ worker.step = "cleared"
  /\ replica' = [replica EXCEPT ![worker.table] = worker.items]
  /\ shown' = [shown EXCEPT ![worker.table] = worker.items]
  /\ worker' = [Idle EXCEPT !.todo = worker.todo \ {worker.table}]
  /\ missed' = missed \ {worker.table}
  /\ UNCHANGED <<primary, unsent, channel>>

\* The catch in ExecuteAsync logs and goes on with the next job: the tables
\* of this one that are not refilled yet stay as they are.
FailJob ==
  /\ worker.todo # {}
  /\ missed' = missed \cup worker.todo
  /\ worker' = Idle
  /\ UNCHANGED <<primary, replica, shown, unsent, channel>>

\* Mutant: startup does not enqueue a full job.
RestartEmpty ==
  /\ channel' = <<>>
  /\ worker' = Idle
  /\ unsent' = [w \in Writers |-> {}]
  /\ missed' = {}
  /\ UNCHANGED <<primary, replica, shown>>

\* The process dies and starts again: the channel, the job in hand and the
\* enqueues not made yet are lost, the databases stay, and startup enqueues a
\* full job.
Restart ==
  /\ channel' = StartupJob
  /\ worker' = Idle
  /\ unsent' = [w \in Writers |-> {}]
  /\ missed' = {}
  /\ UNCHANGED <<primary, replica, shown>>

-----------------------------------------------------------------------------

WorkerStep ==
  \/ TakeJob
  \/ \E t \in Tables : ReadPrimary(t)
  \/ ClearReplica
  \/ FillReplica

Next ==
  \/ \E w \in Writers, T \in Jobs : Commit(w, T)
  \/ \E w \in Writers : Enqueue(w)
  \/ WorkerStep
  \/ FailJob
  \/ Restart

Spec == Init /\ [][Next]_vars

\* The worker's loop and a request past its commit keep going; nothing makes a
\* request save, a job fail or the process die.
Fairness ==
  /\ WF_vars(WorkerStep)
  /\ \A w \in Writers : WF_vars(Enqueue(w))

FairSpec == Spec /\ Fairness

-----------------------------------------------------------------------------
(* Properties *)

Queued == UNION {channel[i] : i \in 1..Len(channel)}

Unsent == UNION {unsent[w] : w \in Writers}

\* A replica table differs from its primary only while somebody still owes it
\* a refill (a request before its enqueue, a queued job, the job in hand) or
\* after a failed job dropped that refill.  It is the reason no commit is
\* forgotten although a refill may copy rows older than the newest commit.
StaleImpliesOwed ==
  \A t \in Tables : replica[t] # primary[t] =>
     t \in missed \cup Unsent \cup Queued \cup worker.todo

\* The snapshot in the worker's hands may be outdated only while a job that
\* carries the newer commit is still to come.
HeldItemsCurrentOrOwed ==
  worker.step # "idle" /\ worker.items # primary[worker.table] =>
     worker.table \in Unsent \cup Queued

\* The worker never holds a snapshot older than one it has already shown nor
\* one newer than the primary, across failures and restarts.
NeverRollsBack ==
  /\ \A t \in Tables : replica[t] \in {Empty, shown[t]}
  /\ \A t \in Tables : shown[t] <= primary[t]
  /\ worker.step # "idle" => /\ shown[worker.table] <= worker.items
                             /\ worker.items <= primary[worker.table]

\* The place of the worker in its job, on which the other invariants rest.
WorkerInJob ==
  /\ worker.step # "idle" => worker.table \in worker.todo
  /\ worker.step = "idle" => worker.table = None

\* Requests that read the replica are promised a MonotonicCopy of the primary.
Promise == INSTANCE MonotonicCopy
             WITH source <- primary, copy <- replica, floor <- shown
ReadsAreMonotonic == Promise!ASpec

\* Once the process stops being restarted, every table whose refill was not
\* dropped by a failure ends up equal to the primary and stays so.
CatchesUp ==
  (<>[][~Restart]_vars) =>
     \A t \in Tables : <>[](replica[t] = primary[t] \/ t \in missed)

=============================================================================
