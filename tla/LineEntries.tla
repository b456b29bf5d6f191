---------------------------- MODULE LineEntries ----------------------------
(***************************************************************************)
(* The line entries of one bill of lading in the .NET Logistics API        *)
(* (BillOfLadingService over LineEntryRepository).  The service decides on *)
(* the rows of the read replica and saves to the primary.  The replica is  *)
(* a MonotonicCopy of the primary table, which is what ReplicaSync is      *)
(* proved to implement.  A SaveChanges is one transaction: all of its rows *)
(* or, when a row it changes is gone (DbUpdateConcurrencyException), none. *)
(*                                                                         *)
(* A row's goods stand for its SKU and quantity; every query filters by    *)
(* the transaction, so one bill is enough.                                 *)
(***************************************************************************)
EXTENDS Naturals, Sequences

CONSTANTS
  Location,     \* warehouse and store ids
  Entries,      \* line entries of the request that creates the bill
  Call,         \* requests the API handles at a time
  MaxSaves,     \* bound: SaveChanges calls that change the rows
  Empty         \* the content of a replica table with no rows

ASSUME LineEntriesAssumption ==
  /\ Entries \in Nat \ {0}
  /\ MaxSaves \in Nat
  /\ Empty \notin Nat

VARIABLES
  saved,        \* every content the primary table has had, newest last
  shown,        \* shown["LineEntry"]: which of them the replica holds
  floor,        \* floor["LineEntry"]: the newest it has held
  lastKey,      \* the newest primary key given out
  call,         \* call[c]: what a request has in memory
  clean         \* history: every move that was saved deleted the rows it copied

vars == <<saved, shown, floor, lastKey, call, clean>>

Goods == 1..Entries

\* The primary key is a fresh GUID; done is IsProcessed.
Row == [key: Nat, good: Goods, loc: Location, done: BOOLEAN]

Keys(T) == {r.key : r \in T}

Current == saved[Len(saved)]

Replica == INSTANCE MonotonicCopy WITH
             Tables <- {"LineEntry"}, copy <- shown,
             source <- [t \in {"LineEntry"} |-> Len(saved) - 1]

Visible == IF shown["LineEntry"] = Empty THEN {}
                                         ELSE saved[shown["LineEntry"] + 1]

VisibleAt(loc) == {r \in Visible : r.loc = loc}

Free == [op |-> "none"]
Creating == [op |-> "create"]
Processing == [op: {"process"}, rows: (SUBSET Row) \ {{}}]
Moving == [op: {"move"}, from: Location, to: Location, rows: (SUBSET Row) \ {{}}]
Deleting == [op: {"delete"}, to: Location, rows: (SUBSET Row) \ {{}},
             gone: SUBSET Row]

TypeOK ==
  /\ saved \in Seq(SUBSET Row) /\ saved # <<>>
  /\ shown \in [{"LineEntry"} -> 0..(Len(saved) - 1) \cup {Empty}]
  /\ floor \in [{"LineEntry"} -> 0..(Len(saved) - 1)]
  /\ lastKey \in Nat
  /\ call \in [Call -> {Free, Creating} \cup Processing \cup Moving \cup Deleting]
  /\ clean \in BOOLEAN

Init ==
  /\ saved = << {} >>
  /\ Replica!AInit
  /\ lastKey = 0
  /\ call = [c \in Call |-> Free]
  /\ clean = TRUE

-----------------------------------------------------------------------------

Holds(c, op) == call[c].op = op

\* The request goes on with what it read; the database is untouched.
Keep(c, m) ==
  /\ call' = [call EXCEPT ![c] = m]
  /\ UNCHANGED <<saved, shown, floor, lastKey, clean>>

Save(c, T) ==
  /\ Len(saved) <= MaxSaves
  /\ saved' = Append(saved, T)
  /\ call' = [call EXCEPT ![c] = Free]
  /\ UNCHANGED <<shown, floor>>

\* CreateAsync saves the bill and its entries under fresh keys.
Create(c, place) ==
  /\ Holds(c, "none") /\ lastKey = 0 /\ Len(saved) <= MaxSaves
  /\ saved' = Append(saved, {[key |-> g, good |-> g, loc |-> place[g],
                              done |-> FALSE] : g \in Goods})
  /\ lastKey' = Entries
  /\ call' = [call EXCEPT ![c] = Creating]
  /\ UNCHANGED <<shown, floor, clean>>

\* It then writes the document and processes the originating warehouse.  With no
\* rows in the replica that does nothing; with rows there the Update throws, as
\* the context still tracks the rows just inserted.  Neither saves anything.
CreateOrigin(c) == Holds(c, "create") /\ Keep(c, Free)

\* Mutant: the whole bill is written back, only the location's rows marked.
ProcessReadAll(c, loc) ==
  /\ Holds(c, "none") /\ VisibleAt(loc) # {}
  /\ Keep(c, [op |-> "process",
              rows |-> {[r EXCEPT !.done = @ \/ r.loc = loc] : r \in Visible}])

\* ProcessLocationStop; a location without rows is answered with success.
ProcessRead(c, loc) ==
  /\ Holds(c, "none") /\ VisibleAt(loc) # {}
  /\ Keep(c, [op |-> "process",
              rows |-> {[r EXCEPT !.done = TRUE] : r \in VisibleAt(loc)}])

\* Mutant: a row that is gone is inserted again.
ProcessSaveUpsert(c) ==
  /\ Holds(c, "process")
  /\ Save(c, {r \in Current : r.key \notin Keys(call[c].rows)} \cup call[c].rows)
  /\ UNCHANGED <<lastKey, clean>>

\* Update writes every column of the rows as they were read.
ProcessSave(c) ==
  /\ Holds(c, "process")
  /\ Keys(call[c].rows) \subseteq Keys(Current)
  /\ Save(c, {r \in Current : r.key \notin Keys(call[c].rows)} \cup call[c].rows)
  /\ UNCHANGED <<lastKey, clean>>

\* Mutant: the replica's rows are not checked for being there at all.
MoveReadUnchecked(c, old, new) ==
  /\ Holds(c, "none")
  /\ \A r \in VisibleAt(old) : ~r.done
  /\ Keep(c, [op |-> "move", from |-> old, to |-> new, rows |-> VisibleAt(old)])

\* ReplaceLocationStopAsync refuses a location without rows (400) and one with a
\* processed row (409).
MoveRead(c, old, new) ==
  /\ Holds(c, "none")
  /\ VisibleAt(old) # {} /\ \A r \in VisibleAt(old) : ~r.done
  /\ Keep(c, [op |-> "move", from |-> old, to |-> new, rows |-> VisibleAt(old)])

\* DeleteByLocationAsync loads the primary's rows at the location to remove them.
MoveLoad(c) ==
  /\ Holds(c, "move")
  /\ Keep(c, [op |-> "delete", to |-> call[c].to, rows |-> call[c].rows,
              gone |-> {r \in Current : r.loc = call[c].from}])

\* The copies get fresh keys and are not processed.
Copies(c) ==
  {[key |-> lastKey + r.key, good |-> r.good, loc |-> call[c].to,
    done |-> FALSE] : r \in call[c].rows}

\* Mutant: the delete does not notice rows deleted meanwhile.
MoveSaveUnchecked(c) ==
  /\ Holds(c, "delete")
  /\ Save(c, {r \in Current : r.key \notin Keys(call[c].gone)} \cup Copies(c))
  /\ lastKey' = 2 * lastKey
  /\ clean' = (clean /\ Keys(call[c].gone) = Keys(call[c].rows))

MoveSave(c) ==
  /\ Holds(c, "delete")
  /\ Keys(call[c].gone) \subseteq Keys(Current)
  /\ Save(c, {r \in Current : r.key \notin Keys(call[c].gone)} \cup Copies(c))
  /\ lastKey' = 2 * lastKey
  /\ clean' = (clean /\ Keys(call[c].gone) = Keys(call[c].rows))

\* A save that fails, also for a row that is gone, or a request that dies.
Fail(c) == ~Holds(c, "none") /\ Keep(c, Free)

\* The sync worker, as far as a reader can tell.
Sync ==
  /\ UNCHANGED <<saved, lastKey, call, clean>>
  /\ \/ Replica!Blank("LineEntry")
     \/ Replica!Publish("LineEntry")

Request(c) ==
  \/ \E place \in [Goods -> Location] : Create(c, place)
  \/ CreateOrigin(c)
  \/ \E loc \in Location : ProcessRead(c, loc)
  \/ ProcessSave(c)
  \/ \E old, new \in Location : MoveRead(c, old, new)
  \/ MoveLoad(c)
  \/ MoveSave(c)
  \/ Fail(c)

Next == Sync \/ \E c \in Call : Request(c)

Spec == Init /\ [][Next]_vars

-----------------------------------------------------------------------------
(* Properties *)

\* A row that a move deleted never comes back, although stop logs write back
\* whole rows they read from a replica that still showed it.
DeletedStayDeleted ==
  [][\A k \in 1..lastKey : k \notin Keys(Current) => k \notin Keys(Current)']_vars

\* A processed row that is still there stays processed: no request writes back
\* the unprocessed state it read of a row that another one marked meanwhile.
ProcessedStays ==
  [][\A r \in Current : r.done =>
        \A s \in Current' : s.key = r.key => s.done]_vars

\* While every move deleted the very rows it copied, the bill holds each of its
\* goods once: two moves that read the same rows cannot both succeed.
MovedOnceUnlessStale ==
  clean /\ lastKey # 0 =>
     \A g \in Goods : \E r \in Current :
        r.good = g /\ \A s \in Current : s.good = g => s = r

\* BillOfLadingController.cs: replace-stop "Atomically moves unprocessed line
\* entries from one location to another", so no goods of the bill vanish.
MovesKeepGoods ==
  lastKey # 0 => \A g \in Goods : \E r \in Current : r.good = g
=============================================================================
