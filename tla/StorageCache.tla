------------------------------ MODULE StorageCache ------------------------------
(***************************************************************************)
(* A Storage (base/parts/storage/common/storage.ts): a cache of the items  *)
(* of a database, with the changes that have not been written to it yet.   *)
(* Writing is delayed and throttled (base/common/async.ts): a timer, one   *)
(* update of the database at a time, and at most one that waits for it.    *)
(***************************************************************************)
EXTENDS Integers, FiniteSets

CONSTANTS
    Keys, Values,
    NoItem          \* the value of a key that is not set

ASSUME ItemsAssumption == NoItem \notin Values

Items == [Keys -> Values \cup {NoItem}]
NoItems == [k \in Keys |-> NoItem]

\* An update of a database: what to insert, what to delete.
NoRequest == [insert |-> NoItems, delete |-> {}]
Requests == [insert : Items, delete : SUBSET Keys]

\* pendingInserts and pendingDeletes.
\* state is None, Initialized while the items are being read and after that,
\* Closed; timer that of the delayer, request the active update of the
\* throttler, queued that another one waits, chained that the last one to run had
\* been queued and that those who wait for it have not been told of its end.
Storages == [state : {"none", "loading", "ready", "closed"}, cache : Items,
             inserts : Items, deletes : SUBSET Keys,
             timer : BOOLEAN, request : Requests, queued : BOOLEAN, chained : BOOLEAN]

NewStorage == [state |-> "none", cache |-> NoItems, inserts |-> NoItems, deletes |-> {},
               timer |-> FALSE, request |-> NoRequest, queued |-> FALSE, chained |-> FALSE]

HasPending(s) == s.inserts # NoItems \/ s.deletes # {}
IsWriting(s) == s.request # NoRequest

\* Mutant of Update: a key that was deleted before is still deleted.
UpdateKeepsDeletes(s, items) ==
    LET keys == {k \in Keys : items[k] # s.cache[k]}
    IN  IF s.state = "closed" \/ keys = {} THEN s
        ELSE [s EXCEPT !.cache = items, !.timer = TRUE,
                       !.inserts = [k \in Keys |-> IF k \in keys THEN items[k] ELSE @[k]],
                       !.deletes = @ \cup {k \in keys : items[k] = NoItem}]

\* set and delete, of the keys that are not as in items yet.
Update(s, items) ==
    LET keys == {k \in Keys : items[k] # s.cache[k]}
    IN  IF s.state = "closed" \/ keys = {} THEN s
        ELSE [s EXCEPT !.cache = items, !.timer = TRUE,
                       !.inserts = [k \in Keys |-> IF k \in keys THEN items[k] ELSE @[k]],
                       !.deletes = (@ \ keys) \cup {k \in keys : items[k] = NoItem}]

\* onDidChangeItemsExternal: the items of keys become those given.
AcceptExternal(s, keys, items) ==
    IF s.state = "closed" THEN s
    ELSE [s EXCEPT !.cache = [k \in Keys |-> IF k \in keys THEN items[k] ELSE @[k]]]

\* flushPending: the pending sets are replaced before the update is awaited.
FlushPending(s) ==
    [s EXCEPT !.request = [insert |-> s.inserts, delete |-> s.deletes],
              !.inserts = NoItems, !.deletes = {}]

\* Mutant of Elapse: the throttler forgets what comes while it is active.
ElapseDropped(s) ==
    IF IsWriting(s) THEN [s EXCEPT !.timer = FALSE]
                    ELSE FlushPending([s EXCEPT !.timer = FALSE, !.chained = FALSE])

\* Mutant of Elapse: updates are not throttled.
ElapseUnthrottled(s) == FlushPending([s EXCEPT !.timer = FALSE, !.chained = FALSE])

\* The delay of the delayer is over: the throttler flushes, or queues it.
Elapse(s) ==
    IF IsWriting(s) THEN [s EXCEPT !.timer = FALSE, !.queued = TRUE]
                    ELSE FlushPending([s EXCEPT !.timer = FALSE, !.chained = FALSE])

\* onComplete of the throttler: what was queued runs, whether there is still anything
\* to write or not.
RunQueued(s) == FlushPending([s EXCEPT !.queued = FALSE, !.chained = HasPending(s)])

\* The update is done.
Written(s) ==
    IF s.queued THEN RunQueued(s)
                ELSE [s EXCEPT !.request = NoRequest, !.chained = FALSE]

\* The update has failed.  The promise of one that had been queued is resolved by its
\* result only: an error settles it neither way.
Failed(s) == IF s.queued THEN RunQueued(s) ELSE [s EXCEPT !.request = NoRequest]

Load(s, items) == [s EXCEPT !.state = "ready", !.cache = items]

\* doClose, which flushes as soon as possible whether there is a timer or not.
Close(s) == [s EXCEPT !.state = "closed", !.timer = TRUE]

\* Mutant of IsFlushed: close awaits the update under way only.
IsFlushedOnce(s) == ~IsWriting(s)

\* doFlush of close has been settled, with success or with an error.
IsFlushed(s) == ~s.timer /\ ~s.queued /\ ~IsWriting(s) /\ ~s.chained

\* It never will be: nothing is under way, and the end of its update was not passed on.
IsHung(s) == ~s.timer /\ ~s.queued /\ ~IsWriting(s) /\ s.chained

\* Inserts come before deletes.
Applied(items, request) ==
    [k \in Keys |-> IF k \in request.delete THEN NoItem
                    ELSE IF request.insert[k] # NoItem THEN request.insert[k]
                    ELSE items[k]]

\* The items of the database once all that is on its way has been written.
Eventual(s, items) ==
    Applied(Applied(items, s.request), [insert |-> s.inserts, delete |-> s.deletes])

\* What is pending will be flushed: the delay runs, or a flush waits for the update
\* that is active.
IsScheduled(s) ==
    /\ HasPending(s) => s.timer \/ s.queued
    /\ s.queued => IsWriting(s)

\* All that was ever changed is in an update that has been answered.
IsClean(s) == ~HasPending(s) /\ ~IsWriting(s)
=================================================================================
