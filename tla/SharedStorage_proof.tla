-------------------------- MODULE SharedStorage_proof --------------------------
(***************************************************************************)
(* For any windows, keys and values, any number of sessions and of faults: *)
(* the invariant of a shared storage, and what follows from it for what a  *)
(* close leaves unwritten and for what one fault costs.                    *)
(***************************************************************************)
EXTENDS SharedStorage, SequenceTheorems, TLAPS

USE ItemsAssumption, FilesAssumption, SharedAssumption

-----------------------------------------------------------------------------
(* Lemmas about requests.                                                  *)

LEMMA NothingIs ==
    /\ NoItems \in Items /\ NoRequest \in Requests
    /\ \A k \in Keys : NoItems[k] = NoItem /\ NoRequest.insert[k] = NoItem
    /\ NoRequest.insert = NoItems /\ NoRequest.delete = {}
BY DEF NoItems, Items, NoRequest, Requests

\* What a request leaves of a key.
LEMMA AppliedIs ==
    ASSUME NEW items \in Items, NEW request \in Requests
    PROVE  /\ Applied(items, request) \in Items
           /\ \A k \in Keys :
                Applied(items, request)[k] =
                    IF k \in request.delete THEN NoItem
                    ELSE IF request.insert[k] # NoItem THEN request.insert[k] ELSE items[k]
BY DEF Applied, Items, Requests

LEMMA ItemsEqual ==
    ASSUME NEW items \in Items, NEW others \in Items,
           \A k \in Keys : items[k] = others[k]
    PROVE  items = others
BY DEF Items

LEMMA AppliedNothing ==
    ASSUME NEW items \in Items
    PROVE  Applied(items, NoRequest) = items
<1>1. Applied(items, NoRequest) \in Items
  BY NothingIs, AppliedIs
<1>2. \A k \in Keys : Applied(items, NoRequest)[k] = items[k]
  BY NothingIs, AppliedIs
<1> QED
  BY <1>1, <1>2, ItemsEqual

\* A request to insert all of some items makes an empty database hold them.
LEMMA AppliedToEmpty ==
    ASSUME NEW items \in Items
    PROVE  Applied(NoItems, [insert |-> items, delete |-> {}]) = items
<1> DEFINE request == [insert |-> items, delete |-> {}]
<1>1. request \in Requests /\ request.insert = items /\ request.delete = {}
  BY DEF Requests
<1> HIDE DEF request
<1>2. Applied(NoItems, request) \in Items
  BY <1>1, NothingIs, AppliedIs
<1>3. \A k \in Keys : Applied(NoItems, request)[k] = items[k]
  BY <1>1, NothingIs, AppliedIs
<1>4. Applied(NoItems, request) = items
  BY <1>2, <1>3, ItemsEqual
<1> QED
  BY <1>4 DEF request

-----------------------------------------------------------------------------
(* Lemmas about a Storage.                                                 *)

Pending(s) == [insert |-> s.inserts, delete |-> s.deletes]

LEMMA StorageIs ==
    ASSUME NEW s \in Storages
    PROVE  /\ s.state \in {"none", "loading", "ready", "closed"}
           /\ s.cache \in Items /\ s.request \in Requests
           /\ s.timer \in BOOLEAN /\ s.queued \in BOOLEAN /\ s.chained \in BOOLEAN
           /\ s.inserts \in Items /\ s.deletes \subseteq Keys
           /\ Pending(s) \in Requests
           /\ Pending(s).insert = s.inserts /\ Pending(s).delete = s.deletes
           /\ ~HasPending(s) <=> Pending(s) = NoRequest
BY DEF Storages, Pending, Requests, HasPending, NoRequest

LEMMA NewStorageIs ==
    /\ NewStorage \in Storages /\ IsScheduled(NewStorage) /\ IsClean(NewStorage)
    /\ NewStorage.state = "none" /\ NewStorage.cache = NoItems
    /\ NewStorage.timer = FALSE /\ NewStorage.queued = FALSE /\ NewStorage.chained = FALSE
    /\ NewStorage.request = NoRequest
    /\ NewStorage.inserts = NoItems /\ NewStorage.deletes = {}
BY NothingIs DEF NewStorage, Storages, IsScheduled, IsClean, HasPending, IsWriting

\* What a key will be.
LEMMA EventualIs ==
    ASSUME NEW s \in Storages, NEW items \in Items
    PROVE  /\ Eventual(s, items) = Applied(Applied(items, s.request), Pending(s))
           /\ Eventual(s, items) \in Items
           /\ \A k \in Keys :
                Eventual(s, items)[k] =
                    IF k \in s.deletes THEN NoItem
                    ELSE IF s.inserts[k] # NoItem THEN s.inserts[k]
                    ELSE Applied(items, s.request)[k]
<1> DEFINE before == Applied(items, s.request)
           request == Pending(s)
<1>1. Eventual(s, items) = Applied(before, request)
  BY DEF Eventual, Pending
<1>2. before \in Items
  BY StorageIs, AppliedIs
<1>3. request \in Requests /\ request.insert = s.inserts /\ request.delete = s.deletes
  BY StorageIs
<1> HIDE DEF before, request
<1>4. /\ Applied(before, request) \in Items
      /\ \A k \in Keys :
           Applied(before, request)[k] =
               IF k \in request.delete THEN NoItem
               ELSE IF request.insert[k] # NoItem THEN request.insert[k] ELSE before[k]
  BY <1>2, <1>3, AppliedIs
<1> QED
  BY <1>1, <1>3, <1>4 DEF before, request

\* Nothing is on its way to the database of a clean storage.
LEMMA EventualOfClean ==
    ASSUME NEW s \in Storages, NEW items \in Items, IsClean(s)
    PROVE  Eventual(s, items) = items
<1>1. Pending(s) = NoRequest /\ s.request = NoRequest
  BY StorageIs DEF IsClean, IsWriting
<1> QED
  BY <1>1, EventualIs, AppliedNothing

\* A change of the cache is pending, scheduled and, unless the storage is closed, kept.
LEMMA UpdateIs ==
    ASSUME NEW s \in Storages, NEW items \in Items
    PROVE  /\ Update(s, items) \in Storages
           /\ Update(s, items).state = s.state
           /\ Update(s, items).request = s.request
           /\ Update(s, items).queued = s.queued /\ Update(s, items).chained = s.chained
           /\ s.state = "closed" => Update(s, items) = s
           /\ IsScheduled(s) => IsScheduled(Update(s, items))
<1> DEFINE keys == {k \in Keys : items[k] # s.cache[k]}
           inserts == [k \in Keys |-> IF k \in keys THEN items[k] ELSE s.inserts[k]]
           deletes == (s.deletes \ keys) \cup {k \in keys : items[k] = NoItem}
<1>1. Update(s, items) = IF s.state = "closed" \/ keys = {} THEN s
                         ELSE [s EXCEPT !.cache = items, !.timer = TRUE,
                                        !.inserts = inserts, !.deletes = deletes]
  BY DEF Update, Storages
<1>2. inserts \in Items /\ deletes \in SUBSET Keys
  BY DEF Storages, Items
<1> HIDE DEF inserts, deletes, keys
<1>3. CASE s.state = "closed" \/ keys = {}
  BY <1>1, <1>3
<1>4. CASE ~(s.state = "closed" \/ keys = {})
  <2> DEFINE after == [s EXCEPT !.cache = items, !.timer = TRUE,
                                !.inserts = inserts, !.deletes = deletes]
  <2>1. Update(s, items) = after
    BY <1>1, <1>4
  <2>2. after \in Storages
    BY <1>2 DEF Storages
  <2>3. /\ after.state = s.state /\ after.request = s.request
        /\ after.queued = s.queued /\ after.chained = s.chained
    BY DEF Storages
  <2>4. after.timer
    BY DEF Storages
  <2> HIDE DEF after
  <2>5. IsScheduled(s) => IsScheduled(Update(s, items))
    BY <2>1, <2>3, <2>4 DEF IsScheduled, IsWriting
  <2> QED
    BY <1>4, <2>1, <2>2, <2>3, <2>5
<1> QED
  BY <1>3, <1>4

\* What has been changed will be in the database.
LEMMA UpdateIsEventual ==
    ASSUME NEW s \in Storages, NEW items \in Items, NEW held \in Items,
           Eventual(s, held) = s.cache
    PROVE  Eventual(Update(s, items), held) = Update(s, items).cache
<1> DEFINE keys == {k \in Keys : items[k] # s.cache[k]}
           u == Update(s, items)
<1>1. CASE s.state = "closed" \/ keys = {}
  BY <1>1 DEF Update
<1>2. CASE ~(s.state = "closed" \/ keys = {})
  <2>1. /\ u.cache = items /\ u.request = s.request
        /\ u.inserts = [k \in Keys |-> IF k \in keys THEN items[k] ELSE s.inserts[k]]
        /\ u.deletes = (s.deletes \ keys) \cup {k \in keys : items[k] = NoItem}
    BY <1>2 DEF Update, Storages
  <2>2. u \in Storages
    BY UpdateIs
  <2>3. \A k \in Keys : Eventual(u, held)[k] = IF k \in u.deletes THEN NoItem
                                               ELSE IF u.inserts[k] # NoItem THEN u.inserts[k]
                                               ELSE Applied(held, s.request)[k]
    BY <2>1, <2>2, EventualIs
  <2>4. \A k \in Keys : s.cache[k] = IF k \in s.deletes THEN NoItem
                                     ELSE IF s.inserts[k] # NoItem THEN s.inserts[k]
                                     ELSE Applied(held, s.request)[k]
    BY EventualIs
  <2>5. \A k \in Keys : Eventual(u, held)[k] = items[k]
    <3> SUFFICES ASSUME NEW k \in Keys PROVE Eventual(u, held)[k] = items[k]
      OBVIOUS
    <3>1. k \notin keys <=> items[k] = s.cache[k]
      OBVIOUS
    <3>2. k \in u.deletes <=> IF k \in keys THEN items[k] = NoItem ELSE k \in s.deletes
      BY <2>1
    <3>3. u.inserts[k] = IF k \in keys THEN items[k] ELSE s.inserts[k]
      BY <2>1
    <3> HIDE DEF u, keys
    <3> QED
      BY <2>3, <2>4, <3>1, <3>2, <3>3
  <2> QED
    BY <2>1, <2>2, <2>5, EventualIs, ItemsEqual
<1> QED
  BY <1>1, <1>2

\* The pending sets become the update.
LEMMA FlushPendingIs ==
    ASSUME NEW s \in Storages
    PROVE  /\ FlushPending(s) \in Storages
           /\ FlushPending(s).state = s.state /\ FlushPending(s).cache = s.cache
           /\ FlushPending(s).timer = s.timer /\ FlushPending(s).queued = s.queued
           /\ FlushPending(s).chained = s.chained
           /\ FlushPending(s).request = Pending(s) /\ ~HasPending(FlushPending(s))
           /\ Pending(FlushPending(s)) = NoRequest
<1> DEFINE request == Pending(s)
<1>1. request \in Requests
  BY StorageIs
<1>2. FlushPending(s) = [s EXCEPT !.request = request, !.inserts = NoItems, !.deletes = {}]
  BY DEF FlushPending, Pending
<1> HIDE DEF request
<1>3. /\ FlushPending(s) \in Storages
      /\ FlushPending(s).state = s.state /\ FlushPending(s).cache = s.cache
      /\ FlushPending(s).timer = s.timer /\ FlushPending(s).queued = s.queued
      /\ FlushPending(s).chained = s.chained
      /\ FlushPending(s).request = request /\ ~HasPending(FlushPending(s))
  BY <1>1, <1>2, NothingIs DEF Storages, HasPending
<1> QED
  BY <1>3, StorageIs DEF request

\* ... and what will be in the database, once the update before it is, stays the same.
LEMMA FlushedIsEventual ==
    ASSUME NEW s \in Storages, NEW held \in Items
    PROVE  Eventual(FlushPending(s), Applied(held, s.request)) = Eventual(s, held)
<1>1. Applied(held, s.request) \in Items
  BY StorageIs, AppliedIs
<1>2. Applied(Applied(held, s.request), Pending(s)) \in Items
  BY <1>1, StorageIs, AppliedIs
<1> QED
  BY <1>1, <1>2, FlushPendingIs, EventualIs, AppliedNothing

\* When its delay is over, a storage has a queued flush or an update, and owes the
\* database what it owed.
LEMMA ElapseIs ==
    ASSUME NEW s \in Storages
    PROVE  /\ Elapse(s) \in Storages
           /\ Elapse(s).state = s.state /\ Elapse(s).cache = s.cache
           /\ IsScheduled(s) => IsScheduled(Elapse(s))
           /\ IsWriting(s) => Elapse(s).request = s.request /\ Elapse(s).queued
           /\ ~IsWriting(s) => ~Elapse(s).chained
           /\ \A held \in Items : Eventual(Elapse(s), held) = Eventual(s, held)
<1> DEFINE t == [s EXCEPT !.timer = FALSE, !.chained = FALSE]
<1>1. t \in Storages /\ Pending(t) = Pending(s) /\ t.request = s.request
      /\ t.state = s.state /\ t.cache = s.cache /\ t.queued = s.queued /\ ~t.chained
  BY DEF Storages, Pending
<1>2. CASE IsWriting(s)
  <2>1. /\ Elapse(s) \in Storages
        /\ Elapse(s).state = s.state /\ Elapse(s).cache = s.cache
        /\ Elapse(s).request = s.request /\ Elapse(s).queued = TRUE
        /\ Pending(Elapse(s)) = Pending(s)
    BY <1>2 DEF Elapse, Storages, Pending
  <2>2. IsScheduled(Elapse(s))
    BY <1>2, <2>1 DEF IsScheduled, IsWriting
  <2> QED
    BY <1>2, <2>1, <2>2, EventualIs
<1>3. CASE ~IsWriting(s)
  <2>1. Elapse(s) = FlushPending(t) /\ s.request = NoRequest
    BY <1>3 DEF Elapse, IsWriting
  <2> HIDE DEF t
  <2>2. /\ Elapse(s) \in Storages
        /\ Elapse(s).state = s.state /\ Elapse(s).cache = s.cache
        /\ Elapse(s).queued = s.queued /\ ~HasPending(Elapse(s)) /\ ~Elapse(s).chained
    BY <1>1, <2>1, FlushPendingIs
  <2>3. IsScheduled(s) => IsScheduled(Elapse(s))
    BY <1>3, <2>2 DEF IsScheduled
  <2>4. ASSUME NEW held \in Items PROVE Eventual(Elapse(s), held) = Eventual(s, held)
    <3>1. Eventual(Elapse(s), held) = Eventual(t, held)
      BY <1>1, <2>1, FlushedIsEventual, AppliedNothing
    <3> QED
      BY <1>1, <3>1, EventualIs
  <2> QED
    BY <1>3, <2>2, <2>3, <2>4
<1> QED
  BY <1>2, <1>3

\* When what was queued runs, a storage owes the database the rest; that flush, if there
\* is anything to write, is one that others wait for.
LEMMA RunQueuedIs ==
    ASSUME NEW s \in Storages
    PROVE  /\ RunQueued(s) \in Storages
           /\ RunQueued(s).state = s.state /\ RunQueued(s).cache = s.cache
           /\ RunQueued(s).timer = s.timer
           /\ IsScheduled(RunQueued(s))
           /\ RunQueued(s).chained => IsWriting(RunQueued(s))
           /\ RunQueued(s).request = Pending(s) /\ Pending(RunQueued(s)) = NoRequest
           /\ \A held \in Items : Eventual(RunQueued(s), Applied(held, s.request)) = Eventual(s, held)
<1> DEFINE more == HasPending(s)
           t == [s EXCEPT !.queued = FALSE, !.chained = more]
<1>1. more \in BOOLEAN
  BY DEF HasPending
<1>2. RunQueued(s) = FlushPending(t) /\ (more <=> Pending(s) # NoRequest)
  BY StorageIs DEF RunQueued
<1> HIDE DEF more
<1>3. t \in Storages /\ Pending(t) = Pending(s) /\ t.request = s.request
      /\ t.state = s.state /\ t.cache = s.cache /\ t.timer = s.timer /\ t.queued = FALSE
      /\ t.chained = more
  BY <1>1 DEF Storages, Pending
<1> HIDE DEF t
<1>4. /\ RunQueued(s) \in Storages
      /\ RunQueued(s).state = s.state /\ RunQueued(s).cache = s.cache /\ RunQueued(s).timer = s.timer
      /\ RunQueued(s).queued = FALSE /\ ~HasPending(RunQueued(s)) /\ RunQueued(s).chained = more
      /\ RunQueued(s).request = Pending(s) /\ Pending(RunQueued(s)) = NoRequest
  BY <1>2, <1>3, FlushPendingIs
<1>5. IsScheduled(RunQueued(s)) /\ (RunQueued(s).chained => IsWriting(RunQueued(s)))
  BY <1>2, <1>4 DEF IsScheduled, IsWriting
<1>6. ASSUME NEW held \in Items
      PROVE  Eventual(RunQueued(s), Applied(held, s.request)) = Eventual(s, held)
  BY <1>2, <1>3, FlushedIsEventual, EventualIs
<1> QED
  BY <1>4, <1>5, <1>6

\* When its update is answered, a storage owes the database the rest.
LEMMA WrittenIs ==
    ASSUME NEW s \in Storages
    PROVE  /\ Written(s) \in Storages
           /\ Written(s).state = s.state /\ Written(s).cache = s.cache
           /\ Written(s).timer = s.timer
           /\ IsScheduled(s) => IsScheduled(Written(s))
           /\ Written(s).chained => IsWriting(Written(s))
           /\ \A held \in Items : Eventual(Written(s), Applied(held, s.request)) = Eventual(s, held)
<1>1. CASE s.queued
  <2>1. Written(s) = RunQueued(s)
    BY <1>1 DEF Written
  <2> QED
    BY <2>1, RunQueuedIs
<1>2. CASE ~s.queued
  <2>1. /\ Written(s) \in Storages /\ Pending(Written(s)) = Pending(s)
        /\ Written(s).state = s.state /\ Written(s).cache = s.cache /\ Written(s).timer = s.timer
        /\ Written(s).queued = s.queued /\ Written(s).request = NoRequest
        /\ Written(s).chained = FALSE
    BY <1>2, NothingIs DEF Written, Storages, Pending
  <2>2. IsScheduled(s) => IsScheduled(Written(s))
    BY <1>2, <2>1, StorageIs DEF IsScheduled
  <2>3. ASSUME NEW held \in Items
        PROVE  Eventual(Written(s), Applied(held, s.request)) = Eventual(s, held)
    <3>1. Applied(held, s.request) \in Items
      BY StorageIs, AppliedIs
    <3> QED
      BY <2>1, <3>1, EventualIs, AppliedNothing
  <2> QED
    BY <2>1, <2>2, <2>3
<1> QED
  BY <1>1, <1>2

\* When its update has failed, a storage has the rest scheduled still.
LEMMA FailedIs ==
    ASSUME NEW s \in Storages
    PROVE  /\ Failed(s) \in Storages
           /\ Failed(s).state = s.state /\ Failed(s).cache = s.cache
           /\ IsScheduled(s) => IsScheduled(Failed(s))
<1>1. CASE s.queued
  BY <1>1, RunQueuedIs DEF Failed
<1>2. CASE ~s.queued
  <2>1. /\ Failed(s) \in Storages /\ Pending(Failed(s)) = Pending(s)
        /\ Failed(s).state = s.state /\ Failed(s).cache = s.cache /\ Failed(s).timer = s.timer
        /\ Failed(s).queued = s.queued
    BY <1>2, NothingIs DEF Failed, Storages, Pending
  <2>2. IsScheduled(s) => IsScheduled(Failed(s))
    BY <1>2, <2>1, StorageIs DEF IsScheduled
  <2> QED
    BY <2>1, <2>2
<1> QED
  BY <1>1, <1>2

\* A close is scheduled to flush, and owes the database what the storage owed.
LEMMA CloseIs ==
    ASSUME NEW s \in Storages
    PROVE  /\ Close(s) \in Storages
           /\ Close(s).state = "closed" /\ Close(s).cache = s.cache
           /\ Close(s).request = s.request /\ Close(s).chained = s.chained
           /\ IsScheduled(s) => IsScheduled(Close(s))
           /\ \A held \in Items : Eventual(Close(s), held) = Eventual(s, held)
BY DEF Close, Storages, IsScheduled, HasPending, IsWriting, Eventual

\* Loading touches nothing that is pending, neither does a change made elsewhere.
LEMMA LoadIs ==
    ASSUME NEW s \in Storages, NEW items \in Items
    PROVE  /\ Load(s, items) \in Storages
           /\ Load(s, items).state = "ready" /\ Load(s, items).cache = items
           /\ Load(s, items).request = s.request /\ Load(s, items).chained = s.chained
           /\ IsScheduled(s) => IsScheduled(Load(s, items))
           /\ IsClean(s) => IsClean(Load(s, items))
BY DEF Load, Storages, IsScheduled, IsClean, HasPending, IsWriting

LEMMA AcceptExternalIs ==
    ASSUME NEW s \in Storages, NEW keys \in SUBSET Keys, NEW items \in Items
    PROVE  /\ AcceptExternal(s, keys, items) \in Storages
           /\ AcceptExternal(s, keys, items).state = s.state
           /\ AcceptExternal(s, keys, items).request = s.request
           /\ AcceptExternal(s, keys, items).timer = s.timer
           /\ IsScheduled(s) => IsScheduled(AcceptExternal(s, keys, items))
           /\ IsClean(s) => IsClean(AcceptExternal(s, keys, items))
<1> DEFINE cache == [k \in Keys |-> IF k \in keys THEN items[k] ELSE s.cache[k]]
<1>1. cache \in Items
  BY DEF Storages, Items
<1>2. AcceptExternal(s, keys, items) =
          IF s.state = "closed" THEN s ELSE [s EXCEPT !.cache = cache]
  BY DEF AcceptExternal, Storages
<1> HIDE DEF cache
<1> QED
  BY <1>1, <1>2 DEF Storages, IsScheduled, IsClean, HasPending, IsWriting

\* After its flush, nothing is left of what a storage had to write.
LEMMA FlushedIsClean ==
    ASSUME NEW s \in Storages, IsScheduled(s), IsFlushed(s)
    PROVE  IsClean(s)
BY DEF IsScheduled, IsFlushed, IsClean

-----------------------------------------------------------------------------
(* The main process.                                                       *)

MainInv == /\ MainTypeOK /\ MainFollows /\ FileHolds /\ FaultsAreCounted
           /\ NothingUnwritten /\ OneFaultIsRecovered

LEMMA MainInitInvariant ==
    ASSUME MainInit PROVE MainInv
<1>1. file \in {NoFile} \cup Items /\ file # Corrupt
  BY DEF MainInit
<1>2. MainTypeOK
  BY <1>1, NewStorageIs, NothingIs
  DEF MainInit, MainTypeOK, Phases, Files, NewConnection, Connections, Promises
<1>3. MainFollows
  BY NewStorageIs DEF MainInit, MainFollows, Closing
<1>4. FileHolds /\ FaultsAreCounted /\ NothingUnwritten
  BY <1>1 DEF MainInit, FileHolds, FaultsAreCounted, NothingUnwritten, Running, Healthy, NewConnection
<1>5. OneFaultIsRecovered
  BY <1>1 DEF MainInit, OneFaultIsRecovered, IsFound, Closing
<1> QED
  BY <1>2, <1>3, <1>4, <1>5 DEF MainInv

\* Lemmas about what steps of the main process have in common.
LEMMA NoFileIsItems == NoFile \notin Items /\ Corrupt \notin Items /\ NoFile # Corrupt
OBVIOUS

LEMMA FaultIs ==
    ASSUME faults \in 0..MaxFaults, Fault
    PROVE  faults' = faults + 1 /\ faults' \in 0..MaxFaults
BY DEF Fault

LEMMA FallBackIs ==
    ASSUME connection \in Connections, FallBack
    PROVE  phase' = "loading" /\ connection' \in Connections /\ connection'.memory
BY DEF FallBack, Connections

LEMMA ErrorIs ==
    ASSUME connection \in Connections, connection' = [connection EXCEPT !.erroneous = TRUE]
    PROVE  /\ connection' \in Connections
           /\ connection'.erroneous /\ connection'.memory = connection.memory
BY DEF Connections

LEMMA PromiseIs ==
    ASSUME durable \in Promises, NEW items, items \in Items,
           durable' = [durable EXCEPT !.items = items]
    PROVE  durable' \in Promises /\ durable'.items = items /\ durable'.lost = durable.lost
BY DEF Promises

\* What is owed is the cache of a storage that read its items.
LEMMA OwedIs ==
    ASSUME main \in Storages, durable \in Promises
    PROVE  Owed \in Items /\ (durable.lost = {} => Owed = main.cache)
<1>1. main.cache \in Items /\ durable.items \in Items
  BY StorageIs DEF Promises
<1>2. Owed \in Items
  BY <1>1 DEF Owed, Items
<1>3. durable.lost = {} => Owed = main.cache
  BY <1>1 DEF Owed, Items
<1> QED
  BY <1>2, <1>3

\* What is lost is known to be lost.
LEMMA LostIs ==
    ASSUME main \in Storages, durable \in Promises, NEW loss \in Losses,
           \/ durable' = [items |-> Owed, lost |-> durable.lost \cup {loss}]
           \/ durable' = [durable EXCEPT !.lost = @ \cup {loss}]
    PROVE  durable' \in Promises /\ durable'.lost # {} /\ durable'.lost = durable.lost \cup {loss}
<1> DEFINE lost == durable.lost \cup {loss}
           items == Owed
<1>1. lost \in SUBSET Losses /\ lost # {} /\ items \in Items
  BY OwedIs DEF Promises
<1>2. durable' = [items |-> items, lost |-> lost] \/ durable' = [durable EXCEPT !.lost = lost]
  BY DEF Promises
<1> HIDE DEF lost, items
<1>3. durable' \in Promises /\ durable'.lost = lost
  BY <1>1, <1>2 DEF Promises
<1> QED
  BY <1>1, <1>3 DEF lost

\* Giving the recovery up is a loss.
LEMMA GivesUpIs ==
    ASSUME main \in Storages, durable \in Promises, GivesUp
    PROVE  /\ phase' = "down" /\ durable' \in Promises /\ durable'.lost # {}
           /\ durable'.lost = durable.lost \cup {"unwritten"}
BY LostIs DEF GivesUp, Losses

\* What opening a database does to its file.
LEMMA ConnectsIs ==
    ASSUME file \in Files, Connects
    PROVE  /\ file # Corrupt /\ faults' = faults /\ file' \in Items
           /\ file' = IF file = NoFile THEN NoItems ELSE file
BY NothingIs DEF Connects, Files

\* An update that failed leaves items, or a corrupt file.
LEMMA TornAreFiles ==
    ASSUME file \in Items, main.request \in Requests PROVE Torn \subseteq {Corrupt} \cup Items
<1>1. ASSUME NEW i \in {NoItems, main.request.insert}, NEW d \in {{}, main.request.delete}
      PROVE  Applied(file, [insert |-> i, delete |-> d]) \in Items
  <2> DEFINE request == [insert |-> i, delete |-> d]
  <2>1. request \in Requests
    BY <1>1, NothingIs DEF Requests
  <2> HIDE DEF request
  <2>2. Applied(file, request) \in Items
    BY <2>1, AppliedIs
  <2> QED
    BY <2>2 DEF request
<1> QED
  BY <1>1 DEF Torn

\* Starting forgets the Storage, not the files.
LEMMA StartKeeps ==
    ASSUME MainInv, Start PROVE MainInv'
<1>1. MainTypeOK'
  BY NewStorageIs
  DEF MainInv, MainTypeOK, Connections, Promises, Phases, Files, Start, Goes, NewConnection
<1>2. MainFollows'
  BY NewStorageIs
  DEF MainInv, MainTypeOK, Connections, Promises, MainFollows, Running, Closing, Start, Goes, NewConnection
<1>3. FileHolds'
  BY NewStorageIs
  DEF MainInv, MainTypeOK, Connections, Promises, FileHolds, MainFollows, Running, Start, Goes, NewConnection
<1>4. FaultsAreCounted'
  BY NewStorageIs
  DEF MainInv, MainTypeOK, Connections, Promises, FaultsAreCounted, Healthy, FileHolds, MainFollows, Running, Start, Goes, NewConnection
<1>5. NothingUnwritten'
  BY NewStorageIs
  DEF MainInv, MainTypeOK, Connections, Promises, FileHolds, NothingUnwritten, Running, Start, Goes, NewConnection
<1>6. OneFaultIsRecovered'
  BY NewStorageIs
  DEF MainInv, MainTypeOK, Connections, Promises, FileHolds, MainFollows, OneFaultIsRecovered, IsFound, Closing, Start, Goes, NewConnection
<1> QED
  BY <1>1, <1>2, <1>3, <1>4, <1>5, <1>6 DEF MainInv

\* A database that does not open has had a fault before, or has one now.
LEMMA OpenKeeps ==
    ASSUME MainInv, Open PROVE MainInv'
<1>1. \/ /\ phase' = "loading" /\ faults' = faults /\ file # Corrupt /\ file' \in Items
         /\ file' = IF file = NoFile THEN NoItems ELSE file
      \/ /\ phase' = "broken" /\ file' = file /\ faults' \in 0..MaxFaults
         /\ faults' = faults + 1 \/ (file = Corrupt /\ faults' = faults)
  BY ConnectsIs DEF MainInv, MainTypeOK, Open, Goes, FailsToConnect, Fault
<1>2. /\ phase = "opening"
      /\ UNCHANGED <<main, backup, connection, sessions, durable>>
  BY DEF Open, Goes
<1>3. MainTypeOK'
  BY <1>1, <1>2, NothingIs
  DEF MainInv, MainTypeOK, Connections, Promises, Phases, Files, NewConnection, Healthy
<1>4. MainFollows'
  BY <1>1, <1>2, NothingIs
  DEF MainInv, MainTypeOK, Connections, Promises, MainFollows, Running, Closing, NewConnection, Healthy
<1>5. FileHolds'
  BY <1>1, <1>2, NothingIs
  DEF MainInv, MainTypeOK, Connections, Promises, FileHolds, MainFollows, Running, NewConnection, Healthy
<1>6. FaultsAreCounted'
  BY <1>1, <1>2, NothingIs
  DEF MainInv, MainTypeOK, Connections, Promises, FaultsAreCounted, Healthy, FileHolds, MainFollows, Running, NewConnection
<1>7. NothingUnwritten'
  BY <1>1, <1>2, NothingIs
  DEF MainInv, MainTypeOK, Connections, Promises, FileHolds, NothingUnwritten, Running, NewConnection, Healthy
<1>8. OneFaultIsRecovered'
  BY <1>1, <1>2, NothingIs
  DEF MainInv, MainTypeOK, Connections, Promises, FileHolds, MainFollows, OneFaultIsRecovered, IsFound, Closing, NewConnection, Healthy
<1> QED
  BY <1>3, <1>4, <1>5, <1>6, <1>7, <1>8 DEF MainInv

\* A broken database makes place for the backup.
LEMMA DeleteBrokenKeeps ==
    ASSUME MainInv, DeleteBroken PROVE MainInv'
<1>1. \/ /\ phase' = "restoring" /\ file # NoFile /\ file' = NoFile
         /\ UNCHANGED <<connection, faults>>
      \/ /\ phase' = "loading" /\ file' = file /\ faults' \in 0..MaxFaults
         /\ faults' = faults + 1 \/ (file = NoFile /\ faults' = faults)
         /\ connection' \in Connections /\ connection'.memory
  BY FallBackIs, FaultIs DEF MainInv, MainTypeOK, DeleteBroken, Goes
<1>2. /\ phase = "broken"
      /\ UNCHANGED <<main, backup, sessions, durable>>
  BY DEF DeleteBroken, Goes
<1>3. MainTypeOK'
  BY <1>1, <1>2
  DEF MainInv, MainTypeOK, Connections, Promises, Phases, Files
<1>4. MainFollows'
  BY <1>1, <1>2
  DEF MainInv, MainTypeOK, Connections, Promises, MainFollows, Running, Closing
<1>5. FileHolds'
  BY <1>1, <1>2
  DEF MainInv, MainTypeOK, Connections, Promises, FileHolds, MainFollows, Running
<1>6. FaultsAreCounted'
  BY <1>1, <1>2
  DEF MainInv, MainTypeOK, Connections, Promises, FaultsAreCounted, Healthy, FileHolds, MainFollows, Running
<1>7. NothingUnwritten'
  BY <1>1, <1>2
  DEF MainInv, MainTypeOK, Connections, Promises, FileHolds, NothingUnwritten, Running
<1>8. OneFaultIsRecovered'
  BY <1>1, <1>2
  DEF MainInv, MainTypeOK, Connections, Promises, FileHolds, MainFollows, OneFaultIsRecovered, IsFound, Closing
<1> QED
  BY <1>3, <1>4, <1>5, <1>6, <1>7, <1>8 DEF MainInv

\* With one fault, there is a backup to restore.
LEMMA RestoreBackupKeeps ==
    ASSUME MainInv, RestoreBackup PROVE MainInv'
<1>1. MainTypeOK'
  BY DEF MainInv, MainTypeOK, Connections, Promises, Phases, Files, RestoreBackup, Goes, Fault
<1>2. MainFollows'
  BY DEF MainInv, MainTypeOK, Connections, Promises, MainFollows, Running, Closing, RestoreBackup, Goes, Fault
<1>3. FileHolds'
  BY DEF MainInv, MainTypeOK, Connections, Promises, FileHolds, MainFollows, Running, RestoreBackup, Goes, Fault
<1>4. FaultsAreCounted'
  BY DEF MainInv, MainTypeOK, Connections, Promises, FaultsAreCounted, Healthy, FileHolds, MainFollows, Running, RestoreBackup, Goes, Fault
<1>5. NothingUnwritten'
  BY DEF MainInv, MainTypeOK, Connections, Promises, FileHolds, NothingUnwritten, Running, RestoreBackup, Goes, Fault
<1>6. OneFaultIsRecovered'
  BY DEF MainInv, MainTypeOK, Connections, Promises, FileHolds, MainFollows, OneFaultIsRecovered, IsFound, Closing, RestoreBackup, Goes, Fault
<1> QED
  BY <1>1, <1>2, <1>3, <1>4, <1>5, <1>6 DEF MainInv

\* What has been restored is opened, or it is the second fault.
LEMMA ReopenKeeps ==
    ASSUME MainInv, Reopen PROVE MainInv'
<1>1. \/ /\ faults' = faults /\ file # Corrupt /\ file' \in Items
         /\ file' = IF file = NoFile THEN NoItems ELSE file
         /\ connection' = connection
      \/ /\ file' = file /\ faults' \in 0..MaxFaults
         /\ faults' = faults + 1 \/ (file = Corrupt /\ faults' = faults)
         /\ connection' \in Connections /\ connection'.memory
  BY ConnectsIs, FallBackIs, FaultIs
  DEF MainInv, MainTypeOK, Reopen, Goes, FailsToConnect
<1>2. /\ phase = "reopening" /\ phase' = "loading"
      /\ UNCHANGED <<main, backup, sessions, durable>>
  BY DEF Reopen, Goes, FallBack
<1>3. MainTypeOK'
  BY <1>1, <1>2, NothingIs
  DEF MainInv, MainTypeOK, Connections, Promises, Phases, Files, NewConnection, Healthy
<1>4. MainFollows'
  BY <1>1, <1>2, NothingIs
  DEF MainInv, MainTypeOK, Connections, Promises, MainFollows, Running, Closing, NewConnection, Healthy
<1>5. FileHolds'
  BY <1>1, <1>2, NothingIs
  DEF MainInv, MainTypeOK, Connections, Promises, FileHolds, MainFollows, Running, NewConnection, Healthy
<1>6. FaultsAreCounted'
  BY <1>1, <1>2, NothingIs
  DEF MainInv, MainTypeOK, Connections, Promises, FaultsAreCounted, Healthy, FileHolds, MainFollows, Running, NewConnection
<1>7. NothingUnwritten'
  BY <1>1, <1>2, NothingIs
  DEF MainInv, MainTypeOK, Connections, Promises, FileHolds, NothingUnwritten, Running, NewConnection, Healthy
<1>8. OneFaultIsRecovered'
  BY <1>1, <1>2, NothingIs
  DEF MainInv, MainTypeOK, Connections, Promises, FileHolds, MainFollows, OneFaultIsRecovered, IsFound, Closing, NewConnection, Healthy
<1> QED
  BY <1>3, <1>4, <1>5, <1>6, <1>7, <1>8 DEF MainInv

\* The cache that is read is what the file holds.
LEMMA LoadItemsKeeps ==
    ASSUME MainInv, LoadItems PROVE MainInv'
<1>1. \/ /\ main' = Load(main, IF connection.memory THEN NoItems ELSE file)
         /\ (IF connection.memory THEN NoItems ELSE file) \in Items
         /\ UNCHANGED <<connection, faults, durable>>
      \/ /\ main' = Load(main, NoItems)
         /\ faults' = faults + 1 /\ faults' \in 0..MaxFaults
         /\ connection' \in Connections /\ connection'.erroneous
         /\ connection'.memory = connection.memory
         /\ durable' \in Promises /\ durable'.lost # {}
  <2>1. durable' = [durable EXCEPT !.lost = @ \cup {"unread"}] =>
            durable' \in Promises /\ durable'.lost # {}
    BY LostIs DEF MainInv, MainTypeOK, Losses
  <2>2. phase = "loading" /\ ~connection.memory => file \in Items
    BY DEF MainInv, FileHolds
  <2> QED
    BY <2>1, <2>2, ErrorIs, FaultIs, NothingIs DEF MainInv, MainTypeOK, LoadItems, Goes
<1>2. /\ phase = "loading" /\ phase' = "ready" /\ UNCHANGED <<file, backup, sessions>>
  BY DEF LoadItems, Goes
<1>3. main \in Storages /\ IsScheduled(main) /\ IsClean(main) /\ main.chained = FALSE
  BY <1>2, NewStorageIs DEF MainInv, MainFollows
<1>4. /\ main' \in Storages /\ IsScheduled(main') /\ IsClean(main') /\ main'.state = "ready"
      /\ main'.chained = FALSE
      /\ ~connection'.memory /\ ~connection'.erroneous => main'.cache = file /\ file \in Items
  BY <1>1, <1>3, LoadIs, NothingIs
<1>5. MainTypeOK'
  BY <1>1, <1>2, <1>3, <1>4
  DEF MainInv, MainTypeOK, Connections, Promises, Phases, Files, Healthy
<1>6. MainFollows'
  BY <1>1, <1>2, <1>3, <1>4
  DEF MainInv, MainTypeOK, Connections, Promises, MainFollows, Running, Closing, Healthy
<1>7. FileHolds'
  BY <1>1, <1>2, <1>3, <1>4
  DEF MainInv, MainTypeOK, Connections, Promises, FileHolds, MainFollows, Running, Healthy
<1>8. FaultsAreCounted'
  BY <1>1, <1>2, <1>3, <1>4
  DEF MainInv, MainTypeOK, Connections, Promises, FaultsAreCounted, Healthy, FileHolds, MainFollows, Running
<1>9. NothingUnwritten'
  BY <1>1, <1>2, <1>3, <1>4, EventualOfClean
  DEF MainInv, MainTypeOK, Connections, Promises, FileHolds, NothingUnwritten, Running, Healthy
<1>10. OneFaultIsRecovered'
  BY <1>1, <1>2, <1>3, <1>4
  DEF MainInv, MainTypeOK, Connections, Promises, FileHolds, MainFollows, OneFaultIsRecovered, IsFound, Closing, Healthy
<1> QED
  BY <1>5, <1>6, <1>7, <1>8, <1>9, <1>10 DEF MainInv

\* A flush keeps what will be in the file.
LEMMA MainElapsesKeeps ==
    ASSUME MainInv, MainElapses PROVE MainInv'
<1>1. /\ main' \in Storages /\ main'.state = main.state /\ main'.cache = main.cache
      /\ IsScheduled(main') /\ (main'.chained => IsWriting(main'))
      /\ \A items \in Items : Eventual(main', items) = Eventual(main, items)
  BY ElapseIs DEF MainInv, MainTypeOK, MainFollows, MainElapses, IsWriting
<1>2. /\ phase \in {"ready", "flushing"}
      /\ UNCHANGED <<phase, file, backup, connection, faults, sessions, durable>>
  BY DEF MainElapses, Running
<1>3. MainTypeOK'
  BY <1>1, <1>2
  DEF MainInv, MainTypeOK, Connections, Promises, Phases, Files
<1>4. MainFollows'
  BY <1>1, <1>2
  DEF MainInv, MainTypeOK, Connections, Promises, MainFollows, Running, Closing
<1>5. FileHolds'
  BY <1>1, <1>2
  DEF MainInv, MainTypeOK, Connections, Promises, FileHolds, MainFollows, Running
<1>6. FaultsAreCounted'
  BY <1>1, <1>2
  DEF MainInv, MainTypeOK, Connections, Promises, FaultsAreCounted, Healthy, FileHolds, MainFollows, Running
<1>7. NothingUnwritten'
  BY <1>1, <1>2
  DEF MainInv, MainTypeOK, Connections, Promises, FileHolds, NothingUnwritten, Running
<1>8. OneFaultIsRecovered'
  BY <1>1, <1>2
  DEF MainInv, MainTypeOK, Connections, Promises, FileHolds, MainFollows, OneFaultIsRecovered, IsFound, Closing
<1> QED
  BY <1>3, <1>4, <1>5, <1>6, <1>7, <1>8 DEF MainInv

\* So does an update that is written, and a storage that could not write is not healthy.
LEMMA MainWritesKeeps ==
    ASSUME MainInv, MainWrites PROVE MainInv'
<1>1. /\ main' \in Storages /\ main'.state = main.state /\ main'.cache = main.cache
      /\ IsScheduled(main')
  BY WrittenIs, FailedIs DEF MainInv, MainTypeOK, MainFollows, MainWrites
<1>2. /\ phase \in {"ready", "flushing"}
      /\ UNCHANGED <<phase, backup, sessions, durable>>
  BY DEF MainWrites, Running
<1>3. \/ /\ connection' = connection /\ faults' = faults
         /\ main'.chained => IsWriting(main')
         /\ \A items \in Items :
              Eventual(main', Applied(items, main.request)) = Eventual(main, items)
         /\ \/ connection.memory /\ file' = file
            \/ /\ ~connection.memory /\ file \in Items /\ file' \in Items
               /\ file' = Applied(file, main.request)
      \/ /\ ~connection.memory /\ file' \in Files /\ file' # NoFile
         /\ connection' \in Connections /\ connection'.erroneous
         /\ connection'.memory = connection.memory
         /\ faults' \in 0..MaxFaults
         /\ faults' = faults + 1 \/ (file = Corrupt /\ faults' = faults)
  <2>1. main.request \in Requests /\ file \in Files
    BY StorageIs DEF MainInv, MainTypeOK
  <2>2. Torn \subseteq {Corrupt} \cup Items \/ file \notin Items
    BY <2>1, TornAreFiles
  <2>3. file \in Items => Applied(file, main.request) \in Items
    BY <2>1, AppliedIs
  <2>4. connection.memory \/ file # NoFile
    BY DEF MainWrites, MainInv, FileHolds
  <2> QED
    BY <2>1, <2>2, <2>3, <2>4, ErrorIs, FaultIs, WrittenIs, NoFileIsItems
    DEF MainWrites, MainInv, MainTypeOK, Files
<1>4. MainTypeOK'
  BY <1>1, <1>2, <1>3
  DEF MainInv, MainTypeOK, Connections, Promises, Phases, Files, Healthy
<1>5. MainFollows'
  BY <1>1, <1>2, <1>3
  DEF MainInv, MainTypeOK, Connections, Promises, MainFollows, Running, Closing, Healthy
<1>6. FileHolds'
  BY <1>1, <1>2, <1>3
  DEF MainInv, MainTypeOK, Connections, Promises, FileHolds, MainFollows, Running, Healthy
<1>7. FaultsAreCounted'
  BY <1>1, <1>2, <1>3
  DEF MainInv, MainTypeOK, Connections, Promises, FaultsAreCounted, Healthy, FileHolds, MainFollows, Running
<1>8. NothingUnwritten'
  BY <1>1, <1>2, <1>3
  DEF MainInv, MainTypeOK, Connections, Promises, FileHolds, NothingUnwritten, Running, Healthy
<1>9. OneFaultIsRecovered'
  BY <1>1, <1>2, <1>3
  DEF MainInv, MainTypeOK, Connections, Promises, FileHolds, MainFollows, OneFaultIsRecovered, IsFound, Closing, Healthy
<1> QED
  BY <1>4, <1>5, <1>6, <1>7, <1>8, <1>9 DEF MainInv

\* And a close.
LEMMA MainClosesKeeps ==
    ASSUME MainInv, MainCloses PROVE MainInv'
<1>1. MainTypeOK'
  BY CloseIs
  DEF MainInv, MainTypeOK, Connections, Promises, Phases, Files, MainCloses, Goes
<1>2. MainFollows'
  BY CloseIs
  DEF MainInv, MainTypeOK, Connections, Promises, MainFollows, Running, Closing, MainCloses, Goes, IsWriting
<1>3. FileHolds'
  BY CloseIs
  DEF MainInv, MainTypeOK, Connections, Promises, FileHolds, MainFollows, Running, MainCloses, Goes
<1>4. FaultsAreCounted'
  BY CloseIs
  DEF MainInv, MainTypeOK, Connections, Promises, FaultsAreCounted, Healthy, FileHolds, MainFollows, Running, MainCloses, Goes
<1>5. NothingUnwritten'
  BY CloseIs
  DEF MainInv, MainTypeOK, Connections, Promises, FileHolds, NothingUnwritten, Running, MainCloses, Goes
<1>6. OneFaultIsRecovered'
  BY CloseIs
  DEF MainInv, MainTypeOK, Connections, Promises, FileHolds, MainFollows, OneFaultIsRecovered, IsFound, Closing, MainCloses, Goes
<1> QED
  BY <1>1, <1>2, <1>3, <1>4, <1>5, <1>6 DEF MainInv

\* After the flush, the file of a healthy database holds the cache.
LEMMA FlushedKeeps ==
    ASSUME MainInv, Flushed PROVE MainInv'
<1>1. MainTypeOK'
  BY FlushedIsClean, EventualOfClean
  DEF MainInv, MainTypeOK, Connections, Promises, Phases, Files, Flushed, Goes, Healthy, NothingUnwritten
<1>2. MainFollows'
  BY FlushedIsClean, EventualOfClean
  DEF MainInv, MainTypeOK, Connections, Promises, MainFollows, Running, Closing, Flushed, Goes, Healthy, NothingUnwritten
<1>3. FileHolds'
  BY FlushedIsClean, EventualOfClean
  DEF MainInv, MainTypeOK, Connections, Promises, FileHolds, MainFollows, Running, Flushed, Goes, Healthy, NothingUnwritten
<1>4. FaultsAreCounted'
  BY FlushedIsClean, EventualOfClean
  DEF MainInv, MainTypeOK, Connections, Promises, FaultsAreCounted, Healthy, FileHolds, MainFollows, Running, Flushed, Goes, NothingUnwritten
<1>5. NothingUnwritten'
  BY FlushedIsClean, EventualOfClean
  DEF MainInv, MainTypeOK, Connections, Promises, FileHolds, NothingUnwritten, Running, Flushed, Goes, Healthy
<1>6. OneFaultIsRecovered'
  BY FlushedIsClean, EventualOfClean
  DEF MainInv, MainTypeOK, Connections, Promises, FileHolds, MainFollows, OneFaultIsRecovered, IsFound, Closing, Flushed, Goes, Healthy, NothingUnwritten
<1> QED
  BY <1>1, <1>2, <1>3, <1>4, <1>5, <1>6 DEF MainInv

\* Only a healthy database is closed without its recovery.
LEMMA CloseConnectionKeeps ==
    ASSUME MainInv, CloseConnection PROVE MainInv'
<1>1. connection' \in Connections
  BY ErrorIs DEF CloseConnection, MainInv, MainTypeOK
<1>2. phase' \in {"finishing", "unlinking"}
  BY DEF CloseConnection
<1>3. MainTypeOK'
  BY <1>1, <1>2
  DEF MainInv, MainTypeOK, Connections, Promises, Phases, Files, CloseConnection, Fault, Healthy
<1>4. MainFollows'
  BY <1>1, <1>2
  DEF MainInv, MainTypeOK, Connections, Promises, MainFollows, Running, Closing, CloseConnection, Fault, Healthy
<1>5. FileHolds'
  BY <1>1, <1>2
  DEF MainInv, MainTypeOK, Connections, Promises, FileHolds, MainFollows, Running, CloseConnection, Fault, Healthy
<1>6. FaultsAreCounted'
  BY <1>1, <1>2
  DEF MainInv, MainTypeOK, Connections, Promises, FaultsAreCounted, Healthy, FileHolds, MainFollows, Running, CloseConnection, Fault
<1>7. NothingUnwritten'
  BY <1>1, <1>2
  DEF MainInv, MainTypeOK, Connections, Promises, FileHolds, NothingUnwritten, Running, CloseConnection, Fault, Healthy
<1>8. OneFaultIsRecovered'
  BY <1>1, <1>2
  DEF MainInv, MainTypeOK, Connections, Promises, FileHolds, MainFollows, OneFaultIsRecovered, IsFound, Closing, CloseConnection, Fault, Healthy
<1> QED
  BY <1>3, <1>4, <1>5, <1>6, <1>7, <1>8 DEF MainInv

\* The recovery removes the file, or ends.
LEMMA UnlinkKeeps ==
    ASSUME MainInv, Unlink PROVE MainInv'
<1>1. MainTypeOK'
  BY NothingIs, GivesUpIs
  DEF MainInv, MainTypeOK, Connections, Promises, Phases, Files, Unlink, Fault
<1>2. MainFollows'
  BY NothingIs, GivesUpIs
  DEF MainInv, MainTypeOK, Connections, Promises, MainFollows, Running, Closing, Unlink, Fault
<1>3. FileHolds'
  BY NothingIs, GivesUpIs
  DEF MainInv, MainTypeOK, Connections, Promises, FileHolds, MainFollows, Running, Unlink, Fault
<1>4. FaultsAreCounted'
  BY NothingIs, GivesUpIs
  DEF MainInv, MainTypeOK, Connections, Promises, FaultsAreCounted, Healthy, FileHolds, MainFollows, Running, Unlink, Fault
<1>5. NothingUnwritten'
  BY NothingIs, GivesUpIs
  DEF MainInv, MainTypeOK, Connections, Promises, FileHolds, NothingUnwritten, Running, Unlink, Fault
<1>6. OneFaultIsRecovered'
  BY NothingIs, GivesUpIs
  DEF MainInv, MainTypeOK, Connections, Promises, FileHolds, MainFollows, OneFaultIsRecovered, IsFound, Closing, Unlink, Fault
<1> QED
  BY <1>1, <1>2, <1>3, <1>4, <1>5, <1>6 DEF MainInv

\* It makes an empty one, or it is the second fault.
LEMMA RecreateKeeps ==
    ASSUME MainInv, Recreate PROVE MainInv'
<1>1. MainTypeOK'
  BY NothingIs, GivesUpIs
  DEF MainInv, MainTypeOK, Connections, Promises, Phases, Files, Recreate, Goes, Connects, FailsToConnect, Fault, NewConnection, Healthy
<1>2. MainFollows'
  BY NothingIs, GivesUpIs
  DEF MainInv, MainTypeOK, Connections, Promises, MainFollows, Running, Closing, Recreate, Goes, Connects, FailsToConnect, Fault, NewConnection, Healthy
<1>3. FileHolds'
  BY NothingIs, GivesUpIs
  DEF MainInv, MainTypeOK, Connections, Promises, FileHolds, MainFollows, Running, Recreate, Goes, Connects, FailsToConnect, Fault, NewConnection, Healthy
<1>4. FaultsAreCounted'
  BY NothingIs, GivesUpIs
  DEF MainInv, MainTypeOK, Connections, Promises, FaultsAreCounted, Healthy, FileHolds, MainFollows, Running, Recreate, Goes, Connects, FailsToConnect, Fault, NewConnection
<1>5. NothingUnwritten'
  BY NothingIs, GivesUpIs
  DEF MainInv, MainTypeOK, Connections, Promises, FileHolds, NothingUnwritten, Running, Recreate, Goes, Connects, FailsToConnect, Fault, NewConnection, Healthy
<1>6. OneFaultIsRecovered'
  BY NothingIs, GivesUpIs
  DEF MainInv, MainTypeOK, Connections, Promises, FileHolds, MainFollows, OneFaultIsRecovered, IsFound, Closing, Recreate, Goes, Connects, FailsToConnect, Fault, NewConnection, Healthy
<1> QED
  BY <1>1, <1>2, <1>3, <1>4, <1>5, <1>6 DEF MainInv

\* All of the cache goes to it, or it is the second fault.
LEMMA RewriteKeeps ==
    ASSUME MainInv, Rewrite PROVE MainInv'
<1>1. /\ phase = "rewriting" /\ main.cache \in Items
      /\ NoItems # NoFile
      /\ UNCHANGED <<main, backup, connection, sessions>>
  BY StorageIs, NothingIs, NoFileIsItems DEF MainInv, MainTypeOK, Rewrite, Goes
<1>2. \/ /\ phase' = "finishing" /\ file' = main.cache
         /\ UNCHANGED <<faults, durable>>
      \/ /\ phase' = "down" /\ faults' = faults + 1 /\ faults' \in 0..MaxFaults
         /\ file' \in Files /\ durable' \in Promises
         /\ durable'.lost # {}
  BY <1>1, AppliedToEmpty, GivesUpIs, NothingIs
  DEF MainInv, MainTypeOK, FileHolds, Rewrite, Goes, Fault, Files
<1>3. MainTypeOK'
  BY <1>1, <1>2
  DEF MainInv, MainTypeOK, Connections, Promises, Phases, Files
<1>4. MainFollows'
  BY <1>1, <1>2
  DEF MainInv, MainTypeOK, Connections, Promises, MainFollows, Running, Closing
<1>5. FileHolds'
  BY <1>1, <1>2
  DEF MainInv, MainTypeOK, Connections, Promises, FileHolds, MainFollows, Running
<1>6. FaultsAreCounted'
  BY <1>1, <1>2
  DEF MainInv, MainTypeOK, Connections, Promises, FaultsAreCounted, Healthy, FileHolds, MainFollows, Running
<1>7. NothingUnwritten'
  BY <1>1, <1>2
  DEF MainInv, MainTypeOK, Connections, Promises, FileHolds, NothingUnwritten, Running
<1>8. OneFaultIsRecovered'
  BY <1>1, <1>2
  DEF MainInv, MainTypeOK, Connections, Promises, FileHolds, MainFollows, OneFaultIsRecovered, IsFound, Closing
<1> QED
  BY <1>3, <1>4, <1>5, <1>6, <1>7, <1>8 DEF MainInv

\* What is promised to the next session is in the file, and in the backup unless it is the first fault.
LEMMA FinishKeeps ==
    ASSUME MainInv, Finish PROVE MainInv'
<1>1. /\ phase = "finishing" /\ phase' = "down"
      /\ \/ backup' = file /\ faults' = faults
         \/ faults' = faults + 1 /\ faults' \in 0..MaxFaults /\ backup' \in Files
      /\ UNCHANGED <<main, file, connection, sessions>>
  BY DEF Finish, Goes, Fault, MainInv, MainTypeOK, Files
<1>2. /\ durable' \in Promises /\ durable'.lost = durable.lost
      /\ durable.lost = {} => durable'.items = main.cache
  BY OwedIs, PromiseIs DEF Finish, MainInv, MainTypeOK
<1>3. file = main.cache /\ file \in Items /\ file # NoFile /\ file # Corrupt
  BY <1>1, StorageIs, NoFileIsItems DEF MainInv, MainTypeOK, FileHolds
<1>4. MainTypeOK'
  BY <1>1, <1>2, <1>3
  DEF MainInv, MainTypeOK, Connections, Promises, Phases, Files
<1>5. MainFollows'
  BY <1>1, <1>2, <1>3
  DEF MainInv, MainTypeOK, Connections, Promises, MainFollows, Running, Closing
<1>6. FileHolds'
  BY <1>1, <1>2, <1>3
  DEF MainInv, MainTypeOK, Connections, Promises, FileHolds, MainFollows, Running
<1>7. FaultsAreCounted'
  BY <1>1, <1>2, <1>3
  DEF MainInv, MainTypeOK, Connections, Promises, FaultsAreCounted, Healthy, FileHolds, MainFollows, Running
<1>8. NothingUnwritten'
  BY <1>1, <1>2, <1>3
  DEF MainInv, MainTypeOK, Connections, Promises, FileHolds, NothingUnwritten, Running
<1>9. OneFaultIsRecovered'
  BY <1>1, <1>2, <1>3
  DEF MainInv, MainTypeOK, Connections, Promises, FileHolds, MainFollows, OneFaultIsRecovered, IsFound, Closing
<1> QED
  BY <1>4, <1>5, <1>6, <1>7, <1>8, <1>9 DEF MainInv

\* A crash promises what the file holds, wherever the process has got to.
LEMMA MainCrashesKeeps ==
    ASSUME MainInv, MainCrashes PROVE MainInv'
<1>1. /\ phase # "down" /\ phase' = "down"
      /\ faults' = faults + 1 /\ faults' \in 0..MaxFaults /\ backup' \in Files
      /\ UNCHANGED <<main, file, connection, sessions>>
  BY DEF MainCrashes, Fault, MainInv, MainTypeOK, Files
<1>2. /\ durable' \in Promises /\ durable'.lost = durable.lost
      /\ durable'.items = IF file \in Items THEN file ELSE NoItems
  BY PromiseIs, NothingIs DEF MainCrashes, MainInv, MainTypeOK
<1>3. faults = 0 /\ durable.lost = {} => file \in Items \/ file = NoFile
  BY <1>1 DEF MainInv, MainTypeOK, OneFaultIsRecovered, Phases, Closing, Files
<1>4. MainTypeOK'
  BY <1>1, <1>2, <1>3
  DEF MainInv, MainTypeOK, Connections, Promises, Phases, Files, Healthy, NewConnection
<1>5. MainFollows'
  BY <1>1, <1>2, <1>3
  DEF MainInv, MainTypeOK, Connections, Promises, MainFollows, Running, Closing, Healthy, NewConnection
<1>6. FileHolds'
  BY <1>1, <1>2, <1>3
  DEF MainInv, MainTypeOK, Connections, Promises, FileHolds, MainFollows, Running, Healthy, NewConnection
<1>7. FaultsAreCounted'
  BY <1>1, <1>2, <1>3
  DEF MainInv, MainTypeOK, Connections, Promises, FaultsAreCounted, Healthy, FileHolds, MainFollows, Running, NewConnection
<1>8. NothingUnwritten'
  BY <1>1, <1>2, <1>3
  DEF MainInv, MainTypeOK, Connections, Promises, FileHolds, NothingUnwritten, Running, Healthy, NewConnection
<1>9. OneFaultIsRecovered'
  <2>1. faults = 0 /\ durable.lost = {} =>
            file # Corrupt /\ durable'.items = (IF file = NoFile THEN NoItems ELSE file)
    BY <1>2, <1>3, NoFileIsItems
  <2> QED
    BY <1>1, <1>2, <2>1 DEF MainInv, MainTypeOK, OneFaultIsRecovered, IsFound, Closing
<1> QED
  BY <1>4, <1>5, <1>6, <1>7, <1>8, <1>9 DEF MainInv

\* A process that is ended in its close leaves its files, and a loss.
LEMMA MainIsEndedKeeps ==
    ASSUME MainInv, MainIsEnded PROVE MainInv'
<1>1. /\ phase = "flushing" /\ phase' = "down"
      /\ UNCHANGED <<main, file, backup, connection, faults, sessions>>
  BY DEF MainIsEnded, Goes
<1>2. durable' \in Promises /\ durable'.lost # {}
  BY LostIs DEF MainIsEnded, Losses, MainInv, MainTypeOK
<1>3. MainTypeOK'
  BY <1>1, <1>2 DEF MainInv, MainTypeOK, Phases
<1>4. MainFollows'
  BY <1>1 DEF MainInv, MainTypeOK, Connections, Promises, MainFollows, Running, Closing
<1>5. FileHolds' /\ NothingUnwritten'
  BY <1>1 DEF FileHolds, NothingUnwritten, Running
<1>6. FaultsAreCounted'
  BY <1>1 DEF MainInv, FaultsAreCounted, Healthy
<1>7. OneFaultIsRecovered'
  BY <1>2 DEF OneFaultIsRecovered
<1> QED
  BY <1>3, <1>4, <1>5, <1>6, <1>7 DEF MainInv

\* With one fault, a damaged file has a backup.
LEMMA FileRotsKeeps ==
    ASSUME MainInv, FileRots PROVE MainInv'
<1>1. MainTypeOK'
  BY DEF MainInv, MainTypeOK, Connections, Promises, Phases, Files, FileRots, Fault
<1>2. MainFollows'
  BY DEF MainInv, MainTypeOK, Connections, Promises, MainFollows, Running, Closing, FileRots, Fault
<1>3. FileHolds'
  BY DEF MainInv, MainTypeOK, Connections, Promises, FileHolds, MainFollows, Running, FileRots, Fault
<1>4. FaultsAreCounted'
  BY DEF MainInv, MainTypeOK, Connections, Promises, FaultsAreCounted, Healthy, FileHolds, MainFollows, Running, FileRots, Fault
<1>5. NothingUnwritten'
  BY DEF MainInv, MainTypeOK, Connections, Promises, FileHolds, NothingUnwritten, Running, FileRots, Fault
<1>6. OneFaultIsRecovered'
  BY DEF MainInv, MainTypeOK, Connections, Promises, FileHolds, MainFollows, OneFaultIsRecovered, IsFound, Closing, FileRots, Fault
<1> QED
  BY <1>1, <1>2, <1>3, <1>4, <1>5, <1>6 DEF MainInv

\* A change of the cache will be in the file.
LEMMA MainUpdateKeeps ==
    ASSUME MainInv, NEW items \in Items, main' = Update(main, items),
           phase \in {"ready"} \cup Closing,
           UNCHANGED <<phase, file, backup, connection, faults, sessions, durable>>
    PROVE MainInv'
<1>1. /\ main' \in Storages /\ main'.state = main.state /\ IsScheduled(main')
      /\ main'.chained = main.chained /\ (IsWriting(main') <=> IsWriting(main))
      /\ main.state = "closed" => main' = main
  BY UpdateIs DEF MainInv, MainTypeOK, MainFollows, IsWriting
<1>2. MainTypeOK'
  BY <1>1
  DEF MainInv, MainTypeOK, Connections, Promises, Phases, Files
<1>3. MainFollows'
  BY <1>1
  DEF MainInv, MainTypeOK, Connections, Promises, MainFollows, Running, Closing
<1>4. FileHolds'
  BY <1>1
  DEF MainInv, MainTypeOK, Connections, Promises, FileHolds, MainFollows, Running
<1>5. FaultsAreCounted'
  BY <1>1
  DEF MainInv, MainTypeOK, Connections, Promises, FaultsAreCounted, Healthy, FileHolds, MainFollows, Running
<1>6. NothingUnwritten'
  BY <1>1, UpdateIsEventual
  DEF MainInv, MainTypeOK, Connections, Promises, FileHolds, NothingUnwritten, Running
<1>7. OneFaultIsRecovered'
  BY <1>1
  DEF MainInv, MainTypeOK, Connections, Promises, FileHolds, MainFollows, OneFaultIsRecovered, IsFound, Closing
<1> QED
  BY <1>2, <1>3, <1>4, <1>5, <1>6, <1>7 DEF MainInv

\* Nothing of the main process changes.
LEMMA MainStaysKeeps ==
    ASSUME MainInv, UNCHANGED mainVars PROVE MainInv'
<1>1. MainTypeOK'
  BY DEF MainInv, MainTypeOK, Connections, Promises, Phases, Files, mainVars
<1>2. MainFollows'
  BY DEF MainInv, MainTypeOK, Connections, Promises, MainFollows, Running, Closing, mainVars
<1>3. FileHolds'
  BY DEF MainInv, MainTypeOK, Connections, Promises, FileHolds, MainFollows, Running, mainVars
<1>4. FaultsAreCounted'
  BY DEF MainInv, MainTypeOK, Connections, Promises, FaultsAreCounted, Healthy, FileHolds, MainFollows, Running, mainVars
<1>5. NothingUnwritten'
  BY DEF MainInv, MainTypeOK, Connections, Promises, FileHolds, NothingUnwritten, Running, mainVars
<1>6. OneFaultIsRecovered'
  BY DEF MainInv, MainTypeOK, Connections, Promises, FileHolds, MainFollows, OneFaultIsRecovered, IsFound, Closing, mainVars
<1> QED
  BY <1>1, <1>2, <1>3, <1>4, <1>5, <1>6 DEF MainInv

-----------------------------------------------------------------------------
(* The channels.                                                           *)

HasAnswer(a) == \E i \in DOMAIN a : IsAnswer(a[i])
OneAnswer(a) == \A i, j \in DOMAIN a : IsAnswer(a[i]) /\ IsAnswer(a[j]) => i = j

\* An answer that is received was the only one.
LEMMA TailIs ==
    ASSUME NEW a \in Seq(Messages), a # <<>>
    PROVE  /\ Tail(a) \in Seq(Messages) /\ Head(a) \in Messages
           /\ HasAnswer(Tail(a)) => HasAnswer(a)
           /\ OneAnswer(a) => OneAnswer(Tail(a))
           /\ IsAnswer(Head(a)) => HasAnswer(a)
           /\ OneAnswer(a) /\ IsAnswer(Head(a)) => ~HasAnswer(Tail(a))
<1>1. /\ Tail(a) \in Seq(Messages) /\ Head(a) \in Messages /\ Head(a) = a[1]
      /\ Len(a) \in Nat /\ Len(a) >= 1 /\ DOMAIN a = 1..Len(a)
      /\ Len(Tail(a)) = Len(a) - 1 /\ DOMAIN Tail(a) = 1..Len(Tail(a))
      /\ \A i \in 1..(Len(a) - 1) : Tail(a)[i] = a[i + 1]
  OBVIOUS
<1>2. HasAnswer(Tail(a)) => \E i \in 2..Len(a) : IsAnswer(a[i])
  <2> SUFFICES ASSUME HasAnswer(Tail(a)) PROVE \E i \in 2..Len(a) : IsAnswer(a[i])
    OBVIOUS
  <2>1. PICK i \in DOMAIN Tail(a) : IsAnswer(Tail(a)[i])
    BY DEF HasAnswer
  <2>2. i + 1 \in 2..Len(a) /\ IsAnswer(a[i + 1])
    BY <1>1, <2>1
  <2> QED
    BY <2>2
<1>3. HasAnswer(Tail(a)) => HasAnswer(a)
  BY <1>1, <1>2 DEF HasAnswer
<1>4. IsAnswer(Head(a)) => HasAnswer(a)
  BY <1>1 DEF HasAnswer
<1>5. ASSUME OneAnswer(a) PROVE OneAnswer(Tail(a))
  <2> SUFFICES ASSUME NEW i \in DOMAIN Tail(a), NEW j \in DOMAIN Tail(a),
                      IsAnswer(Tail(a)[i]), IsAnswer(Tail(a)[j])
               PROVE  i = j
    BY DEF OneAnswer
  <2>1. IsAnswer(a[i + 1]) /\ IsAnswer(a[j + 1]) /\ i + 1 \in DOMAIN a /\ j + 1 \in DOMAIN a
    BY <1>1
  <2>2. i + 1 = j + 1
    BY <1>5, <2>1 DEF OneAnswer
  <2> QED
    BY <1>1, <2>2
<1>6. ASSUME OneAnswer(a), IsAnswer(Head(a)), HasAnswer(Tail(a)) PROVE FALSE
  <2>1. PICK i \in 2..Len(a) : IsAnswer(a[i])
    BY <1>2, <1>6
  <2>2. i = 1
    BY <1>1, <1>6, <2>1 DEF OneAnswer
  <2> QED
    BY <2>1, <2>2
<1> QED
  BY <1>1, <1>3, <1>4, <1>5, <1>6

\* An answer is the only one when there was none; an event is no answer.
LEMMA AppendIs ==
    ASSUME NEW a \in Seq(Messages), NEW m \in Messages
    PROVE  /\ Append(a, m) \in Seq(Messages) /\ Append(a, m) # <<>>
           /\ ~HasAnswer(a) => OneAnswer(Append(a, m))
           /\ ~IsAnswer(m) /\ OneAnswer(a) => OneAnswer(Append(a, m))
           /\ ~IsAnswer(m) /\ HasAnswer(Append(a, m)) => HasAnswer(a)
<1>1. /\ Append(a, m) \in Seq(Messages) /\ Append(a, m) # <<>>
      /\ Len(a) \in Nat /\ DOMAIN a = 1..Len(a) /\ Len(Append(a, m)) = Len(a) + 1
      /\ DOMAIN Append(a, m) = 1..(Len(a) + 1)
      /\ Append(a, m)[Len(a) + 1] = m
      /\ \A i \in 1..Len(a) : Append(a, m)[i] = a[i]
  OBVIOUS
<1> DEFINE n == Len(a) + 1
           b == Append(a, m)
<1>2. \A i \in DOMAIN b : i = n \/ (i \in DOMAIN a /\ b[i] = a[i])
  BY <1>1
<1>3. b[n] = m
  BY <1>1
<1> HIDE DEF n, b
<1>4. ~HasAnswer(a) => OneAnswer(b)
  BY <1>2 DEF HasAnswer, OneAnswer
<1>5. ~IsAnswer(m) /\ OneAnswer(a) => OneAnswer(b)
  BY <1>2, <1>3 DEF OneAnswer
<1>6. ~IsAnswer(m) /\ HasAnswer(b) => HasAnswer(a)
  BY <1>2, <1>3 DEF HasAnswer
<1> QED
  BY <1>1, <1>4, <1>5, <1>6 DEF b

LEMMA MessagesAre ==
    /\ GetItems \in Asked
    /\ \A request \in Requests : UpdateItems(request) \in Asked
    /\ Done \in Messages /\ IsAnswer(Done)
    /\ \A items \in Items : Answer(items) \in Messages /\ IsAnswer(Answer(items))
    /\ \A keys \in SUBSET Keys, items \in Items :
         ItemsChanged(keys, items) \in Messages /\ ~IsAnswer(ItemsChanged(keys, items))
BY NothingIs
DEF GetItems, UpdateItems, Done, Answer, ItemsChanged, Asked, Messages, IsAnswer

\* A request is the only one, and is gone when it is received.
LEMMA RequestIs ==
    ASSUME NEW q \in Seq(Asked), Len(q) <= 1, q # <<>>
    PROVE  Head(q) \in Asked /\ Tail(q) = <<>>
<1>1. Head(q) \in Asked /\ Tail(q) \in Seq(Asked) /\ Len(Tail(q)) = Len(q) - 1
  BY HeadTailProperties
<1>2. Len(q) \in Nat /\ Len(q) # 0
  BY EmptySeq
<1>3. Len(Tail(q)) = 0
  BY <1>1, <1>2
<1> QED
  BY <1>1, <1>3, EmptySeq

-----------------------------------------------------------------------------
(* The windows.                                                            *)

\* The Storage of a window, its requests q and its answers a.
WindowOK(s, q, a) ==
    /\ s \in Storages /\ q \in Seq(Asked) /\ Len(q) <= 1 /\ a \in Seq(Messages)
    /\ IsScheduled(s)
    /\ OneAnswer(a)
    /\ HasAnswer(a) => q = <<>>
    /\ (q # <<>> \/ HasAnswer(a)) => s.state = "loading" \/ IsWriting(s)
    /\ s.state = "none" => q = <<>> /\ a = <<>>
    /\ s.state \in {"none", "loading"} => s.timer = FALSE /\ IsClean(s)

LEMMA NewWindowOK == WindowOK(NewStorage, <<>>, <<>>)
BY NewStorageIs DEF WindowOK, OneAnswer, HasAnswer

LEMMA OpenedOK ==
    ASSUME NEW s, NEW q, NEW a, WindowOK(s, q, a), s.state = "none"
    PROVE  WindowOK([NewStorage EXCEPT !.state = "loading"], Append(q, GetItems), a)
<1> DEFINE t == [NewStorage EXCEPT !.state = "loading"]
<1>1. /\ t \in Storages /\ t.state = "loading" /\ t.timer = FALSE
      /\ IsScheduled(t) /\ IsClean(t)
  BY NewStorageIs DEF Storages, IsScheduled, IsClean, HasPending, IsWriting
<1>2. q = <<>> /\ a = <<>>
  BY DEF WindowOK
<1>3. Append(q, GetItems) \in Seq(Asked) /\ Len(Append(q, GetItems)) = 1
  BY <1>2, MessagesAre
<1> HIDE DEF t
<1>4. WindowOK(t, Append(q, GetItems), a)
  BY <1>1, <1>2, <1>3 DEF WindowOK, OneAnswer, HasAnswer
<1> QED
  BY <1>4 DEF t

LEMMA ChangedOK ==
    ASSUME NEW s, NEW q, NEW a, NEW items \in Items, WindowOK(s, q, a),
           s.state \in {"ready", "closed"}
    PROVE  WindowOK(Update(s, items), q, a)
BY UpdateIs DEF WindowOK, IsWriting

LEMMA ClosedOK ==
    ASSUME NEW s, NEW q, NEW a, WindowOK(s, q, a), s.state = "ready"
    PROVE  WindowOK(Close(s), q, a)
BY CloseIs DEF WindowOK, IsWriting

\* When the delay is over, an update that is made is the only request.
LEMMA ElapsedOK ==
    ASSUME NEW s, NEW q, NEW a, WindowOK(s, q, a), s.timer
    PROVE  /\ Elapse(s).queued \/ ~IsWriting(Elapse(s)) => WindowOK(Elapse(s), q, a)
           /\ ~Elapse(s).queued /\ IsWriting(Elapse(s)) =>
                  WindowOK(Elapse(s), Append(q, UpdateItems(Elapse(s).request)), a)
<1> DEFINE t == Elapse(s)
           r == Append(q, UpdateItems(t.request))
<1>1. s \in Storages /\ s.state \in {"ready", "closed"}
  BY StorageIs DEF WindowOK
<1>2. /\ t \in Storages /\ t.state = s.state /\ IsScheduled(t)
      /\ IsWriting(s) => t.request = s.request /\ t.queued
  BY <1>1, ElapseIs DEF WindowOK
<1> HIDE DEF t
<1>3. CASE IsWriting(s)
  BY <1>1, <1>2, <1>3 DEF WindowOK, IsWriting, t
<1>4. CASE ~IsWriting(s)
  <2>1. q = <<>> /\ ~HasAnswer(a)
    BY <1>1, <1>4 DEF WindowOK
  <2>2. t.request \in Requests /\ t.queued \in BOOLEAN
    BY <1>2, StorageIs
  <2>3. r \in Seq(Asked) /\ Len(r) = 1
    BY <2>1, <2>2, MessagesAre
  <2> HIDE DEF r
  <2>4. t.queued => IsWriting(t)
    BY <1>2 DEF IsScheduled
  <2>5. WindowOK(t, q, a) /\ (IsWriting(t) => WindowOK(t, r, a))
    BY <1>1, <1>2, <2>1, <2>3 DEF WindowOK
  <2> QED
    BY <2>5 DEF t, r
<1> QED
  BY <1>3, <1>4

\* What is received is taken from the channel.
LEMMA ReceivedOK ==
    ASSUME NEW s, NEW q, NEW a, WindowOK(s, q, a), a # <<>>
    PROVE  /\ s \in Storages /\ q \in Seq(Asked) /\ Len(q) <= 1
           /\ Tail(a) \in Seq(Messages) /\ Head(a) \in Messages
           /\ s.state # "none"
           /\ HasAnswer(Tail(a)) => HasAnswer(a)
           /\ OneAnswer(Tail(a))
           /\ IsAnswer(Head(a)) => q = <<>> /\ ~HasAnswer(Tail(a))
BY TailIs DEF WindowOK

LEMMA LoadedOK ==
    ASSUME NEW s, NEW q, NEW a, WindowOK(s, q, a), a # <<>>, Head(a).type = "items"
    PROVE  WindowOK(Load(s, Head(a).items), q, Tail(a))
<1>1. IsAnswer(Head(a)) /\ Head(a).items \in Items
  BY ReceivedOK DEF IsAnswer, Messages
<1>2. q = <<>> /\ ~HasAnswer(Tail(a)) /\ OneAnswer(Tail(a)) /\ Tail(a) \in Seq(Messages)
  BY <1>1, ReceivedOK
<1> DEFINE t == Load(s, Head(a).items)
<1>3. t \in Storages /\ t.state = "ready" /\ IsScheduled(t)
  BY <1>1, ReceivedOK, LoadIs DEF WindowOK
<1> HIDE DEF t
<1>4. WindowOK(t, q, Tail(a))
  BY <1>2, <1>3 DEF WindowOK
<1> QED
  BY <1>4 DEF t

\* With its update answered, a window may make the next.
LEMMA WrittenOK ==
    ASSUME NEW s, NEW q, NEW a, WindowOK(s, q, a), a # <<>>, Head(a).type = "done"
    PROVE  /\ ~IsWriting(Written(s)) => WindowOK(Written(s), q, Tail(a))
           /\ IsWriting(Written(s)) =>
                  WindowOK(Written(s), Append(q, UpdateItems(Written(s).request)), Tail(a))
<1> DEFINE t == Written(s)
           r == Append(q, UpdateItems(t.request))
<1>1. IsAnswer(Head(a))
  BY DEF IsAnswer
<1>2. q = <<>> /\ ~HasAnswer(Tail(a)) /\ OneAnswer(Tail(a)) /\ Tail(a) \in Seq(Messages)
      /\ s \in Storages /\ s.state # "none"
  BY <1>1, ReceivedOK
<1>3. /\ t \in Storages /\ t.state = s.state /\ t.timer = s.timer /\ IsScheduled(t)
  BY <1>2, WrittenIs DEF WindowOK
<1>4. s.state = "loading" => IsClean(t)
  <2> SUFFICES ASSUME s.state = "loading" PROVE IsClean(t)
    OBVIOUS
  <2>1. IsClean(s) /\ ~s.queued
    BY DEF WindowOK, IsScheduled, IsClean
  <2>2. t = [s EXCEPT !.request = NoRequest, !.chained = FALSE]
    BY <2>1 DEF Written
  <2>3. t.request = NoRequest /\ t.inserts = s.inserts /\ t.deletes = s.deletes
    BY <1>2, <2>2 DEF Storages
  <2> QED
    BY <2>1, <2>3 DEF IsClean, HasPending, IsWriting
<1>5. r \in Seq(Asked) /\ Len(r) = 1
  <2>1. t.request \in Requests
    BY <1>3, StorageIs
  <2> QED
    BY <1>2, <2>1, MessagesAre
<1> HIDE DEF t, r
<1>6. WindowOK(t, q, Tail(a)) /\ (IsWriting(t) => WindowOK(t, r, Tail(a)))
  BY <1>2, <1>3, <1>4, <1>5 DEF WindowOK
<1> QED
  BY <1>6 DEF t, r

LEMMA AcceptedOK ==
    ASSUME NEW s, NEW q, NEW a, WindowOK(s, q, a), a # <<>>
    PROVE  WindowOK(AcceptExternal(s, Head(a).keys, Head(a).items), q, Tail(a))
<1>1. s \in Storages /\ Head(a).keys \in SUBSET Keys /\ Head(a).items \in Items
  BY ReceivedOK DEF Messages
<1> DEFINE t == AcceptExternal(s, Head(a).keys, Head(a).items)
<1>2. /\ t \in Storages /\ t.state = s.state /\ t.request = s.request /\ t.timer = s.timer
      /\ IsScheduled(t) /\ (IsClean(s) => IsClean(t))
  BY <1>1, AcceptExternalIs DEF WindowOK
<1> HIDE DEF t
<1>3. WindowOK(t, q, Tail(a))
  BY <1>2, ReceivedOK DEF WindowOK, IsWriting
<1> QED
  BY <1>3 DEF t

\* The answer takes the place of the request.
LEMMA AnsweredOK ==
    ASSUME NEW s, NEW q, NEW a, WindowOK(s, q, a), q # <<>>, NEW m \in Messages
    PROVE  WindowOK(s, Tail(q), Append(a, m))
<1>1. ~HasAnswer(a) /\ Tail(q) = <<>> /\ s.state # "none" /\ a \in Seq(Messages)
  BY RequestIs DEF WindowOK
<1>2. /\ <<>> \in Seq(Asked) /\ Len(<<>>) <= 1
      /\ Append(a, m) \in Seq(Messages) /\ OneAnswer(Append(a, m))
  BY <1>1, AppendIs
<1> QED
  BY <1>1, <1>2 DEF WindowOK

\* An event is put behind the answer.
LEMMA AnnouncedOK ==
    ASSUME NEW s, NEW q, NEW a, WindowOK(s, q, a), s.state # "none",
           NEW m \in Messages, ~IsAnswer(m)
    PROVE  WindowOK(s, q, Append(a, m))
BY AppendIs DEF WindowOK

-----------------------------------------------------------------------------
(* The invariant and the steps.                                            *)

WindowsInv ==
    /\ store \in [Windows -> Storages]
    /\ toMain \in [Windows -> Seq(Asked)] /\ toWindow \in [Windows -> Seq(Messages)]
    /\ \A w \in Windows : WindowOK(store[w], toMain[w], toWindow[w])

OthersInv == changed \subseteq Keys /\ opens \in 0..MaxOpens /\ changes \in 0..MaxChanges

\* The invariant is that of the main process, that of every window, and the counts.
LEMMA WindowOKIs ==
    ASSUME NEW w \in Windows, store[w] \in Storages, toMain[w] \in Seq(Asked),
           toWindow[w] \in Seq(Messages)
    PROVE  WindowOK(store[w], toMain[w], toWindow[w]) <=>
               Len(toMain[w]) <= 1 /\ IsScheduled(store[w]) /\ OneRequest(w)
BY StorageIs DEF WindowOK, OneRequest, OneAnswer, HasAnswer

LEMMA InvariantIs == IInv <=> MainInv /\ WindowsInv /\ OthersInv
<1>1. TypeOK => \A w \in Windows : /\ store[w] \in Storages /\ toMain[w] \in Seq(Asked)
                                   /\ toWindow[w] \in Seq(Messages)
  BY DEF TypeOK
<1>2. WindowsInv => \A w \in Windows : /\ store[w] \in Storages /\ toMain[w] \in Seq(Asked)
                                       /\ toWindow[w] \in Seq(Messages)
  BY DEF WindowsInv
<1>3. IInv => MainInv /\ WindowsInv /\ OthersInv
  BY <1>1, WindowOKIs DEF IInv, TypeOK, MainInv, WindowsInv, OthersInv
<1>4. MainInv /\ WindowsInv /\ OthersInv => IInv
  BY <1>2, WindowOKIs DEF IInv, TypeOK, MainInv, WindowsInv, OthersInv
<1> QED
  BY <1>3, <1>4

LEMMA InvariantPrimed == MainInv' /\ WindowsInv' /\ OthersInv' => IInv'
<1> SUFFICES ASSUME MainInv', WindowsInv', OthersInv' PROVE IInv'
  OBVIOUS
<1>1. ASSUME NEW w \in Windows
      PROVE  Len(toMain[w])' <= 1 /\ IsScheduled(store[w])' /\ OneRequest(w)'
  <2>1. WindowOK(store[w], toMain[w], toWindow[w])'
    BY DEF WindowsInv
  <2> QED
    BY <2>1, StorageIs DEF WindowOK, OneRequest, OneAnswer, HasAnswer
<1> QED
  BY <1>1 DEF IInv, TypeOK, MainInv, WindowsInv, OthersInv

LEMMA WindowIs ==
    ASSUME WindowsInv, NEW w \in Windows
    PROVE  /\ WindowOK(store[w], toMain[w], toWindow[w])
           /\ store = [store EXCEPT ![w] = store[w]]
           /\ toMain = [toMain EXCEPT ![w] = toMain[w]]
           /\ toWindow = [toWindow EXCEPT ![w] = toWindow[w]]
BY DEF WindowsInv

\* A step of one window leaves the others alone.
LEMMA WindowStep ==
    ASSUME WindowsInv, NEW w \in Windows, NEW s, NEW q, NEW a, WindowOK(s, q, a),
           store' = [store EXCEPT ![w] = s],
           toMain' = [toMain EXCEPT ![w] = q],
           toWindow' = [toWindow EXCEPT ![w] = a]
    PROVE  WindowsInv'
<1>1. s \in Storages /\ q \in Seq(Asked) /\ a \in Seq(Messages)
  BY DEF WindowOK
<1>2. /\ store' \in [Windows -> Storages]
      /\ toMain' \in [Windows -> Seq(Asked)] /\ toWindow' \in [Windows -> Seq(Messages)]
  BY <1>1 DEF WindowsInv
<1>3. ASSUME NEW v \in Windows PROVE WindowOK(store'[v], toMain'[v], toWindow'[v])
  <2>1. CASE v = w
    BY <2>1 DEF WindowsInv
  <2>2. CASE v # w
    BY <2>2 DEF WindowsInv
  <2> QED
    BY <2>1, <2>2
<1> QED
  BY <1>2, <1>3 DEF WindowsInv

LEMMA WindowsStay ==
    ASSUME WindowsInv, UNCHANGED <<store, toMain, toWindow>> PROVE WindowsInv'
BY DEF WindowsInv

LEMMA OpenWindowKeeps ==
    ASSUME WindowsInv, OthersInv, NEW w \in Windows, OpenWindow(w)
    PROVE  WindowsInv' /\ OthersInv'
<1>1. WindowOK([NewStorage EXCEPT !.state = "loading"], Append(toMain[w], GetItems), toWindow[w])
  BY WindowIs, OpenedOK DEF OpenWindow, IsOpen
<1>2. WindowsInv'
  BY <1>1, WindowIs, WindowStep DEF OpenWindow, Keeps, Ask
<1> QED
  BY <1>2 DEF OpenWindow, OthersInv

LEMMA WindowChangesKeeps ==
    ASSUME WindowsInv, OthersInv, NEW w \in Windows,
           NEW k \in Keys, NEW v \in Values \cup {NoItem}, WindowChanges(w, k, v)
    PROVE  WindowsInv' /\ OthersInv'
<1>1. store[w].cache \in Items
  BY StorageIs DEF WindowsInv
<1>2. [store[w].cache EXCEPT ![k] = v] \in Items
  BY <1>1 DEF Items
<1>3. WindowOK(Update(store[w], [store[w].cache EXCEPT ![k] = v]), toMain[w], toWindow[w])
  BY <1>2, WindowIs, ChangedOK DEF WindowChanges
<1> DEFINE s == Update(store[w], [store[w].cache EXCEPT ![k] = v])
<1>4. /\ toMain' = [toMain EXCEPT ![w] = toMain[w]]
      /\ toWindow' = [toWindow EXCEPT ![w] = toWindow[w]]
      /\ store' = [store EXCEPT ![w] = s]
  BY WindowIs DEF WindowChanges, Keeps
<1> HIDE DEF s
<1>5. WindowsInv'
  <2>1. WindowOK(s, toMain[w], toWindow[w])
    BY <1>3 DEF s
  <2> QED
    BY <1>4, <2>1, WindowStep
<1> QED
  BY <1>5 DEF WindowChanges, OthersInv

LEMMA WindowElapsesKeeps ==
    ASSUME WindowsInv, NEW w \in Windows, WindowElapses(w) PROVE WindowsInv'
<1> DEFINE t == Elapse(store[w])
<1>1. /\ t.queued \/ ~IsWriting(t) => WindowOK(t, toMain[w], toWindow[w])
      /\ ~t.queued /\ IsWriting(t) =>
             WindowOK(t, Append(toMain[w], UpdateItems(t.request)), toWindow[w])
  BY WindowIs, ElapsedOK DEF WindowElapses
<1>2. store' = [store EXCEPT ![w] = t] /\ toWindow' = toWindow
  BY DEF WindowElapses, Keeps
<1>3. /\ t.queued \/ ~IsWriting(t) => toMain' = toMain
      /\ ~t.queued /\ IsWriting(t) =>
             toMain' = [toMain EXCEPT ![w] = Append(toMain[w], UpdateItems(t.request))]
  BY DEF WindowElapses, Sends, Ask
<1> HIDE DEF t
<1>4. /\ toMain = [toMain EXCEPT ![w] = toMain[w]]
      /\ toWindow' = [toWindow EXCEPT ![w] = toWindow[w]]
  BY <1>2, WindowIs
<1>5. CASE t.queued \/ ~IsWriting(t)
  <2>1. WindowOK(t, toMain[w], toWindow[w]) /\ toMain' = [toMain EXCEPT ![w] = toMain[w]]
    BY <1>1, <1>3, <1>4, <1>5
  <2> QED
    BY <1>2, <1>4, <2>1, WindowStep
<1>6. CASE ~t.queued /\ IsWriting(t)
  <2> DEFINE q == Append(toMain[w], UpdateItems(t.request))
  <2>1. WindowOK(t, q, toWindow[w]) /\ toMain' = [toMain EXCEPT ![w] = q]
    BY <1>1, <1>3, <1>6
  <2> HIDE DEF q
  <2> QED
    BY <1>2, <1>4, <2>1, WindowStep
<1> QED
  BY <1>5, <1>6

LEMMA WindowLoadsKeeps ==
    ASSUME WindowsInv, NEW w \in Windows, WindowLoads(w) PROVE WindowsInv'
<1>1. WindowOK(Load(store[w], Head(toWindow[w]).items), toMain[w], Tail(toWindow[w]))
  BY WindowIs, LoadedOK DEF WindowLoads, Received
<1> QED
  BY <1>1, WindowIs, WindowStep DEF WindowLoads, Received, Keeps

LEMMA WindowWrittenKeeps ==
    ASSUME WindowsInv, NEW w \in Windows, WindowWritten(w) PROVE WindowsInv'
<1> DEFINE t == Written(store[w])
<1>1. /\ ~IsWriting(t) => WindowOK(t, toMain[w], Tail(toWindow[w]))
      /\ IsWriting(t) =>
             WindowOK(t, Append(toMain[w], UpdateItems(t.request)), Tail(toWindow[w]))
  BY WindowIs, WrittenOK DEF WindowWritten, Received
<1>2. store' = [store EXCEPT ![w] = t] /\ toWindow' = [toWindow EXCEPT ![w] = Tail(toWindow[w])]
  BY DEF WindowWritten, Received, Keeps
<1>3. /\ ~IsWriting(t) => toMain' = toMain
      /\ IsWriting(t) =>
             toMain' = [toMain EXCEPT ![w] = Append(toMain[w], UpdateItems(t.request))]
  BY DEF WindowWritten, Sends, Ask
<1> HIDE DEF t
<1>4. CASE ~IsWriting(t)
  BY <1>1, <1>2, <1>3, <1>4, WindowIs, WindowStep
<1>5. CASE IsWriting(t)
  BY <1>1, <1>2, <1>3, <1>5, WindowIs, WindowStep
<1> QED
  BY <1>4, <1>5

LEMMA WindowAcceptsKeeps ==
    ASSUME WindowsInv, NEW w \in Windows, WindowAccepts(w) PROVE WindowsInv'
<1>1. WindowOK(AcceptExternal(store[w], Head(toWindow[w]).keys, Head(toWindow[w]).items),
               toMain[w], Tail(toWindow[w]))
  BY WindowIs, AcceptedOK DEF WindowAccepts, Received
<1> QED
  BY <1>1, WindowIs, WindowStep DEF WindowAccepts, Received, Keeps

LEMMA WindowClosesKeeps ==
    ASSUME WindowsInv, NEW w \in Windows, WindowCloses(w) PROVE WindowsInv'
<1>1. WindowOK(Close(store[w]), toMain[w], toWindow[w])
  BY WindowIs, ClosedOK DEF WindowCloses
<1>2. /\ toMain' = [toMain EXCEPT ![w] = toMain[w]]
      /\ toWindow' = [toWindow EXCEPT ![w] = toWindow[w]]
      /\ store' = [store EXCEPT ![w] = Close(store[w])]
  BY WindowIs DEF WindowCloses, Keeps
<1> QED
  BY <1>1, <1>2, WindowStep

LEMMA LeavesKeeps ==
    ASSUME WindowsInv, NEW w \in Windows, Leaves(w) PROVE WindowsInv'
BY NewWindowOK, WindowIs, WindowStep DEF Leaves, Keeps

LEMMA AnswerItemsKeeps ==
    ASSUME MainInv, WindowsInv, NEW w \in Windows, AnswerItems(w) PROVE WindowsInv'
<1>1. Answer(main.cache) \in Messages
  BY StorageIs, MessagesAre DEF MainInv, MainTypeOK
<1>2. WindowOK(store[w], Tail(toMain[w]), Append(toWindow[w], Answer(main.cache)))
  BY <1>1, WindowIs, AnsweredOK DEF AnswerItems, Requested
<1> QED
  BY <1>2, WindowIs, WindowStep DEF AnswerItems, Requested, Tell

LEMMA AcceptUpdateKeeps ==
    ASSUME MainInv, WindowsInv, OthersInv, NEW w \in Windows, AcceptUpdate(w)
    PROVE  MainInv' /\ WindowsInv' /\ OthersInv'
<1>1. phase \in {"ready"} \cup Closing /\ toMain[w] # <<>>
  BY DEF AcceptUpdate, Requested, Closing
<1>2. Head(toMain[w]).request \in Requests
  BY <1>1, WindowIs, RequestIs DEF WindowOK, Asked
<1>3. Applied(main.cache, Head(toMain[w]).request) \in Items
  BY <1>2, StorageIs, AppliedIs DEF MainInv, MainTypeOK
<1>4. MainInv'
  BY <1>1, <1>3, MainUpdateKeeps DEF AcceptUpdate
<1>5. WindowOK(store[w], Tail(toMain[w]), Append(toWindow[w], Done))
  BY <1>1, WindowIs, AnsweredOK, MessagesAre
<1>6. WindowsInv'
  BY <1>5, WindowIs, WindowStep DEF AcceptUpdate, Requested, Tell
<1> QED
  BY <1>4, <1>6 DEF AcceptUpdate, OthersInv

LEMMA BroadcastKeeps ==
    ASSUME MainInv, WindowsInv, OthersInv, Broadcast PROVE WindowsInv' /\ OthersInv'
<1> DEFINE m == ItemsChanged(changed, main.cache)
<1>1. m \in Messages /\ ~IsAnswer(m)
  BY StorageIs, MessagesAre DEF MainInv, MainTypeOK, OthersInv
<1>2. /\ toWindow' = [w \in Windows |-> IF IsOpen(w) THEN Append(toWindow[w], m)
                                                     ELSE toWindow[w]]
      /\ UNCHANGED <<store, toMain>>
  BY DEF Broadcast
<1> HIDE DEF m
<1>3. ASSUME NEW w \in Windows PROVE WindowOK(store'[w], toMain'[w], toWindow'[w])
  BY <1>1, <1>2, WindowIs, AnnouncedOK DEF IsOpen
<1>4. /\ store' \in [Windows -> Storages] /\ toMain' \in [Windows -> Seq(Asked)]
      /\ toWindow' \in [Windows -> Seq(Messages)]
  <2>1. \A w \in Windows : toWindow'[w] \in Seq(Messages)
    BY <1>3 DEF WindowOK
  <2> QED
    BY <1>2, <2>1 DEF WindowsInv
<1>5. WindowsInv'
  BY <1>3, <1>4 DEF WindowsInv
<1> QED
  BY <1>5 DEF Broadcast, OthersInv

LEMMA NewWindowsOK ==
    ASSUME store' = [w \in Windows |-> NewStorage],
           toMain' = [w \in Windows |-> <<>>], toWindow' = [w \in Windows |-> <<>>]
    PROVE  WindowsInv'
BY NewStorageIs, NewWindowOK, EmptySeq DEF WindowsInv

\* The storage starts with the invariant.
LEMMA InitInvariant == Init => IInv
<1> SUFFICES ASSUME Init PROVE IInv
  OBVIOUS
<1>1. MainInv
  BY MainInitInvariant DEF Init
<1>2. WindowsInv
  BY NewStorageIs, NewWindowOK, EmptySeq DEF Init, WindowsInv
<1>3. OthersInv
  BY DEF Init, OthersInv
<1> QED
  BY <1>1, <1>2, <1>3, InvariantIs

\* Every step of the main process and of the windows keeps it.
LEMMA MainRunsKeeps ==
    ASSUME MainInv, MainRuns PROVE MainInv'
<1>1. CASE Open \/ DeleteBroken \/ RestoreBackup \/ Reopen \/ LoadItems
  BY <1>1, OpenKeeps, DeleteBrokenKeeps, RestoreBackupKeeps, ReopenKeeps, LoadItemsKeeps
<1>2. CASE MainElapses \/ MainWrites \/ Flushed \/ CloseConnection
  BY <1>2, MainElapsesKeeps, MainWritesKeeps, FlushedKeeps, CloseConnectionKeeps
<1>3. CASE Unlink \/ Recreate \/ Rewrite \/ Finish
  BY <1>3, UnlinkKeeps, RecreateKeeps, RewriteKeeps, FinishKeeps
<1> QED
  BY <1>1, <1>2, <1>3 DEF MainRuns

LEMMA WindowActs ==
    ASSUME MainInv, WindowsInv, OthersInv, NEW w \in Windows,
           \/ WindowRuns(w) \/ OpenWindow(w) \/ WindowCloses(w) \/ WindowDies(w)
           \/ \E k \in Keys, v \in Values \cup {NoItem} : WindowChanges(w, k, v)
    PROVE  MainInv' /\ WindowsInv' /\ OthersInv'
<1>1. CASE AcceptUpdate(w)
  BY <1>1, AcceptUpdateKeeps
<1>2. CASE OpenWindow(w)
  BY <1>2, OpenWindowKeeps, MainStaysKeeps DEF OpenWindow
<1>3. CASE \E k \in Keys, v \in Values \cup {NoItem} : WindowChanges(w, k, v)
  <2>1. PICK k \in Keys, v \in Values \cup {NoItem} : WindowChanges(w, k, v)
    BY <1>3
  <2>2. UNCHANGED mainVars
    BY <2>1 DEF WindowChanges
  <2> QED
    BY <2>1, <2>2, WindowChangesKeeps, MainStaysKeeps
<1>4. CASE WindowElapses(w)
  BY <1>4, WindowElapsesKeeps, MainStaysKeeps DEF WindowElapses, OthersInv
<1>5. CASE WindowLoads(w)
  BY <1>5, WindowLoadsKeeps, MainStaysKeeps DEF WindowLoads, OthersInv
<1>6. CASE WindowWritten(w)
  BY <1>6, WindowWrittenKeeps, MainStaysKeeps DEF WindowWritten, OthersInv
<1>7. CASE WindowAccepts(w)
  BY <1>7, WindowAcceptsKeeps, MainStaysKeeps DEF WindowAccepts, OthersInv
<1>8. CASE WindowCloses(w)
  BY <1>8, WindowClosesKeeps, MainStaysKeeps DEF WindowCloses, OthersInv
<1>9. CASE WindowGone(w) \/ WindowDies(w)
  BY <1>9, LeavesKeeps, MainStaysKeeps DEF WindowGone, WindowDies, Leaves, OthersInv
<1>10. CASE AnswerItems(w)
  BY <1>10, AnswerItemsKeeps, MainStaysKeeps DEF AnswerItems, OthersInv
<1> QED
  BY <1>1, <1>2, <1>3, <1>4, <1>5, <1>6, <1>7, <1>8, <1>9, <1>10 DEF WindowRuns

LEMMA NextInvariant == IInv /\ [Next]_vars => IInv'
<1> SUFFICES ASSUME IInv, [Next]_vars PROVE IInv'
  OBVIOUS
<1>0. MainInv /\ WindowsInv /\ OthersInv
  BY InvariantIs
<1>1. CASE MainRuns
  <2>1. MainInv'
    BY <1>0, <1>1, MainRunsKeeps
  <2>2. WindowsInv' /\ OthersInv'
    BY <1>0, <1>1, WindowsStay DEF MainRuns, windowVars, OthersInv
  <2> QED
    BY <2>1, <2>2, InvariantPrimed
<1>2. CASE MainStarts
  <2>1. MainInv'
    BY <1>0, <1>2, StartKeeps DEF MainStarts
  <2>2. WindowsInv' /\ OthersInv'
    BY <1>0, <1>2, WindowsStay DEF MainStarts, OthersInv
  <2> QED
    BY <2>1, <2>2, InvariantPrimed
<1>3. CASE Shutdown
  <2>1. MainInv'
    BY <1>0, <1>3, MainClosesKeeps DEF Shutdown
  <2>2. WindowsInv' /\ OthersInv'
    BY <1>0, <1>3, WindowsStay DEF Shutdown, windowVars, OthersInv
  <2> QED
    BY <2>1, <2>2, InvariantPrimed
<1>4. CASE Crash
  <2>1. MainInv'
    BY <1>0, <1>4, MainCrashesKeeps DEF Crash
  <2>2. WindowsInv' /\ OthersInv'
    BY <1>0, <1>4, NewWindowsOK DEF Crash, OthersInv
  <2> QED
    BY <2>1, <2>2, InvariantPrimed
<1>5. CASE Damage \/ Ended
  <2>1. MainInv'
    BY <1>0, <1>5, FileRotsKeeps, MainIsEndedKeeps DEF Damage, Ended
  <2>2. WindowsInv' /\ OthersInv'
    BY <1>0, <1>5, WindowsStay DEF Damage, Ended, windowVars, OthersInv
  <2> QED
    BY <2>1, <2>2, InvariantPrimed
<1>6. CASE Broadcast
  BY <1>0, <1>6, BroadcastKeeps, MainStaysKeeps, InvariantPrimed DEF Broadcast
<1>7. ASSUME NEW w \in Windows,
             \/ WindowRuns(w) \/ OpenWindow(w) \/ WindowCloses(w) \/ WindowDies(w)
             \/ \E k \in Keys, v \in Values \cup {NoItem} : WindowChanges(w, k, v)
      PROVE  IInv'
  BY <1>0, <1>7, WindowActs, InvariantPrimed
<1>8. CASE UNCHANGED vars
  BY <1>0, <1>8, WindowsStay, MainStaysKeeps, InvariantPrimed DEF vars, windowVars, OthersInv
<1> QED
  BY <1>1, <1>2, <1>3, <1>4, <1>5, <1>6, <1>7, <1>8 DEF Next

-----------------------------------------------------------------------------
(* What windows are told.                                                  *)

\* What becomes of a value v of k when a request is applied.
Given(request, k, v) ==
    IF k \in request.delete THEN NoItem
    ELSE IF request.insert[k] # NoItem THEN request.insert[k] ELSE v

\* The request of a window that is on its way.
OnItsWay(q) == IF q = <<>> THEN NoRequest ELSE Head(q).request

\* The properties of a window, of its Storage s, its requests q, what is on its way
\* to it, a, and a value v of k in the main process.
Shows(s, q, a, k, v) ==
    \/ TellsLast(a, k, v)
    \/ TellsNothing(a, k) /\ s.cache[k] \in {v, Given(Pending(s), k, Given(OnItsWay(q), k, v))}
Having(s, a) == s.state = "ready" \/ (s.state = "loading" /\ \E i \in DOMAIN a : a[i].type = "items")
AreAll(s, q, a) ==
    /\ q # <<>> /\ Head(q).type = "getItems" => s.state = "loading"
    /\ \A i \in DOMAIN a : /\ a[i].type = "items" => s.state = "loading" /\ a[i].keys = Keys
                           /\ a[i].type = "done" => a[i].keys = {}

\* A window, with the items of the main process and the changes to be announced.
HearsOK(s, q, a, items, announced) ==
    Having(s, a) => \A k \in Keys : k \in announced \/ Shows(s, q, a, k, items[k])

LEMMA GivenNothing == \A k \in Keys : \A v : Given(NoRequest, k, v) = v
BY NothingIs DEF Given

LEMMA OnItsWayIs ==
    ASSUME NEW s, NEW q, NEW a, WindowOK(s, q, a)
    PROVE  OnItsWay(q) \in Requests
<1>1. q \in Seq(Asked) /\ Len(q) <= 1
  BY DEF WindowOK
<1>2. CASE q = <<>>
  BY <1>2, NothingIs DEF OnItsWay
<1>3. CASE q # <<>>
  BY <1>1, <1>3, RequestIs DEF OnItsWay, Asked
<1> QED
  BY <1>2, <1>3

\* What the invariant says of a window.
LEMMA HearsIs ==
    ASSUME NEW w \in Windows, WindowOK(store[w], toMain[w], toWindow[w]), main.cache \in Items
    PROVE  /\ HasItems(w) <=> Having(store[w], toWindow[w])
           /\ ItemsAreAll(w) <=> AreAll(store[w], toMain[w], toWindow[w])
           /\ (HasItems(w) => \A k \in Keys : ShowsOrHears(w, k)) <=>
                  HearsOK(store[w], toMain[w], toWindow[w], main.cache, changed)
<1> DEFINE s == store[w]
           r == OnItsWay(toMain[w])
<1>1. r \in Requests /\ Pending(s) \in Requests /\ Applied(main.cache, r) \in Items
  BY OnItsWayIs, StorageIs, AppliedIs DEF WindowOK
<1>2. Brought(w) = Applied(Applied(main.cache, r), Pending(s))
  BY DEF Brought, OnItsWay, Pending
<1> HIDE DEF r
<1>3. \A k \in Keys : Brought(w)[k] = Given(Pending(s), k, Given(r, k, main.cache[k]))
  BY <1>1, <1>2, AppliedIs DEF Given
<1>4. ASSUME NEW k \in Keys
      PROVE  ShowsOrHears(w, k) <=> k \in changed \/ Shows(s, toMain[w], toWindow[w], k, main.cache[k])
  BY <1>3 DEF ShowsOrHears, Shows, r
<1>5. HasItems(w) <=> Having(s, toWindow[w])
  BY DEF HasItems, Having
<1> QED
  BY <1>4, <1>5 DEF ItemsAreAll, AreAll, HearsOK

LEMMA HearsPrimed ==
    ASSUME NEW w \in Windows, WindowOK(store'[w], toMain'[w], toWindow'[w]), main'.cache \in Items
    PROVE  /\ HasItems(w)' <=> Having(store'[w], toWindow'[w])
           /\ ItemsAreAll(w)' <=> AreAll(store'[w], toMain'[w], toWindow'[w])
           /\ (HasItems(w)' => \A k \in Keys : ShowsOrHears(w, k)') <=>
                  HearsOK(store'[w], toMain'[w], toWindow'[w], main'.cache, changed')
<1> DEFINE s == store'[w]
           r == OnItsWay(toMain'[w])
<1>1. r \in Requests /\ Pending(s) \in Requests /\ Applied(main'.cache, r) \in Items
  BY OnItsWayIs, StorageIs, AppliedIs DEF WindowOK
<1>2. Brought(w)' = Applied(Applied(main'.cache, r), Pending(s))
  BY DEF Brought, OnItsWay, Pending
<1> HIDE DEF r
<1>3. \A k \in Keys : Brought(w)'[k] = Given(Pending(s), k, Given(r, k, main'.cache[k]))
  BY <1>1, <1>2, AppliedIs DEF Given
<1>4. ASSUME NEW k \in Keys
      PROVE  ShowsOrHears(w, k)' <=>
                 k \in changed' \/ Shows(s, toMain'[w], toWindow'[w], k, main'.cache[k])
  BY <1>3 DEF ShowsOrHears, Shows, r
<1>5. HasItems(w)' <=> Having(s, toWindow'[w])
  BY DEF HasItems, Having
<1> QED
  BY <1>4, <1>5 DEF ItemsAreAll, AreAll, HearsOK

\* The first word is the last when nothing comes behind it.
LEMMA TailTells ==
    ASSUME NEW a \in Seq(Messages), a # <<>>, NEW k
    PROVE  /\ TellsNothing(a, k) <=> k \notin Head(a).keys /\ TellsNothing(Tail(a), k)
           /\ \A v : TellsLast(a, k, v) <=>
                  \/ k \in Head(a).keys /\ Head(a).items[k] = v /\ TellsNothing(Tail(a), k)
                  \/ TellsLast(Tail(a), k, v)
           /\ \A type : (\E i \in DOMAIN a : a[i].type = type) <=>
                  Head(a).type = type \/ \E i \in DOMAIN Tail(a) : Tail(a)[i].type = type
<1> DEFINE t == Tail(a)
           h == Head(a)
<1>1. /\ h = a[1] /\ 1 \in DOMAIN a /\ DOMAIN t \subseteq Nat /\ DOMAIN a \subseteq Nat \ {0}
      /\ \A i \in DOMAIN t : i > 0 /\ i + 1 \in DOMAIN a /\ t[i] = a[i + 1]
      /\ \A i \in DOMAIN a : i = 1 \/ (i - 1 \in DOMAIN t /\ a[i] = t[i - 1])
  <2>1. /\ t \in Seq(Messages) /\ h = a[1] /\ Len(a) \in Nat /\ Len(a) >= 1 /\ DOMAIN a = 1..Len(a)
        /\ Len(t) = Len(a) - 1 /\ DOMAIN t = 1..Len(t)
        /\ \A i \in 1..(Len(a) - 1) : t[i] = a[i + 1]
    OBVIOUS
  <2> HIDE DEF t, h
  <2> QED
    BY <2>1
<1> HIDE DEF t, h
<1>2. TellsNothing(a, k) <=> k \notin h.keys /\ TellsNothing(t, k)
  BY <1>1 DEF TellsNothing
<1>3. ASSUME NEW v, TellsLast(a, k, v)
      PROVE  (k \in h.keys /\ h.items[k] = v /\ TellsNothing(t, k)) \/ TellsLast(t, k, v)
  <2>1. PICK i \in DOMAIN a : /\ k \in a[i].keys /\ a[i].items[k] = v
                              /\ \A j \in DOMAIN a : j > i => k \notin a[j].keys
    BY <1>3 DEF TellsLast
  <2>2. CASE i = 1
    <3>1. TellsNothing(t, k)
      BY <1>1, <2>1, <2>2 DEF TellsNothing
    <3> QED
      BY <1>1, <2>1, <2>2, <3>1
  <2>3. CASE i # 1
    <3>1. i - 1 \in DOMAIN t /\ a[i] = t[i - 1]
      BY <1>1, <2>3
    <3>2. ASSUME NEW j \in DOMAIN t, j > i - 1 PROVE k \notin t[j].keys
      <4>1. j + 1 \in DOMAIN a /\ t[j] = a[j + 1] /\ j + 1 > i
        BY <1>1, <3>2
      <4> QED
        BY <2>1, <4>1
    <3> QED
      BY <2>1, <3>1, <3>2 DEF TellsLast
  <2> QED
    BY <2>2, <2>3
<1>4. ASSUME NEW v, k \in h.keys /\ h.items[k] = v /\ TellsNothing(t, k)
      PROVE  TellsLast(a, k, v)
  <2>1. \A j \in DOMAIN a : j > 1 => k \notin a[j].keys
    BY <1>1, <1>4 DEF TellsNothing
  <2> QED
    BY <1>1, <1>4, <2>1 DEF TellsLast
<1>5. ASSUME NEW v, TellsLast(t, k, v) PROVE TellsLast(a, k, v)
  <2>1. PICK i \in DOMAIN t : /\ k \in t[i].keys /\ t[i].items[k] = v
                              /\ \A j \in DOMAIN t : j > i => k \notin t[j].keys
    BY <1>5 DEF TellsLast
  <2>2. i + 1 \in DOMAIN a /\ t[i] = a[i + 1]
    BY <1>1
  <2>3. ASSUME NEW j \in DOMAIN a, j > i + 1 PROVE k \notin a[j].keys
    <3>1. j - 1 \in DOMAIN t /\ a[j] = t[j - 1] /\ j - 1 > i
      BY <1>1, <2>2, <2>3
    <3> QED
      BY <2>1, <3>1
  <2> QED
    BY <2>1, <2>2, <2>3 DEF TellsLast
<1>6. ASSUME NEW type
      PROVE  (\E i \in DOMAIN a : a[i].type = type) <=>
                 h.type = type \/ \E i \in DOMAIN t : t[i].type = type
  BY <1>1
<1> QED
  BY <1>2, <1>3, <1>4, <1>5, <1>6 DEF t, h

LEMMA AppendTells ==
    ASSUME NEW a \in Seq(Messages), NEW m \in Messages, NEW k
    PROVE  /\ k \in m.keys => TellsLast(Append(a, m), k, m.items[k])
           /\ k \notin m.keys =>
                  /\ TellsNothing(a, k) => TellsNothing(Append(a, m), k)
                  /\ \A v : TellsLast(a, k, v) => TellsLast(Append(a, m), k, v)
           /\ \A type : (\E i \in DOMAIN Append(a, m) : Append(a, m)[i].type = type) =>
                  m.type = type \/ \E i \in DOMAIN a : a[i].type = type
<1> DEFINE b == Append(a, m)
           n == Len(a) + 1
<1>1. /\ Len(a) \in Nat /\ DOMAIN a = 1..Len(a) /\ DOMAIN b = 1..n /\ b[n] = m
      /\ \A i \in 1..Len(a) : b[i] = a[i]
  OBVIOUS
<1>2. /\ n \in DOMAIN b /\ b[n] = m /\ DOMAIN a \subseteq DOMAIN b
      /\ \A i \in DOMAIN a : b[i] = a[i]
      /\ \A i \in DOMAIN b : i = n \/ (i \in DOMAIN a /\ b[i] = a[i])
      /\ \A i \in DOMAIN b : ~(i > n)
  BY <1>1
<1> HIDE DEF b, n
<1>3. k \in m.keys => TellsLast(b, k, m.items[k])
  BY <1>2 DEF TellsLast
<1>4. k \notin m.keys /\ TellsNothing(a, k) => TellsNothing(b, k)
  BY <1>2 DEF TellsNothing
<1>5. ASSUME k \notin m.keys, NEW v, TellsLast(a, k, v) PROVE TellsLast(b, k, v)
  BY <1>2, <1>5 DEF TellsLast
<1>6. ASSUME NEW type, NEW i \in DOMAIN b, b[i].type = type
      PROVE  m.type = type \/ \E j \in DOMAIN a : a[j].type = type
  BY <1>2, <1>6
<1> QED
  BY <1>3, <1>4, <1>5, <1>6 DEF b

-----------------------------------------------------------------------------
(* A Storage and what it is told.                                          *)

LEMMA ElapseGives ==
    ASSUME NEW s \in Storages
    PROVE  /\ IsWriting(s) => Pending(Elapse(s)) = Pending(s)
           /\ ~IsWriting(s) => Elapse(s).request = Pending(s) /\ Pending(Elapse(s)) = NoRequest
<1> DEFINE t == [s EXCEPT !.timer = FALSE, !.chained = FALSE]
<1>1. t \in Storages /\ Pending(t) = Pending(s)
  BY DEF Storages, Pending
<1>2. IsWriting(s) => Pending(Elapse(s)) = Pending(s)
  BY DEF Elapse, Storages, Pending
<1>3. ~IsWriting(s) => Elapse(s) = FlushPending(t)
  BY DEF Elapse
<1> HIDE DEF t
<1> QED
  BY <1>1, <1>2, <1>3, FlushPendingIs

LEMMA WrittenGives ==
    ASSUME NEW s \in Storages
    PROVE  /\ s.queued => Written(s).request = Pending(s) /\ Pending(Written(s)) = NoRequest
           /\ ~s.queued => Written(s).request = NoRequest /\ Pending(Written(s)) = Pending(s)
<1>1. s.queued => Written(s) = RunQueued(s)
  BY DEF Written
<1>2. ~s.queued => Written(s).request = NoRequest /\ Pending(Written(s)) = Pending(s)
  BY DEF Written, Storages, Pending
<1> QED
  BY <1>1, <1>2, RunQueuedIs

\* What a storage that is not closed changes is pending.
LEMMA UpdateGives ==
    ASSUME NEW s \in Storages, NEW items \in Items, s.state # "closed", NEW k \in Keys
    PROVE  /\ Update(s, items).cache[k] = items[k]
           /\ \/ /\ items[k] = s.cache[k]
                 /\ \A v : Given(Pending(Update(s, items)), k, v) = Given(Pending(s), k, v)
              \/ \A v : Given(Pending(Update(s, items)), k, v) = items[k]
<1> DEFINE keys == {l \in Keys : items[l] # s.cache[l]}
           u == Update(s, items)
<1>1. k \notin keys <=> items[k] = s.cache[k]
  OBVIOUS
<1>2. CASE keys = {}
  <2>1. u = s
    BY <1>2 DEF Update
  <2> QED
    BY <1>1, <1>2, <2>1
<1>3. CASE keys # {}
  <2>1. /\ u.cache = items
        /\ u.inserts = [l \in Keys |-> IF l \in keys THEN items[l] ELSE s.inserts[l]]
        /\ u.deletes = (s.deletes \ keys) \cup {l \in keys : items[l] = NoItem}
    BY <1>3 DEF Update, Storages
  <2> HIDE DEF u
  <2>2. /\ Pending(u).insert[k] = IF k \in keys THEN items[k] ELSE s.inserts[k]
        /\ k \in Pending(u).delete <=> IF k \in keys THEN items[k] = NoItem ELSE k \in s.deletes
    BY <2>1 DEF Pending
  <2>3. Pending(s).insert = s.inserts /\ Pending(s).delete = s.deletes
    BY DEF Pending
  <2> HIDE DEF keys
  <2>4. CASE k \in keys
    BY <2>1, <2>2, <2>4 DEF Given, u
  <2>5. CASE k \notin keys
    BY <1>1, <2>1, <2>2, <2>3, <2>5 DEF Given, u
  <2> QED
    BY <2>4, <2>5
<1> QED
  BY <1>2, <1>3

\* The requests go on with no new one for the items; what a window will bring stays.
GoesOn(r, q) == r = q \/ (r # <<>> /\ Head(r).type # "getItems")
BringsTheSame(t, r, s, q) ==
    \A k \in Keys : \A v : Given(Pending(t), k, Given(OnItsWay(r), k, v))
                           = Given(Pending(s), k, Given(OnItsWay(q), k, v))

\* The requests of a window once the timer of its Storage has elapsed.
AskedOf(s, q) == IF Elapse(s).queued \/ ~IsWriting(Elapse(s)) THEN q
                 ELSE Append(q, UpdateItems(Elapse(s).request))

\* What becomes of the items of the main process, and what it is to announce.
BecomesOf(others, request, items) == \A k \in Keys : others[k] = Given(request, k, items[k])
Announces(more, announced, others, items) ==
    \A k \in Keys : k \notin more => k \notin announced /\ others[k] = items[k]

\* A step of the Storage that changes neither what it shows nor what it will bring.
LEMMA SilentHears ==
    ASSUME NEW s, NEW q, NEW a, NEW items, NEW announced, NEW t, NEW r,
           AreAll(s, q, a), HearsOK(s, q, a, items, announced),
           t.state = s.state, t.cache = s.cache, GoesOn(r, q), BringsTheSame(t, r, s, q)
    PROVE  /\ AreAll(t, r, a) /\ HearsOK(t, r, a, items, announced)
           /\ Having(t, a) <=> Having(s, a)
<1>1. Having(t, a) <=> Having(s, a)
  BY DEF Having
<1>2. AreAll(t, r, a)
  BY DEF AreAll, GoesOn
<1>3. ASSUME NEW k \in Keys, Shows(s, q, a, k, items[k]) PROVE Shows(t, r, a, k, items[k])
  BY <1>3 DEF Shows, BringsTheSame
<1> QED
  BY <1>1, <1>2, <1>3 DEF HearsOK

\* What is pending becomes the update that is on its way.
LEMMA FlushedGives ==
    ASSUME NEW s \in Storages, NEW t \in Storages, NEW q \in Seq(Asked), q = <<>>,
           t.request = Pending(s), Pending(t) = NoRequest, NEW r,
           r = IF IsWriting(t) THEN Append(q, UpdateItems(t.request)) ELSE q
    PROVE  GoesOn(r, q) /\ BringsTheSame(t, r, s, q)
<1>1. OnItsWay(q) = NoRequest
  BY DEF OnItsWay
<1>2. OnItsWay(r) = Pending(s) /\ GoesOn(r, q)
  <2>1. CASE IsWriting(t)
    <3> DEFINE m == UpdateItems(t.request)
    <3>1. m.request = Pending(s) /\ m.type = "updateItems"
      BY DEF UpdateItems
    <3> HIDE DEF m
    <3>2. r = <<m>>
      BY <2>1 DEF m
    <3>3. r # <<>> /\ Head(r) = m
      BY <3>2
    <3> QED
      BY <3>1, <3>3 DEF OnItsWay, GoesOn
  <2>2. CASE ~IsWriting(t)
    BY <1>1, <2>2 DEF IsWriting, GoesOn
  <2> QED
    BY <2>1, <2>2
<1> QED
  BY <1>1, <1>2, GivenNothing DEF BringsTheSame

LEMMA ElapsedHears ==
    ASSUME NEW s, NEW q, NEW a, NEW items, NEW announced,
           WindowOK(s, q, a), s.timer, AreAll(s, q, a), HearsOK(s, q, a, items, announced)
    PROVE  /\ AreAll(Elapse(s), AskedOf(s, q), a)
           /\ HearsOK(Elapse(s), AskedOf(s, q), a, items, announced)
           /\ Having(Elapse(s), a) <=> Having(s, a)
<1> DEFINE t == Elapse(s)
           r == AskedOf(s, q)
<1>0. r = IF t.queued \/ ~IsWriting(t) THEN q ELSE Append(q, UpdateItems(t.request))
  BY DEF AskedOf
<1> HIDE DEF r
<1>1. s \in Storages /\ IsScheduled(s) /\ q \in Seq(Asked)
  BY DEF WindowOK
<1>2. t \in Storages /\ t.state = s.state /\ t.cache = s.cache /\ IsScheduled(t)
  BY <1>1, ElapseIs
<1>3. CASE IsWriting(s)
  <2>1. r = q /\ Pending(t) = Pending(s)
    BY <1>0, <1>1, <1>3, ElapseIs, ElapseGives
  <2>2. GoesOn(r, q) /\ BringsTheSame(t, r, s, q)
    BY <2>1 DEF GoesOn, BringsTheSame
  <2> HIDE DEF t
  <2>3. AreAll(t, r, a) /\ HearsOK(t, r, a, items, announced) /\ (Having(t, a) <=> Having(s, a))
    BY <1>2, <2>2, SilentHears
  <2> QED
    BY ONLY <2>3 DEF t, r
<1>4. CASE ~IsWriting(s)
  <2>1. q = <<>>
    BY <1>4 DEF WindowOK
  <2>2. t.request = Pending(s) /\ Pending(t) = NoRequest
    BY <1>1, <1>4, ElapseGives
  <2>3. ~t.queued
    <3>1. ~s.queued /\ s.queued \in BOOLEAN
      BY <1>1, <1>4, StorageIs DEF IsScheduled
    <3> QED
      BY <1>1, <1>4, <3>1 DEF Elapse, FlushPending, Storages
  <2>4. r = IF IsWriting(t) THEN Append(q, UpdateItems(t.request)) ELSE q
    BY <1>0, <2>3
  <2> HIDE DEF t
  <2>5. GoesOn(r, q) /\ BringsTheSame(t, r, s, q)
    BY ONLY <1>1, <1>2, <2>1, <2>2, <2>4, FlushedGives
  <2>6. AreAll(t, r, a) /\ HearsOK(t, r, a, items, announced) /\ (Having(t, a) <=> Having(s, a))
    BY <1>2, <2>5, SilentHears
  <2> QED
    BY ONLY <2>6 DEF t, r
<1> QED
  BY <1>3, <1>4

\* A message that tells of no key is received.
LEMMA DoneHears ==
    ASSUME NEW s, NEW q, NEW a \in Seq(Messages), a # <<>>, NEW items, NEW announced,
           Head(a).type = "done", AreAll(s, q, a), HearsOK(s, q, a, items, announced)
    PROVE  /\ AreAll(s, q, Tail(a)) /\ HearsOK(s, q, Tail(a), items, announced)
           /\ Having(s, Tail(a)) => Having(s, a)
<1>1. Head(a).keys = {}
  <2>1. 1 \in DOMAIN a /\ Head(a) = a[1]
    OBVIOUS
  <2> QED
    BY <2>1 DEF AreAll
<1>2. /\ \A k : TellsNothing(a, k) <=> TellsNothing(Tail(a), k)
      /\ \A k, v : TellsLast(a, k, v) <=> TellsLast(Tail(a), k, v)
  BY <1>1, TailTells
<1>3. Having(s, Tail(a)) => Having(s, a)
  BY TailTells DEF Having
<1>4. AreAll(s, q, Tail(a))
  <2>1. \A i \in DOMAIN Tail(a) : i + 1 \in DOMAIN a /\ Tail(a)[i] = a[i + 1]
    OBVIOUS
  <2> QED
    BY <2>1 DEF AreAll
<1>5. ASSUME NEW k \in Keys, Shows(s, q, a, k, items[k]) PROVE Shows(s, q, Tail(a), k, items[k])
  BY <1>2, <1>5 DEF Shows
<1> QED
  BY <1>3, <1>4, <1>5 DEF HearsOK

LEMMA WrittenHears ==
    ASSUME NEW s, NEW q, NEW a, NEW items, NEW announced, NEW r,
           WindowOK(s, q, a), a # <<>>, Head(a).type = "done",
           AreAll(s, q, a), HearsOK(s, q, a, items, announced),
           r = IF IsWriting(Written(s)) THEN Append(q, UpdateItems(Written(s).request)) ELSE q
    PROVE  /\ AreAll(Written(s), r, Tail(a)) /\ HearsOK(Written(s), r, Tail(a), items, announced)
           /\ Having(Written(s), Tail(a)) => Having(s, a)
<1> DEFINE t == Written(s)
           b == Tail(a)
<1>1. s \in Storages /\ q \in Seq(Asked) /\ a \in Seq(Messages) /\ q = <<>>
  <2>1. IsAnswer(Head(a))
    BY DEF IsAnswer
  <2>2. s \in Storages /\ q \in Seq(Asked) /\ q = <<>>
    BY <2>1, ReceivedOK
  <2> QED
    BY <2>2 DEF WindowOK
<1>2. t \in Storages /\ t.state = s.state /\ t.cache = s.cache
  BY <1>1, WrittenIs
<1>3. AreAll(s, q, b) /\ HearsOK(s, q, b, items, announced) /\ (Having(s, b) => Having(s, a))
  BY <1>1, DoneHears
<1>4. GoesOn(r, q) /\ BringsTheSame(t, r, s, q)
  <2>1. CASE s.queued
    <3>1. t.request = Pending(s) /\ Pending(t) = NoRequest
      BY <1>1, <2>1, WrittenGives
    <3>2. r = IF IsWriting(t) THEN Append(q, UpdateItems(t.request)) ELSE q
      OBVIOUS
    <3> HIDE DEF t
    <3> QED
      BY ONLY <1>1, <1>2, <3>1, <3>2, FlushedGives
  <2>2. CASE ~s.queued
    <3>1. t.request = NoRequest /\ Pending(t) = Pending(s)
      BY <1>1, <2>2, WrittenGives
    <3>2. r = q
      BY <3>1 DEF IsWriting
    <3> QED
      BY <3>1, <3>2 DEF GoesOn, BringsTheSame
  <2> QED
    BY <2>1, <2>2
<1> HIDE DEF t, b
<1>5. AreAll(t, r, b) /\ HearsOK(t, r, b, items, announced) /\ (Having(t, b) <=> Having(s, b))
  BY <1>2, <1>3, <1>4, SilentHears
<1> QED
  BY <1>3, <1>5 DEF t, b

\* The items that a window loads are those of the main process, or followed by them.
LEMMA LoadedHears ==
    ASSUME NEW s, NEW q, NEW a, NEW items, NEW announced,
           WindowOK(s, q, a), a # <<>>, Head(a).type = "items",
           AreAll(s, q, a), HearsOK(s, q, a, items, announced)
    PROVE  /\ AreAll(Load(s, Head(a).items), q, Tail(a))
           /\ HearsOK(Load(s, Head(a).items), q, Tail(a), items, announced)
           /\ Having(s, a)
<1> DEFINE h == Head(a)
           b == Tail(a)
           t == Load(s, h.items)
<1>1. /\ s \in Storages /\ a \in Seq(Messages) /\ q = <<>> /\ ~HasAnswer(b) /\ h.items \in Items
  <2>1. IsAnswer(h)
    BY DEF IsAnswer
  <2>2. s \in Storages /\ q = <<>> /\ ~HasAnswer(b) /\ h \in Messages
    BY <2>1, ReceivedOK
  <2> QED
    BY <2>2 DEF WindowOK, Messages
<1>2. s.state = "loading" /\ h.keys = Keys
  <2>1. 1 \in DOMAIN a /\ h = a[1]
    BY <1>1
  <2> QED
    BY <2>1 DEF AreAll
<1>3. Having(s, a)
  BY <1>1, <1>2, TailTells DEF Having
<1>4. t.cache = h.items
  BY <1>1, LoadIs
<1> HIDE DEF t
<1>5. AreAll(t, q, b)
  BY <1>1 DEF AreAll, HasAnswer, IsAnswer
<1>6. ASSUME NEW k \in Keys, Shows(s, q, a, k, items[k]) PROVE Shows(t, q, b, k, items[k])
  <2>1. ~TellsNothing(a, k)
    BY <1>1, <1>2, TailTells
  <2>2. TellsLast(a, k, items[k])
    BY <1>6, <2>1 DEF Shows
  <2>3. (h.items[k] = items[k] /\ TellsNothing(b, k)) \/ TellsLast(b, k, items[k])
    BY <1>1, <2>2, TailTells
  <2> QED
    BY <1>4, <2>3 DEF Shows
<1> QED
  BY <1>3, <1>5, <1>6 DEF HearsOK, t, h, b

\* A change that is accepted is shown.
LEMMA AcceptedHears ==
    ASSUME NEW s, NEW q, NEW a, NEW items, NEW announced,
           WindowOK(s, q, a), a # <<>>, Head(a).type = "changed",
           AreAll(s, q, a), HearsOK(s, q, a, items, announced)
    PROVE  /\ AreAll(AcceptExternal(s, Head(a).keys, Head(a).items), q, Tail(a))
           /\ HearsOK(AcceptExternal(s, Head(a).keys, Head(a).items), q, Tail(a), items, announced)
           /\ Having(AcceptExternal(s, Head(a).keys, Head(a).items), Tail(a)) => Having(s, a)
<1> DEFINE h == Head(a)
           b == Tail(a)
           t == AcceptExternal(s, h.keys, h.items)
<1>1. s \in Storages /\ a \in Seq(Messages) /\ h.keys \in SUBSET Keys /\ h.items \in Items
  BY ReceivedOK DEF WindowOK, Messages
<1>2. /\ t.state = s.state /\ Pending(t) = Pending(s)
      /\ s.state # "closed" =>
             \A k \in Keys : t.cache[k] = IF k \in h.keys THEN h.items[k] ELSE s.cache[k]
  <2> DEFINE cache == [k \in Keys |-> IF k \in h.keys THEN h.items[k] ELSE s.cache[k]]
  <2>1. t = IF s.state = "closed" THEN s ELSE [s EXCEPT !.cache = cache]
    BY <1>1 DEF AcceptExternal, Storages
  <2>2. \A k \in Keys : cache[k] = IF k \in h.keys THEN h.items[k] ELSE s.cache[k]
    OBVIOUS
  <2> HIDE DEF cache, t, h
  <2>3. /\ t.state = s.state /\ Pending(t) = Pending(s)
        /\ s.state # "closed" => t.cache = cache
    BY <1>1, <2>1 DEF Storages, Pending
  <2> QED
    BY <2>2, <2>3
<1> HIDE DEF t
<1>3. AreAll(t, q, b)
  <2>1. \A i \in DOMAIN b : i + 1 \in DOMAIN a /\ b[i] = a[i + 1]
    BY <1>1
  <2> QED
    BY <1>2, <2>1 DEF AreAll
<1>4. Having(t, b) => Having(s, a)
  BY <1>1, <1>2, TailTells DEF Having
<1>5. ASSUME Having(t, b), NEW k \in Keys, Shows(s, q, a, k, items[k])
      PROVE  Shows(t, q, b, k, items[k])
  <2>1. t.cache[k] = IF k \in h.keys THEN h.items[k] ELSE s.cache[k]
    BY <1>2, <1>5 DEF Having
  <2>2. CASE TellsLast(a, k, items[k])
    <3>1. (k \in h.keys /\ h.items[k] = items[k] /\ TellsNothing(b, k)) \/ TellsLast(b, k, items[k])
      BY <1>1, <2>2, TailTells
    <3> QED
      BY <2>1, <3>1 DEF Shows
  <2>3. CASE ~TellsLast(a, k, items[k])
    <3>1. k \notin h.keys /\ TellsNothing(b, k)
      BY <1>1, <1>5, <2>3, TailTells DEF Shows
    <3> QED
      BY <1>2, <1>5, <2>1, <2>3, <3>1 DEF Shows
  <2> QED
    BY <2>2, <2>3
<1> QED
  BY <1>3, <1>4, <1>5 DEF HearsOK, t, h, b

\* What a window changes will be brought to the main process.
LEMMA ChangedHears ==
    ASSUME NEW s, NEW q, NEW a, NEW items, NEW announced, NEW mine \in Items,
           WindowOK(s, q, a), s.state \in {"ready", "closed"},
           AreAll(s, q, a), HearsOK(s, q, a, items, announced)
    PROVE  /\ AreAll(Update(s, mine), q, a) /\ HearsOK(Update(s, mine), q, a, items, announced)
           /\ Having(Update(s, mine), a) <=> Having(s, a)
<1> DEFINE t == Update(s, mine)
<1>1. s \in Storages
  BY DEF WindowOK
<1>2. t.state = s.state
  BY <1>1, UpdateIs
<1>3. AreAll(t, q, a) /\ (Having(t, a) <=> Having(s, a))
  BY <1>2 DEF AreAll, Having
<1>4. ASSUME Having(t, a), NEW k \in Keys, Shows(s, q, a, k, items[k])
      PROVE  Shows(t, q, a, k, items[k])
  <2>1. s.state # "closed"
    BY <1>2, <1>4 DEF Having
  <2>2. /\ t.cache[k] = mine[k]
        /\ \/ mine[k] = s.cache[k] /\ \A v : Given(Pending(t), k, v) = Given(Pending(s), k, v)
           \/ \A v : Given(Pending(t), k, v) = mine[k]
    BY <1>1, <2>1, UpdateGives
  <2> HIDE DEF t
  <2> QED
    BY <1>4, <2>2 DEF Shows
<1> QED
  BY <1>3, <1>4 DEF HearsOK

\* The main process takes an update: what it brought is there.
LEMMA TakenHears ==
    ASSUME NEW s, NEW q, NEW a, NEW items, NEW others, NEW announced, NEW more,
           WindowOK(s, q, a), q # <<>>, AreAll(s, q, a), HearsOK(s, q, a, items, announced),
           BecomesOf(others, Head(q).request, items), Announces(more, announced, others, items)
    PROVE  /\ AreAll(s, Tail(q), Append(a, Done))
           /\ HearsOK(s, Tail(q), Append(a, Done), others, more)
           /\ Having(s, Append(a, Done)) => Having(s, a)
<1> DEFINE b == Append(a, Done)
<1>1. s \in Storages /\ a \in Seq(Messages) /\ Tail(q) = <<>> /\ Done \in Messages
  BY RequestIs, MessagesAre DEF WindowOK
<1>2. Done.keys = {} /\ Done.type = "done"
  BY DEF Done
<1>3. Having(s, b) => Having(s, a)
  BY <1>1, <1>2, AppendTells DEF Having
<1>4. AreAll(s, Tail(q), b)
  <2>1. \A i \in DOMAIN b : b[i] = Done \/ (i \in DOMAIN a /\ b[i] = a[i])
    BY <1>1
  <2> HIDE DEF b
  <2> QED
    BY <1>1, <1>2, <2>1 DEF AreAll
<1>5. ASSUME NEW k \in Keys, k \notin more, Shows(s, q, a, k, items[k])
      PROVE  Shows(s, Tail(q), b, k, others[k])
  <2>1. /\ TellsNothing(a, k) => TellsNothing(b, k)
        /\ \A v : TellsLast(a, k, v) => TellsLast(b, k, v)
    BY <1>1, <1>2, AppendTells
  <2>2. others[k] = items[k] /\ others[k] = Given(OnItsWay(q), k, items[k])
    BY <1>5 DEF OnItsWay, BecomesOf, Announces
  <2>3. Given(OnItsWay(Tail(q)), k, others[k]) = others[k]
    BY <1>1, GivenNothing DEF OnItsWay
  <2> QED
    BY <1>5, <2>1, <2>2, <2>3 DEF Shows
<1> QED
  BY <1>3, <1>4, <1>5 DEF HearsOK, Announces, b

\* The items that a window is answered are the last word of every key.
LEMMA AnsweredHears ==
    ASSUME NEW s, NEW q, NEW a, NEW items \in Items, NEW announced,
           WindowOK(s, q, a), q # <<>>, Head(q).type = "getItems", AreAll(s, q, a)
    PROVE  /\ AreAll(s, Tail(q), Append(a, Answer(items)))
           /\ HearsOK(s, Tail(q), Append(a, Answer(items)), items, announced)
<1> DEFINE m == Answer(items)
           b == Append(a, m)
<1>1. a \in Seq(Messages) /\ Tail(q) = <<>> /\ m \in Messages /\ s.state = "loading"
  BY RequestIs, MessagesAre DEF WindowOK, AreAll
<1>2. m.keys = Keys /\ m.type = "items" /\ m.items = items
  BY DEF Answer
<1> HIDE DEF m
<1>3. AreAll(s, Tail(q), b)
  <2>1. \A i \in DOMAIN b : b[i] = m \/ (i \in DOMAIN a /\ b[i] = a[i])
    BY <1>1
  <2> HIDE DEF b
  <2> QED
    BY <1>1, <1>2, <2>1 DEF AreAll
<1>4. \A k \in Keys : Shows(s, Tail(q), b, k, items[k])
  BY <1>1, <1>2, AppendTells DEF Shows
<1> QED
  BY <1>3, <1>4 DEF HearsOK, m, b

\* What is announced is the last word; the rest is as it was.
LEMMA AnnouncedHears ==
    ASSUME NEW s, NEW q, NEW a, NEW items \in Items, NEW announced \in SUBSET Keys,
           WindowOK(s, q, a), AreAll(s, q, a), HearsOK(s, q, a, items, announced)
    PROVE  /\ AreAll(s, q, Append(a, ItemsChanged(announced, items)))
           /\ HearsOK(s, q, Append(a, ItemsChanged(announced, items)), items, {})
           /\ Having(s, Append(a, ItemsChanged(announced, items))) => Having(s, a)
<1> DEFINE m == ItemsChanged(announced, items)
           b == Append(a, m)
<1>1. a \in Seq(Messages) /\ m \in Messages
  BY MessagesAre DEF WindowOK
<1>2. m.keys = announced /\ m.type = "changed" /\ m.items = items
  BY DEF ItemsChanged
<1> HIDE DEF m
<1>3. Having(s, b) => Having(s, a)
  BY <1>1, <1>2, AppendTells DEF Having
<1>4. AreAll(s, q, b)
  <2>1. \A i \in DOMAIN b : b[i] = m \/ (i \in DOMAIN a /\ b[i] = a[i])
    BY <1>1
  <2> HIDE DEF b
  <2> QED
    BY <1>2, <2>1 DEF AreAll
<1>5. ASSUME NEW k \in Keys, k \in announced \/ Shows(s, q, a, k, items[k])
      PROVE  Shows(s, q, b, k, items[k])
  BY <1>1, <1>2, <1>5, AppendTells DEF Shows
<1> QED
  BY <1>3, <1>4, <1>5 DEF HearsOK, m, b

-----------------------------------------------------------------------------
(* What the windows rely on.                                               *)

Away == {"down"} \cup Closing

LEMMA NewsIs ==
    ASSUME IInv
    PROVE  NewsComes <=>
             /\ phase \in Away => \A w \in Windows : store[w].state = "none"
             /\ \A w \in Windows :
                  /\ AreAll(store[w], toMain[w], toWindow[w])
                  /\ Having(store[w], toWindow[w]) => phase = "ready"
                  /\ HearsOK(store[w], toMain[w], toWindow[w], main.cache, changed)
<1>1. MainInv /\ WindowsInv
  BY InvariantIs
<1>2. main.cache \in Items
  BY <1>1, StorageIs DEF MainInv, MainTypeOK
<1>3. ASSUME NEW w \in Windows
      PROVE  /\ HasItems(w) <=> Having(store[w], toWindow[w])
             /\ ItemsAreAll(w) <=> AreAll(store[w], toMain[w], toWindow[w])
             /\ (HasItems(w) => \A k \in Keys : ShowsOrHears(w, k)) <=>
                    HearsOK(store[w], toMain[w], toWindow[w], main.cache, changed)
  <2>1. WindowOK(store[w], toMain[w], toWindow[w])
    BY <1>1 DEF WindowsInv
  <2> QED
    BY <1>2, <2>1, HearsIs
<1>4. ToOpen = {} <=> \A w \in Windows : store[w].state = "none"
  BY DEF ToOpen, IsOpen
<1> QED
  BY <1>3, <1>4 DEF NewsComes, Away

LEMMA NewsPrimed ==
    ASSUME IInv',
           phase' \in Away => \A w \in Windows : store'[w].state = "none",
           \A w \in Windows :
                  /\ AreAll(store'[w], toMain'[w], toWindow'[w])
                  /\ Having(store'[w], toWindow'[w]) => phase' = "ready"
                  /\ HearsOK(store'[w], toMain'[w], toWindow'[w], main'.cache, changed')
    PROVE  NewsComes'
<1>1. main'.cache \in Items
  BY StorageIs DEF IInv, TypeOK, MainTypeOK
<1>2. ASSUME NEW w \in Windows
      PROVE  /\ HasItems(w)' <=> Having(store'[w], toWindow'[w])
             /\ ItemsAreAll(w)' <=> AreAll(store'[w], toMain'[w], toWindow'[w])
             /\ (HasItems(w)' => \A k \in Keys : ShowsOrHears(w, k)') <=>
                    HearsOK(store'[w], toMain'[w], toWindow'[w], main'.cache, changed')
  <2>1. WindowOK(store'[w], toMain'[w], toWindow'[w])
    <3>1. /\ store'[w] \in Storages /\ toMain'[w] \in Seq(Asked) /\ Len(toMain'[w]) <= 1
          /\ toWindow'[w] \in Seq(Messages) /\ IsScheduled(store'[w]) /\ OneRequest(w)'
      BY DEF IInv, TypeOK
    <3> QED
      BY <3>1, StorageIs DEF WindowOK, OneRequest, OneAnswer, HasAnswer
  <2> QED
    BY <1>1, <2>1, HearsPrimed
<1>3. ToOpen' = {} <=> \A w \in Windows : store'[w].state = "none"
  BY DEF ToOpen, IsOpen
<1> QED
  BY <1>2, <1>3 DEF NewsComes, Away

LEMMA WindowNewsIs ==
    ASSUME IInv, NewsComes, NEW w \in Windows
    PROVE  /\ WindowOK(store[w], toMain[w], toWindow[w])
           /\ AreAll(store[w], toMain[w], toWindow[w])
           /\ Having(store[w], toWindow[w]) => phase = "ready"
           /\ HearsOK(store[w], toMain[w], toWindow[w], main.cache, changed)
           /\ store[w].state # "none" => phase \notin Away
           /\ store = [store EXCEPT ![w] = store[w]]
           /\ toMain = [toMain EXCEPT ![w] = toMain[w]]
           /\ toWindow = [toWindow EXCEPT ![w] = toWindow[w]]
           /\ main.cache \in Items
<1>1. MainInv /\ WindowsInv
  BY InvariantIs
<1>2. main.cache \in Items
  BY <1>1, StorageIs DEF MainInv, MainTypeOK
<1> QED
  BY <1>1, <1>2, NewsIs, WindowIs

\* A step of one window, and of what the main process has of other keys than those to
\* be announced.
LEMMA NewsStep ==
    ASSUME IInv, IInv', NewsComes, NEW w \in Windows, NEW s, NEW q, NEW a,
           store' = [store EXCEPT ![w] = s],
           toMain' = [toMain EXCEPT ![w] = q],
           toWindow' = [toWindow EXCEPT ![w] = a],
           phase' = phase, s.state # "none" => phase \notin Away,
           changed \subseteq changed',
           \A k \in Keys : k \notin changed' => main'.cache[k] = main.cache[k],
           AreAll(s, q, a), Having(s, a) => phase = "ready",
           HearsOK(s, q, a, main'.cache, changed')
    PROVE  NewsComes'
<1>1. WindowsInv
  BY InvariantIs
<1>2. /\ store'[w] = s /\ toMain'[w] = q /\ toWindow'[w] = a
      /\ \A v \in Windows : v # w => /\ store'[v] = store[v] /\ toMain'[v] = toMain[v]
                                     /\ toWindow'[v] = toWindow[v]
  BY <1>1 DEF WindowsInv
<1>3. /\ phase \in Away => \A v \in Windows : store[v].state = "none"
      /\ \A v \in Windows :
           /\ AreAll(store[v], toMain[v], toWindow[v])
           /\ Having(store[v], toWindow[v]) => phase = "ready"
           /\ HearsOK(store[v], toMain[v], toWindow[v], main.cache, changed)
  BY NewsIs
<1>4. ASSUME NEW v \in Windows
      PROVE  /\ AreAll(store'[v], toMain'[v], toWindow'[v])
             /\ Having(store'[v], toWindow'[v]) => phase' = "ready"
             /\ HearsOK(store'[v], toMain'[v], toWindow'[v], main'.cache, changed')
  <2>1. CASE v = w
    BY <1>2, <2>1
  <2>2. CASE v # w
    <3>1. HearsOK(store[v], toMain[v], toWindow[v], main'.cache, changed')
      <4>1. HearsOK(store[v], toMain[v], toWindow[v], main.cache, changed)
        BY <1>3
      <4> QED
        BY <4>1 DEF HearsOK, Shows
    <3> QED
      BY <1>2, <1>3, <2>2, <3>1
  <2> QED
    BY <2>1, <2>2
<1>5. phase' \in Away => \A v \in Windows : store'[v].state = "none"
  BY <1>2, <1>3
<1> QED
  BY <1>4, <1>5, NewsPrimed

\* A step of the main process, while windows are served or none is open.
LEMMA MainNews ==
    ASSUME IInv, IInv', NewsComes, UNCHANGED <<store, toMain, toWindow>>,
           \/ phase' = phase /\ main'.cache = main.cache /\ changed' = changed
           \/ phase # "ready" /\ (phase' \in Away => phase \in Away)
           \/ \A w \in Windows : store[w].state = "none"
    PROVE  NewsComes'
<1>1. /\ phase \in Away => \A v \in Windows : store[v].state = "none"
      /\ \A v \in Windows :
           /\ AreAll(store[v], toMain[v], toWindow[v])
           /\ Having(store[v], toWindow[v]) => phase = "ready"
           /\ HearsOK(store[v], toMain[v], toWindow[v], main.cache, changed)
  BY NewsIs
<1>2. CASE phase' = phase /\ main'.cache = main.cache /\ changed' = changed
  BY <1>1, <1>2, NewsPrimed
<1>3. CASE phase # "ready" /\ (phase' \in Away => phase \in Away)
  <2>1. \A v \in Windows : ~Having(store[v], toWindow[v])
    BY <1>1, <1>3
  <2> QED
    BY <1>1, <1>3, <2>1, NewsPrimed DEF HearsOK
<1>4. CASE \A w \in Windows : store[w].state = "none"
  <2>1. \A v \in Windows : ~Having(store[v], toWindow[v])
    BY <1>4 DEF Having
  <2> QED
    BY <1>1, <1>4, <2>1, NewsPrimed DEF HearsOK
<1> QED
  BY <1>2, <1>3, <1>4

LEMMA MainRunsNews ==
    ASSUME IInv, IInv', NewsComes, MainRuns \/ MainStarts \/ Shutdown \/ Damage \/ Ended
    PROVE  NewsComes'
<1>1. main \in Storages
  BY DEF IInv, TypeOK, MainTypeOK
<1>2. UNCHANGED <<store, toMain, toWindow>>
  BY DEF MainRuns, MainStarts, Shutdown, Damage, Ended, windowVars
<1>3. CASE MainRuns
  <2>1. changed' = changed
    BY <1>3 DEF MainRuns, windowVars
  <2>2. CASE Open \/ DeleteBroken \/ RestoreBackup \/ Reopen \/ LoadItems
    <3>1. phase # "ready" /\ phase' \notin Away
      BY <2>2 DEF Open, DeleteBroken, RestoreBackup, Reopen, LoadItems, Goes, FallBack, Away, Closing
    <3> QED
      BY <1>2, <3>1, MainNews
  <2>3. CASE MainElapses
    <3>1. phase' = phase /\ main'.cache = main.cache
      BY <1>1, <2>3, ElapseIs DEF MainElapses
    <3> QED
      BY <1>2, <2>1, <3>1, MainNews
  <2>4. CASE MainWrites
    <3>1. phase' = phase /\ main'.cache = main.cache
      BY <1>1, <2>4, WrittenIs, FailedIs DEF MainWrites
    <3> QED
      BY <1>2, <2>1, <3>1, MainNews
  <2>5. CASE Flushed \/ CloseConnection \/ Unlink \/ Recreate \/ Rewrite \/ Finish
    <3>1. phase # "ready" /\ phase \in Away
      BY <2>5 DEF Flushed, CloseConnection, Unlink, Recreate, Rewrite, Finish, Goes, Away, Closing
    <3> QED
      BY <1>2, <3>1, MainNews
  <2> QED
    BY <1>3, <2>2, <2>3, <2>4, <2>5 DEF MainRuns
<1>4. CASE MainStarts
  <2>1. phase # "ready" /\ phase' \notin Away
    BY <1>4 DEF MainStarts, Start, Goes, Away, Closing
  <2> QED
    BY <1>2, <2>1, MainNews
<1>5. CASE Shutdown
  <2>1. \A w \in Windows : store[w].state = "none"
    BY <1>5 DEF Shutdown, ToOpen, IsOpen
  <2> QED
    BY <1>2, <2>1, MainNews
<1>6. CASE Damage
  <2>1. phase' = phase /\ main'.cache = main.cache /\ changed' = changed
    BY <1>6 DEF Damage, FileRots, windowVars
  <2> QED
    BY <1>2, <2>1, MainNews
<1>7. CASE Ended
  <2>1. phase # "ready" /\ phase \in Away
    BY <1>7 DEF Ended, MainIsEnded, Goes, Away, Closing
  <2> QED
    BY <1>2, <2>1, MainNews
<1> QED
  BY <1>3, <1>4, <1>5, <1>6, <1>7

LEMMA CrashNews ==
    ASSUME IInv', Crash PROVE NewsComes'
<1>1. \A w \in Windows : store'[w] = NewStorage /\ toMain'[w] = <<>> /\ toWindow'[w] = <<>>
  BY DEF Crash
<1>2. ~Having(NewStorage, <<>>) /\ AreAll(NewStorage, <<>>, <<>>) /\ NewStorage.state = "none"
  BY NewStorageIs DEF Having, AreAll
<1> QED
  BY <1>1, <1>2, NewsPrimed DEF HearsOK

LEMMA BroadcastNews ==
    ASSUME IInv, IInv', NewsComes, Broadcast PROVE NewsComes'
<1> DEFINE m == ItemsChanged(changed, main.cache)
<1>1. /\ UNCHANGED <<store, toMain, phase, main>> /\ changed' = {}
      /\ toWindow' = [w \in Windows |-> IF IsOpen(w) THEN Append(toWindow[w], m) ELSE toWindow[w]]
  BY DEF Broadcast, mainVars
<1>2. changed \in SUBSET Keys
  BY DEF IInv, TypeOK
<1>3. phase \in Away => \A w \in Windows : store[w].state = "none"
  BY NewsIs
<1>4. ASSUME NEW w \in Windows
      PROVE  /\ AreAll(store[w], toMain[w], toWindow'[w])
             /\ Having(store[w], toWindow'[w]) => phase = "ready"
             /\ HearsOK(store[w], toMain[w], toWindow'[w], main.cache, {})
  <2>1. /\ WindowOK(store[w], toMain[w], toWindow[w]) /\ AreAll(store[w], toMain[w], toWindow[w])
        /\ Having(store[w], toWindow[w]) => phase = "ready"
        /\ HearsOK(store[w], toMain[w], toWindow[w], main.cache, changed)
        /\ main.cache \in Items
    BY WindowNewsIs
  <2>2. CASE IsOpen(w)
    <3>1. toWindow'[w] = Append(toWindow[w], m)
      BY <1>1, <2>2
    <3>2. /\ AreAll(store[w], toMain[w], Append(toWindow[w], m))
          /\ HearsOK(store[w], toMain[w], Append(toWindow[w], m), main.cache, {})
          /\ Having(store[w], Append(toWindow[w], m)) => Having(store[w], toWindow[w])
      BY ONLY <1>2, <2>1, AnnouncedHears
    <3> HIDE DEF m
    <3> QED
      BY <2>1, <3>1, <3>2
  <2>3. CASE ~IsOpen(w)
    <3>1. toWindow'[w] = toWindow[w] /\ ~Having(store[w], toWindow[w])
      BY <1>1, <2>3 DEF IsOpen, Having
    <3> QED
      BY <2>1, <3>1 DEF HearsOK
  <2> QED
    BY <2>2, <2>3
<1> HIDE DEF m
<1> QED
  BY <1>1, <1>3, <1>4, NewsPrimed

LEMMA OpenNews ==
    ASSUME IInv, IInv', NewsComes, NEW w \in Windows, OpenWindow(w) PROVE NewsComes'
<1> DEFINE s == [NewStorage EXCEPT !.state = "loading"]
           q == Append(toMain[w], GetItems)
<1>1. /\ store' = [store EXCEPT ![w] = s] /\ toMain' = [toMain EXCEPT ![w] = q]
      /\ UNCHANGED <<main, phase, toWindow, changed>> /\ store[w].state = "none"
      /\ phase \notin Away
  BY DEF OpenWindow, Keeps, Ask, mainVars, IsOpen, AcceptsWindows, Away, Closing
<1>2. s.state = "loading"
  BY NewStorageIs DEF Storages
<1>3. toWindow[w] = <<>> /\ toWindow' = [toWindow EXCEPT ![w] = <<>>]
  BY <1>1, WindowNewsIs DEF WindowOK
<1> HIDE DEF s, q
<1>4. AreAll(s, q, <<>>) /\ ~Having(s, <<>>)
  BY <1>2 DEF AreAll, Having
<1> QED
  BY <1>1, <1>3, <1>4, NewsStep DEF HearsOK

LEMMA ChangesNews ==
    ASSUME IInv, IInv', NewsComes, NEW w \in Windows, NEW k \in Keys, NEW v \in Values \cup {NoItem},
           WindowChanges(w, k, v)
    PROVE  NewsComes'
<1> DEFINE mine == [store[w].cache EXCEPT ![k] = v]
           s == Update(store[w], mine)
<1>1. /\ store' = [store EXCEPT ![w] = s] /\ UNCHANGED <<main, phase, toMain, toWindow, changed>>
      /\ store[w].state \in {"ready", "closed"}
  BY DEF WindowChanges, Keeps, mainVars
<1>2. /\ WindowOK(store[w], toMain[w], toWindow[w]) /\ AreAll(store[w], toMain[w], toWindow[w])
      /\ Having(store[w], toWindow[w]) => phase = "ready"
      /\ HearsOK(store[w], toMain[w], toWindow[w], main.cache, changed)
      /\ store[w].state # "none" => phase \notin Away
      /\ toMain = [toMain EXCEPT ![w] = toMain[w]]
      /\ toWindow = [toWindow EXCEPT ![w] = toWindow[w]]
  BY WindowNewsIs
<1>3. mine \in Items
  BY <1>2, StorageIs DEF WindowOK, Items
<1> HIDE DEF mine
<1>4. /\ AreAll(s, toMain[w], toWindow[w]) /\ HearsOK(s, toMain[w], toWindow[w], main.cache, changed)
      /\ Having(s, toWindow[w]) <=> Having(store[w], toWindow[w])
  BY ONLY <1>1, <1>2, <1>3, ChangedHears
<1> HIDE DEF s
<1> QED
  BY <1>1, <1>2, <1>4, NewsStep

LEMMA ElapsesNews ==
    ASSUME IInv, IInv', NewsComes, NEW w \in Windows, WindowElapses(w) PROVE NewsComes'
<1> DEFINE s == Elapse(store[w])
           q == IF s.queued \/ ~IsWriting(s) THEN toMain[w]
                ELSE Append(toMain[w], UpdateItems(s.request))
<1>1. /\ WindowOK(store[w], toMain[w], toWindow[w]) /\ AreAll(store[w], toMain[w], toWindow[w])
      /\ Having(store[w], toWindow[w]) => phase = "ready"
      /\ HearsOK(store[w], toMain[w], toWindow[w], main.cache, changed)
      /\ store[w].state # "none" => phase \notin Away
      /\ toMain = [toMain EXCEPT ![w] = toMain[w]]
      /\ toWindow = [toWindow EXCEPT ![w] = toWindow[w]]
  BY WindowNewsIs
<1>2. /\ store' = [store EXCEPT ![w] = s] /\ UNCHANGED <<main, phase, toWindow, changed>>
      /\ store[w].timer
  BY DEF WindowElapses, Keeps, mainVars
<1>3. toMain' = [toMain EXCEPT ![w] = q]
  <2>1. IF s.queued \/ ~IsWriting(s) THEN UNCHANGED toMain
        ELSE toMain' = [toMain EXCEPT ![w] = Append(toMain[w], UpdateItems(s.request))]
    BY DEF WindowElapses, Sends, Ask
  <2> HIDE DEF s
  <2> QED
    BY <1>1, <2>1
<1>4. store[w].state # "none"
  BY <1>1, <1>2 DEF WindowOK
<1>5. q = AskedOf(store[w], toMain[w])
  BY DEF AskedOf
<1>6. s = Elapse(store[w])
  OBVIOUS
<1> HIDE DEF s, q
<1>7. /\ AreAll(Elapse(store[w]), AskedOf(store[w], toMain[w]), toWindow[w])
      /\ HearsOK(Elapse(store[w]), AskedOf(store[w], toMain[w]), toWindow[w], main.cache, changed)
      /\ Having(Elapse(store[w]), toWindow[w]) <=> Having(store[w], toWindow[w])
  BY ONLY <1>1, <1>2, ElapsedHears
<1>8. /\ AreAll(s, q, toWindow[w]) /\ HearsOK(s, q, toWindow[w], main.cache, changed)
      /\ Having(s, toWindow[w]) <=> Having(store[w], toWindow[w])
  BY ONLY <1>5, <1>6, <1>7
<1> QED
  BY <1>1, <1>2, <1>3, <1>4, <1>8, NewsStep

LEMMA WrittenNews ==
    ASSUME IInv, IInv', NewsComes, NEW w \in Windows, WindowWritten(w) PROVE NewsComes'
<1> DEFINE s == Written(store[w])
           q == IF IsWriting(s) THEN Append(toMain[w], UpdateItems(s.request)) ELSE toMain[w]
           a == Tail(toWindow[w])
<1>1. /\ WindowOK(store[w], toMain[w], toWindow[w]) /\ AreAll(store[w], toMain[w], toWindow[w])
      /\ Having(store[w], toWindow[w]) => phase = "ready"
      /\ HearsOK(store[w], toMain[w], toWindow[w], main.cache, changed)
      /\ store[w].state # "none" => phase \notin Away
      /\ toMain = [toMain EXCEPT ![w] = toMain[w]]
  BY WindowNewsIs
<1>2. /\ store' = [store EXCEPT ![w] = s] /\ toWindow' = [toWindow EXCEPT ![w] = a]
      /\ UNCHANGED <<main, phase, changed>> /\ toWindow[w] # <<>> /\ Head(toWindow[w]).type = "done"
  BY DEF WindowWritten, Keeps, Received, mainVars
<1>3. toMain' = [toMain EXCEPT ![w] = q]
  <2>1. IF IsWriting(s) THEN toMain' = [toMain EXCEPT ![w] = Append(toMain[w], UpdateItems(s.request))]
        ELSE UNCHANGED toMain
    BY DEF WindowWritten, Sends, Ask
  <2> HIDE DEF s
  <2> QED
    BY <1>1, <2>1
<1>4. store[w].state # "none"
  BY <1>1, <1>2 DEF WindowOK
<1>5. /\ AreAll(s, q, a) /\ HearsOK(s, q, a, main.cache, changed)
      /\ Having(s, a) => Having(store[w], toWindow[w])
  BY ONLY <1>1, <1>2, WrittenHears
<1> HIDE DEF s, q, a
<1> QED
  BY <1>1, <1>2, <1>3, <1>4, <1>5, NewsStep

LEMMA ReceivesNews ==
    ASSUME IInv, IInv', NewsComes, NEW w \in Windows, WindowLoads(w) \/ WindowAccepts(w)
    PROVE  NewsComes'
<1> DEFINE h == Head(toWindow[w])
           a == Tail(toWindow[w])
           s == store'[w]
<1>1. /\ WindowOK(store[w], toMain[w], toWindow[w]) /\ AreAll(store[w], toMain[w], toWindow[w])
      /\ Having(store[w], toWindow[w]) => phase = "ready"
      /\ HearsOK(store[w], toMain[w], toWindow[w], main.cache, changed)
      /\ store[w].state # "none" => phase \notin Away
      /\ toMain = [toMain EXCEPT ![w] = toMain[w]]
      /\ store \in [Windows -> Storages]
  BY WindowNewsIs, InvariantIs DEF WindowsInv
<1>2. /\ toWindow' = [toWindow EXCEPT ![w] = a] /\ toWindow[w] # <<>>
      /\ UNCHANGED <<main, phase, toMain, changed>>
      /\ \/ h.type = "items" /\ store' = [store EXCEPT ![w] = Load(store[w], h.items)]
         \/ h.type = "changed" /\ store' = [store EXCEPT ![w] = AcceptExternal(store[w], h.keys, h.items)]
  BY DEF WindowLoads, WindowAccepts, Keeps, Received, mainVars
<1>3. store[w].state # "none"
  BY <1>1, <1>2 DEF WindowOK
<1>4. /\ store' = [store EXCEPT ![w] = s]
      /\ AreAll(s, toMain[w], a) /\ HearsOK(s, toMain[w], a, main.cache, changed)
      /\ Having(s, a) => Having(store[w], toWindow[w])
  <2>1. CASE h.type = "items" /\ store' = [store EXCEPT ![w] = Load(store[w], h.items)]
    <3> DEFINE t == Load(store[w], h.items)
    <3>1. AreAll(t, toMain[w], a) /\ HearsOK(t, toMain[w], a, main.cache, changed)
          /\ Having(store[w], toWindow[w])
      BY ONLY <1>1, <1>2, <2>1, LoadedHears
    <3>2. store' = [store EXCEPT ![w] = t]
      BY <2>1
    <3> HIDE DEF t, h, a
    <3>3. s = t
      BY <1>1, <3>2
    <3> HIDE DEF s
    <3> QED
      BY <3>1, <3>2, <3>3
  <2>2. CASE h.type = "changed" /\ store' = [store EXCEPT ![w] = AcceptExternal(store[w], h.keys, h.items)]
    <3> DEFINE t == AcceptExternal(store[w], h.keys, h.items)
    <3>1. AreAll(t, toMain[w], a) /\ HearsOK(t, toMain[w], a, main.cache, changed)
          /\ (Having(t, a) => Having(store[w], toWindow[w]))
      BY ONLY <1>1, <1>2, <2>2, AcceptedHears
    <3>2. store' = [store EXCEPT ![w] = t]
      BY <2>2
    <3> HIDE DEF t, h, a
    <3>3. s = t
      BY <1>1, <3>2
    <3> HIDE DEF s
    <3> QED
      BY <3>1, <3>2, <3>3
  <2> QED
    BY <1>2, <2>1, <2>2
<1> HIDE DEF h, a, s
<1> QED
  BY <1>1, <1>2, <1>3, <1>4, NewsStep

LEMMA ClosesNews ==
    ASSUME IInv, IInv', NewsComes, NEW w \in Windows, WindowCloses(w) PROVE NewsComes'
<1> DEFINE s == Close(store[w])
<1>1. /\ WindowOK(store[w], toMain[w], toWindow[w]) /\ AreAll(store[w], toMain[w], toWindow[w])
      /\ store[w].state # "none" => phase \notin Away
      /\ toMain = [toMain EXCEPT ![w] = toMain[w]]
      /\ toWindow = [toWindow EXCEPT ![w] = toWindow[w]]
  BY WindowNewsIs
<1>2. /\ store' = [store EXCEPT ![w] = s] /\ UNCHANGED <<main, phase, toMain, toWindow, changed>>
      /\ store[w].state = "ready"
  BY DEF WindowCloses, Keeps, mainVars
<1>3. s.state = "closed"
  BY <1>1, CloseIs DEF WindowOK
<1> HIDE DEF s
<1>4. AreAll(s, toMain[w], toWindow[w]) /\ ~Having(s, toWindow[w])
  BY <1>1, <1>2, <1>3 DEF AreAll, Having
<1> QED
  BY <1>1, <1>2, <1>4, NewsStep DEF HearsOK

LEMMA LeavesNews ==
    ASSUME IInv, IInv', NewsComes, NEW w \in Windows, Leaves(w) PROVE NewsComes'
<1>1. /\ store' = [store EXCEPT ![w] = NewStorage] /\ toMain' = [toMain EXCEPT ![w] = <<>>]
      /\ toWindow' = [toWindow EXCEPT ![w] = <<>>] /\ UNCHANGED <<main, phase, changed>>
  BY DEF Leaves, Keeps, mainVars
<1>2. ~Having(NewStorage, <<>>) /\ AreAll(NewStorage, <<>>, <<>>) /\ NewStorage.state = "none"
  BY NewStorageIs DEF Having, AreAll
<1> QED
  BY <1>1, <1>2, NewsStep DEF HearsOK

LEMMA AnswersNews ==
    ASSUME IInv, IInv', NewsComes, NEW w \in Windows, AnswerItems(w) PROVE NewsComes'
<1> DEFINE q == Tail(toMain[w])
           a == Append(toWindow[w], Answer(main.cache))
<1>1. /\ WindowOK(store[w], toMain[w], toWindow[w]) /\ AreAll(store[w], toMain[w], toWindow[w])
      /\ store[w].state # "none" => phase \notin Away
      /\ store = [store EXCEPT ![w] = store[w]] /\ main.cache \in Items
  BY WindowNewsIs
<1>2. /\ toMain' = [toMain EXCEPT ![w] = q] /\ toWindow' = [toWindow EXCEPT ![w] = a]
      /\ UNCHANGED <<main, phase, store, changed>>
      /\ toMain[w] # <<>> /\ Head(toMain[w]).type = "getItems" /\ phase \in {"ready"} \cup Away
  BY DEF AnswerItems, Requested, Tell, mainVars, Away, Closing
<1>3. store[w].state # "none"
  BY <1>1, <1>2 DEF WindowOK
<1>4. AreAll(store[w], q, a) /\ HearsOK(store[w], q, a, main.cache, changed)
  BY ONLY <1>1, <1>2, AnsweredHears
<1> HIDE DEF q, a
<1> QED
  BY <1>1, <1>2, <1>3, <1>4, NewsStep

LEMMA UpdatesNews ==
    ASSUME IInv, IInv', NewsComes, NEW w \in Windows, AcceptUpdate(w) PROVE NewsComes'
<1> DEFINE q == Tail(toMain[w])
           a == Append(toWindow[w], Done)
           request == Head(toMain[w]).request
           items == Applied(main.cache, request)
<1>1. /\ WindowOK(store[w], toMain[w], toWindow[w]) /\ AreAll(store[w], toMain[w], toWindow[w])
      /\ Having(store[w], toWindow[w]) => phase = "ready"
      /\ HearsOK(store[w], toMain[w], toWindow[w], main.cache, changed)
      /\ store[w].state # "none" => phase \notin Away
      /\ store = [store EXCEPT ![w] = store[w]] /\ main.cache \in Items
  BY WindowNewsIs
<1>2. /\ toMain' = [toMain EXCEPT ![w] = q] /\ toWindow' = [toWindow EXCEPT ![w] = a]
      /\ UNCHANGED <<phase, store>> /\ main' = Update(main, items)
      /\ changed' = changed \cup {k \in Keys : main'.cache[k] # main.cache[k]}
      /\ toMain[w] # <<>> /\ phase \in {"ready"} \cup Away
  BY DEF AcceptUpdate, Requested, Tell, Away, Closing
<1>3. store[w].state # "none" /\ phase = "ready"
  BY <1>1, <1>2 DEF WindowOK
<1>4. main \in Storages /\ main.state = "ready"
  BY <1>3 DEF IInv, TypeOK, MainTypeOK, MainFollows
<1>5. request \in Requests
  BY <1>1, <1>2, RequestIs DEF WindowOK, Asked
<1> HIDE DEF request
<1>6. items \in Items /\ \A k \in Keys : items[k] = Given(request, k, main.cache[k])
  BY <1>1, <1>5, AppliedIs DEF Given
<1> HIDE DEF items
<1> DEFINE others == main'.cache
           more == changed'
<1>7. BecomesOf(others, Head(toMain[w]).request, main.cache)
  BY <1>2, <1>4, <1>6, UpdateGives DEF request, BecomesOf
<1>8. Announces(more, changed, others, main.cache)
  BY <1>2 DEF Announces
<1> HIDE DEF others, more
<1>9. /\ AreAll(store[w], q, a) /\ HearsOK(store[w], q, a, others, more)
      /\ Having(store[w], a) => Having(store[w], toWindow[w])
  BY ONLY <1>1, <1>2, <1>7, <1>8, TakenHears
<1> HIDE DEF q, a
<1>10. HearsOK(store[w], q, a, main'.cache, changed')
  BY ONLY <1>9 DEF others, more
<1>11. \A k \in Keys : k \notin changed' => k \notin changed /\ main'.cache[k] = main.cache[k]
  BY ONLY <1>8 DEF others, more, Announces
<1> QED
  BY <1>1, <1>2, <1>3, <1>9, <1>10, <1>11, NewsStep

LEMMA NextKeepsNews ==
    ASSUME IInv, IInv', NewsComes, [Next]_vars PROVE NewsComes'
<1>1. CASE MainRuns \/ MainStarts \/ Shutdown \/ Damage \/ Ended
  BY <1>1, MainRunsNews
<1>2. CASE Crash
  BY <1>2, CrashNews
<1>3. CASE Broadcast
  BY <1>3, BroadcastNews
<1>4. ASSUME NEW w \in Windows, WindowRuns(w) \/ OpenWindow(w) \/ WindowCloses(w) \/ WindowDies(w)
      PROVE  NewsComes'
  <2>1. CASE WindowElapses(w) \/ WindowLoads(w) \/ WindowWritten(w) \/ WindowAccepts(w)
    BY <2>1, ElapsesNews, ReceivesNews, WrittenNews
  <2>2. CASE WindowGone(w) \/ WindowDies(w)
    BY <2>2, LeavesNews DEF WindowGone, WindowDies
  <2>3. CASE AnswerItems(w) \/ AcceptUpdate(w)
    BY <2>3, AnswersNews, UpdatesNews
  <2>4. CASE OpenWindow(w) \/ WindowCloses(w)
    BY <2>4, OpenNews, ClosesNews
  <2> QED
    BY <1>4, <2>1, <2>2, <2>3, <2>4 DEF WindowRuns
<1>5. ASSUME NEW w \in Windows, NEW k \in Keys, NEW v \in Values \cup {NoItem}, WindowChanges(w, k, v)
      PROVE  NewsComes'
  BY <1>5, ChangesNews
<1>6. CASE UNCHANGED vars
  <2>1. UNCHANGED <<store, toMain, toWindow, changed, main, phase>>
    BY <1>6 DEF vars, mainVars, windowVars
  <2> QED
    BY <2>1, MainNews
<1> QED
  BY <1>1, <1>2, <1>3, <1>4, <1>5, <1>6 DEF Next

-----------------------------------------------------------------------------
(* The theorems.                                                           *)

\* The invariant of the storages and of their channels holds in every state: types,
\* every change pending is scheduled to be written, a window has at most one request
\* under way, and what is known of the file while it is open or made anew.
THEOREM SharedStorageInvariant == Spec => []IInv
<1> QED
  BY InitInvariant, NextInvariant, PTL DEF Spec

\* No change falls between the pending sets and the update that is awaited: while its
\* database has had no error, a storage need only write what is on its way for the file
\* to hold the cache.
THEOREM NothingIsUnwritten == Spec => []NothingUnwritten
<1>1. IInv => NothingUnwritten
  BY DEF IInv
<1> QED
  BY <1>1, SharedStorageInvariant, PTL

\* close() leaves nothing behind: neither in the pending sets of a window or of the
\* main process, nor, when the backup is made, out of the file.
THEOREM ClosesAreComplete == Spec => ClosesComplete
<1>1. ASSUME IInv
      PROVE  /\ \A w \in Windows : WindowGone(w) => IsClean(store[w])
             /\ Flushed => IsClean(main)
             /\ Finish => file = main.cache
  <2>1. \A w \in Windows : store[w] \in Storages /\ IsScheduled(store[w])
    BY <1>1 DEF IInv, TypeOK
  <2>2. \A w \in Windows : WindowGone(w) => IsClean(store[w])
    BY <2>1, FlushedIsClean DEF WindowGone
  <2>3. main \in Storages /\ IsScheduled(main)
    BY <1>1 DEF IInv, TypeOK, MainTypeOK, MainFollows
  <2>4. Flushed => IsClean(main)
    BY <2>3, FlushedIsClean DEF Flushed
  <2>5. Finish => file = main.cache
    BY <1>1 DEF IInv, FileHolds, Finish, Goes
  <2> QED
    BY <2>2, <2>4, <2>5
<1> QED
  BY <1>1, SharedStorageInvariant, PTL DEF ClosesComplete

\* What a step adds to what is lost: it is the recovery that is given up, or the process
\* that is ended in its close, or items that are not read.
LEMMA LossesAre ==
    ASSUME main \in Storages, durable \in Promises, [Next]_vars
    PROVE  \/ durable'.lost = durable.lost
           \/ LoadItems /\ durable'.lost = durable.lost \cup {"unread"}
           \/ GivesUp /\ (Unlink \/ Recreate \/ Rewrite) /\ durable'.lost = durable.lost \cup {"unwritten"}
           \/ MainIsEnded /\ durable'.lost = durable.lost \cup {"hung"}
<1>1. CASE UNCHANGED durable
  BY <1>1
<1>2. CASE LoadItems /\ durable' = [durable EXCEPT !.lost = @ \cup {"unread"}]
  BY <1>2, LostIs DEF Losses
<1>3. CASE GivesUp /\ (Unlink \/ Recreate \/ Rewrite)
  BY <1>3, GivesUpIs
<1>4. CASE MainIsEnded
  BY <1>4, LostIs DEF MainIsEnded, Losses
<1>5. CASE Finish \/ MainCrashes
  BY <1>5 DEF Finish, MainCrashes, Promises
<1>6. CASE Next
  <2>1. CASE MainRuns
    BY <1>1, <1>2, <1>3, <1>5, <2>1
    DEF MainRuns, Open, DeleteBroken, RestoreBackup, Reopen, LoadItems, MainElapses, MainWrites,
        Flushed, CloseConnection, Unlink, Recreate, Rewrite
  <2>2. CASE MainStarts \/ Shutdown \/ Crash \/ Ended \/ Damage \/ Broadcast
    BY <1>1, <1>4, <1>5, <2>2
    DEF MainStarts, Start, Shutdown, MainCloses, Crash, Ended, Damage, FileRots, Broadcast, mainVars
  <2>3. ASSUME NEW w \in Windows,
               \/ WindowRuns(w) \/ OpenWindow(w) \/ WindowCloses(w) \/ WindowDies(w)
               \/ \E k \in Keys, v \in Values \cup {NoItem} : WindowChanges(w, k, v)
        PROVE  UNCHANGED durable
    BY <2>3
    DEF WindowRuns, OpenWindow, WindowCloses, WindowDies, WindowChanges, WindowElapses, WindowLoads,
        WindowWritten, WindowAccepts, WindowGone, Leaves, AnswerItems, AcceptUpdate, mainVars
  <2> QED
    BY <1>1, <1>6, <2>1, <2>2, <2>3 DEF Next
<1>7. CASE UNCHANGED vars
  BY <1>1, <1>7 DEF vars, mainVars
<1> QED
  BY <1>6, <1>7

\* One fault, whenever it comes, costs nothing that was written, but for items that cannot
\* be read, for a session in memory of a database that there was not, and for what a close
\* that hangs, after an update that failed, has not written.
THEOREM OneFaultIsSurvived == Spec => SurvivesOneFault
<1>1. ASSUME IInv, LoadItems, faults' <= 1, durable'.lost = {}
      PROVE  main'.cache = durable.items
  <2>1. phase = "loading" /\ main \in Storages /\ faults \in Nat
        /\ durable \in Promises /\ connection \in Connections
    BY <1>1 DEF IInv, TypeOK, MainTypeOK, LoadItems, Goes
  <2>2. durable' # [durable EXCEPT !.lost = @ \cup {"unread"}]
    BY <1>1, <2>1, LostIs DEF Losses
  <2>3. /\ main' = Load(main, IF connection.memory THEN NoItems ELSE file)
        /\ UNCHANGED <<connection, faults, durable>>
    BY <1>1, <2>2 DEF LoadItems
  <2>4. /\ durable.items = IF file = NoFile THEN NoItems ELSE file
        /\ connection.memory => file = NoFile
        /\ ~connection.memory => file \in Items
    BY <1>1, <2>1, <2>3 DEF IInv, OneFaultIsRecovered, FileHolds, IsFound
  <2>5. durable.items = IF connection.memory THEN NoItems ELSE file
    BY <2>4, NoFileIsItems
  <2>6. main'.cache = IF connection.memory THEN NoItems ELSE file
    BY <2>1, <2>3, <2>4, LoadIs, NothingIs
  <2> QED
    BY <2>5, <2>6
<1>2. ASSUME IInv, [Next]_vars, faults' <= 1, "unwritten" \in durable'.lost, "unwritten" \notin durable.lost
      PROVE  connection.memory /\ file = NoFile
  <2>1. main \in Storages /\ durable \in Promises /\ faults \in Nat
    BY <1>2 DEF IInv, TypeOK, MainTypeOK
  <2>2. \/ GivesUp /\ (Unlink \/ Recreate \/ Rewrite)
        \/ durable'.lost \in {durable.lost, durable.lost \cup {"unread"}, durable.lost \cup {"hung"}}
    BY <1>2, <2>1, LossesAre
  <2>3. GivesUp /\ (Unlink \/ Recreate \/ Rewrite)
    BY <1>2, <2>2
  <2>4. phase \in {"unlinking", "recreating", "rewriting"} /\ phase' = "down"
    BY <2>3 DEF GivesUp, Unlink, Recreate, Rewrite, Goes
  <2>5. faults > 0 /\ ~Fault
    BY <1>2, <2>1, <2>4 DEF IInv, FaultsAreCounted, Fault
  <2>6. phase = "unlinking" /\ file = NoFile
    BY <1>2, <2>3, <2>4, <2>5, NoFileIsItems
    DEF IInv, FileHolds, Unlink, Recreate, Rewrite, FailsToConnect, Goes
  <2> QED
    BY <1>2, <2>6 DEF IInv, FileHolds
<1>3. ASSUME IInv, [Next]_vars, faults' <= 1, "hung" \in durable'.lost, "hung" \notin durable.lost
      PROVE  faults = 1 /\ connection.erroneous
  <2>1. main \in Storages /\ durable \in Promises /\ faults \in Nat
    BY <1>3 DEF IInv, TypeOK, MainTypeOK
  <2>2. \/ MainIsEnded
        \/ durable'.lost \in {durable.lost, durable.lost \cup {"unread"}, durable.lost \cup {"unwritten"}}
    BY <1>3, <2>1, LossesAre
  <2>3. MainIsEnded
    BY <1>3, <2>2
  <2>4. phase = "flushing" /\ main.chained /\ ~IsWriting(main) /\ faults' = faults
    BY <2>3 DEF MainIsEnded, IsHung, Goes
  <2>5. connection.erroneous
    BY <1>3, <2>4 DEF IInv, MainFollows, Running
  <2> QED
    BY <1>3, <2>1, <2>4, <2>5 DEF IInv, FaultsAreCounted, Healthy
<1>4. IInv /\ [Next]_vars => [faults' <= 1 =>
           /\ LoadItems /\ durable'.lost = {} => main'.cache = durable.items
           /\ "unwritten" \in durable'.lost \ durable.lost => connection.memory /\ file = NoFile
           /\ "hung" \in durable'.lost \ durable.lost => faults = 1 /\ connection.erroneous]_mainVars
  BY <1>1, <1>2, <1>3
<1> QED
  BY <1>4, SharedStorageInvariant, PTL DEF SurvivesOneFault, Spec

\* What the windows rely on holds always: of every key that is not to be announced, the
\* last word on its way to a window that has its items is what the main process has,
\* or there is none and the window shows that, or what it will bring itself.
THEOREM NewsAlwaysComes == Spec => []NInv
<1>1. Init => NewsComes
  <2> SUFFICES ASSUME Init PROVE NewsComes
    OBVIOUS
  <2>1. \A w \in Windows : store[w] = NewStorage /\ toMain[w] = <<>> /\ toWindow[w] = <<>>
    BY DEF Init
  <2>2. ~Having(NewStorage, <<>>) /\ AreAll(NewStorage, <<>>, <<>>) /\ NewStorage.state = "none"
    BY NewStorageIs DEF Having, AreAll
  <2> QED
    BY <2>1, <2>2, InitInvariant, NewsIs DEF HearsOK
<1>2. IInv /\ IInv' /\ NewsComes /\ [Next]_vars => NewsComes'
  BY NextKeepsNews
<1> QED
  BY <1>1, <1>2, SharedStorageInvariant, PTL DEF Spec, NInv

\* No change is lost to a window, while it loads, or changes the same key, or while
\* others do: with nothing on its way it shows what the main process has, but for what
\* is to be announced yet (updateItems, onDidChangeItems, acceptExternal).
THEOREM WindowsAlwaysAgree == Spec => []WindowsAgree
<1>1. ASSUME IInv, NewsComes PROVE WindowsAgree
  <2> SUFFICES ASSUME NEW w \in Windows, store[w].state = "ready", IsClean(store[w]),
                      toWindow[w] = <<>>, NEW k \in Keys, k \notin changed
               PROVE  store[w].cache[k] = main.cache[k]
    BY DEF WindowsAgree
  <2>1. /\ WindowOK(store[w], toMain[w], toWindow[w])
        /\ HearsOK(store[w], toMain[w], toWindow[w], main.cache, changed)
    BY <1>1, WindowNewsIs
  <2>2. toMain[w] = <<>>
    BY <2>1 DEF WindowOK, IsClean
  <2>3. Pending(store[w]) = NoRequest
    BY <2>1, StorageIs DEF WindowOK, IsClean
  <2>4. Shows(store[w], toMain[w], toWindow[w], k, main.cache[k])
    BY <2>1 DEF HearsOK, Having
  <2>5. ~TellsLast(toWindow[w], k, main.cache[k])
    BY DEF TellsLast
  <2> QED
    BY <2>2, <2>3, <2>4, <2>5, GivenNothing DEF Shows, OnItsWay
<1> QED
  BY <1>1, NewsAlwaysComes, PTL DEF NInv

=================================================================================
