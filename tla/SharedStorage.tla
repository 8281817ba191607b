------------------------------ MODULE SharedStorage ------------------------------
(***************************************************************************)
(* One storage shared by windows: each window has a Storage whose database *)
(* is a channel to the main process (platform/storage/common/storageIpc.ts *)
(* and electron-main/storageIpc.ts), where updates are applied to the      *)
(* Storage of the main process and changes of that one are announced, once *)
(* in a while, to all windows.                                             *)
(***************************************************************************)
EXTENDS SqliteStorage, Sequences

CONSTANTS
    Windows,
    MaxOpens,       \* bound: windows opened
    MaxChanges      \* bound: changes made by windows

ASSUME SharedAssumption == MaxOpens \in Nat /\ MaxChanges \in Nat

VARIABLES
    store,          \* the Storage of each window
    toMain,         \* requests on their way to the main process
    toWindow,       \* answers and events on their way to a window
    changed,        \* keys whose change is still to be announced (debounced)
    opens, changes

windowVars == <<store, toMain, toWindow, changed, opens, changes>>
vars == <<mainVars, windowVars>>

IsOpen(w) == store[w].state # "none"

GetItems == [type |-> "getItems", request |-> NoRequest]
UpdateItems(request) == [type |-> "updateItems", request |-> request]
Answer(items) == [type |-> "items", keys |-> Keys, items |-> items]
Done == [type |-> "done", keys |-> {}, items |-> NoItems]
ItemsChanged(keys, items) == [type |-> "changed", keys |-> keys, items |-> items]

Init ==
    /\ MainInit
    /\ store = [w \in Windows |-> NewStorage]
    /\ toMain = [w \in Windows |-> <<>>] /\ toWindow = [w \in Windows |-> <<>>]
    /\ changed = {} /\ opens = 0 /\ changes = 0

Ask(w, m) == toMain' = [toMain EXCEPT ![w] = Append(@, m)]
Tell(w, m) == toWindow' = [toWindow EXCEPT ![w] = Append(@, m)]

ToOpen == {w \in Windows : IsOpen(w)}

\* updateItems of the database of a window, when its store has a new update to make.
Sends(w, s) == IF IsWriting(s) THEN Ask(w, UpdateItems(s.request)) ELSE UNCHANGED toMain

Keeps(w, s) == store' = [store EXCEPT ![w] = s]

-----------------------------------------------------------------------------
(* The windows.                                                            *)

\* The process closes its storages when all windows are closed.
AcceptsWindows == phase \in {"opening", "broken", "restoring", "reopening", "loading", "ready"}

OpenWindow(w) ==
    /\ AcceptsWindows /\ ~IsOpen(w) /\ opens < MaxOpens
    /\ opens' = opens + 1
    /\ Keeps(w, [NewStorage EXCEPT !.state = "loading"])
    /\ Ask(w, GetItems)
    /\ UNCHANGED <<mainVars, toWindow, changed, changes>>

\* set or delete: k is to be v.  The store is not used before it has its items.
WindowChanges(w, k, v) ==
    /\ store[w].state \in {"ready", "closed"} /\ changes < MaxChanges
    /\ changes' = changes + 1
    /\ Keeps(w, Update(store[w], [store[w].cache EXCEPT ![k] = v]))
    /\ UNCHANGED <<mainVars, toMain, toWindow, changed, opens>>

WindowElapses(w) ==
    /\ store[w].timer
    /\ Keeps(w, Elapse(store[w]))
    /\ IF Elapse(store[w]).queued THEN UNCHANGED toMain ELSE Sends(w, Elapse(store[w]))
    /\ UNCHANGED <<mainVars, toWindow, changed, opens, changes>>

Received(w, type) ==
    /\ toWindow[w] # <<>> /\ Head(toWindow[w]).type = type
    /\ toWindow' = [toWindow EXCEPT ![w] = Tail(@)]

WindowLoads(w) ==
    /\ Received(w, "items")
    /\ Keeps(w, Load(store[w], Head(toWindow[w]).items))
    /\ UNCHANGED <<mainVars, toMain, changed, opens, changes>>

WindowWritten(w) ==
    /\ Received(w, "done")
    /\ Keeps(w, Written(store[w]))
    /\ Sends(w, Written(store[w]))
    /\ UNCHANGED <<mainVars, changed, opens, changes>>

WindowAccepts(w) ==
    /\ Received(w, "changed")
    /\ Keeps(w, AcceptExternal(store[w], Head(toWindow[w]).keys, Head(toWindow[w]).items))
    /\ UNCHANGED <<mainVars, toMain, changed, opens, changes>>

WindowCloses(w) ==
    /\ store[w].state = "ready"
    /\ Keeps(w, Close(store[w]))
    /\ UNCHANGED <<mainVars, toMain, toWindow, changed, opens, changes>>

Leaves(w) ==
    /\ Keeps(w, NewStorage)
    /\ toMain' = [toMain EXCEPT ![w] = <<>>] /\ toWindow' = [toWindow EXCEPT ![w] = <<>>]
    /\ UNCHANGED <<mainVars, changed, opens, changes>>

\* The close of its store, awaited by the window, is over.
WindowGone(w) == store[w].state = "closed" /\ IsFlushed(store[w]) /\ Leaves(w)

WindowDies(w) == IsOpen(w) /\ Leaves(w)

-----------------------------------------------------------------------------
(* The channel of the main process.                                        *)

\* A request waits until the storage has been initialized.
Requested(w, type) ==
    /\ phase \in {"ready", "flushing", "closing", "unlinking", "recreating", "rewriting",
                  "finishing"}
    /\ toMain[w] # <<>> /\ Head(toMain[w]).type = type
    /\ toMain' = [toMain EXCEPT ![w] = Tail(@)]

AnswerItems(w) ==
    /\ Requested(w, "getItems")
    /\ Tell(w, Answer(main.cache))
    /\ UNCHANGED <<mainVars, store, changed, opens, changes>>

\* The answer does not wait for the update to be written.
AcceptUpdate(w) ==
    /\ Requested(w, "updateItems")
    /\ main' = Update(main, Applied(main.cache, Head(toMain[w]).request))
    /\ changed' = changed \cup {k \in Keys : main'.cache[k] # main.cache[k]}
    /\ Tell(w, Done)
    /\ UNCHANGED <<phase, file, backup, connection, faults, sessions, durable>>
    /\ UNCHANGED <<store, opens, changes>>

\* Mutant of Broadcast: windows that load are not told.
BroadcastToReady ==
    /\ phase # "down" /\ changed # {}
    /\ toWindow' = [w \in Windows |-> IF store[w].state = "ready"
                        THEN Append(toWindow[w], ItemsChanged(changed, main.cache))
                        ELSE toWindow[w]]
    /\ changed' = {}
    /\ UNCHANGED <<mainVars, store, toMain, opens, changes>>

\* The changes, debounced, with the values of now, to all windows: the one that
\* made them too.
Broadcast ==
    /\ phase # "down" /\ changed # {}
    /\ toWindow' = [w \in Windows |-> IF IsOpen(w)
                        THEN Append(toWindow[w], ItemsChanged(changed, main.cache))
                        ELSE toWindow[w]]
    /\ changed' = {}
    /\ UNCHANGED <<mainVars, store, toMain, opens, changes>>

-----------------------------------------------------------------------------
(* The main process.                                                       *)

MainRuns ==
    /\ \/ Open \/ DeleteBroken \/ RestoreBackup \/ Reopen \/ LoadItems
       \/ MainElapses \/ MainWrites
       \/ Flushed \/ CloseConnection \/ Unlink \/ Recreate \/ Rewrite \/ Finish
    /\ UNCHANGED windowVars

MainStarts == Start /\ changed' = {} /\ UNCHANGED <<store, toMain, toWindow, opens, changes>>

Shutdown == ToOpen = {} /\ MainCloses /\ UNCHANGED windowVars

\* Windows do not outlive the main process.
Crash ==
    /\ MainCrashes
    /\ store' = [w \in Windows |-> NewStorage]
    /\ toMain' = [w \in Windows |-> <<>>] /\ toWindow' = [w \in Windows |-> <<>>]
    /\ UNCHANGED <<changed, opens, changes>>

Ended == MainIsEnded /\ UNCHANGED windowVars

Damage == FileRots /\ UNCHANGED windowVars

WindowRuns(w) ==
    \/ WindowElapses(w) \/ WindowLoads(w) \/ WindowWritten(w) \/ WindowAccepts(w)
    \/ WindowGone(w)
    \/ AnswerItems(w) \/ AcceptUpdate(w)

Next ==
    \/ MainRuns \/ MainStarts \/ Shutdown \/ Crash \/ Ended \/ Damage
    \/ Broadcast
    \/ \E w \in Windows :
        \/ WindowRuns(w) \/ OpenWindow(w) \/ WindowCloses(w) \/ WindowDies(w)
        \/ \E k \in Keys, v \in Values \cup {NoItem} : WindowChanges(w, k, v)

Spec == Init /\ [][Next]_vars

\* Timers elapse, calls of the file system end, messages arrive: the system does
\* something as long as it can, in any order.  Nobody has to open, change or
\* close anything, nothing has to fail.
Runs == MainRuns \/ Broadcast \/ \E w \in Windows : WindowRuns(w)

Fairness == WF_vars(Runs)

FairSpec == Spec /\ Fairness

-----------------------------------------------------------------------------
(* Properties.                                                             *)

Asked == [type : {"getItems", "updateItems"}, request : Requests]
Messages == [type : {"items", "done", "changed"}, keys : SUBSET Keys, items : Items]

\* The state of the storages, and at most one request of a window on its way.
TypeOK ==
    /\ MainTypeOK
    /\ store \in [Windows -> Storages]
    /\ toMain \in [Windows -> Seq(Asked)] /\ \A w \in Windows : Len(toMain[w]) <= 1
    /\ toWindow \in [Windows -> Seq(Messages)]
    /\ changed \subseteq Keys
    /\ opens \in 0..MaxOpens /\ changes \in 0..MaxChanges

IsAnswer(m) == m.type \in {"items", "done"}

\* The request of a window for its items, or for the update that it awaits, is on its
\* way or being answered, once; the update is awaited by one that has its items.
OneRequest(w) ==
    /\ \A i, j \in DOMAIN toWindow[w] :
           IsAnswer(toWindow[w][i]) /\ IsAnswer(toWindow[w][j]) => i = j
    /\ \A i \in DOMAIN toWindow[w] : IsAnswer(toWindow[w][i]) => toMain[w] = <<>>
    /\ toMain[w] # <<>> \/ (\E i \in DOMAIN toWindow[w] : IsAnswer(toWindow[w][i])) =>
           store[w].state = "loading" \/ IsWriting(store[w])
    /\ store[w].state = "none" => toMain[w] = <<>> /\ toWindow[w] = <<>>
    /\ store[w].state \in {"none", "loading"} => ~store[w].timer /\ IsClean(store[w])

\* What is on its way to a window tells v, of k, as the last word; or nothing of k.
TellsLast(messages, k, v) ==
    \E i \in DOMAIN messages :
        /\ k \in messages[i].keys /\ messages[i].items[k] = v
        /\ \A j \in DOMAIN messages : j > i => k \notin messages[j].keys
TellsNothing(messages, k) == \A i \in DOMAIN messages : k \notin messages[i].keys

\* A window that has its items, or will have with what is on its way.
HasItems(w) ==
    \/ store[w].state = "ready"
    \/ store[w].state = "loading" /\ \E i \in DOMAIN toWindow[w] : toWindow[w][i].type = "items"

\* The items of the main process once a window's own changes have come to it: those of
\* the update that is on its way, and those that are pending.
Brought(w) ==
    LET request == IF toMain[w] = <<>> THEN NoRequest ELSE Head(toMain[w]).request
    IN  Applied(Applied(main.cache, request),
                [insert |-> store[w].inserts, delete |-> store[w].deletes])

\* Items are for windows that load, and are all.
ItemsAreAll(w) ==
    /\ toMain[w] # <<>> /\ Head(toMain[w]).type = "getItems" => store[w].state = "loading"
    /\ \A i \in DOMAIN toWindow[w] :
           /\ toWindow[w][i].type = "items" => store[w].state = "loading" /\ toWindow[w][i].keys = Keys
           /\ toWindow[w][i].type = "done" => toWindow[w][i].keys = {}

\* What a window shows of a key is what the main process has, or will have of the
\* window; or the last word on its way to it, or a change to be announced, is.
ShowsOrHears(w, k) ==
    \/ k \in changed
    \/ TellsLast(toWindow[w], k, main.cache[k])
    \/ TellsNothing(toWindow[w], k) /\ store[w].cache[k] \in {main.cache[k], Brought(w)[k]}

\* What the windows rely on.
NewsComes ==
    /\ phase \in {"down"} \cup Closing => ToOpen = {}
    /\ \A w \in Windows :
           /\ HasItems(w) => phase = "ready" /\ \A k \in Keys : ShowsOrHears(w, k)
           /\ ItemsAreAll(w)

\* What the storages and their channels rely on.
IInv ==
    /\ TypeOK
    /\ \A w \in Windows : IsScheduled(store[w]) /\ OneRequest(w)
    /\ MainFollows /\ FileHolds /\ FaultsAreCounted
    /\ NothingUnwritten /\ OneFaultIsRecovered

\* ... and what the windows rely on too.
NInv == IInv /\ NewsComes

\* When close() goes on after its flush, every change that it accepted is in an
\* update that was answered: nothing that came before or during that flush is
\* left in the pending sets; and when it has made the backup the file holds all
\* that was cached, however many errors there have been before.
ClosesComplete ==
    [][/\ \A w \in Windows : WindowGone(w) => IsClean(store[w])
       /\ Flushed => IsClean(main)
       /\ Finish => file = main.cache]_vars

\* A window that has nothing on its way, to it or from it, shows what the main process
\* has, but for changes that are to be announced yet: none was lost, and none came
\* before the one it follows, while the window loaded, or changed the same.
WindowsAgree ==
    \A w \in Windows :
        store[w].state = "ready" /\ IsClean(store[w]) /\ toWindow[w] = <<>> =>
            \A k \in Keys \ changed : store[w].cache[k] = main.cache[k]

\* Nobody waits for ever, but for a close whose flush was queued and failed (see
\* ClosesAnyway): a window that opens gets its items however the database opened, any
\* other close ends however its flush and the recovery went; and what windows have
\* changed stops being on its way: they come to agree for good with the main process,
\* and the file of a healthy database with both.
Settles ==
    <>[](/\ \A w \in Windows :
             /\ store[w].state \in {"none", "ready"}
             /\ store[w].state = "ready" => store[w].cache = main.cache
         /\ phase \in {"down", "ready"} \/ (phase = "flushing" /\ IsHung(main))
         /\ phase = "ready" /\ Healthy(connection) => file = main.cache)

\* "We must always ensure the DB is closed to avoid corruption", even if there is an
\* error flushing (storage.ts, doClose): the flush of a close ends.
ClosesAnyway == phase = "flushing" ~> phase # "flushing"
=================================================================================
