------------------------------ MODULE SqliteStorage ------------------------------
(***************************************************************************)
(* A storage of the main process: the Storage of                           *)
(* platform/storage/electron-main/storageMain.ts over the SQLite database  *)
(* of base/parts/storage/node/storage.ts, which keeps a backup from its    *)
(* last clean close, falls back to it, or to memory, when it cannot be     *)
(* opened, and is rewritten from the cache when it is closed after errors. *)
(*                                                                         *)
(* phase is the await at which connect, init or doClose stands:            *)
(*   "down"       the process does not run                                 *)
(*   "opening"    doConnect                                                *)
(*   "broken"     unlink of a database that did not open                   *)
(*   "restoring"  renaming the backup                                      *)
(*   "reopening"  doConnect again                                          *)
(*   "loading"    getItems                                                 *)
(*   "ready"      open for business                                        *)
(*   "flushing"   close: doFlush                                           *)
(*   "closing"    close of the connection                                  *)
(*   "unlinking", "recreating", "rewriting"    the recovery                *)
(*   "finishing"  the copy to the backup                                   *)
(***************************************************************************)
EXTENDS StorageCache

CONSTANTS
    NoFile, Corrupt,    \* a file that does not exist, or is no database
    MaxSessions,        \* bound: starts of the process
    MaxFaults           \* bound: failures and crashes

ASSUME FilesAssumption ==
    /\ {NoFile, Corrupt} \cap Items = {} /\ NoFile # Corrupt
    /\ MaxSessions \in Nat /\ MaxFaults \in Nat

VARIABLES
    main,           \* the Storage
    phase,
    file, backup,   \* the database at its path, and next to it
    connection,     \* isInMemory, isErroneous
    faults, sessions,
    durable         \* history: items, what the next session should find, and lost,
                    \* why it may not

mainVars == <<main, phase, file, backup, connection, faults, sessions, durable>>

Files == Items \cup {NoFile, Corrupt}
Phases == {"down", "opening", "broken", "restoring", "reopening", "loading", "ready",
           "flushing", "closing", "unlinking", "recreating", "rewriting", "finishing"}

Connections == [memory : BOOLEAN, erroneous : BOOLEAN]

\* Reading the items has failed; the recovery was given up; a close that hung was ended
\* from outside.
Losses == {"unread", "unwritten", "hung"}
Promises == [items : Items, lost : SUBSET Losses]

NewConnection == [memory |-> FALSE, erroneous |-> FALSE]

\* There is no database yet, or one that was closed well.
MainInit ==
    /\ main = NewStorage /\ phase = "down"
    /\ file \in {NoFile} \cup Items /\ backup = file
    /\ connection = NewConnection
    /\ faults = 0 /\ sessions = 0
    /\ durable = [items |-> IF file = NoFile THEN NoItems ELSE file, lost |-> {}]

Goes(from, to) == phase = from /\ phase' = to

Fault == /\ faults < MaxFaults
         /\ faults' = faults + 1

-----------------------------------------------------------------------------
(* Opening.                                                                *)

Start ==
    /\ Goes("down", "opening") /\ sessions < MaxSessions
    /\ sessions' = sessions + 1
    /\ main' = NewStorage /\ connection' = NewConnection
    /\ UNCHANGED <<file, backup, faults, durable>>

\* doConnect creates a database where there is none, and fails on a file that
\* is corrupt; it may fail for other reasons.
Connects == /\ file # Corrupt
            /\ file' = IF file = NoFile THEN NoItems ELSE file
            /\ UNCHANGED faults
FailsToConnect == /\ Fault \/ (file = Corrupt /\ UNCHANGED faults)
                  /\ UNCHANGED file

Open ==
    /\ \/ Goes("opening", "loading") /\ Connects
       \/ Goes("opening", "broken") /\ FailsToConnect
    /\ UNCHANGED <<main, backup, connection, sessions, durable>>

\* The last resort is a database in memory.
FallBack == /\ phase' = "loading"
            /\ connection' = [connection EXCEPT !.memory = TRUE]

\* Mutant of DeleteBroken: the backup is not looked at.
DeleteBrokenOnly ==
    /\ \/ /\ file # NoFile
          /\ Goes("broken", "reopening")
          /\ file' = NoFile
          /\ UNCHANGED <<connection, faults>>
       \/ /\ phase = "broken" /\ FallBack
          /\ Fault \/ (file = NoFile /\ UNCHANGED faults)
          /\ UNCHANGED file
    /\ UNCHANGED <<main, backup, sessions, durable>>

DeleteBroken ==
    /\ \/ /\ file # NoFile
          /\ Goes("broken", "restoring")
          /\ file' = NoFile
          /\ UNCHANGED <<connection, faults>>
       \/ /\ phase = "broken" /\ FallBack
          /\ Fault \/ (file = NoFile /\ UNCHANGED faults)
          /\ UNCHANGED file
    /\ UNCHANGED <<main, backup, sessions, durable>>

\* The backup, if there is one, takes the place of the database.
RestoreBackup ==
    /\ Goes("restoring", "reopening")
    /\ \/ /\ backup # NoFile
          /\ file' = backup /\ backup' = NoFile
          /\ UNCHANGED faults
       \/ /\ Fault \/ (backup = NoFile /\ UNCHANGED faults)
          /\ UNCHANGED <<file, backup>>
    /\ UNCHANGED <<main, connection, sessions, durable>>

Reopen ==
    /\ \/ Goes("reopening", "loading") /\ Connects /\ UNCHANGED connection
       \/ phase = "reopening" /\ FallBack /\ FailsToConnect
    /\ UNCHANGED <<main, backup, sessions, durable>>

\* Storage.init.  An error is logged and leaves the cache empty.
LoadItems ==
    /\ Goes("loading", "ready")
    /\ \/ /\ main' = Load(main, IF connection.memory THEN NoItems ELSE file)
          /\ UNCHANGED <<connection, faults, durable>>
       \/ /\ Fault
          /\ main' = Load(main, NoItems)
          /\ connection' = [connection EXCEPT !.erroneous = TRUE]
          /\ durable' = [durable EXCEPT !.lost = @ \cup {"unread"}]
    /\ UNCHANGED <<file, backup, sessions>>

-----------------------------------------------------------------------------
(* Writing.                                                                *)

Running == phase \in {"ready", "flushing"}
Closing == {"flushing", "closing", "unlinking", "recreating", "rewriting", "finishing"}

MainElapses ==
    /\ Running /\ main.timer
    /\ main' = Elapse(main)
    /\ UNCHANGED <<phase, file, backup, connection, faults, sessions, durable>>

\* What an update may leave behind when some of its statements fail.
Torn == {Corrupt} \cup
        {Applied(file, [insert |-> i, delete |-> d]) :
            i \in {NoItems, main.request.insert}, d \in {{}, main.request.delete}}

\* The transaction of the active update ends.  A database in memory has no file.
MainWrites ==
    /\ Running /\ IsWriting(main)
    /\ \/ /\ main' = Written(main)
          /\ file' = IF connection.memory THEN file ELSE Applied(file, main.request)
          /\ file \in Items \/ connection.memory
          /\ UNCHANGED <<connection, faults>>
       \/ /\ main' = Failed(main)
          /\ Fault \/ (file = Corrupt /\ UNCHANGED faults)
          /\ ~connection.memory
          /\ connection' = [connection EXCEPT !.erroneous = TRUE]
          /\ file' \in IF file \in Items THEN Torn ELSE {file}
    /\ UNCHANGED <<phase, backup, sessions, durable>>

-----------------------------------------------------------------------------
(* Closing.                                                                *)

MainCloses ==
    /\ Goes("ready", "flushing")
    /\ main' = Close(main)
    /\ UNCHANGED <<file, backup, connection, faults, sessions, durable>>

\* Even a flush that failed is followed by the close of the database, when the close
\* of the Storage is told.
Flushed ==
    /\ Goes("flushing", "closing") /\ IsFlushed(main)
    /\ UNCHANGED <<main, file, backup, connection, faults, sessions, durable>>

Healthy(c) == ~c.erroneous /\ ~c.memory

CloseConnection ==
    /\ phase = "closing"
    /\ \/ UNCHANGED <<connection, faults>>
       \/ Fault /\ connection' = [connection EXCEPT !.erroneous = TRUE]
    /\ phase' = IF Healthy(connection') THEN "finishing" ELSE "unlinking"
    /\ UNCHANGED <<main, file, backup, sessions, durable>>

\* What was not read is still to be there, unless it was set anew.
Owed == [k \in Keys |-> IF "unread" \in durable.lost /\ main.cache[k] = NoItem
                        THEN durable.items[k] ELSE main.cache[k]]

\* The recovery is not tried, or fails, and the session is owed: the path is taken to be
\* no longer writeable.
GivesUp == /\ phase' = "down"
           /\ durable' = [items |-> Owed, lost |-> durable.lost \cup {"unwritten"}]

\* The recovery goes no further when there is no file or it stays.
Unlink ==
    /\ phase = "unlinking"
    /\ \/ /\ phase' = "recreating"
          /\ file # NoFile /\ file' = NoFile
          /\ UNCHANGED <<faults, durable>>
       \/ /\ GivesUp
          /\ Fault \/ (file = NoFile /\ UNCHANGED faults)
          /\ UNCHANGED file
    /\ UNCHANGED <<main, backup, connection, sessions>>

Recreate ==
    /\ \/ Goes("recreating", "rewriting") /\ Connects /\ UNCHANGED durable
       \/ phase = "recreating" /\ GivesUp /\ FailsToConnect
    /\ connection' = NewConnection
    /\ UNCHANGED <<main, backup, sessions>>

\* The whole cache is inserted.  A second error is not recovered from.
Rewrite ==
    /\ \/ /\ Goes("rewriting", "finishing")
          /\ file' = Applied(file, [insert |-> main.cache, delete |-> {}])
          /\ UNCHANGED <<faults, durable>>
       \/ /\ phase = "rewriting" /\ GivesUp
          /\ Fault /\ file' \in {Corrupt, NoItems, main.cache}
    /\ UNCHANGED <<main, backup, connection, sessions>>

\* The database is copied; a copy that fails is ignored, however much it wrote.
Finish ==
    /\ Goes("finishing", "down")
    /\ durable' = [durable EXCEPT !.items = Owed]
    /\ \/ backup' = file /\ UNCHANGED faults
       \/ Fault /\ backup' \in {backup, Corrupt}
    /\ UNCHANGED <<main, file, connection, sessions>>

-----------------------------------------------------------------------------
(* Faults.                                                                 *)

\* The process dies.  A transaction is atomic, so that what it leaves is what
\* was committed; a copy under way may be left half made.
MainCrashes ==
    /\ phase # "down" /\ Fault
    /\ phase' = "down"
    /\ durable' = [durable EXCEPT !.items = IF file \in Items THEN file ELSE NoItems]
    /\ backup' \in IF phase = "finishing" THEN {backup, Corrupt} ELSE {backup}
    /\ UNCHANGED <<main, file, connection, sessions>>

\* A process that hangs in its close is ended from outside: the user meant to quit, so
\* that what was set is owed to the next session.
MainIsEnded ==
    /\ Goes("flushing", "down") /\ IsHung(main)
    /\ durable' = [items |-> Owed, lost |-> durable.lost \cup {"hung"}]
    /\ UNCHANGED <<main, file, backup, connection, faults, sessions>>

\* The file is damaged while nobody has it open.
FileRots ==
    /\ phase = "down" /\ file \in Items /\ Fault
    /\ file' = Corrupt
    /\ UNCHANGED <<main, phase, backup, connection, sessions, durable>>

MainTypeOK ==
    /\ main \in Storages /\ phase \in Phases
    /\ file \in Files /\ backup \in Files
    /\ connection \in Connections
    /\ faults \in 0..MaxFaults /\ sessions \in 0..MaxSessions
    /\ durable \in Promises

-----------------------------------------------------------------------------
(* Properties.                                                             *)

\* While its database has had no error, a storage needs only write what is on
\* its way for the file to hold the cache: no change falls between the pending
\* sets that are replaced and the update that is awaited.
NothingUnwritten ==
    Running /\ Healthy(connection) => Eventual(main, file) = main.cache

\* The Storage is new until it is loaded, and the connection until it is opened; the
\* Storage is closed from the flush of close on, after which nothing is pending.  Only an
\* update that failed leaves those who wait for it without an answer.
MainFollows ==
    /\ IsScheduled(main)
    /\ phase \in {"opening", "broken", "restoring", "reopening", "loading"} => main = NewStorage
    /\ phase \in {"opening", "broken", "restoring", "reopening"} => connection = NewConnection
    /\ phase = "ready" => main.state = "ready"
    /\ phase \in Closing => main.state = "closed"
    /\ phase \in Closing \ {"flushing"} => IsClean(main)
    /\ Running /\ main.chained /\ ~IsWriting(main) => connection.erroneous

\* What is known of the file while it is open, and while it is made anew.
FileHolds ==
    /\ phase = "loading" /\ ~connection.memory => file \in Items
    /\ Running /\ Healthy(connection) => file \in Items
    /\ phase = "closing" /\ Healthy(connection) => file = main.cache
    /\ phase = "recreating" => file = NoFile
    /\ phase = "rewriting" => file = NoItems
    /\ phase = "finishing" => file = main.cache
    /\ Running \/ phase \in {"closing", "unlinking"} => connection.memory \/ file # NoFile

\* Nothing goes wrong by itself.
FaultsAreCounted ==
    \/ file = Corrupt \/ ~Healthy(connection)
    \/ phase \in {"broken", "restoring", "reopening", "unlinking", "recreating", "rewriting"}
    => faults > 0

\* The next session finds the items where it looks for them.
IsFound(items) == items = IF file = NoFile THEN NoItems ELSE file

\* After one fault, what was written is in the file or in the backup, wherever opening
\* has got to; without a fault, in both.
OneFaultIsRecovered ==
    faults <= 1 /\ durable.lost = {} =>
        /\ phase \in {"down", "opening"} =>
               \/ file # Corrupt /\ IsFound(durable.items) /\ (faults = 0 => backup = file)
               \/ faults = 1 /\ file = Corrupt /\ backup = durable.items
        /\ phase \in {"broken", "restoring", "reopening"} => faults = 1
        /\ phase = "broken" =>
               \/ file = NoFile /\ durable.items = NoItems
               \/ file # NoFile /\ backup = durable.items
        /\ phase = "restoring" => backup = durable.items
        /\ phase = "reopening" => file = durable.items
        /\ phase = "loading" => IsFound(durable.items)
        /\ phase \in {"loading", "ready"} \cup Closing =>
               /\ connection.memory => file = NoFile
               /\ faults = 0 => file # Corrupt /\ Healthy(connection)
        /\ phase \in {"unlinking", "recreating", "rewriting"} => faults = 1

\* One fault, whenever it comes, costs nothing that was written, or that a close was to
\* write: the next session loads that.  It costs more in three cases, no others: items
\* that could not be read are not recovered; the recovery is given up, but only by a
\* session in memory, of a database that did not exist; and a close hangs before its
\* recovery, but only after an update has failed.
SurvivesOneFault ==
    [][faults' <= 1 =>
           /\ LoadItems /\ durable'.lost = {} => main'.cache = durable.items
           /\ "unwritten" \in durable'.lost \ durable.lost => connection.memory /\ file = NoFile
           /\ "hung" \in durable'.lost \ durable.lost => faults = 1 /\ connection.erroneous]_mainVars

=================================================================================
