# A verification of ArabicPy's connections, storage and documents

The repository is a distribution of VS Code (`src/code-oss`) with a few small
additions (`arabicpy`, `dlophon`, `kate`).  This directory holds TLA+ models of
the parts of it whose correctness depends on the order of events, the
configurations that model-check them, and proofs of their main properties.

## 1. Inventory

All paths are below `src/code-oss/src/vs/`.

| Component | State it keeps | Operations | Talks to | What is hard | What makes it correct |
|---|---|---|---|---|---|
| Persistent protocol, `base/parts/ipc/common/ipc.net.ts` | numbers sent, received and acknowledged; queue of unacknowledged messages; write buffer, paused or not; three timers | send, receive, acknowledge, pause, resume, replay, begin and end a reconnection, dispose | its peer, over a socket that may be replaced at any time | loss of a socket at any point; stale sockets; replays racing fresh messages; timers that must not be forgotten | in order and once; nothing lost; nothing stuck |
| Reconnection loop and handshake, `platform/remote/common/remoteAgentConnection.ts` | attempt, flags, listeners for control messages | connect, authenticate, ask for a connection type, retry, give up | persistent protocol, server | an answer that comes late or twice; a close while an attempt is under way | one loop at a time; it ends connected or given up |
| Server side, `server/node/remoteExtensionHostAgentServer.ts`, `remoteExtensionManagement.ts`, `extensionHostConnection.ts`, `workbench/api/node/extensionHostProcess.ts` | connections by token, tokens seen, two grace timers for each connection | handshake, accept, hand a socket to the extension host process, shorten the grace time, clean up | persistent protocol, child process | an older socket accepted after a newer one; data lost while nobody reads the socket; a grace timer racing a reconnection | a connection in use is not disposed; an abandoned one is |
| IPC channels, `base/parts/ipc/common/ipc.ts` | pending requests, active requests, event subscriptions, channels registered late | call, listen, cancel, reply, dispose | persistent protocol | a reply that races a cancellation; a request before its channel exists | each request has one outcome |
| Async primitives, `base/common/async.ts` | queued tasks, timers | throttle, delay, limit, sequence | callers | re-entrancy, disposal with work under way | bounds on concurrency, the last request is served |
| Storage, `base/parts/storage/` | cache, pending inserts and deletes | set, delete, flush, close, external change | SQLite database | a flush under way when more is written; a corrupt database | what was set is what is stored |
| Stored file working copies, `workbench/services/workingCopy/` | dirty, versions, conflict, orphan, backup | edit, save, revert, file change, back up | file service, backup service | an edit during a save, a save during a save | dirty unless the latest version is on disk |
| Undo and redo, `platform/undoRedo/` | stacks per resource, shared elements | push, undo, redo, split | text models | an element in several stacks | the stacks agree on shared elements |
| Observables, `base/common/observableInternal/` | dependencies, staleness | set, derive, react | each other | glitches | each derived value is consistent |
| Editor, workbench UI, language extensions, build, CLI | | | | mostly rendering and I/O | not modelled |
| `src/arabicpy`, `src/dlophon`, `src/kate` | none | download and check an image; icons; vendored fragments | | sequential | not modelled |

How the parts meet: a window of the workbench has one *management* connection
and one *extension host* connection to its server.  Each is a
`PersistentProtocol` at both ends, whose socket the reconnection loop of the
client replaces when it closes or is silent for too long.  The server finds the
connection by its token and gives the new socket to the old protocol: in its own
process for a management connection, in the extension host process, to which the
socket travels as a handle, for the other.  What runs on top (IPC channels,
the RPC of extensions) is never told that a socket was replaced, and therefore
depends on the protocol to lose, repeat and reorder nothing.

## 2. Plan

The order is by what everything else depends on.

| Modules | Of | State |
|---|---|---|
| `ReliableChannel`, `PersistentProtocol`, `PersistentProtocol_proof`, `ProtocolTimers_proof`, `ProtocolStreams_proof` | the protocol over replaceable sockets, and the abstract channel it implements | modelled, checked, proved |
| `HandshakeSockets`, `ReconnectionLoop`, `ConnectionRegistry`, `RemoteConnections` (composes them), `RemoteConnections_proof` | the loop of the client, the registries and grace timers of the server, the extension host process | modelled, checked, proved |
| `RemoteCalls`, `IpcChannels`, `IpcChannels_proof` | `ipc.ts`: calls, cancellation, events, late channels; and the abstract calls they implement. Over a channel that delivers in order, which is what `PersistentProtocol` implements | modelled, checked, proved |
| `StorageCache`, `SqliteStorage` (uses it), `SharedStorage` (composes it with the windows), `SharedStorage_proof` | the write-behind cache, the database with its backup and its recovery, the windows that share it | modelled, checked, proved |
| `TaskSequentializer`, `StoredFileWorkingCopy` (uses it), `StoredFileWorkingCopy_proof` | dirty unless what is shown is in the file; saves in order; conflicts; reloads and reverts | modelled, checked, proved |
| `EditStacks`, `UndoRedo` (uses it), `UndoRedo_proof` | stacks that share elements, requests that wait, texts that come and go | modelled, checked, proved |
| `ProtocolFraming` | `ChunkStream`, `ProtocolReader`, `BufferedEmitter` | if there is room |
| Observables | no glitch is seen | if there is room |

`MCPersistentProtocol`, `MCRemoteConnections`, `MCSharedStorage` and `MCUndoRedo`
hold the values and symmetries of the model checker.

What could be proved next are the parts of the remaining liveness properties that
are safety (section 9 says which are proved): that the reconnection loop always has a
timer, an attempt or a listener, and that an abandoned server connection has its
grace timer in every state of its process.

## 3. The persistent protocol

`PersistentProtocol` models both ends of one connection.  Variables and code
(`ipc.net.ts` unless said otherwise):

| Variable | In the code |
|---|---|
| `out[p]` | `_outgoingUnackMsg`, `_outgoingMsgId`, `_outgoingAckId`, `_outgoingAckTimeout` |
| `inc[p]` | `_incomingMsgId`, `_incomingAckId`, `_incomingAckTimeout`; `recent` that `_incomingMsgLastTime` is younger than the acknowledgement delay; `replayAsked` that `_lastReplayRequestTime` is less than 10 s ago |
| `writer[p]` | `ProtocolWriter`: `_data`, `_isPaused`, whether `_writeNowTimeout` is set |
| `socket[p]`, `isReconnecting[p]`, `timedOut[p]` | `_socket`, `_isReconnecting`, that `onSocketTimeout` has fired on it |
| `attempt` | where the loop of the client stands (`remoteAgentConnection.ts`): no attempt, socket replaced, or listening for the answer |
| `control` | the buffer of `_onControlMessage` while the client has no listener; the server's end never has one, and its buffer, which nobody reads, is left out |
| `wire[p][n]`, `closed[n]` | the byte stream of socket `n` towards `p`; a closed socket takes nothing more but may still deliver |
| `handled`, `handoff` | the sockets whose handshake the server is done with, and those that are on their way to the extension host process, each with the acknowledgement of its initial chunk |
| `sent`, `delivered` | history, for the properties |

Each public operation, each case of `_receiveMessage`, each timer and each step
of the handshake that touches a protocol is one action.  What `_sendAckCheck`,
`_recvAckCheck`, `flush` and the trailing calls do is part of the action that
calls them.  Time is abstracted to the set of armed timers: a timer may fire
whenever it is armed, and where the handler compares clocks and arms again
instead, both outcomes are allowed.

A management connection has `SocketHandoff = FALSE`; an extension host
connection has `TRUE`, with `Pause` before and `Resume` after the time in which
nobody reads the socket, and `LoseInHandOff` for what arrives in it.  Chunks
enter in one place, where they matter: what has been read behind the
connection-type request goes with the socket (`ChunkAcks`), so that
acknowledgements in it are not lost.  Since the client listens for the answer
before it writes anything else, only acknowledgements and keep-alives can be
there.

Bounds: `MaxSend` messages by each end, `MaxSockets` sockets, `MaxDrops`
messages lost by a socket that works, one keep-alive under way at a time
(keep-alives carry an acknowledgement and nothing else, and a second one behind
the first changes nothing).  *Spare*: the last socket neither breaks nor is
replaced, so that each fault can still be recovered from; otherwise the
liveness properties would be refuted by running out of sockets, and
`NothingStranded` would hold there because nobody reaches it.

### Runs

| Run | What it shows | Why the bounds are enough |
|---|---|---|
| `PPManagement` | the invariant of the proofs, that of the streams included (`SInv`); what the peer lacks is on its way whenever both ends agree on a working socket (`NothingStranded`); no message arrives ahead of its predecessor (`NoGap`); a farewell does not cut data off | three sockets give a failed attempt, a stale socket accepted after a newer one, and recovery; two messages give an order to violate |
| `PPLossy` | messages that go missing on a working socket: replay requests, both directions at once, each a `ReliableChannel` (`ReliableBothWays`); `Data` has two values, so that delivering the wrong message shows | one loss makes the gap and the replay; symmetry in `Data` is sound, as no action looks at it |
| `PPLive` | sockets that are handed over: no timer is forgotten (`NoTimerForgotten`); what is sent is confirmed, hence delivered (`EventuallyConfirmed`), which nothing may be stranded for | a hand-off needs a second socket, a stale one a third; one message, failed attempts included, is enough for every wait there is |

Fairness (`FairSpec`): timers fire, a readable socket is read, each step of the
handshake is taken once it can be, and the loop opens another socket after a
close or a timeout.  All of these are callbacks of an event loop or timers, and
the loop in the code runs until its grace time is over, which is where
`RemoteConnections` takes over.  Nothing is assumed about users, keep-alives,
faults, `debugTriggerReconnection` or the outgoing-acknowledgement timer.

### Proofs

`PersistentProtocol_proof` proves, for any number of messages, sockets and
losses, and for both kinds of connection:

* `Invariance`: `Spec => []IInv`.  `DeliveredInOrder` alone is not inductive: a
  replayed message is accepted on the strength of its number, so the invariant
  has to say that whatever is anywhere in transit from `p` has the payload that
  `p` gave to that number (`Written`), in the writer, on every socket
  (abandoned ones too) and in the queue (`Outgoing`).  For the queue to be exact,
  acknowledgements must be honest: nothing in transit acknowledges more than
  its sender has received, which is the other half of `Written` and the
  conjunct of `InTransit` about hand-offs.
* `TypeCorrect`, `InOrder`, `QueueExact` (`NothingForgotten`, whose consequence
  is that the non-null assertion on `peek()` in `_recvAckCheck` is safe).
* `Implements`, from `ImplementsToServer` and `ImplementsToClient`: each direction
  implements `ReliableChannel`.  `Direction` is proved once for both; every step sends,
  delivers the next message, confirms delivered ones, or is a stutter
  (`NextChannelStep`).

One lemma for each action shows that it keeps the invariant.  The assumption is
`ConstantsAssumption`, which TLC evaluates in every run.

`ProtocolTimers_proof` proves `NoTimerIsForgotten` (`NoTimerForgotten`), for either
kind of connection and any number of losses.  It is inductive beside `IInv`: it
speaks of each end alone, and of each end of three parts that have a lemma each:
what `Write` does to a writer whose flush is scheduled (`WriteWakes`), what an
acknowledgement does to a half that is watched (`ConfirmWatched`), and what
`_recvAckCheck` leaves behind (`CheckWatches`).

`ProtocolStreams_proof` proves, again for any number of messages and sockets and for
both kinds of connection, what holds as long as no working socket has lost a message
(`drops = 0`; a loss makes the gap that the replay request is there for, and
`InOrder` is what remains true then):

* `StreamsInvariance` (`SInv`), and from it `StreamsHaveNoGap` (`NoGap`),
  `NoneIsStranded` (`NothingStranded`) and `NoneIsCutOff` (`NothingCutOff`).

`NoGap` and `NothingStranded` speak of the socket in use; neither is inductive, as
the one that will be used next may have been written to already, and as what an end
reads on its socket is the part of a stream that was put there before the other end
let go of it.  The invariant therefore says of every socket that what is left on it
has no message before its predecessor, seen from what its reader has received
(`ComesInOrder`), and of each end that the stream it is writing, the buffer included,
goes on from there and brings all that the peer lacks (`StreamIsWhole`).  What makes
a replay enough is that it starts with the first message the peer has not confirmed,
and `IInv` bounds that one by what the peer has received.  What makes nothing lost
in a handshake is silence: until the server's end reads a socket the client writes
no data to it (`ClientWaits`, `IsQuiet`), since it is still reconnecting, and, in a
hand-off, since the pause that comes before the answer keeps its writer from
flushing.  `FarewellIsLast` says of a `Disconnect` that it ends its stream, behind
all that its sender had sent, unless the sender left in the middle of a
reconnection.  The lemmas about sequences are stated once: what concatenation, a
tail, a suffix and a queue do to streams without gaps (`UnbrokenQueue`,
`UnbrokenNext`, `UnbrokenTail`, `BringsConcat`), what a writer leaves on a socket
that is given up (`LeftIs`), and what the end of a reconnection writes (`ReplayIs`).
The proof led to one correction of the model: a control message that reached the
server's end was buffered with the client's, which `ReceiveControl` no longer does.

## 4. The connections of a window

`HandshakeSockets` holds the sockets (`link`): whose each is, which stage its
handshake has reached, whether it is alive, and whether a `Disconnect` was the
last thing said on it (`bye`).  What is said on a dead socket is lost; what was
said before may be read or lost.

`ReconnectionLoop` (`remoteAgentConnection.ts`).  `client[c]` holds the await at
which the asynchronous function of the connection stands (`pc`), the attempt of
the initial connection, its socket, whether its close was heard, whether the
grace time is over (`late`), the flags `failed` and `disposed`, and the last
events fired; `permanentFailure` is the static flag shared by connections.
`_gotoPermanentFailure`, `_instances`, the loop's conditions, catch block and
sleeps, and the initial connection with its bounded retries are operators and
actions with the order of the code.  All that happens between two awaits is one
action.

`ConnectionRegistry` (`remoteExtensionHostAgentServer.ts`,
`remoteExtensionManagement.ts`, `extensionHostConnection.ts`,
`extensionHostProcess.ts`).  `entry[c]` is what the server has registered under
the token of `c`: the socket, the two grace timers (`long`, `short`), and, for
an extension host connection, the process, the socket kept for it (`data`),
those on their way to it, and whether a message that reduces the grace time is.
The process keeps its own timers in the code; as an entry has either the
timers of a `ManagementConnection` or those of a process, the fields are shared.

Abstractions, and why they lose nothing the properties tell apart:

* An initial connection has a fresh token at each attempt, and only an attempt
  that is answered is used by the client; entries are therefore kept for each
  connection, not for each token.  The orphan that a failed, registered attempt
  leaves on the server has no client; it is reaped like any other.
* Signing and token comparison are one step, which fails only after a restart,
  when the connection token may be another one.
* Grace times are read from `GraceTimes`, "zero" or "some", by each loop anew,
  as `updateGraceTime` may change them in between.
* `Exit` chooses which sockets in transit die with the process.

Bounds: sockets, attempts of the initial connection (5 in the code, 1 or 2
here: more differ from the second in nothing but the counter), restarts and
crashes.

### Runs

| Run | What it shows | Bounds |
|---|---|---|
| `RCLive` | a management connection: both ends agree on the socket in use, and it is not being timed out (`SameSocket`); loops end, the server lets go of a window that is gone; with grace time zero too | three sockets, two attempts of the initial connection, one restart |
| `RCExtHost` | with a process that starts, crashes and receives sockets in any order: the inductive invariant; grace timers run exactly for the abandoned (`TimedIffAbandoned`); a connection is served again or fails | two sockets, so that one may be in transit while another is served, one crash, one restart |
| `RCWindow` | a permanent failure reaches both connections, also the one being made; the order of events | two connections, of which the management connection is fatal |

Fairness: promises settle, timers elapse, what a live peer wrote is read, the
server hears of exits and closes.  The network is never assumed to be kind, and
nobody is assumed to close anything.  `SocketTimesOut` is fair only while the
connection is not served: then the client's keep-alives and messages get no
answer, and both `_recvAckCheck` and the keep-alive interval, which look at the
time since the last data came in, fire in the end; while it is served the
timeout may come but need not.  The load estimator, which may put a timeout off
while the process is busy, does not suppress it for ever.

### Proofs

`RemoteConnections_proof` proves, for any connections, sockets, attempts,
restarts and crashes:

* `Invariance`: `Spec => []IInv`; `TypeCorrect`; `GraceTimersExact`
  (`TimedIffAbandoned`); `FailureSpreads` (`FailureReachesAll`).
* `BothEndsAgree` (`SameSocket`) and `EventsInOrder` (`EventsFollow`).

`TimedIffAbandoned` is not inductive because sockets reach an entry in several
ways: a reconnection, a hand-off still in transit, the socket kept for a process
that is not ready.  `Registered` says of all of them that they have been opened
and that only a live entry has any; a socket once opened never comes alive again,
so that a closed entry stays closed until it is given another socket.  The
argument has two halves.  `Keeps` is the order in which sockets age (an opened
socket stays opened, and a dead one dead); every action of the client and the
network keeps it, and an entry that fits the sockets still fits when they have aged
(`FitsKept`), so the client cannot disturb the registry.  Of the server's
actions each has a lemma that the entry it writes fits.  `FailureReachesAll`
follows from the client alone: the server's steps leave it alone (`SameClient`).

`SameSocket` and `EventsFollow` rest on three more invariants.  `Answers` is the
server's: a socket that was answered for a management connection and still works
is the one registered, since accepting any socket ends the one before it, in
whatever order they were opened.  `Told` is the client's: the last event says
where the loop stands, a gain that it rests, a wait that it sleeps, an attempt
that it runs, a failure that it is to stop.  `Holds` joins the two: the socket a
connection keeps is its own, and was answered if a gain was the last it told.
`Moves` is how sockets age, with their owner and their answer.

The proof needs `InUse` to ask for that last gain.  Being at rest is not enough:
when another connection fails for good while an attempt of this one is under way,
the attempt may end without an answer and keep a socket that works and that nobody
registered.  `RCLive` has one connection and cannot show it; the theorem covers it.

The assumptions are `SocketsAssumption`, `LoopAssumption` and
`RegistryAssumption`.

## 5. IPC channels

`IpcChannels` models a `ChannelClient` and a `ChannelServer` (`ipc.ts`) and one
channel that is registered before, while or after requests for it arrive, more
than once, or never.

| Variable | In the code |
|---|---|
| `client`, `server` | the states of the two ends; of the server also how many timers of `registerChannel` are still to fire |
| `outcome[c]` | what the promise of call `c` has come to |
| `unsent` | requests that wait for the Initialize message |
| `handlers`, `listening`, `heard` | the client's map of response handlers; events with a listener; the last event it was told |
| `pending` | `pendingRequests`, each with whether its time limit still runs |
| `active`, `token[c]`, `subscribed[e]` | `activeRequests`, and what stands behind them: the cancellation token of a call, the listeners of an event |
| `toServer`, `toClient` | what is on its way, in order |
| `runs[c]`, `fired`, `history` | for the properties |

A call has the number of its request.  An event keeps the number it has been
given when its last listener leaves and another one comes, as the `Event` object
keeps it in the code.  Requests that waited for Initialize go out in the step
that receives it; the code sends them a microtask later, when nothing can have
come between but other requests, which have no order among each other.

`RemoteCalls` is what a caller may expect of `IChannel.call`: no command is run
twice, and a result or an error is that of a run.  `ImplementsRemoteCalls`
states that the channels are such calls.

Run `Ipc`: besides the refinement and the invariant of the proofs, calls settle
(`CallsSettle`), cancellations and subscriptions arrive, nothing is remembered of what
is over (`CancelsArrive`, `EndsAgree`), a listener hears nothing twice or out of order
(`HeardOnce`).  The invariant (`AInv`) has as a consequence that nothing comes to rest
with a call that is not settled (`SettledWhenIdle`). Two calls give an order; two
events fired and one `Event` let what is on its way meet a new listener; two
registrations give the flush that is repeated; `MaxInputs` bounds all that is asked of
the ends together.  Fairness: messages arrive, timers elapse, commands end, and a
connection that is gone is gone for both ends.  No one has to register the channel.

### Proofs

`IpcChannels_proof` proves, for any calls, any finite set of events and any number
of registrations and inputs (`IpcAssumption`):

* `ChannelsInvariant` (`IInv`), and from it `EndsAgreeAtRest` (`EndsAgree`),
  `CancellationsArrive` (`CancelsArrive`) and `EventsAreNews` (`HeardOnce`).
* `AnswersAlwaysCome` (`AInv`: `AnswersCome`, inductive beside `IInv`), and from it
  `CallsAreSettledWhenIdle` (`SettledWhenIdle`), the part of `CallsSettle` that is safety.
* `CallsAreImplemented` (`ImplementsRemoteCalls`): each step of the channels is a
  step of `RemoteCalls`, or leaves its variables alone.

None of them is inductive, as each speaks of a moment at which messages have
arrived.  The invariant says what the messages on their way will do.  For calls:
a request has at most one place among `unsent`, the stream to the server, `pending`
and its run (`OnePlace`), what has an answer has run (`AnsweredHasRun`), and a
cancelled call has its cancellation behind it (`CancelFollows`), for which
disposing the client must cancel what still waits for Initialize.  For events:
requests and ends on their way alternate, and lead from what the server has to what
the client wants (`Alternate`, in `ListenedOnce`); what was fired comes in order
and is newer than what was heard (`FiredInOrder`).  A channel registered twice is
harmless because a flush of `pending` empties it: it is one step here as in the code.

That no caller is left behind needs, beyond where each call is (`OnePlace`), that
someone still handles the response of each call that is not settled
(`ServesPending`), and that a call that is pending with its timer elapsed has its
`Unknown channel` on the way (`TellsElapsed`): without the latter the race between
the time limit and the registration of the channel could swallow the answer.  At rest
(`Idle`) each place a call can be in is then empty, or is that of a result that could
not be sent.

What the properties leave out is what the code does: a call whose time limit is
over stays pending and is run when the channel is registered after all (its
answer then finds no handler); a cancellation or `EventDispose` of a request
that is still pending is ignored, so that the command runs, or the event is
subscribed to and never left (`history.crossed`); a result that cannot be
serialized leaves the call unanswered (`history.lost`); from `registerChannel` to
its timer later requests overtake the ones that wait; the timers are not stopped
when the server is disposed.

## 6. Storage

`StorageCache` is a `Storage` (`common/storage.ts`) as a record and what its
operations make of it: the cache, `pendingInserts` and `pendingDeletes`, and of
`ThrottledDelayer` the timer, the active update and whether another one is queued.
`chained` says that those who wait for the last update wait for one that had been
queued: `Throttler.queue` resolves their promise with its result and does not reject
it with its error (`async.ts`, 268 to 270), so that after a failure (`Failed`) they
wait for ever (`IsHung`).  Both the windows and the main process have one.

`SqliteStorage` is the storage of the main process over its database
(`node/storage.ts`): `phase` is the await at which opening or closing stands,
`file` and `backup` what the two files hold, `connection` the flags
`isErroneous` and in-memory.  Each file operation and each transaction is a
step, and each may fail.  What a failed update leaves behind is any of its parts.
`durable` is history: what the next session is owed, and, in `lost`, why it may not
find it: the items could not be read, the recovery was given up, or the close hung and
the process was ended from outside (`MainIsEnded`, no part of the fairness).

`SharedStorage` adds the windows: `store[w]`, requests and answers on their way,
and `changed`, the changes still to be announced by the debounced event, to all
windows, with the values of then.  The answer to an update does not wait for the
update to be written, as in the code.

Run `Storage`: the invariant of the proofs (`NInv`); nothing falls between the pending
sets and the update that is awaited (`NothingUnwritten`); a close waits for the queued
update too, and leaves all in the file when it has made the backup (`ClosesComplete`);
one fault anywhere costs nothing that was written or that a close was to write, but
for three cases that `SurvivesOneFault` names: what could not be read is not
recovered; the recovery is given up, which takes a session in memory, of a database
that did not exist when it was opened; and a close hangs before the recovery, which
takes an update that has failed; a window with nothing on its way shows what the main
process has (`WindowsAgree`); everything comes to rest, a close that hangs apart, and
windows, main process and file agree then (`Settles`).  Two windows are needed for
announcements to cross; one key is enough as keys do not meet, and its absence makes
one value two; two sessions are a fault and the opening after it.  Fairness: the
system does something as long as it can, in any order; nobody opens, changes or closes
anything.

`StorageClose.cfg` shows what `Settles` leaves out, section 10: a close does not end when
its flush is queued behind an update and fails (`ClosesAnyway` is violated).  One
session and two changes are enough: the first is being written when the window closes
with the second.

### Proofs

`SharedStorage_proof` proves, for any windows, keys and values, any number of
sessions and of faults (`ItemsAssumption`, `FilesAssumption`, `SharedAssumption`):

* `SharedStorageInvariant` (`IInv`), `NothingIsUnwritten` (`NothingUnwritten`),
  `ClosesAreComplete` (`ClosesComplete`) and `OneFaultIsSurvived` (`SurvivesOneFault`);
* `NewsAlwaysComes` (`NInv`: `NewsComes`, inductive beside `IInv`), and from it
  `WindowsAlwaysAgree` (`WindowsAgree`), the part of `Settles` that is safety.

`NothingUnwritten` looks at the pending sets at every moment, and a close only at
the end of its flush, so the invariant has to say what brings pending changes to the
file: a timer or a queued update for the storage of each window and of the main
process (`IsScheduled`), at most one request of a window on its way, so that the
answer a window gets is to the update it awaits (`OneRequest`), and for each await of
opening and closing what file, backup and connection can be there (`MainFollows`,
`FileHolds`).  `SurvivesOneFault` needs that nothing goes wrong by itself
(`FaultsAreCounted`) and `OneFaultIsRecovered`: after one fault, whichever of file and
backup will be opened next holds what is owed, unless `lost` says why not.

`WindowsAgree` speaks of windows with nothing on their way; `NewsComes` says of every
window that has its items, and each key, why it will get there (`ShowsOrHears`): the
key is to be announced, or the last word on the way to the window is the value of the
main process, or no word is on its way and the window shows that value or one that
its own updates will bring (`Brought`).  A window that changes a key behind an
announcement is the hard case: the announcement overwrites what it shows, but its own
update is announced again, to it too.  A window that loads counts from the answer
with its items on, since the announcements behind it are accepted after it;
that is where the mutant of `Broadcast` fails.

Behaviours that no run is spent on: a first read that fails leaves the cache
empty, and the close then rewrites the database from it, without what was not
read (`"unread"` in `durable.lost`; the comment at `node/storage.ts:208` speaks of the
cache as the known state); between two changes of a window the announcement of
the first takes its cache back, and a `set` of the announced value then returns
early while the second change is still pending and is written (`common/storage.ts`,
277 and 303); `flush` returns while an update is under way, although the service
promises that it is written (`platform/storage/common/storage.ts:217`).

## 7. Stored file working copies

`TaskSequentializer` (`async.ts`) is a running task with an id and at most one
that is queued.  `StoredFileWorkingCopy` is one working copy, its manager's queue
of resolves, the file and the other programs that write it.

| Variable | In the code |
|---|---|
| `copy` | the model's content, `versionId`, `dirty`, `savedVersionId`, the modes conflict and error, the `mtime` of `lastResolvedFileStat` |
| `sequentializer`, `saves[s]` | the saves that execute, with the await each is at: delay, participants, snapshot, check, comparison, write, stat, its result |
| `ignoring` | `ignoreSaveFromSaveParticipants` |
| `resolve`, `waiting` | the resolve that runs, with its await, and those who wait in `joinPendingResolves` |
| `file`, `event` | all contents the file has had, its length being the time of its last modification; that a file event is on its way |
| `bounds`, `history` | no code: counters, and what the properties look back at |

A content stands for the alternative version id too: undo brings both back.
There are two slots for saves, so that two at the same time could be seen.

`writeFile` and `readFileStream` of the file service (`fileService.ts`) take several
awaits, and other programs write between any two of them.  A save looks at the file
and compares mtime, etag and size (`Check`), compares contents if the sizes are the
same (`Compare`), writes (`Write`), and looks at the file again for the stat that the
working copy will remember (`Stat`).  A resolve takes the stat first (`Read`); what it
reads after that is what the file holds then or held since (`Update`).
`history.mistaken` says that a stat was remembered of contents that were not the ones
written, or that were not read in the end.  Each write and each read of the contents is of one piece, and a write
that fails leaves the file as it was.

Run `WorkingCopy`: the invariant of the proofs; saves do not overlap
(`OneSaveAtATime`); none that was asked for is lost (`SavesAreHonoured`); a clean copy
is what the file held at the time it remembers, or has held since (`CleanIsKnown`); a
save writes only after its check saw a file that had been shown, or that the user
asked to overwrite (`SavesKnowTheFile`); a reload does not replace what was typed
(`EditsSurvive`); nobody waits for ever.  Two edits, two saves, one write by another
program, one revert and one failure, five of these together: an edit during a save, a
save that cancels and is queued, a conflict and its overwrite all fit; the invariant
was also checked with two writes by other programs and six inputs (9,536,062 states).
Fairness: delays elapse, and file operations, participants and snapshots end.

`SavesKnowTheFile` speaks of the check.  What the file is when it is written is another
matter: `WorkingCopyRace.cfg` and `WorkingCopyStat.cfg` show, section 10, what a write of
another program between check and write does, and one between write and stat.

Exempted, because the code does it: a stat of contents that somebody else wrote, or
that were not read in the end (`history.mistaken`); while a resolve of the
same version runs, or the user types while the model is being updated, a save may
overwrite another program's change (`history.overlapped`; the check at line 459 of the
file is about resolves that start during a save, not about saves that start during a
resolve).  For the same reason a save that was asked for may find nothing to save: a
version is saved while a resolve of it runs, the save fails and is asked for again,
the user types during the update of the model and an auto save is queued; the update
then declares the copy clean, and the queued save has no reason to run.  Further, an
undo to the version of an earlier save marks the copy clean after another version was
saved (`history.undone`); a revert during a save marks it clean without a resolve
(`history.reverted`); and a newer file of the same size counts as unmodified, a
compromise that the comment of `validateWriteFile` explains: here different contents
differ in size.

`WorkingCopyRevert` is a finding, section 10.

An explicit save is a forced one, as the save commands ask for
(`workbench/contrib/files/browser/fileCommands.ts`, 499 and 510); one that is not forced
does what an automatic save does, except on a copy in conflict or error.
`ignoreErrorHandler` is left out: those who set it save text files, whose model is
another class (`configurationEditing.ts:222`,
`chatEditingModifiedDocumentEntry.ts:277`).

### Proofs

`StoredFileWorkingCopy_proof` proves, for any number of edits, saves, reverts,
failures and changes of the file by others (`NoTaskAssumption`,
`WorkingCopyAssumption`):

* `WorkingCopyInvariant` (`IInv`), and from it `OneSaveExecutes`
  (`OneSaveAtATime`), `CleanWorkingCopies` (`CleanIsKnown`), `SavesHonoured`
  (`SavesAreHonoured`), `OverwritesWhatIsKnown` (`SavesKnowTheFile`) and
  `ReloadsKeepEdits` (`EditsSurvive`).

The sequentializer knows its tasks by version ids, which change while they run; that
two saves never run together follows only from the tie between the running task and
the slot that runs it, cancellation included (`OneSaveAtATime`, `CancelledForOne`).
`AskedIsUnderWay` says which save will write what was asked for, `TakenIsKnown` and
`RememberedIsSeen` that versions, contents and times which saves and resolves took
along across their awaits still fit together, `ResolvesAlone` that, overlaps
exempted, a resolve of the present version finds nothing dirty and nothing saving.
What is remembered of the file need not be what was shown, as long as the file has been
written since: then the next check fails (`IsKnown`), and what it lets pass is known
(`KnewTheFile`).  That takes that nobody else writes what the file has held before
(`OthersWriteNew`), since equal contents pass as equal.
The counterexample above to an earlier `SavesAreHonoured` came out of the proof: the
step of `Update` could not be shown, and TLC found the behaviour with three saves
and six inputs.

## 8. Undo and redo

`EditStacks` has the operations of `ResourceEditStack`: push, move, split, flush,
remove, snapshot and restore.  `UndoRedo` adds the requests (`_undo` and `_redo`
with all that they call, up to the next await: `request[q].pc` is the await, or
"go" and "next" while no other callback can come in), the edits, and the models
of `ModelService` that close, are evicted, and open again.

| Variable | In the code |
|---|---|
| `element`, `stack[r]` | the elements, and the past and future of each resource with its lock; an entry is an element or the part that a split made of it |
| `removed`, `invalid` | `removedResources`, `invalidatedResources` and `isValid` |
| `text[r]`, `open`, `unloaded` | the text, as the edits it consists of; whether it has a model, and which elements have lost theirs |
| `initial[r]`, `disposed[r]` | the snapshots taken by models, and `DisposedModelInfo` |
| `undone` | operations on files that are undone |

An edit is applied to the text it was made for, or garbles it: in that way the
text itself says whether stack and text have drifted apart.  `ConfirmedGroups` are the
groups whose operations on files ask before they are undone (`confirmBeforeUndo`);
an operation on files is on one file or on several.

Run `UndoRedo`: the invariant of the proofs; no text is garbled (`NothingGarbled`);
what is undone in one file is undone in all, and operations on files may be undone if,
and only if, they are done (`SidesAgree`); locks are held by a request that runs, and
no longer (`LocksAreHeld`); the calls of `_undo` and `_redo` of each other end
(`RecursionEnds`, with a count that no chain of splits and groups of two elements can
reach).  Two resources, two elements, two requests, a close and a change of the text
are what every interleaving at one await needs; resources are symmetric, as the code
never compares them.

### Proofs

`UndoRedo_proof` proves, for any finite set of resources and any number of elements,
groups, requests, closes and changes (`UndoRedoAssumption`):

* `UndoRedoInvariant` (`IInv`), `SidesAlwaysAgree` (`SidesAgree`),
  `LocksAreOfRequests` (`LocksAreHeld`) and `TextsAreWhole` (`NothingGarbled`);
* `CallsEnd` (`RecursionEnds`), from an invariant of its own, `CallsInv`.

That an edit meets the text it was made for is a statement about one moment; what
keeps it true is that the elements of each stack follow one another from the text down
the past and up the future (`Follow`), over the operations on files between them, and,
while the text is closed, from the text that was disposed of (`TextFollows`).  An
element is moved in all its stacks at once, so it must be at the end of each
(`EntriesInPlace`, `SidesAgree`), and a request that has waited must still know an
element and a place it is in (`Stands`); a lock is of a request that runs, where it
runs (`LockStands`).  The long part are the moves in all stacks at once, for which
`MoveIs` says at once what becomes of every stack, and `restoreSnapshot`, which keeps
a prefix of the past.

That the calls end needs a quantity that each of them makes smaller.  It is the number
of elements on the side in question that are not split there (`Undivided`): a split or
an element invoked in a group leaves one less, and a call that only goes to where its
group has it go on is followed by one of the others (`AtNext`, `GroupCalls`), so that
`calls` and what is ahead stay within twice the number of elements (`Bounded`).  A
split leaves one less only if it splits the element wherever it still is, which is why
what is in a stack must not be marked as gone from it (`Unmarked`); there the
exemption of `history.outlived` comes in.

What the properties leave out is what the code does.  `history.outlived` are the
resources whose text elements outlived `restoreSnapshot`: its cause is the finding
`UndoRedoReopened`, and two more follow from it, namely that an element of several
texts that is kept in the future but marked as removed makes `_redo` and
`_tryToSplitAndRedo` call each other without end, and that a bulk edit, which is
pushed before it is applied, is part of the snapshot its model takes and is kept
after the text was replaced.  A split for a stack that is gone ends in a
TypeError (`SplitAndGo`), since `flushAllElements` tells no element and "undo this
file" does not look.  A stack that is dropped while locked takes its lock with it,
and the one made anew is not locked.

## 9. Proved and model-checked

Proved for all values of the constants are the theorems of sections 3 to 8, each
with the run that checks the same property on an instance: every property of the
passing runs but liveness, which is out of the prover's reach:
`EventuallyConfirmed`, `LoopEnds`, `ServedOrFailed`,
`AbandonedIsDisposed`, `CallsSettle`, `Settles` and `NobodyWaits`.

Of most of these the part that is safety is proved, namely that what is waited for is
under way, or that nothing can come to rest short of it.  What is left to the model
checker is that fair steps then reach it.

| Liveness, model-checked | Safety part, proved |
|---|---|
| `EventuallyConfirmed` | `NothingStranded`, `NoTimerForgotten` |
| `AbandonedIsDisposed` | `TimedIffAbandoned` |
| `CallsSettle` | `SettledWhenIdle` |
| `Settles` | `WindowsAgree`, `NothingUnwritten` |
| `NobodyWaits` | in `IInv`: a task that is marked as running is a save that runs (`OneSaveAtATime`), and what waits for a resolve has one under way (`ResolvingOK`) |
| `LoopEnds`, `ServedOrFailed` | none beyond `IInv` |

## 10. Findings and remarks

* `WorkingCopyRevert`: the manager passes on only `reload.force`, so that a revert,
  which asks to read the file (`storedFileWorkingCopy.ts:1280`: "Force read from
  disk unless reverting soft"), goes by the etag: if the file has not changed since
  the copy last looked, the edits stay in a copy that is now clean.
* `UndoRedoReopened`: `restoreSnapshot` cuts the undone elements only if the past is
  as it was in the snapshot.  Close a text with an undone edit, change the file,
  open, close and open it again: redo applies the edit to a text it was not made
  for, whereas `modelService.test.ts:369` says that the history is not kept "for
  same resource and different content".

Three more have no run of their own, but a configuration with which TLC finds the
property violated:

* `StorageClose.cfg`, `ClosesAnyway` of `SharedStorage`: `doClose` means to close the
  database even if its flush fails ("We must always ensure the DB is closed to avoid
  corruption", `common/storage.ts:345`).  But a flush that is queued behind an active
  update and fails does not settle (`async.ts:268`: the queued promise has no way to
  reject), so that the close waits for ever, and neither the recovery nor the close of
  the database is reached.
* `WorkingCopyRace.cfg`, `NeverOverwritten` of `StoredFileWorkingCopy`:
  `validateWriteFile` is to bail out "to prevent dirty writing" (`fileService.ts:501`), but
  stat and write are awaits apart (487 and 417): what another program writes between
  them is replaced without a conflict.
* `WorkingCopyStat.cfg`, `ConflictsAreSeen` of `StoredFileWorkingCopy`: the stat that
  follows the write (`fileService.ts:431`) may be of what another program has written by
  then; the working copy takes it for its own, and the next save replaces that file
  without the conflict that `storedFileWorkingCopy.ts:201` describes.

Differences between comment and code without a configuration:

* An initial connection whose socket dies after the connection-type request was
  written neither succeeds nor fails, since it has no time limit there and nobody
  listens to the close (`remoteAgentConnection.ts`, 418 to 435); the comment
  promises that it gives up after five attempts.
* `_gotoPermanentFailure` never sets the flag of the instance that
  `_beginReconnecting` reads ("no more attempts!", line 642), so that an extension
  host connection that failed may start another loop.
* A failure of another connection does not stop an attempt under way, and
  `ConnectionGain` then follows `ReconnectionPermanentFailure` (line 731), which the
  list of possible transitions in `workbench/contrib/remote/browser/remote.ts:885`
  does not have.  That list also lacks the transitions from
  `ReconnectionRunning` to `ReconnectionWait`, which each failed attempt takes, and
  from any state to `ReconnectionPermanentFailure`.
* The header of a message is 13 bytes, not the 9 that `ipc.net.ts:540` mentions
  before listing 13.

## 11. Not modelled

* Of the protocol: the framing (`ProtocolReader`, `ChunkStream`), numbers beyond
  32 bits, `pauseSocketWriting`, the load estimator (a timeout may or may not be
  suppressed), tracing.
* Of the connections: signing, tunnels (one attempt, no reconnection), HTTP
  requests, the named pipe used on Windows, the lifetime of the server.
* Of the IPC channels: serialization, `IPCServer` with its routing, multicast
  events and connections, delayed channels, an `Event` obtained before a client
  is disposed and listened to afterwards.
* Of the async primitives: all that the modelled components do not use.
* Of the storage: `compareAndSwap`, `optimize`, `isUsed`, the mark of a new
  database, in-memory storages of workspaces, the retry of a busy database,
  callbacks of `whenFlushed`, the cutting of statements into chunks.
* Of the working copies: files that are deleted or orphaned, backups, `dispose`,
  models that save themselves, read-only files, elevated writes, a write that fails half
  way, saves that are neither forced nor automatic, `ignoreErrorHandler`, a resolve from
  given contents, an update of the model that fails; that several waiting
  resolves are let go at once; the text file model, which is a class of its own.
* Of undo and redo: sources and their confirmation, elements that are merged by
  `canAppend`, cells whose undo prepares itself, stacks shared by resources
  with one comparison key.
* Observables, planned, see section 2.
* The editor, the user interface, extensions, the command line and the build are
  rendering, I/O or generated code; the additions of this distribution
  (`arabicpy`, `dlophon`, `kate`) keep no state worth a model.
