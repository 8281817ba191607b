--------------------------- MODULE ReconnectionLoop ---------------------------
(***************************************************************************)
(* The client's connections (platform/remote/common/                       *)
(* remoteAgentConnection.ts): the initial connection, which is tried a     *)
(* bounded number of times, and then a PersistentConnection with its       *)
(* reconnection loop, its events and the permanent failure that            *)
(* connections share.                                                      *)
(*                                                                         *)
(* pc is the await at which a connection's asynchronous function stands:   *)
(* "resolving" the address, "connecting" the socket, "authenticating"      *)
(* until the sign request is read, "requesting" until the answer is read,  *)
(* "sleeping" between two attempts; or it runs no such function: "idle",   *)
(* "rejected" after the initial attempts, "left" when the window is gone.  *)
(***************************************************************************)
EXTENDS HandshakeSockets, Sequences

CONSTANTS
    Fatal,          \* connections whose failure fails all (management)
    MaxAttempts,    \* attempts of the initial connection (5 in the code)
    GraceTimes,     \* what updateGraceTime may set: "zero", "some"
    MayDispose      \* TRUE: connections may be disposed by their owner

ASSUME LoopAssumption ==
    /\ Fatal \subseteq Conns
    /\ MaxAttempts \in Nat \ {0}
    /\ GraceTimes \subseteq {"zero", "some"}
    /\ MayDispose \in BOOLEAN

VARIABLES
    client,             \* the connections
    permanentFailure    \* PersistentConnection._permanentFailure (static)

clientVars == <<client, permanentFailure>>

Awaits == {"resolving", "connecting", "authenticating", "requesting", "sleeping"}
Events == {"gain", "lost", "wait", "running", "failure"}

ClientInit ==
    /\ client = [c \in Conns |->
                    [pc |-> "resolving", initial |-> TRUE, attempt |-> 1, socket |-> NoSocket,
                     heard |-> FALSE, late |-> FALSE, failed |-> FALSE, disposed |-> FALSE,
                     events |-> <<>>]]
    /\ permanentFailure = FALSE

\* The loop of _runReconnectingLoop is active: _isReconnecting.
Looping(c) == ~client[c].initial /\ client[c].pc \in Awaits

\* PersistentConnection._instances.
Instances == {c \in Conns : ~client[c].initial /\ ~client[c].disposed /\ client[c].pc # "left"}

\* events holds the last batch of events fired; a disposed emitter fires none.
Fire(k, batch) == IF k.disposed THEN k ELSE [k EXCEPT !.events = batch]

-----------------------------------------------------------------------------
(* Permanent failures.                                                     *)

\* _gotoPermanentFailure: the event, then the protocol and its socket are
\* disposed, so that the socket is no longer listened to.
Failed(k, batch) == [Fire(k, batch) EXCEPT !.failed = TRUE, !.socket = NoSocket]

\* Mutant of FailedWith: nobody unless fatal.
FailedNobody(c, fatal) == IF fatal THEN Instances ELSE {}

\* The connections a permanent failure of c takes down.
FailedWith(c, fatal) == IF fatal THEN Instances ELSE {c}

\* c gives up after firing "before"; its record is then k.
GiveUp(c, k, before, fatal) ==
    LET F == FailedWith(c, fatal)
    IN  /\ client' = [d \in Conns |->
                        LET r == IF d = c THEN k ELSE client[d]
                        IN  IF d \in F THEN Failed(r, IF d = c THEN before \o <<"failure">>
                                                               ELSE <<"failure">>)
                                       ELSE r]
        /\ link' = End(link, {client[d].socket : d \in F})
        /\ permanentFailure' = (permanentFailure \/ fatal)

-----------------------------------------------------------------------------
(* The start of the loop.                                                  *)

\* Mutant of MayReconnect: the permanent failure is not looked at.
MayReconnectAlways(c) == ~client[c].initial /\ client[c].pc = "idle" /\ ~client[c].disposed

\* _beginReconnecting: one loop at a time, and none after a permanent failure.
MayReconnect(c) ==
    /\ ~client[c].initial /\ client[c].pc = "idle"
    /\ ~permanentFailure /\ ~client[c].disposed

\* The loop reads the grace time once, whatever it is then: with none left, it
\* gives up without an attempt.
BeginReconnecting(c, k) ==
    \/ /\ "some" \in GraceTimes
       /\ client' = [client EXCEPT ![c] =
                        Fire([k EXCEPT !.pc = "resolving", !.late = FALSE], <<"lost", "running">>)]
       /\ UNCHANGED <<link, permanentFailure>>
    \/ /\ "zero" \in GraceTimes
       /\ GiveUp(c, k, <<"lost">>, c \in Fatal)

\* onSocketClose.  Its listener does nothing while a loop runs; before there is
\* a PersistentConnection nobody listens.
HearClose(c) ==
    LET s == client[c].socket
        k == [client[c] EXCEPT !.heard = TRUE]
    IN  /\ s # NoSocket /\ ~link[s].alive
        /\ ~client[c].heard /\ client[c].pc # "left"
        /\ \/ /\ MayReconnect(c)
              /\ BeginReconnecting(c, k)
           \/ /\ ~MayReconnect(c)
              /\ client' = [client EXCEPT ![c] = k]
              /\ UNCHANGED <<link, permanentFailure>>

\* onSocketTimeout, which a message sent and not acknowledged may fire at any
\* time; debugTriggerReconnection.
SocketTimesOut(c) ==
    /\ MayReconnect(c)
    /\ BeginReconnecting(c, client[c])

-----------------------------------------------------------------------------
(* One attempt.                                                            *)

Resolve(c) ==
    /\ client[c].pc = "resolving"
    /\ client' = [client EXCEPT ![c].pc = "connecting"]
    /\ UNCHANGED <<link, permanentFailure>>

\* The socket is there: a new protocol, or beginAcceptReconnection, which
\* disposes the socket it replaces; then the AuthRequest is sent.
SocketOpens(c, s) ==
    /\ client[c].pc = "connecting"
    /\ link[s].stage = "unopened" /\ \A t \in 1..(s - 1) : link[t].stage # "unopened"
    /\ client' = [client EXCEPT ![c].pc = "authenticating", ![c].socket = s, ![c].heard = FALSE]
    /\ link' = End(Open(s, c, client[c].initial), {client[c].socket})
    /\ UNCHANGED permanentFailure

\* What the server said on c's socket and c has not read.
Reads(c, stage) == /\ client[c].socket # NoSocket /\ ~client[c].heard
                   /\ link[client[c].socket].stage = stage

ReadSign(c) ==
    /\ client[c].pc = "authenticating" /\ Reads(c, "sign")
    /\ client' = [client EXCEPT ![c].pc = "requesting"]
    /\ link' = Say(link, client[c].socket, "request")
    /\ UNCHANGED permanentFailure

\* Mutant of Connected: a permanent failure before the connection is ignored.
ConnectedAnyway(c, k) ==
    /\ client' = [client EXCEPT ![c] = k]
    /\ UNCHANGED <<link, permanentFailure>>

\* The constructor of PersistentConnection, with its last check.
Connected(c, k) ==
    IF permanentFailure
    THEN /\ client' = [client EXCEPT ![c] = Failed(k, <<"gain", "failure">>)]
         /\ link' = End(link, {client[c].socket})
         /\ UNCHANGED permanentFailure
    ELSE /\ client' = [client EXCEPT ![c] = k]
         /\ UNCHANGED <<link, permanentFailure>>

\* The answer is there: endAcceptReconnection, and the loop is over; or the
\* initial connection is made.  An extension host connection that was disposed
\* replays, among its unacknowledged messages, the one that terminates the
\* extension host.
ReadAnswer(c) ==
    LET s == client[c].socket
        k == Fire([client[c] EXCEPT !.pc = "idle", !.initial = FALSE], <<"gain">>)
    IN  /\ client[c].pc = "requesting" /\ Reads(c, "answered")
        /\ \/ /\ client[c].initial
              /\ Connected(c, k)
           \/ /\ ~client[c].initial
              /\ client' = [client EXCEPT ![c] = k]
              /\ link' = [link EXCEPT ![s].bye = @ \/ (client[c].disposed /\ c \in HandedOver)]
              /\ UNCHANGED permanentFailure

AttemptLeft(c) == client[c].attempt < MaxAttempts

\* An attempt of createInitialConnection fails: its protocol and socket are
\* disposed, and it is tried again with a new reconnection token.
InitialAttemptFails(c) ==
    LET k == [client[c] EXCEPT !.socket = NoSocket]
    IN  /\ client[c].initial
        /\ \/ /\ AttemptLeft(c)
              /\ client' = [client EXCEPT ![c] = [k EXCEPT !.pc = "resolving", !.attempt = @ + 1]]
              /\ link' = End(link, {client[c].socket})
              /\ UNCHANGED permanentFailure
           \/ /\ ~AttemptLeft(c)
              /\ permanentFailure' = TRUE
              /\ client' = [d \in Conns |->
                              IF d = c THEN [k EXCEPT !.pc = "rejected"]
                              ELSE IF d \in Instances THEN Failed(client[d], <<"failure">>)
                              ELSE client[d]]
              /\ link' = End(link, {client[d].socket : d \in Instances \cup {c}})

\* Mutant of GraceIsOver: each attempt starts the time anew.
GraceIsNeverOver(c) == FALSE

GraceIsOver(c) == client[c].late

\* The catch block for the errors after which the loop tries again, its
\* condition, and the wait before the next attempt.
TryAgain(c) ==
    /\ ~client[c].initial
    /\ \/ /\ GraceIsOver(c)
          /\ GiveUp(c, [client[c] EXCEPT !.pc = "idle"], <<>>, c \in Fatal)
       \/ /\ ~GraceIsOver(c) /\ (permanentFailure \/ client[c].disposed)
          /\ client' = [client EXCEPT ![c].pc = "idle"]
          /\ UNCHANGED <<link, permanentFailure>>
       \/ /\ ~GraceIsOver(c) /\ ~permanentFailure /\ ~client[c].disposed
          /\ client' = [client EXCEPT ![c] = Fire([@ EXCEPT !.pc = "sleeping"], <<"wait">>)]
          /\ UNCHANGED <<link, permanentFailure>>

\* Temporarily not available, network errors, the time limits: 30 s for the
\* socket, 10 s for the sign request and, of a reconnection only, 30 s for the
\* whole attempt (the initial connection passes CancellationToken.None).
AttemptFails(c) ==
    /\ \/ client[c].pc \in {"resolving", "connecting", "authenticating"}
       \/ client[c].pc = "requesting" /\ ~client[c].initial
    /\ InitialAttemptFails(c) \/ TryAgain(c)

\* An error the loop treats as permanent, whatever the grace time.
Abort(c) ==
    \/ InitialAttemptFails(c)
    \/ /\ ~client[c].initial
       /\ GiveUp(c, [client[c] EXCEPT !.pc = "idle"], <<>>, c \in Fatal)

\* A RemoteAuthorityResolverError, an unknown error.
AttemptAborts(c) ==
    /\ client[c].pc \in {"resolving", "connecting"}
    /\ Abort(c)

\* VSCODE_CONNECTION_ERROR.
ReadRefusal(c) ==
    /\ client[c].pc \in {"authenticating", "requesting"} /\ Reads(c, "refused")
    /\ Abort(c)

\* The sleep ends.  What is checked again is the permanent failure, not
\* whether the connection has been disposed.
Wake(c) ==
    /\ client[c].pc = "sleeping"
    /\ client' = [client EXCEPT ![c] = IF permanentFailure
                                       THEN [@ EXCEPT !.pc = "idle"]
                                       ELSE Fire([@ EXCEPT !.pc = "resolving"], <<"running">>)]
    /\ UNCHANGED <<link, permanentFailure>>

\* The grace time has passed since the loop began.
GraceElapses(c) ==
    /\ Looping(c) /\ ~client[c].late
    /\ client' = [client EXCEPT ![c].late = TRUE]
    /\ UNCHANGED <<link, permanentFailure>>

-----------------------------------------------------------------------------
(* The end of a connection.                                                *)

\* The owner disposes a connection, saying Disconnect on its socket.
Dispose(c) ==
    /\ MayDispose /\ c \in Instances
    /\ client' = [client EXCEPT ![c].disposed = TRUE]
    /\ link' = Farewell(link, {client[c].socket})
    /\ UNCHANGED permanentFailure

\* The window goes away, by a shutdown that says Disconnect or by a crash.
WindowCloses(graceful) ==
    LET S == {client[c].socket : c \in Conns}
    IN  /\ \A c \in Conns : client[c].pc # "left"
        /\ client' = [c \in Conns |-> [client[c] EXCEPT !.pc = "left"]]
        /\ link' = IF graceful THEN Farewell(link, S) ELSE End(link, S)
        /\ UNCHANGED permanentFailure

ClientStep(c) ==
    \/ Resolve(c) \/ (\E s \in Sockets : SocketOpens(c, s))
    \/ ReadSign(c) \/ ReadAnswer(c) \/ ReadRefusal(c)
    \/ AttemptFails(c) \/ AttemptAborts(c) \/ Wake(c) \/ GraceElapses(c)
    \/ HearClose(c) \/ SocketTimesOut(c) \/ Dispose(c)

ClientNext ==
    \/ \E c \in Conns : ClientStep(c)
    \/ \E graceful \in BOOLEAN : WindowCloses(graceful)

ClientTypeOK ==
    /\ client \in [Conns -> [pc : Awaits \cup {"idle", "rejected", "left"}, initial : BOOLEAN,
                             attempt : 1..MaxAttempts, socket : Sockets \cup {NoSocket},
                             heard : BOOLEAN, late : BOOLEAN, failed : BOOLEAN,
                             disposed : BOOLEAN, events : Seq(Events)]]
    /\ permanentFailure \in BOOLEAN
===============================================================================
