-------------------------- MODULE ConnectionRegistry --------------------------
(***************************************************************************)
(* The server's side of the connections: the handshake and the decision    *)
(* (server/node/remoteExtensionHostAgentServer.ts), the management         *)
(* connections with their two grace timers (remoteExtensionManagement.ts), *)
(* the extension host connections, which hand each socket to a process of  *)
(* their own (extensionHostConnection.ts), and that process, which keeps   *)
(* the grace timers itself (workbench/api/node/extensionHostProcess.ts).   *)
(*                                                                         *)
(* An initial connection has a fresh reconnection token at each attempt    *)
(* and only the last can be registered, so that a connection stands for    *)
(* its token.                                                              *)
(***************************************************************************)
EXTENDS HandshakeSockets

CONSTANTS
    MaxRestarts,    \* bound: restarts of the server
    MaxCrashes      \* bound: crashes of extension host processes

ASSUME RegistryAssumption == MaxRestarts \in Nat /\ MaxCrashes \in Nat

VARIABLES
    entry,      \* _managementConnections, _extHostConnections
    faults      \* restarts and crashes so far

serverVars == <<entry, faults>>

\* proc is the extension host process: "none" before the fork, "starting"
\* until it listens, "asking" until the server reads its ready message,
\* "running", "exited" until the server is told.  socket is that of the
\* PersistentProtocol, closed that its close was heard; data is
\* _connectionData, transit the sockets on their way to the process, reduce
\* that a message to reduce the grace time is.
Processes == {"none", "starting", "asking", "running", "exited"}

NoEntry == [live |-> FALSE, socket |-> NoSocket, closed |-> FALSE, long |-> FALSE, short |-> FALSE,
            proc |-> "none", data |-> NoSocket, transit |-> {}, reduce |-> FALSE]

ServerInit ==
    /\ entry = [c \in Conns |-> NoEntry]
    /\ faults = [restarts |-> 0, crashes |-> 0]

Listens(e) == e.proc \in {"asking", "running"}

-----------------------------------------------------------------------------
(* The handshake.                                                          *)

\* After a restart the connection token may be another one.
ReceiveAuth(s) ==
    /\ link[s].stage = "auth"
    /\ \/ link' = Say(link, s, "sign")
       \/ /\ faults.restarts > 0
          /\ link' = End(Say(link, s, "refused"), {s})
    /\ UNCHANGED serverVars

\* shortenReconnectionGraceTimeIfNecessary where the timers are.
Shortened(e) == [e EXCEPT !.short = @ \/ e.long]

\* A connection-type request shows that the client can reach the server: the
\* grace time of every connection is shortened.
ShortenAll ==
    [c \in Conns |-> IF c \in HandedOver
                     THEN [entry[c] EXCEPT !.reduce = entry[c].proc \notin {"none", "exited"}]
                     ELSE Shortened(entry[c])]

\* Duplicate reconnection token; unknown reconnection token.
Refused(s) == entry[link[s].conn].live = link[s].fresh

\* ManagementConnection.acceptReconnection; the process's reconnection case.
Reconnected(e, s) == [e EXCEPT !.socket = s, !.closed = FALSE, !.long = FALSE, !.short = FALSE]

\* Mutant of AcceptManagement: the socket that is replaced stays open.
AcceptManagementBeside(c, s) ==
    /\ entry' = [ShortenAll EXCEPT ![c] = [Reconnected(@, s) EXCEPT !.live = TRUE]]
    /\ link' = Say(link, s, "answered")

\* A new ManagementConnection, or acceptReconnection, which disposes the
\* socket it replaces; either after the ok is written.
AcceptManagement(c, s) ==
    /\ entry' = [ShortenAll EXCEPT ![c] = [Reconnected(@, s) EXCEPT !.live = TRUE]]
    /\ link' = End(Say(link, s, "answered"), {entry[c].socket})

Refuse(s) == link' = End(Say(link, s, "refused"), {s})

ReceiveRequest(s) ==
    LET c == link[s].conn
    IN  /\ link[s].stage = "request"
        /\ \/ /\ c \in HandedOver
              /\ link' = [link EXCEPT ![s].stage = "checking"]
              /\ entry' = ShortenAll
           \/ /\ c \notin HandedOver /\ ~Refused(s)
              /\ AcceptManagement(c, s)
           \/ /\ c \notin HandedOver /\ Refused(s)
              /\ Refuse(s)
              /\ entry' = ShortenAll
        /\ UNCHANGED faults

\* Mutant of HandOver: before the fork the socket is not kept.
HandOverLater(e, s) ==
    CASE e.proc \in {"none", "exited"} -> e
      [] OTHER                         -> [e EXCEPT !.transit = @ \cup {s}]

\* ExtensionHostConnection.acceptReconnection.  A process that has exited is
\* sent a socket that nobody will read or close.
HandOver(e, s) ==
    CASE e.proc = "none"   -> [e EXCEPT !.data = s]
      [] e.proc = "exited" -> e
      [] OTHER             -> [e EXCEPT !.transit = @ \cup {s}]

\* _handleConnectionType of an extension host connection goes on after
\* _updateWithFreeDebugPort.
Decide(s) ==
    LET c == link[s].conn
    IN  /\ link[s].stage = "checking"
        /\ \/ /\ Refused(s)
              /\ Refuse(s)
              /\ UNCHANGED entry
           \/ /\ ~Refused(s)
              /\ link' = Say(link, s, "answered")
              /\ entry' = [entry EXCEPT ![c] = HandOver([@ EXCEPT !.live = TRUE], s)]
        /\ UNCHANGED faults

-----------------------------------------------------------------------------
(* The extension host process.                                             *)

Fork(c) ==
    /\ c \in HandedOver /\ entry[c].live /\ entry[c].proc = "none"
    /\ \/ /\ entry' = [entry EXCEPT ![c].proc = "starting"]
          /\ UNCHANGED <<link, faults>>
       \/ /\ faults.crashes < MaxCrashes
          /\ faults' = [faults EXCEPT !.crashes = @ + 1]
          /\ entry' = [entry EXCEPT ![c] = NoEntry]
          /\ link' = End(link, {entry[c].data})

\* The process installs its listener and sends VSCODE_EXTHOST_IPC_READY.
AsksForSocket(c) ==
    /\ entry[c].proc = "starting"
    /\ entry' = [entry EXCEPT ![c].proc = "asking"]
    /\ UNCHANGED <<link, faults>>

\* The server sends _connectionData, whatever it has sent already.
ReadyArrives(c) ==
    /\ entry[c].proc = "asking"
    /\ entry' = [entry EXCEPT ![c].proc = "running", ![c].data = NoSocket,
                              ![c].transit = @ \cup {entry[c].data}]
    /\ UNCHANGED <<link, faults>>

\* A socket arrives, in any order since each waits for its own writes to drain;
\* without a handle when it has been destroyed meanwhile, an error that is
\* logged.
Attach(c, s) ==
    LET e == [entry[c] EXCEPT !.transit = @ \ {s}]
    IN  /\ Listens(entry[c]) /\ s \in entry[c].transit
        /\ \/ /\ entry' = [entry EXCEPT ![c] = Reconnected(e, s)]
              /\ link' = End(link, {entry[c].socket})
           \/ /\ ~link[s].alive
              /\ entry' = [entry EXCEPT ![c] = e]
              /\ UNCHANGED link
        /\ UNCHANGED faults

ReduceArrives(c) ==
    /\ Listens(entry[c]) /\ entry[c].reduce
    /\ entry' = [entry EXCEPT ![c] = [Shortened(@) EXCEPT !.reduce = FALSE]]
    /\ UNCHANGED <<link, faults>>

\* The process exits: its sockets die, those on their way to it may stay open.
Exit(c) ==
    \E dead \in SUBSET entry[c].transit :
        /\ link' = End(link, dead \cup {entry[c].socket})
        /\ entry' = [entry EXCEPT ![c] = [NoEntry EXCEPT !.live = TRUE, !.proc = "exited",
                                                         !.data = entry[c].data]]

\* No socket within a minute.
StartTimesOut(c) ==
    /\ Listens(entry[c]) /\ entry[c].socket = NoSocket
    /\ Exit(c)
    /\ UNCHANGED faults

Crash(c) ==
    /\ faults.crashes < MaxCrashes
    /\ entry[c].proc \in {"starting", "asking", "running"}
    /\ Exit(c)
    /\ faults' = [faults EXCEPT !.crashes = @ + 1]

\* The server hears of the exit: _cleanResources.
ExitHeard(c) ==
    /\ entry[c].proc = "exited"
    /\ entry' = [entry EXCEPT ![c] = NoEntry]
    /\ link' = End(link, {entry[c].data})
    /\ UNCHANGED faults

-----------------------------------------------------------------------------
(* Grace timers and farewells.                                             *)

\* ManagementConnection._cleanResources; onTerminate in the process.
CleanResources(c) ==
    /\ \/ /\ c \in HandedOver
          /\ Exit(c)
       \/ /\ c \notin HandedOver
          /\ entry' = [entry EXCEPT ![c] = NoEntry]
          /\ link' = End(link, {entry[c].socket})
    /\ UNCHANGED faults

\* Mutant of HearClosed: the timer is not started.
HearClosedUntimed(c) ==
    /\ entry[c].socket # NoSocket /\ ~link[entry[c].socket].alive /\ ~entry[c].closed
    /\ entry' = [entry EXCEPT ![c].closed = TRUE]
    /\ UNCHANGED <<link, faults>>

\* onSocketClose: _disconnectRunner1.schedule().
HearClosed(c) ==
    /\ entry[c].socket # NoSocket /\ ~link[entry[c].socket].alive /\ ~entry[c].closed
    /\ entry' = [entry EXCEPT ![c].closed = TRUE, ![c].long = TRUE]
    /\ UNCHANGED <<link, faults>>

\* _disconnectRunner1 or _disconnectRunner2 elapses.
GraceExpires(c) ==
    /\ entry[c].long \/ entry[c].short
    /\ CleanResources(c)

\* The Disconnect message is read: onDidDispose.
DisconnectArrives(c) ==
    /\ entry[c].socket # NoSocket /\ link[entry[c].socket].bye /\ ~entry[c].closed
    /\ CleanResources(c)

\* The server restarts: nothing is persisted, and what it had read is forgotten.
Restart ==
    /\ faults.restarts < MaxRestarts
    /\ faults' = [faults EXCEPT !.restarts = @ + 1]
    /\ entry' = [c \in Conns |-> NoEntry]
    /\ link' = [s \in Sockets |->
                  [link[s] EXCEPT !.alive = FALSE,
                                  !.stage = IF @ \in {"auth", "request", "checking"} THEN "lost" ELSE @]]

ServerNext ==
    \/ \E s \in Sockets : ReceiveAuth(s) \/ ReceiveRequest(s) \/ Decide(s)
    \/ \E c \in Conns : \/ Fork(c) \/ AsksForSocket(c) \/ ReadyArrives(c)
                        \/ (\E s \in Sockets : Attach(c, s))
                        \/ ReduceArrives(c) \/ StartTimesOut(c) \/ Crash(c) \/ ExitHeard(c)
                        \/ HearClosed(c) \/ GraceExpires(c) \/ DisconnectArrives(c)
    \/ Restart

ServerTypeOK ==
    /\ entry \in [Conns -> [live : BOOLEAN, socket : Sockets \cup {NoSocket}, closed : BOOLEAN,
                            long : BOOLEAN, short : BOOLEAN, proc : Processes,
                            data : Sockets \cup {NoSocket}, transit : SUBSET Sockets,
                            reduce : BOOLEAN]]
    /\ faults \in [restarts : 0..MaxRestarts, crashes : 0..MaxCrashes]
===============================================================================
