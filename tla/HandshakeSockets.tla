--------------------------- MODULE HandshakeSockets ---------------------------
(***************************************************************************)
(* The sockets between the client's connections and the server, each with  *)
(* the handshake that is the first thing said on it:                       *)
(*                                                                         *)
(*   client -> server   auth              stage "auth"                     *)
(*   server -> client   sign              stage "sign"                     *)
(*   client -> server   connectionType    stage "request"                  *)
(*   server             awaits a port     stage "checking" (extension host)*)
(*   server -> client   ok, debug port    stage "answered"                 *)
(*                      or an error       stage "refused"                  *)
(*                                                                         *)
(* What is written to a socket that has died is lost.  What was written    *)
(* before may still be read, or be lost with the socket.                   *)
(***************************************************************************)
EXTENDS Integers, FiniteSets

CONSTANTS
    Conns,          \* the connections of one window
    NoConn,         \* the connection of a socket that is not open
    HandedOver,     \* those whose sockets go to an extension host process
    MaxSockets      \* bound: sockets the window opens

ASSUME SocketsAssumption ==
    /\ NoConn \notin Conns
    /\ HandedOver \subseteq Conns
    /\ MaxSockets \in Nat

VARIABLE link       \* the sockets, in the order in which they open

Sockets == 1..MaxSockets
NoSocket == 0

Stages == {"unopened", "auth", "sign", "request", "checking", "answered", "refused", "lost"}

Unopened == [conn |-> NoConn, fresh |-> FALSE, stage |-> "unopened", alive |-> FALSE, bye |-> FALSE]

LinkInit == link = [s \in Sockets |-> Unopened]

\* Opened for connection c, and the AuthRequest written.
Open(s, c, fresh) ==
    [link EXCEPT ![s] = [conn |-> c, fresh |-> fresh, stage |-> "auth", alive |-> TRUE, bye |-> FALSE]]

\* Writing the next message of the handshake.
Say(l, s, stage) == [l EXCEPT ![s].stage = IF l[s].alive THEN stage ELSE "lost"]

\* Socket.dispose, Socket.end: whatever S holds besides sockets is ignored.
End(l, S) == [s \in Sockets |-> IF s \in S THEN [l[s] EXCEPT !.alive = FALSE] ELSE l[s]]

\* Protocol.sendDisconnect and Socket.end, the farewell of Client.dispose.
Farewell(l, S) ==
    [s \in Sockets |-> IF s \in S THEN [l[s] EXCEPT !.alive = FALSE, !.bye = l[s].alive] ELSE l[s]]

\* The network breaks a socket.
Break(s) ==
    /\ link[s].alive
    /\ link' = End(link, {s})

LinkTypeOK ==
    link \in [Sockets -> [conn : Conns \cup {NoConn}, fresh : BOOLEAN, stage : Stages,
                          alive : BOOLEAN, bye : BOOLEAN]]
===============================================================================
