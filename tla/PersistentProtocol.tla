-------------------------- MODULE PersistentProtocol --------------------------
(***************************************************************************)
(* The two ends of a remote connection, each a PersistentProtocol over a   *)
(* replaceable socket (base/parts/ipc/common/ipc.net.ts), together with    *)
(* the part of the reconnection handshake that touches their state         *)
(* (platform/remote/common/remoteAgentConnection.ts on the client,         *)
(* server/node/remoteExtensionHostAgentServer.ts on the server).           *)
(*                                                                         *)
(* The client numbers its sockets 1, 2, ...; the server learns of a socket *)
(* when the client's connection-type request arrives on it, which may be   *)
(* after the client has already given that socket up.  A socket is an      *)
(* ordered byte stream: it delivers a prefix of what was written to it.    *)
(* Time is abstracted to which timers are armed; a message is its type,    *)
(* its number, the number it acknowledges and its payload.                 *)
(***************************************************************************)
EXTENDS Integers, Sequences

CONSTANTS
    Data,           \* payloads of regular messages
    NoData,         \* the empty buffer of every other message
    MaxSend,        \* bound: messages each end sends
    MaxSockets,     \* bound: sockets the client opens
    MaxDrops,       \* bound: messages an otherwise healthy socket loses
    SocketHandoff,  \* TRUE: the server passes sockets to the extension host process
    MayDispose      \* TRUE: either end may dispose its protocol

Endpoint == {"client", "server"}
Peer(p) == IF p = "client" THEN "server" ELSE "client"
Sockets == 1..MaxSockets

ASSUME ConstantsAssumption ==
    /\ NoData \notin Data
    /\ MaxSend \in [Endpoint -> Nat]
    /\ MaxSockets \in Nat \ {0}
    /\ MaxDrops \in Nat
    /\ SocketHandoff \in BOOLEAN
    /\ MayDispose \in BOOLEAN

VARIABLES
    out,            \* outgoing half: unack queue, msgId, ackId, armed timer
    inc,            \* incoming half: msgId, ackId, armed timer, recent, replayAsked
    writer,         \* ProtocolWriter: data, paused, armed timer
    socket,         \* the socket each end reads and writes
    isReconnecting, \* between beginAcceptReconnection and endAcceptReconnection
    attempt,        \* the client's connection attempt: none, begun, waiting
    control,        \* control messages buffered for lack of a listener (client)
    timedOut,       \* onSocketTimeout has fired on the current socket
    disposed,       \* the protocol and its timers are disposed
    peerLeft,       \* onDidDispose has fired: the peer said Disconnect
    wire,           \* wire[p][n]: written to socket n and not yet read by p
    closed,         \* sockets that carry nothing new
    handled,        \* sockets whose server-side handshake is over
    handoff,        \* sockets on their way to the extension host process
    drops,          \* messages lost so far on healthy sockets
    sent, delivered \* history: payloads given to send() and fired by onMessage

endVars  == <<out, inc, writer, isReconnecting, timedOut>>
linkVars == <<socket, attempt, control, wire, closed, handled, handoff, drops>>
lifeVars == <<disposed, peerLeft>>
vars     == <<endVars, linkVars, lifeVars, sent, delivered>>

Types == {"Regular", "Control", "Ack", "Disconnect", "ReplayRequest",
          "Pause", "Resume", "KeepAlive"}
Message == [type : Types, id : Nat, ack : Nat, data : Data \cup {NoData}]

\* Mutant of Regular: the number acknowledged is that of the message expected next.
RegularAckingNext(id, ack, data) ==
    [type |-> "Regular", id |-> id, ack |-> ack + 1, data |-> data]

Regular(id, ack, data) == [type |-> "Regular", id |-> id, ack |-> ack, data |-> data]
Plain(type, ack)       == [type |-> type, id |-> 0, ack |-> ack, data |-> NoData]

-----------------------------------------------------------------------------
(* The writer.                                                             *)

NewWriter == [data |-> <<>>, paused |-> FALSE, timer |-> FALSE]

\* Writing to an empty buffer arms the timer that will flush it.
Write(w, msgs) ==
    [w EXCEPT !.data  = w.data \o msgs,
              !.timer = w.timer \/ (w.data = <<>> /\ msgs # <<>>)]

\* What a flush puts on the stream: nothing while the writer is paused.
Flushed(w) == IF w.paused THEN <<>> ELSE w.data

\* The wires once p has flushed w a last time and let go of its socket.
Abandoned(p, w) ==
    [wire EXCEPT ![Peer(p)][socket[p]] = IF closed[socket[p]] THEN @ ELSE @ \o Flushed(w),
                 ![p][socket[p]]       = <<>>]

\* The timer of _scheduleWriting fires: _writeNow.
WriteNow(p) ==
    /\ writer[p].timer
    /\ writer' = [writer EXCEPT ![p].timer = FALSE,
                                ![p].data  = IF writer[p].paused THEN @ ELSE <<>>]
    /\ wire' = [wire EXCEPT ![Peer(p)][socket[p]] =
                    IF closed[socket[p]] THEN @ ELSE @ \o Flushed(writer[p])]
    /\ UNCHANGED <<out, inc, isReconnecting, timedOut, socket, attempt, control,
                   closed, handled, handoff, drops, lifeVars, sent, delivered>>

-----------------------------------------------------------------------------
(* Acknowledgements.                                                       *)

\* Mutant of Unconfirmed: the message whose number is acknowledged stays.
UnconfirmedAndLast(queue, ack) == SelectSeq(queue, LAMBDA m : m.id >= ack)

\* The loop that pops the confirmed messages off the front of the queue.
Unconfirmed(queue, ack) ==
    LET k == CHOOSE i \in 0..Len(queue) :
                 /\ \A j \in 1..i : queue[j].id <= ack
                 /\ i < Len(queue) => queue[i + 1].id > ack
    IN  SubSeq(queue, k + 1, Len(queue))

Confirm(o, ack) ==
    IF ack > o.ackId
    THEN [o EXCEPT !.ackId = ack, !.unack = Unconfirmed(o.unack, ack)]
    ELSE o

\* _recvAckCheck, out of a reconnection: arm the timer again, or conclude that
\* the socket is dead when nothing has come in for long enough to tell.
RecvAckCheck(p, o, mayTimeOut) ==
    \/ /\ o.msgId <= o.ackId
       /\ out' = [out EXCEPT ![p] = o]
       /\ UNCHANGED timedOut
    \/ /\ o.msgId > o.ackId
       /\ out' = [out EXCEPT ![p] = [o EXCEPT !.timer = TRUE]]
       /\ UNCHANGED timedOut
    \/ /\ o.msgId > o.ackId /\ ~o.timer /\ mayTimeOut
       /\ out' = [out EXCEPT ![p] = o]
       /\ timedOut' = [timedOut EXCEPT ![p] = TRUE]

\* _recvAckCheck right after a reconnection: the new socket has not timed out.
RecvAckCheckAnew(p, o) ==
    /\ out' = [out EXCEPT ![p] = IF o.msgId > o.ackId THEN [o EXCEPT !.timer = TRUE] ELSE o]
    /\ timedOut' = [timedOut EXCEPT ![p] = FALSE]

OutgoingAckTimer(p) ==
    /\ out[p].timer
    /\ LET o == [out[p] EXCEPT !.timer = FALSE]
       IN  IF isReconnecting[p]
           THEN /\ out' = [out EXCEPT ![p] = o]
                /\ UNCHANGED timedOut
           ELSE RecvAckCheck(p, o, TRUE)
    /\ UNCHANGED <<inc, writer, isReconnecting, linkVars, lifeVars, sent, delivered>>

\* The timer of _sendAckCheck fires.  It acknowledges, unless a message that
\* came in after the timer was armed has not been waiting for long enough.
IncomingAckTimer(p) ==
    /\ inc[p].timer
    /\ \/ /\ inc[p].msgId <= inc[p].ackId
          /\ inc' = [inc EXCEPT ![p].timer = FALSE]
          /\ UNCHANGED writer
       \/ /\ inc[p].msgId > inc[p].ackId
          /\ inc' = [inc EXCEPT ![p].timer = FALSE, ![p].ackId = inc[p].msgId]
          /\ writer' = [writer EXCEPT ![p] = Write(@, <<Plain("Ack", inc[p].msgId)>>)]
       \/ /\ inc[p].msgId > inc[p].ackId /\ inc[p].recent
          /\ inc' = [inc EXCEPT ![p].recent = FALSE]
          /\ UNCHANGED writer
    /\ UNCHANGED <<out, isReconnecting, timedOut, linkVars, lifeVars, sent, delivered>>

\* Ten seconds after the last replay request another one may be made.
ReplayWindowElapses(p) ==
    /\ inc[p].replayAsked /\ ~disposed[p]
    /\ inc' = [inc EXCEPT ![p].replayAsked = FALSE]
    /\ UNCHANGED <<out, writer, isReconnecting, timedOut, linkVars, lifeVars, sent, delivered>>

\* The keep-alive interval.  Bound: one keep-alive at a time is on its way.
SendKeepAlive(p) ==
    /\ ~disposed[p]
    /\ \A i \in DOMAIN writer[p].data : writer[p].data[i].type # "KeepAlive"
    /\ LET w == wire[Peer(p)][socket[p]]
       IN  \A i \in DOMAIN w : w[i].type # "KeepAlive"
    /\ inc' = [inc EXCEPT ![p].ackId = inc[p].msgId]
    /\ writer' = [writer EXCEPT ![p] = Write(@, <<Plain("KeepAlive", inc[p].msgId)>>)]
    /\ \/ UNCHANGED timedOut
       \/ /\ ~isReconnecting[p] /\ ~timedOut[p]
          /\ timedOut' = [timedOut EXCEPT ![p] = TRUE]
    /\ UNCHANGED <<out, isReconnecting, linkVars, lifeVars, sent, delivered>>

-----------------------------------------------------------------------------
(* Sending.                                                                *)

Send(p, d) ==
    /\ ~disposed[p] /\ Len(sent[p]) < MaxSend[p]
    /\ LET m == Regular(out[p].msgId + 1, inc[p].msgId, d)
           o == [out[p] EXCEPT !.msgId = @ + 1, !.unack = Append(@, m)]
       IN  IF isReconnecting[p]
           THEN /\ out' = [out EXCEPT ![p] = o]
                /\ UNCHANGED <<writer, timedOut>>
           ELSE /\ writer' = [writer EXCEPT ![p] = Write(@, <<m>>)]
                /\ RecvAckCheck(p, o, timedOut[p])
    /\ inc' = [inc EXCEPT ![p].ackId = inc[p].msgId]
    /\ sent' = [sent EXCEPT ![p] = Append(@, d)]
    /\ UNCHANGED <<isReconnecting, linkVars, lifeVars, delivered>>

-----------------------------------------------------------------------------
(* Reconnecting.                                                           *)

\* beginAcceptReconnection: a fresh writer and reader on a fresh socket, and
\* nothing left of what the old socket told us.
BeginAcceptReconnection(p, n) ==
    /\ socket' = [socket EXCEPT ![p] = n]
    /\ closed' = [closed EXCEPT ![socket[p]] = TRUE]

\* Mutants of EndAcceptReconnection: no replay; no acknowledgement.
EndWithoutReplay(p, o, w, more) ==
    /\ isReconnecting' = [isReconnecting EXCEPT ![p] = FALSE]
    /\ writer' = [writer EXCEPT ![p] = Write(w, <<Plain("Ack", inc[p].msgId)>> \o more)]
    /\ RecvAckCheckAnew(p, o)
EndWithoutAck(p, o, w, more) ==
    /\ isReconnecting' = [isReconnecting EXCEPT ![p] = FALSE]
    /\ writer' = [writer EXCEPT ![p] = Write(w, o.unack \o more)]
    /\ RecvAckCheckAnew(p, o)

\* endAcceptReconnection: acknowledge again, then replay what is unconfirmed.
\* What the caller writes right after it is in "more".
EndAcceptReconnection(p, o, w, more) ==
    /\ isReconnecting' = [isReconnecting EXCEPT ![p] = FALSE]
    /\ writer' = [writer EXCEPT ![p] =
                      Write(w, <<Plain("Ack", inc[p].msgId)>> \o o.unack \o more)]
    /\ RecvAckCheckAnew(p, o)

\* Bound: one socket is kept in reserve, so that a fault can be recovered from.
Spare == socket["client"] < MaxSockets

\* An attempt of the reconnecting loop: a new socket is open and is handed to
\* the protocol.  It starts after a close, a timeout or a failed attempt, and
\* at any time by debugTriggerReconnection.
Reconnect ==
    /\ ~disposed["client"] /\ attempt = "none" /\ Spare
    /\ wire' = Abandoned("client", writer["client"])
    /\ BeginAcceptReconnection("client", socket["client"] + 1)
    /\ isReconnecting' = [isReconnecting EXCEPT !["client"] = TRUE]
    /\ writer' = [writer EXCEPT !["client"] = NewWriter]
    /\ inc' = [inc EXCEPT !["client"].replayAsked = FALSE]
    /\ timedOut' = [timedOut EXCEPT !["client"] = FALSE]
    /\ control' = 0
    /\ attempt' = "begun"
    /\ UNCHANGED <<out, handled, handoff, drops, lifeVars, sent, delivered>>

\* The client has been authenticated: it asks for the connection it wants and
\* listens for the answer.  A control message that was buffered is the answer.
ConnectionTypeRequest ==
    /\ ~disposed["client"] /\ attempt = "begun"
    /\ LET w == Write(writer["client"], <<Plain("Control", 0)>>)
       IN  IF control = 0
           THEN /\ attempt' = "waiting"
                /\ writer' = [writer EXCEPT !["client"] = w]
                /\ UNCHANGED <<control, out, inc, isReconnecting, timedOut>>
           ELSE /\ attempt' = "none"
                /\ control' = control - 1
                /\ inc' = [inc EXCEPT !["client"].ackId = inc["client"].msgId]
                /\ EndAcceptReconnection("client", out["client"], w, <<>>)
    /\ UNCHANGED <<socket, wire, closed, handled, handoff, drops, lifeVars, sent, delivered>>

\* The handshake fails or times out; the loop will open another socket.
AttemptFails ==
    /\ ~disposed["client"] /\ attempt # "none" /\ Spare
    /\ attempt' = "none"
    /\ UNCHANGED <<endVars, socket, control, wire, closed, handled, handoff, drops,
                   lifeVars, sent, delivered>>

\* The handshake's own protocol object reads, and ignores, whatever comes
\* before the connection-type request.
HandshakeIgnores(n) ==
    /\ n \notin handled /\ wire["server"][n] # <<>>
    /\ Head(wire["server"][n]).type # "Control"
    /\ wire' = [wire EXCEPT !["server"][n] = Tail(@)]
    /\ UNCHANGED <<endVars, socket, attempt, control, closed, handled, handoff, drops,
                   lifeVars, sent, delivered>>

\* The acknowledgement made by the first k messages of s, the initial chunk: the
\* set of it alone.
ChunkAcks(s, k) ==
    {a \in {0} \cup {s[i].ack : i \in 1..k} : \A i \in 1..k : a >= s[i].ack}

\* A newer socket may still be in use when an older one is accepted.
MayAccept(n) == /\ n \notin handled /\ wire["server"][n] # <<>>
                /\ Head(wire["server"][n]).type = "Control"
                /\ n < socket["client"] => Spare

\* ManagementConnection.acceptReconnection, and the ok that precedes it.
AcceptReconnection(n) ==
    /\ ~SocketHandoff /\ ~disposed["server"] /\ MayAccept(n)
    /\ LET rest == Tail(wire["server"][n])
           left == Abandoned("server", writer["server"])
       IN  \E k \in 0..Len(rest) : \E a \in ChunkAcks(rest, k) :
           /\ \A i \in 1..k : rest[i].type \in {"Ack", "KeepAlive"}
           /\ wire' = [left EXCEPT !["server"][n] = SubSeq(rest, k + 1, Len(rest)),
                                   !["client"][n] = IF closed[n] THEN @
                                                    ELSE Append(@, Plain("Control", 0))]
           /\ EndAcceptReconnection("server", Confirm(out["server"], a), NewWriter, <<>>)
    /\ BeginAcceptReconnection("server", n)
    /\ inc' = [inc EXCEPT !["server"].replayAsked = FALSE,
                          !["server"].ackId = inc["server"].msgId]
    /\ handled' = handled \cup {n}
    /\ UNCHANGED <<attempt, control, handoff, drops, lifeVars, sent, delivered>>

\* What the server process writes before it lets go of the socket.
HandOffAnswer == <<Plain("Pause", 0), Plain("Control", 0)>>

\* The server process asks the client to pause, answers, and lets go of the
\* socket, which now travels to the extension host process.
HandOff(n) ==
    /\ SocketHandoff /\ ~disposed["server"] /\ MayAccept(n)
    /\ LET rest == Tail(wire["server"][n])
       IN  \E k \in 0..Len(rest) : \E a \in ChunkAcks(rest, k) :
           /\ \A i \in 1..k : rest[i].type \in {"Ack", "KeepAlive"}
           /\ wire' = [wire EXCEPT !["server"][n] = SubSeq(rest, k + 1, Len(rest)),
                                   !["client"][n] = IF closed[n] THEN @
                            ELSE @ \o HandOffAnswer]
           /\ handoff' = handoff \cup {[socket |-> n, ack |-> a]}
    /\ handled' = handled \cup {n}
    /\ UNCHANGED <<endVars, socket, attempt, control, closed, drops, lifeVars, sent, delivered>>

\* What arrives while nobody reads the socket is lost.
LoseInHandOff(h) ==
    /\ h \in handoff /\ wire["server"][h.socket] # <<>>
    /\ wire' = [wire EXCEPT !["server"][h.socket] = Tail(@)]
    /\ UNCHANGED <<endVars, socket, attempt, control, closed, handled, handoff, drops,
                   lifeVars, sent, delivered>>

\* What the extension host process writes first.
AttachAnswer == <<Plain("Resume", 0)>>

\* The extension host process receives the socket.
AttachInExtHost(h) ==
    /\ h \in handoff /\ ~disposed["server"]
    /\ h.socket < socket["client"] => Spare
    /\ wire' = Abandoned("server", writer["server"])
    /\ EndAcceptReconnection("server", Confirm(out["server"], h.ack),
                             NewWriter, AttachAnswer)
    /\ BeginAcceptReconnection("server", h.socket)
    /\ inc' = [inc EXCEPT !["server"].replayAsked = FALSE,
                          !["server"].ackId = inc["server"].msgId]
    /\ handoff' = handoff \ {h}
    /\ UNCHANGED <<attempt, control, handled, drops, lifeVars, sent, delivered>>

-----------------------------------------------------------------------------
(* Receiving.  Each case of _receiveMessage is given the message and the     *)
(* outgoing half as its acknowledgement leaves it.                           *)

\* Mutant of IsDuplicate: the last message received counts as new.
IsOlder(p, m)     == m.id < inc[p].msgId
IsDuplicate(p, m) == m.id <= inc[p].msgId

\* Mutant of SkipsAhead: a gap is not noticed.
NeverSkips(p, m) == FALSE
SkipsAhead(p, m) == m.id > inc[p].msgId + 1

ReceiveRegular(p, m, o) ==
    /\ m.type = "Regular"
    /\ out' = [out EXCEPT ![p] = o]
    /\ \/ /\ IsDuplicate(p, m)
          /\ UNCHANGED <<inc, writer, delivered>>
       \/ /\ ~IsDuplicate(p, m) /\ ~SkipsAhead(p, m)
          /\ inc' = [inc EXCEPT ![p].msgId  = m.id,
                                ![p].recent = inc[p].timer,
                                ![p].timer  = TRUE]
          /\ delivered' = [delivered EXCEPT ![p] = Append(@, m.data)]
          /\ UNCHANGED writer
       \/ /\ SkipsAhead(p, m) /\ ~inc[p].replayAsked
          /\ inc' = [inc EXCEPT ![p].replayAsked = TRUE]
          /\ writer' = [writer EXCEPT ![p] = Write(@, <<Plain("ReplayRequest", 0)>>)]
          /\ UNCHANGED delivered
       \/ /\ SkipsAhead(p, m) /\ inc[p].replayAsked
          /\ UNCHANGED <<inc, writer, delivered>>
    /\ UNCHANGED <<isReconnecting, timedOut, attempt, control, peerLeft>>

\* A control message ends the client's reconnection if the client is listening
\* for it, and is buffered if it is not.  The server's end has no listener.
ReceiveControl(p, m, o) ==
    /\ m.type = "Control"
    /\ IF p = "client" /\ attempt = "waiting"
       THEN /\ EndAcceptReconnection(p, o, writer[p], <<>>)
            /\ inc' = [inc EXCEPT ![p].ackId = inc[p].msgId]
            /\ attempt' = "none"
            /\ UNCHANGED control
       ELSE /\ control' = IF p = "client" THEN control + 1 ELSE control
            /\ out' = [out EXCEPT ![p] = o]
            /\ UNCHANGED <<inc, writer, isReconnecting, timedOut, attempt>>
    /\ UNCHANGED <<peerLeft, delivered>>

ReceiveAck(p, m, o) ==
    /\ m.type \in {"Ack", "KeepAlive"}
    /\ out' = [out EXCEPT ![p] = o]
    /\ UNCHANGED <<inc, writer, isReconnecting, timedOut, attempt, control, peerLeft, delivered>>

ReceiveDisconnect(p, m, o) ==
    /\ m.type = "Disconnect"
    /\ out' = [out EXCEPT ![p] = o]
    /\ peerLeft' = [peerLeft EXCEPT ![p] = TRUE]
    /\ UNCHANGED <<inc, writer, isReconnecting, timedOut, attempt, control, delivered>>

ReceiveReplayRequest(p, m, o) ==
    /\ m.type = "ReplayRequest"
    /\ writer' = [writer EXCEPT ![p] = Write(@, o.unack)]
    /\ IF isReconnecting[p]
       THEN /\ out' = [out EXCEPT ![p] = o]
            /\ UNCHANGED timedOut
       ELSE RecvAckCheck(p, o, FALSE)
    /\ UNCHANGED <<inc, isReconnecting, attempt, control, peerLeft, delivered>>

ReceivePause(p, m, o) ==
    /\ m.type = "Pause"
    /\ out' = [out EXCEPT ![p] = o]
    /\ writer' = [writer EXCEPT ![p].paused = TRUE]
    /\ UNCHANGED <<inc, isReconnecting, timedOut, attempt, control, peerLeft, delivered>>

\* Mutant of ReceiveResume: no write is scheduled.
ResumeUnscheduled(p, m, o) ==
    /\ m.type = "Resume"
    /\ out' = [out EXCEPT ![p] = o]
    /\ writer' = [writer EXCEPT ![p].paused = FALSE]
    /\ UNCHANGED <<inc, isReconnecting, timedOut, attempt, control, peerLeft, delivered>>

\* Resuming schedules a write even if nothing is buffered.
ReceiveResume(p, m, o) ==
    /\ m.type = "Resume"
    /\ out' = [out EXCEPT ![p] = o]
    /\ writer' = [writer EXCEPT ![p].paused = FALSE, ![p].timer = TRUE]
    /\ UNCHANGED <<inc, isReconnecting, timedOut, attempt, control, peerLeft, delivered>>

ReceiveMessage(p) ==
    /\ ~disposed[p] /\ wire[p][socket[p]] # <<>>
    /\ wire' = [wire EXCEPT ![p][socket[p]] = Tail(@)]
    /\ LET m == Head(wire[p][socket[p]])
           o == Confirm(out[p], m.ack)
       IN  \/ ReceiveRegular(p, m, o)
           \/ ReceiveControl(p, m, o)
           \/ ReceiveAck(p, m, o)
           \/ ReceiveDisconnect(p, m, o)
           \/ ReceiveReplayRequest(p, m, o)
           \/ ReceivePause(p, m, o)
           \/ ReceiveResume(p, m, o)
    /\ UNCHANGED <<socket, closed, handled, handoff, drops, disposed, sent>>

-----------------------------------------------------------------------------
(* Leaving, and the faults of the network.                                 *)

\* sendDisconnect.  Mutant: it goes around the buffer.
FarewellFirst(p) == Write(NewWriter, <<Plain("Disconnect", 0)>>)
Farewell(p)      == Write(writer[p], <<Plain("Disconnect", 0)>>)

\* Client.dispose and ManagementConnection._cleanResources: sendDisconnect,
\* dispose the protocol (its timers with it), end the socket.
Dispose(p) ==
    /\ MayDispose /\ ~disposed[p]
    /\ disposed' = [disposed EXCEPT ![p] = TRUE]
    /\ wire' = Abandoned(p, Farewell(p))
    /\ closed' = [closed EXCEPT ![socket[p]] = TRUE]
    /\ out' = [out EXCEPT ![p].timer = FALSE]
    /\ inc' = [inc EXCEPT ![p].timer = FALSE]
    /\ writer' = [writer EXCEPT ![p] = NewWriter]
    /\ UNCHANGED <<isReconnecting, timedOut, socket, attempt, control, handled,
                   handoff, drops, peerLeft, sent, delivered>>

\* A socket breaks: nothing more goes through, and what was under way is lost.
SocketBreaks(n) ==
    /\ n <= socket["client"]
    /\ \/ ~closed[n] /\ Spare
       \/ closed[n] /\ \E p \in Endpoint : wire[p][n] # <<>>
    /\ closed' = [closed EXCEPT ![n] = TRUE]
    /\ wire' = [p \in Endpoint |-> [wire[p] EXCEPT ![n] = <<>>]]
    /\ UNCHANGED <<endVars, socket, attempt, control, handled, handoff, drops,
                   lifeVars, sent, delivered>>

\* A fault the replay request is there for: a message goes missing on a socket
\* that otherwise works.
SocketDrops(p) ==
    /\ drops < MaxDrops /\ wire[p][socket[p]] # <<>>
    /\ Head(wire[p][socket[p]]).type = "Regular"
    /\ drops' = drops + 1
    /\ wire' = [wire EXCEPT ![p][socket[p]] = Tail(@)]
    /\ UNCHANGED <<endVars, socket, attempt, control, closed, handled, handoff,
                   lifeVars, sent, delivered>>

-----------------------------------------------------------------------------
\* Both ends have just been constructed on socket 1.  The extension host
\* process has written the Resume that ends the pause of its hand-off.
Init ==
    /\ out = [p \in Endpoint |-> [unack |-> <<>>, msgId |-> 0, ackId |-> 0, timer |-> FALSE]]
    /\ inc = [p \in Endpoint |-> [msgId |-> 0, ackId |-> 0, timer |-> FALSE,
                                  recent |-> FALSE, replayAsked |-> FALSE]]
    /\ writer = [p \in Endpoint |->
                    IF ~SocketHandoff THEN NewWriter
                    ELSE IF p = "client" THEN [NewWriter EXCEPT !.paused = TRUE]
                    ELSE Write(NewWriter, <<Plain("Resume", 0)>>)]
    /\ socket = [p \in Endpoint |-> 1]
    /\ isReconnecting = [p \in Endpoint |-> FALSE]
    /\ attempt = "none" /\ control = 0
    /\ timedOut = [p \in Endpoint |-> FALSE]
    /\ disposed = [p \in Endpoint |-> FALSE]
    /\ peerLeft = [p \in Endpoint |-> FALSE]
    /\ wire = [p \in Endpoint |-> [n \in Sockets |-> <<>>]]
    /\ closed = [n \in Sockets |-> FALSE]
    /\ handled = {1} /\ handoff = {} /\ drops = 0
    /\ sent = [p \in Endpoint |-> <<>>]
    /\ delivered = [p \in Endpoint |-> <<>>]

Next ==
    \/ \E p \in Endpoint : \/ \E d \in Data : Send(p, d)
                           \/ WriteNow(p) \/ ReceiveMessage(p)
                           \/ OutgoingAckTimer(p) \/ IncomingAckTimer(p)
                           \/ ReplayWindowElapses(p) \/ SendKeepAlive(p)
                           \/ Dispose(p) \/ SocketDrops(p)
    \/ Reconnect \/ ConnectionTypeRequest \/ AttemptFails
    \/ \E n \in Sockets : \/ HandshakeIgnores(n) \/ AcceptReconnection(n)
                          \/ HandOff(n) \/ SocketBreaks(n)
    \/ \E h \in handoff : LoseInHandOff(h) \/ AttachInExtHost(h)

Spec == Init /\ [][Next]_vars

\* Timers fire, an open stream delivers, each handshake step is eventually
\* taken, and the loop does not give up after a close or a timeout.
\* Nothing makes a user send, a keep-alive or a fault happen.
Fairness ==
    /\ \A p \in Endpoint : /\ WF_vars(WriteNow(p)) /\ WF_vars(ReceiveMessage(p))
                           /\ WF_vars(IncomingAckTimer(p))
    /\ WF_vars(Reconnect /\ (closed[socket["client"]] \/ timedOut["client"]
                                 \/ isReconnecting["client"]))
    /\ WF_vars(AttemptFails /\ closed[socket["client"]])
    /\ WF_vars(ConnectionTypeRequest)
    /\ \A n \in Sockets : /\ WF_vars(HandshakeIgnores(n)) /\ WF_vars(AcceptReconnection(n))
                          /\ WF_vars(HandOff(n))
                          /\ WF_vars(\E h \in handoff : h.socket = n /\ AttachInExtHost(h))

FairSpec == Spec /\ Fairness

-----------------------------------------------------------------------------
(* Properties.                                                             *)

\* The variables of both ends and of the sockets have their types.
TypeOK ==
    /\ out \in [Endpoint -> [unack : Seq(Message), msgId : Nat, ackId : Nat, timer : BOOLEAN]]
    /\ inc \in [Endpoint -> [msgId : Nat, ackId : Nat, timer : BOOLEAN,
                             recent : BOOLEAN, replayAsked : BOOLEAN]]
    /\ writer \in [Endpoint -> [data : Seq(Message), paused : BOOLEAN, timer : BOOLEAN]]
    /\ socket \in [Endpoint -> Sockets]
    /\ isReconnecting \in [Endpoint -> BOOLEAN]
    /\ attempt \in {"none", "begun", "waiting"}
    /\ control \in Nat
    /\ timedOut \in [Endpoint -> BOOLEAN]
    /\ disposed \in [Endpoint -> BOOLEAN]
    /\ peerLeft \in [Endpoint -> BOOLEAN]
    /\ wire \in [Endpoint -> [Sockets -> Seq(Message)]]
    /\ closed \in [Sockets -> BOOLEAN]
    /\ handled \in SUBSET Sockets
    /\ handoff \in SUBSET [socket : Sockets, ack : Nat]
    /\ drops \in Nat
    /\ sent \in [Endpoint -> Seq(Data)]
    /\ delivered \in [Endpoint -> Seq(Data)]

(* The inductive invariant of the first three safety properties: what is in   *)
(* transit from p is either one of the messages p numbered, with the payload   *)
(* it was given, or carries no payload; and it acknowledges no more than p has *)
(* received, wherever it is buffered.                                          *)

Written(p) ==
    {m \in Message : /\ m.ack <= inc[p].msgId
                     /\ m.type = "Regular" => /\ m.id \in 1..Len(sent[p])
                                              /\ m.data = sent[p][m.id]}

\* o may be the outgoing half of p.
Outgoing(p, o) ==
    /\ o.unack \in Seq(Written(p))
    /\ o.msgId = Len(sent[p])
    /\ o.ackId <= inc[Peer(p)].msgId
    /\ Len(o.unack) = o.msgId - o.ackId
    /\ \A i \in 1..Len(o.unack) : o.unack[i].type = "Regular" /\ o.unack[i].id = o.ackId + i

\* Whatever happens to the sockets, an end is given the payloads its peer sent,
\* in order, each once: replays are recognised and nothing overtakes.
DeliveredInOrder ==
    \A p \in Endpoint :
        /\ Len(delivered[p]) <= Len(sent[Peer(p)])
        /\ \A i \in 1..Len(delivered[p]) : delivered[p][i] = sent[Peer(p)][i]

\* The unacknowledged queue holds exactly the messages after the last confirmed
\* one, and none is confirmed before the peer has it: whatever the peer still
\* lacks can be replayed, and the queue is never empty when _recvAckCheck peeks.
NothingForgotten ==
    \A p \in Endpoint :
        /\ out[p].ackId <= inc[Peer(p)].msgId
        /\ Len(out[p].unack) = out[p].msgId - out[p].ackId
        /\ \A i \in 1..Len(out[p].unack) :
              /\ out[p].unack[i].id = out[p].ackId + i
              /\ out[p].unack[i].data = sent[p][out[p].ackId + i]

\* What is buffered, under way or being handed over was written by the other end.
InTransit ==
    /\ \A p \in Endpoint : /\ writer[p].data \in Seq(Written(p))
                            /\ wire[Peer(p)] \in [Sockets -> Seq(Written(p))]
    /\ \A h \in handoff : h.ack <= inc["client"].msgId

IInv ==
    /\ TypeOK
    /\ DeliveredInOrder
    /\ \A p \in Endpoint : inc[p].msgId = Len(delivered[p]) /\ Outgoing(p, out[p])
    /\ InTransit

\* As long as no working socket has lost anything: once both ends use the same one,
\* each message the peer lacks is on its way on it.  None was written to a
\* handshake, to a socket nobody reads, or to a writer that has been thrown away.
NothingStranded ==
    \A p \in Endpoint :
        LET q == Peer(p)
            n == socket[p]
            under_way(id) == \/ \E i \in DOMAIN writer[p].data : writer[p].data[i].id = id
                             \/ \E i \in DOMAIN wire[q][n] : wire[q][n][i].id = id
        IN  (drops = 0 /\ socket[q] = n /\ ~closed[n] /\ ~isReconnecting[p])
                => \A id \in inc[q].msgId + 1 .. out[p].msgId : under_way(id)

\* On sockets that lose nothing a message never arrives ahead of its
\* predecessor, so that the rate-limited replay request is never needed.
NoGap ==
    \A p \in Endpoint :
        LET w == wire[p][socket[p]]
        IN  (drops = 0 /\ ~disposed[p] /\ w # <<>> /\ Head(w).type = "Regular")
                => Head(w).id <= inc[p].msgId + 1

\* No wake-up is lost: buffered data has a flush coming unless the writer is
\* paused, received messages have an acknowledgement coming, and messages the
\* peer has not acknowledged are watched until the socket is given up.
NoTimerForgotten ==
    \A p \in Endpoint : ~disposed[p] =>
        /\ writer[p].data # <<>> /\ ~writer[p].paused => writer[p].timer
        /\ inc[p].msgId > inc[p].ackId => inc[p].timer
        /\ out[p].msgId > out[p].ackId => \/ out[p].timer \/ timedOut[p]
                                          \/ isReconnecting[p]

\* A Disconnect does not overtake data: unless the peer left in the middle of a
\* reconnection, whoever reads it has been given all that the peer had sent.
NothingCutOff ==
    \A p \in Endpoint :
        drops = 0 /\ peerLeft[p] /\ ~isReconnecting[Peer(p)] => delivered[p] = sent[Peer(p)]

(* The inductive invariant of the properties of the streams, as long as no       *)
(* working socket has lost anything: the server reads nothing of a socket before *)
(* it has received it, and the client writes nothing there that must not be lost.*)

HasType(s, type)   == \E i \in DOMAIN s : s[i].type = type
EndsWith(s, type)  == \A i \in DOMAIN s : s[i].type = type => i = Len(s)
Carries(s, id)     == \E i \in DOMAIN s : s[i].type = "Regular" /\ s[i].id = id
Brings(s, e, last) == \A id \in e + 1..last : Carries(s, id)

\* To who has received all up to e, no message of s comes before its predecessor.
Unbroken(s, e) ==
    \A i \in DOMAIN s :
        s[i].type = "Regular" /\ s[i].id > e + 1
            => \E j \in 1..i - 1 : s[j].type = "Regular" /\ s[j].id = s[i].id - 1

\* What p has written to its socket, or will have.
Stream(p) == wire[Peer(p)][socket[p]] \o writer[p].data

HandedOff     == {h.socket : h \in handoff}
Unattached(n) == n \notin handled \/ n \in HandedOff

\* Sockets come into use one after another, and each is handed over once.
SocketsInOrder ==
    /\ \A n \in Sockets : n > socket["client"] =>
           ~closed[n] /\ n \notin handled /\ \A p \in Endpoint : wire[p][n] = <<>>
    /\ ~Unattached(socket["server"])
    /\ \A p \in Endpoint : disposed[p] => closed[socket[p]]
    /\ HandedOff \subseteq handled
    /\ \A g, h \in handoff : g.socket = h.socket => g = h

\* Before the server has answered, the client writes no data.
ClientWaits ==
    /\ ~isReconnecting["server"]
    /\ isReconnecting["client"] => ~HasType(writer["client"].data, "Regular")
    /\ socket["client"] \notin handled => isReconnecting["client"] /\ control = 0
    /\ attempt = "begun" => /\ socket["client"] \notin handled
                            /\ ~HasType(Stream("client"), "Control")

\* There is no data on a socket that nobody reads, nor will there be.
IsQuiet(n) ==
    /\ n \notin handled => wire["client"][n] = <<>>
    /\ Unattached(n) => ~HasType(wire["server"][n], "Regular")
    /\ n \in HandedOff =>
           /\ wire["client"][n] \in {<<>>, Tail(HandOffAnswer), HandOffAnswer}
           /\ n = socket["client"] /\ ~disposed["client"] =>
                  \/ writer["client"].paused
                  \/ isReconnecting["client"] /\ wire["client"][n] # Tail(HandOffAnswer)

NoReplayAsked(p) ==
    /\ ~HasType(writer[p].data, "ReplayRequest")
    /\ \A n \in Sockets : ~HasType(wire[p][n], "ReplayRequest")

\* What p is still to receive comes in order ...
ComesInOrder(p) == \A n \in Sockets : Unbroken(wire[p][n], inc[p].msgId)

\* ... and what p writes to an open socket goes on where that ends, and is all there is.
StreamIsWhole(p) ==
    ~closed[socket[p]] =>
        /\ Unbroken(Stream(p), inc[Peer(p)].msgId)
        /\ ~isReconnecting[p] => Brings(Stream(p), inc[Peer(p)].msgId, out[p].msgId)

\* A Disconnect is the last message of an end that has left, behind all it had sent.
FarewellIsLast(p) ==
    LET q == Peer(p)
    IN  /\ ~HasType(writer[p].data, "Disconnect")
        /\ peerLeft[q] => disposed[p]
        /\ \A n \in Sockets : HasType(wire[q][n], "Disconnect") =>
               /\ EndsWith(wire[q][n], "Disconnect") /\ n = socket[p] /\ disposed[p]
               /\ ~isReconnecting[p] => Brings(wire[q][n], inc[q].msgId, out[p].msgId)

Streams ==
    /\ SocketsInOrder /\ ClientWaits
    /\ \A n \in Sockets : IsQuiet(n)
    /\ \A p \in Endpoint :
           NoReplayAsked(p) /\ ComesInOrder(p) /\ StreamIsWhole(p) /\ FarewellIsLast(p)
    /\ NothingCutOff

SInv == IInv /\ (drops = 0 => Streams)

\* What an end sends is confirmed, across closes, timeouts and failed attempts, also if
\* no message goes back; and it has been delivered then (NothingForgotten).
EventuallyConfirmed ==
    \A p \in Endpoint : \A k \in 1..MaxSend[p] :
        (out[p].msgId >= k) ~> (out[p].ackId >= k)

\* Each direction implements a reliable channel.
ClientToServer == INSTANCE ReliableChannel WITH
                      sent <- sent["client"], delivered <- delivered["server"],
                      confirmed <- out["client"].ackId, Messages <- Data
ServerToClient == INSTANCE ReliableChannel WITH
                      sent <- sent["server"], delivered <- delivered["client"],
                      confirmed <- out["server"].ackId, Messages <- Data
ToServer == ClientToServer!Spec
ToClient == ServerToClient!Spec

\* The refinement: IMessagePassingProtocol, as its users rely on it, both ways.
ReliableBothWays == ToServer /\ ToClient
=============================================================================
