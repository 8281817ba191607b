-------------------------- MODULE ProtocolTimers_proof --------------------------
(***************************************************************************)
(* For any number of sockets, messages and faults: no wake-up of either    *)
(* end is lost.                                                            *)
(***************************************************************************)
EXTENDS PersistentProtocol_proof

-----------------------------------------------------------------------------
(* Timers.  Each is about a part of one end alone.                           *)

WriterWakes(w)     == w.data # <<>> /\ ~w.paused => w.timer
AnswerWakes(i)     == i.msgId > i.ackId => i.timer
Watched(o, t, r)   == o.msgId > o.ackId => o.timer \/ t \/ r
Awake(p) == ~disposed[p] => /\ WriterWakes(writer[p])
                            /\ AnswerWakes(inc[p])
                            /\ Watched(out[p], timedOut[p], isReconnecting[p])

\* The parts of the state of p.
LEMMA EndOf ==
    ASSUME IInv, NEW p \in Endpoint
    PROVE  /\ out \in [Endpoint -> Half] /\ out[p] \in Half
           /\ inc \in [Endpoint -> Incoming] /\ inc[p] \in Incoming
           /\ writer \in [Endpoint -> [data : Seq(Message), paused : BOOLEAN, timer : BOOLEAN]]
           /\ writer[p] \in [data : Seq(Message), paused : BOOLEAN, timer : BOOLEAN]
           /\ timedOut \in [Endpoint -> BOOLEAN] /\ isReconnecting \in [Endpoint -> BOOLEAN]
           /\ disposed \in [Endpoint -> BOOLEAN]
           /\ socket \in [Endpoint -> Sockets] /\ socket[p] \in Sockets
BY State DEF Outs, Incs, Writers, RestOK

\* An end that a step leaves alone stays awake; the other one is looked at.
LEMMA AwakeElsewhere ==
    ASSUME NoTimerForgotten, NEW p \in Endpoint, Awake(p)',
           \A q \in Endpoint \ {p} :
               /\ writer'[q] = writer[q] /\ inc'[q] = inc[q] /\ out'[q] = out[q]
               /\ timedOut'[q] = timedOut[q] /\ isReconnecting'[q] = isReconnecting[q]
               /\ disposed'[q] = disposed[q]
    PROVE  NoTimerForgotten'
<1>1. \A q \in Endpoint : Awake(q)
  BY DEF NoTimerForgotten, Awake, WriterWakes, AnswerWakes, Watched
<1>2. \A q \in Endpoint : Awake(q)'
  <2> SUFFICES ASSUME NEW q \in Endpoint, q # p PROVE Awake(q)'
    OBVIOUS
  <2> QED
    BY <1>1 DEF Awake
<1> QED
  BY <1>2 DEF NoTimerForgotten, Awake, WriterWakes, AnswerWakes, Watched

\* A step that touches no end leaves both awake.
LEMMA AwakeStays ==
    ASSUME NoTimerForgotten, UNCHANGED <<writer, inc, out, timedOut, isReconnecting, disposed>>
    PROVE  NoTimerForgotten'
BY DEF NoTimerForgotten

\* Writing to a writer that will flush what it holds.
LEMMA WriteWakes ==
    ASSUME NEW w \in [data : Seq(Message), paused : BOOLEAN, timer : BOOLEAN],
           NEW msgs \in Seq(Message), WriterWakes(w)
    PROVE  WriterWakes(Write(w, msgs))
<1>1. CASE w.data = <<>> /\ msgs # <<>>
  BY <1>1 DEF Write, WriterWakes
<1>2. CASE w.data # <<>>
  BY <1>2 DEF Write, WriterWakes
<1>3. CASE w.data = <<>> /\ msgs = <<>>
  <2>1. w.data \o msgs = <<>>
    BY <1>3
  <2> QED
    BY <2>1 DEF Write, WriterWakes
<1> QED
  BY <1>1, <1>2, <1>3

LEMMA NewWriterWakes ==
    /\ WriterWakes(NewWriter)
    /\ NewWriter \in [data : Seq(Message), paused : BOOLEAN, timer : BOOLEAN]
BY EmptySeq DEF WriterWakes, NewWriter

\* Confirming keeps a half watched.
LEMMA ConfirmWatched ==
    ASSUME NEW o \in Half, NEW ack \in Nat, NEW t \in BOOLEAN, NEW r \in BOOLEAN,
           Watched(o, t, r), Confirm(o, ack) \in Half
    PROVE  Watched(Confirm(o, ack), t, r)
<1>1. Confirm(o, ack).msgId = o.msgId /\ Confirm(o, ack).timer = o.timer
  BY DEF Confirm, Half
<1>2. o.ackId <= Confirm(o, ack).ackId
  BY ConfirmGrows
<1> QED
  BY <1>1, <1>2 DEF Watched, Half

\* After the check of acknowledgements the half is watched, or all is confirmed,
\* or the socket is given up.
LEMMA CheckWatches ==
    ASSUME IInv, NEW p \in Endpoint, NEW o \in Half, NEW b \in BOOLEAN, NEW r \in BOOLEAN,
           RecvAckCheck(p, o, b) \/ RecvAckCheckAnew(p, o)
    PROVE  /\ Watched(out'[p], timedOut'[p], r)
           /\ \A q \in Endpoint \ {p} : out'[q] = out[q] /\ timedOut'[q] = timedOut[q]
<1>1. out \in [Endpoint -> Half] /\ timedOut \in [Endpoint -> BOOLEAN]
  BY EndOf
<1>2. CASE o.msgId <= o.ackId /\ out' = [out EXCEPT ![p] = o] /\ UNCHANGED timedOut
  BY <1>1, <1>2 DEF Watched, Half
<1>3. CASE out' = [out EXCEPT ![p] = [o EXCEPT !.timer = TRUE]] /\ UNCHANGED timedOut
  <2>1. [o EXCEPT !.timer = TRUE].timer = TRUE
    BY DEF Half
  <2> QED
    BY <1>1, <1>3, <2>1 DEF Watched
<1>4. CASE out' = [out EXCEPT ![p] = o] /\ timedOut' = [timedOut EXCEPT ![p] = TRUE]
  BY <1>1, <1>4 DEF Watched
<1>5. CASE RecvAckCheckAnew(p, o)
  BY <1>1, <1>5 DEF RecvAckCheckAnew, Watched, Half
<1> QED
  BY <1>2, <1>3, <1>4, <1>5 DEF RecvAckCheck

\* The end of a reconnection writes and checks.
LEMMA EndWakes ==
    ASSUME IInv, NEW p \in Endpoint, NEW o \in Half,
           NEW w \in [data : Seq(Message), paused : BOOLEAN, timer : BOOLEAN],
           NEW more \in Seq(Message), WriterWakes(w), EndAcceptReconnection(p, o, w, more)
    PROVE  /\ WriterWakes(writer'[p])
           /\ Watched(out'[p], timedOut'[p], isReconnecting'[p])
           /\ \A q \in Endpoint \ {p} :
                  /\ writer'[q] = writer[q] /\ out'[q] = out[q] /\ timedOut'[q] = timedOut[q]
                  /\ isReconnecting'[q] = isReconnecting[q]
<1>1. writer \in [Endpoint -> [data : Seq(Message), paused : BOOLEAN, timer : BOOLEAN]]
      /\ isReconnecting \in [Endpoint -> BOOLEAN] /\ inc[p].msgId \in Nat
  BY EndOf DEF Incoming
<1> DEFINE msgs == <<Plain("Ack", inc[p].msgId)>> \o o.unack \o more
<1>2. msgs \in Seq(Message)
  <2>1. Plain("Ack", inc[p].msgId) \in Message /\ o.unack \in Seq(Message)
    BY <1>1 DEF Plain, Message, Types, Half
  <2> QED
    BY <2>1
<1>3. /\ writer' = [writer EXCEPT ![p] = Write(w, msgs)]
      /\ isReconnecting' = [isReconnecting EXCEPT ![p] = FALSE]
      /\ RecvAckCheckAnew(p, o)
  BY DEF EndAcceptReconnection
<1> HIDE DEF msgs
<1>4. WriterWakes(Write(w, msgs))
  BY <1>2, WriteWakes
<1>5. /\ Watched(out'[p], timedOut'[p], FALSE)
      /\ \A q \in Endpoint \ {p} : out'[q] = out[q] /\ timedOut'[q] = timedOut[q]
  BY <1>3, CheckWatches
<1> QED
  BY <1>1, <1>3, <1>4, <1>5

\* What the parts of an end that is not disposed are.
LEMMA AwakeParts ==
    ASSUME NoTimerForgotten, NEW p \in Endpoint, ~disposed[p]
    PROVE  /\ WriterWakes(writer[p]) /\ AnswerWakes(inc[p])
           /\ Watched(out[p], timedOut[p], isReconnecting[p])
BY DEF NoTimerForgotten, WriterWakes, AnswerWakes, Watched

-----------------------------------------------------------------------------
(* One lemma for each action that touches an end.                            *)

LEMMA WriteNowAwake ==
    ASSUME IInv, NoTimerForgotten, NEW p \in Endpoint, WriteNow(p)
    PROVE  NoTimerForgotten'
<1>1. writer' = [writer EXCEPT ![p].timer = FALSE,
                               ![p].data  = IF writer[p].paused THEN writer[p].data ELSE <<>>]
      /\ UNCHANGED <<out, inc, isReconnecting, timedOut, disposed>>
  BY DEF WriteNow, lifeVars
<1>2. WriterWakes(writer'[p])
  BY <1>1, EndOf DEF WriterWakes
<1>3. \A q \in Endpoint \ {p} : writer'[q] = writer[q]
  BY <1>1, EndOf
<1>4. Awake(p)'
  BY <1>1, <1>2, AwakeParts DEF Awake
<1> QED
  BY <1>1, <1>3, <1>4, AwakeElsewhere

LEMMA OutgoingAckTimerAwake ==
    ASSUME IInv, NoTimerForgotten, NEW p \in Endpoint, OutgoingAckTimer(p)
    PROVE  NoTimerForgotten'
<1> DEFINE o == [out[p] EXCEPT !.timer = FALSE]
<1>1. UNCHANGED <<inc, writer, isReconnecting, disposed>> /\ o \in Half
  BY EndOf DEF OutgoingAckTimer, lifeVars, Half
<1>2. /\ Watched(out'[p], timedOut'[p], isReconnecting'[p])
      /\ \A q \in Endpoint \ {p} : out'[q] = out[q] /\ timedOut'[q] = timedOut[q]
  <2>1. CASE isReconnecting[p]
    <3>1. out' = [out EXCEPT ![p] = o] /\ UNCHANGED timedOut
      BY <2>1 DEF OutgoingAckTimer
    <3> QED
      BY <1>1, <2>1, <3>1, EndOf DEF Watched
  <2>2. CASE ~isReconnecting[p]
    <3>1. RecvAckCheck(p, o, TRUE)
      BY <2>2 DEF OutgoingAckTimer
    <3> HIDE DEF o
    <3> QED
      BY <1>1, <2>2, <3>1, CheckWatches, EndOf
  <2> QED
    BY <2>1, <2>2
<1>3. Awake(p)'
  BY <1>1, <1>2, AwakeParts DEF Awake
<1> QED
  BY <1>1, <1>2, <1>3, AwakeElsewhere

LEMMA IncomingAckTimerAwake ==
    ASSUME IInv, NoTimerForgotten, NEW p \in Endpoint, IncomingAckTimer(p)
    PROVE  NoTimerForgotten'
<1> DEFINE w == Write(writer[p], <<Plain("Ack", inc[p].msgId)>>)
<1>1. UNCHANGED <<out, isReconnecting, timedOut, disposed>> /\ inc[p].timer
  BY DEF IncomingAckTimer, lifeVars
<1>2. <<Plain("Ack", inc[p].msgId)>> \in Seq(Message)
  BY EndOf DEF Plain, Message, Types, Incoming
<1>3. WriterWakes(writer[p]) => WriterWakes(w)
  BY <1>2, EndOf, WriteWakes
<1>4. \/ /\ inc[p].msgId <= inc[p].ackId
         /\ inc' = [inc EXCEPT ![p].timer = FALSE] /\ writer' = writer
      \/ /\ inc' = [inc EXCEPT ![p].timer = FALSE, ![p].ackId = inc[p].msgId]
         /\ writer' = [writer EXCEPT ![p] = w]
      \/ inc' = [inc EXCEPT ![p].recent = FALSE] /\ writer' = writer
  BY DEF IncomingAckTimer
<1> HIDE DEF w
<1>5. AnswerWakes(inc'[p]) /\ \A q \in Endpoint \ {p} : inc'[q] = inc[q]
  <2>1. CASE inc[p].msgId <= inc[p].ackId /\ inc' = [inc EXCEPT ![p].timer = FALSE]
    BY <2>1, EndOf DEF AnswerWakes, Incoming
  <2>2. CASE inc' = [inc EXCEPT ![p].timer = FALSE, ![p].ackId = inc[p].msgId]
    BY <2>2, EndOf DEF AnswerWakes, Incoming
  <2>3. CASE inc' = [inc EXCEPT ![p].recent = FALSE]
    <3>1. inc'[p].timer = inc[p].timer
      BY <2>3, EndOf DEF Incoming
    <3> QED
      BY <1>1, <2>3, <3>1, EndOf DEF AnswerWakes
  <2> QED
    BY <1>4, <2>1, <2>2, <2>3
<1>6. /\ WriterWakes(writer[p]) => WriterWakes(writer'[p])
      /\ \A q \in Endpoint \ {p} : writer'[q] = writer[q]
  BY <1>3, <1>4, EndOf
<1>7. Awake(p)'
  BY <1>1, <1>5, <1>6, AwakeParts DEF Awake
<1> QED
  BY <1>1, <1>5, <1>6, <1>7, AwakeElsewhere

LEMMA ReplayWindowElapsesAwake ==
    ASSUME IInv, NoTimerForgotten, NEW p \in Endpoint, ReplayWindowElapses(p)
    PROVE  NoTimerForgotten'
<1>1. /\ UNCHANGED <<out, writer, isReconnecting, timedOut, disposed>>
      /\ inc' = [inc EXCEPT ![p].replayAsked = FALSE]
  BY DEF ReplayWindowElapses, lifeVars
<1>2. /\ AnswerWakes(inc[p]) => AnswerWakes(inc'[p])
      /\ \A q \in Endpoint \ {p} : inc'[q] = inc[q]
  BY <1>1, EndOf DEF AnswerWakes, Incoming
<1>3. Awake(p)'
  BY <1>1, <1>2, AwakeParts DEF Awake
<1> QED
  BY <1>1, <1>2, <1>3, AwakeElsewhere

LEMMA SendKeepAliveAwake ==
    ASSUME IInv, NoTimerForgotten, NEW p \in Endpoint, SendKeepAlive(p)
    PROVE  NoTimerForgotten'
<1> DEFINE w == Write(writer[p], <<Plain("KeepAlive", inc[p].msgId)>>)
<1>1. /\ UNCHANGED <<out, isReconnecting, disposed>>
      /\ inc' = [inc EXCEPT ![p].ackId = inc[p].msgId]
      /\ writer' = [writer EXCEPT ![p] = w]
      /\ UNCHANGED timedOut \/ timedOut' = [timedOut EXCEPT ![p] = TRUE]
  BY DEF SendKeepAlive, lifeVars
<1>2. <<Plain("KeepAlive", inc[p].msgId)>> \in Seq(Message)
  BY EndOf DEF Plain, Message, Types, Incoming
<1>3. WriterWakes(writer[p]) => WriterWakes(w)
  BY <1>2, EndOf, WriteWakes
<1> HIDE DEF w
<1>4. /\ AnswerWakes(inc'[p])
      /\ WriterWakes(writer[p]) => WriterWakes(writer'[p])
      /\ \A q \in Endpoint \ {p} :
             inc'[q] = inc[q] /\ writer'[q] = writer[q] /\ timedOut'[q] = timedOut[q]
  BY <1>1, <1>3, EndOf DEF AnswerWakes, Incoming
<1>5. timedOut[p] => timedOut'[p]
  BY <1>1, EndOf
<1>6. Awake(p)'
  BY <1>1, <1>4, <1>5, AwakeParts DEF Awake, Watched
<1> QED
  BY <1>1, <1>4, <1>6, AwakeElsewhere

LEMMA SendAwake ==
    ASSUME IInv, NoTimerForgotten, NEW p \in Endpoint, NEW d \in Data, Send(p, d)
    PROVE  NoTimerForgotten'
<1> DEFINE m == Regular(out[p].msgId + 1, inc[p].msgId, d)
           o == [out[p] EXCEPT !.msgId = out[p].msgId + 1, !.unack = Append(out[p].unack, m)]
           w == Write(writer[p], <<m>>)
<1>1. /\ UNCHANGED <<isReconnecting, disposed>>
      /\ inc' = [inc EXCEPT ![p].ackId = inc[p].msgId]
      /\ \/ isReconnecting[p] /\ out' = [out EXCEPT ![p] = o] /\ UNCHANGED <<writer, timedOut>>
         \/ writer' = [writer EXCEPT ![p] = w] /\ RecvAckCheck(p, o, timedOut[p])
  BY DEF Send, lifeVars
<1>2. m \in Message
  BY EndOf DEF Regular, Message, Types, Incoming, Half
<1> HIDE DEF m
<1>3. o \in Half /\ <<m>> \in Seq(Message)
  <2>1. Append(out[p].unack, m) \in Seq(Message)
    BY <1>2, EndOf, AppendProperties DEF Half
  <2> DEFINE u == Append(out[p].unack, m)
             k == out[p].msgId + 1
  <2>2. u \in Seq(Message) /\ k \in Nat
    BY <2>1, EndOf DEF Half
  <2> HIDE DEF u, k
  <2>3. [out[p] EXCEPT !.msgId = k, !.unack = u] \in Half
    BY <2>2, EndOf DEF Half
  <2> QED
    BY <1>2, <2>3 DEF u, k
<1>4. WriterWakes(writer[p]) => WriterWakes(w)
  BY <1>3, EndOf, WriteWakes
<1> HIDE DEF o, w
<1>5. AnswerWakes(inc'[p]) /\ \A q \in Endpoint \ {p} : inc'[q] = inc[q]
  BY <1>1, EndOf DEF AnswerWakes, Incoming
<1>6. /\ Watched(out'[p], timedOut'[p], isReconnecting'[p])
      /\ WriterWakes(writer[p]) => WriterWakes(writer'[p])
      /\ \A q \in Endpoint \ {p} :
             out'[q] = out[q] /\ timedOut'[q] = timedOut[q] /\ writer'[q] = writer[q]
  <2>1. CASE isReconnecting[p] /\ out' = [out EXCEPT ![p] = o] /\ UNCHANGED <<writer, timedOut>>
    BY <1>1, <2>1, EndOf DEF Watched
  <2>2. CASE writer' = [writer EXCEPT ![p] = w] /\ RecvAckCheck(p, o, timedOut[p])
    <3>1. /\ Watched(out'[p], timedOut'[p], isReconnecting[p])
          /\ \A q \in Endpoint \ {p} : out'[q] = out[q] /\ timedOut'[q] = timedOut[q]
      BY <1>3, <2>2, CheckWatches, EndOf
    <3> QED
      BY <1>1, <1>4, <2>2, <3>1, EndOf
  <2> QED
    BY <1>1, <2>1, <2>2
<1>7. Awake(p)'
  BY <1>1, <1>5, <1>6, AwakeParts DEF Awake
<1> QED
  BY <1>1, <1>5, <1>6, <1>7, AwakeElsewhere

\* A disposed end has no timers to forget.
LEMMA DisposeAwake ==
    ASSUME IInv, NoTimerForgotten, NEW p \in Endpoint, Dispose(p)
    PROVE  NoTimerForgotten'
<1>1. /\ disposed' = [disposed EXCEPT ![p] = TRUE]
      /\ out' = [out EXCEPT ![p].timer = FALSE] /\ inc' = [inc EXCEPT ![p].timer = FALSE]
      /\ writer' = [writer EXCEPT ![p] = NewWriter] /\ UNCHANGED <<isReconnecting, timedOut>>
  BY DEF Dispose
<1>2. Awake(p)'
  BY <1>1, EndOf DEF Awake
<1> QED
  BY <1>1, <1>2, EndOf, AwakeElsewhere

LEMMA ReconnectAwake ==
    ASSUME IInv, NoTimerForgotten, Reconnect
    PROVE  NoTimerForgotten'
<1>1. /\ isReconnecting' = [isReconnecting EXCEPT !["client"] = TRUE]
      /\ writer' = [writer EXCEPT !["client"] = NewWriter]
      /\ inc' = [inc EXCEPT !["client"].replayAsked = FALSE]
      /\ timedOut' = [timedOut EXCEPT !["client"] = FALSE]
      /\ UNCHANGED <<out, disposed>> /\ "client" \in Endpoint
  BY DEF Reconnect, lifeVars, Endpoint
<1>2. AnswerWakes(inc["client"]) => AnswerWakes(inc'["client"])
  BY <1>1, EndOf DEF AnswerWakes, Incoming
<1>3. WriterWakes(writer'["client"]) /\ isReconnecting'["client"]
  BY <1>1, EndOf, NewWriterWakes
<1>4. Awake("client")'
  BY <1>1, <1>2, <1>3, AwakeParts DEF Awake, Watched
<1> QED
  BY <1>1, <1>4, EndOf, AwakeElsewhere

LEMMA ConnectionTypeRequestAwake ==
    ASSUME IInv, NoTimerForgotten, ConnectionTypeRequest
    PROVE  NoTimerForgotten'
<1> DEFINE w == Write(writer["client"], <<Plain("Control", 0)>>)
<1>1. "client" \in Endpoint /\ ~disposed["client"] /\ UNCHANGED disposed
      /\ <<Plain("Control", 0)>> \in Seq(Message)
  BY DEF ConnectionTypeRequest, lifeVars, Endpoint, Plain, Message, Types
<1>2. /\ WriterWakes(w)
      /\ w \in [data : Seq(Message), paused : BOOLEAN, timer : BOOLEAN]
  <2>1. writer["client"].data \o <<Plain("Control", 0)>> \in Seq(Message)
    BY <1>1, EndOf, ConcatProperties
  <2>2. w \in [data : Seq(Message), paused : BOOLEAN, timer : BOOLEAN]
    BY <1>1, <2>1, EndOf DEF Write
  <2>3. WriterWakes(w)
    BY <1>1, EndOf, WriteWakes, AwakeParts
  <2> QED
    BY <2>2, <2>3
<1>3. \/ writer' = [writer EXCEPT !["client"] = w] /\ UNCHANGED <<out, inc, isReconnecting, timedOut>>
      \/ /\ inc' = [inc EXCEPT !["client"].ackId = inc["client"].msgId]
         /\ EndAcceptReconnection("client", out["client"], w, <<>>)
  BY DEF ConnectionTypeRequest
<1> HIDE DEF w
<1>4. CASE writer' = [writer EXCEPT !["client"] = w] /\ UNCHANGED <<out, inc, isReconnecting, timedOut>>
  <2>1. Awake("client")' /\ \A q \in Endpoint \ {"client"} : writer'[q] = writer[q]
    BY <1>1, <1>2, <1>4, EndOf, AwakeParts DEF Awake
  <2> QED
    BY <1>1, <1>4, <2>1, AwakeElsewhere
<1>5. CASE /\ inc' = [inc EXCEPT !["client"].ackId = inc["client"].msgId]
           /\ EndAcceptReconnection("client", out["client"], w, <<>>)
  <2>1. AnswerWakes(inc'["client"]) /\ \A q \in Endpoint \ {"client"} : inc'[q] = inc[q]
    BY <1>1, <1>5, EndOf DEF AnswerWakes, Incoming
  <2>2. /\ WriterWakes(writer'["client"])
        /\ Watched(out'["client"], timedOut'["client"], isReconnecting'["client"])
        /\ \A q \in Endpoint \ {"client"} :
               /\ writer'[q] = writer[q] /\ out'[q] = out[q] /\ timedOut'[q] = timedOut[q]
               /\ isReconnecting'[q] = isReconnecting[q]
    BY <1>1, <1>2, <1>5, EndOf, EndWakes, EmptySeq
  <2>3. Awake("client")'
    BY <2>1, <2>2 DEF Awake
  <2> QED
    BY <1>1, <2>1, <2>2, <2>3, AwakeElsewhere
<1> QED
  BY <1>3, <1>4, <1>5

\* The two ways in which the server receives a socket end alike.
LEMMA AcceptedAwake ==
    ASSUME IInv, NoTimerForgotten, NEW ack \in Nat, NEW more \in Seq(Message),
           Confirm(out["server"], ack) \in Half,
           EndAcceptReconnection("server", Confirm(out["server"], ack), NewWriter, more),
           inc' = [inc EXCEPT !["server"].replayAsked = FALSE,
                              !["server"].ackId = inc["server"].msgId],
           UNCHANGED disposed
    PROVE  NoTimerForgotten'
<1>1. "server" \in Endpoint
  BY DEF Endpoint
<1>2. AnswerWakes(inc'["server"]) /\ \A q \in Endpoint \ {"server"} : inc'[q] = inc[q]
  BY <1>1, EndOf DEF AnswerWakes, Incoming
<1>3. /\ WriterWakes(writer'["server"])
      /\ Watched(out'["server"], timedOut'["server"], isReconnecting'["server"])
      /\ \A q \in Endpoint \ {"server"} :
             /\ writer'[q] = writer[q] /\ out'[q] = out[q] /\ timedOut'[q] = timedOut[q]
             /\ isReconnecting'[q] = isReconnecting[q]
  BY <1>1, NewWriterWakes, EndWakes
<1>4. Awake("server")'
  BY <1>2, <1>3 DEF Awake
<1> QED
  BY <1>1, <1>2, <1>3, <1>4, AwakeElsewhere

LEMMA AcceptReconnectionAwake ==
    ASSUME IInv, NoTimerForgotten, NEW n \in Sockets, AcceptReconnection(n)
    PROVE  NoTimerForgotten'
<1> DEFINE rest == Tail(wire["server"][n])
<1>0. PICK k \in 0..Len(rest) : \E b \in ChunkAcks(rest, k) :
          EndAcceptReconnection("server", Confirm(out["server"], b), NewWriter, <<>>)
  BY DEF AcceptReconnection
<1>1. PICK a \in ChunkAcks(rest, k) :
          EndAcceptReconnection("server", Confirm(out["server"], a), NewWriter, <<>>)
  BY <1>0
<1>2. a \in Nat /\ a <= inc["client"].msgId
  BY <1>1, ChunkAckKept, RestKept DEF AcceptReconnection, MayAccept
<1>3. Confirm(out["server"], a) \in Half
  BY <1>2, State, ConfirmKept DEF Endpoint, Peer
<1> QED
  BY <1>1, <1>2, <1>3, AcceptedAwake, EmptySeq DEF AcceptReconnection, lifeVars

LEMMA AttachInExtHostAwake ==
    ASSUME IInv, NoTimerForgotten, NEW h \in handoff, AttachInExtHost(h)
    PROVE  NoTimerForgotten'
<1>1. h.ack \in Nat /\ h.ack <= inc["client"].msgId
  BY State DEF Handoffs
<1>2. Confirm(out["server"], h.ack) \in Half
  BY <1>1, State, ConfirmKept DEF Endpoint, Peer
<1>3. AttachAnswer \in Seq(Message)
  BY DEF AttachAnswer, Plain, Message, Types
<1> QED
  BY <1>1, <1>2, <1>3, AcceptedAwake DEF AttachInExtHost, lifeVars

-----------------------------------------------------------------------------
(* Receiving.  The half that a message has acknowledged is watched.          *)

\* What a receiver is given.
LEMMA ReceivedHalf ==
    ASSUME IInv, NoTimerForgotten, NEW p \in Endpoint, ReceiveMessage(p)
    PROVE  LET m == Head(wire[p][socket[p]])
               o == Confirm(out[p], m.ack)
           IN  /\ m \in Written(Peer(p)) /\ o \in Half
               /\ Watched(o, timedOut[p], isReconnecting[p])
<1> DEFINE m == Head(wire[p][socket[p]])
           o == Confirm(out[p], m.ack)
<1>1. m \in Written(Peer(p))
  BY EndOf, TailKept DEF ReceiveMessage
<1>2. m.ack \in Nat /\ m.ack <= inc[Peer(p)].msgId
  BY <1>1 DEF Written, Message
<1> HIDE DEF m
<1>3. o \in Half
  BY <1>2, State, ConfirmKept
<1>4. Watched(o, timedOut[p], isReconnecting[p])
  BY <1>2, <1>3, EndOf, ConfirmWatched, AwakeParts DEF ReceiveMessage
<1> QED
  BY <1>1, <1>3, <1>4 DEF m

LEMMA ReceiveRegularAwake ==
    ASSUME IInv, NoTimerForgotten, NEW p \in Endpoint, ~disposed[p], UNCHANGED disposed,
           NEW m \in Message, NEW o \in Half, Watched(o, timedOut[p], isReconnecting[p]),
           ReceiveRegular(p, m, o)
    PROVE  NoTimerForgotten'
<1> DEFINE w == Write(writer[p], <<Plain("ReplayRequest", 0)>>)
           i == [inc[p] EXCEPT !.msgId = m.id, !.recent = inc[p].timer, !.timer = TRUE]
           j == [inc[p] EXCEPT !.replayAsked = TRUE]
<1>1. out' = [out EXCEPT ![p] = o] /\ UNCHANGED <<isReconnecting, timedOut>>
  BY DEF ReceiveRegular
<1>2. /\ inc' = inc \/ inc' = [inc EXCEPT ![p] = i] \/ inc' = [inc EXCEPT ![p] = j]
      /\ writer' = writer \/ writer' = [writer EXCEPT ![p] = w]
  <2>1. CASE UNCHANGED <<inc, writer>>
    BY <2>1
  <2>2. CASE /\ inc' = [inc EXCEPT ![p].msgId = m.id, ![p].recent = inc[p].timer, ![p].timer = TRUE]
             /\ UNCHANGED writer
    <3>1. inc' = [inc EXCEPT ![p] = i]
      BY <2>2, EndOf DEF Incoming
    <3> HIDE DEF i
    <3> QED
      BY <2>2, <3>1
  <2>3. CASE inc' = [inc EXCEPT ![p].replayAsked = TRUE] /\ writer' = [writer EXCEPT ![p] = w]
    BY <2>3
  <2> QED
    BY <2>1, <2>2, <2>3 DEF ReceiveRegular
<1>3. i.timer /\ (AnswerWakes(inc[p]) => AnswerWakes(j))
  BY EndOf DEF Incoming, AnswerWakes
<1>4. <<Plain("ReplayRequest", 0)>> \in Seq(Message)
  BY DEF Plain, Message, Types
<1>5. WriterWakes(w)
  BY <1>4, EndOf, WriteWakes, AwakeParts
<1> HIDE DEF i, j, w
<1>6. /\ AnswerWakes(inc'[p]) /\ WriterWakes(writer'[p])
      /\ Watched(out'[p], timedOut'[p], isReconnecting'[p])
      /\ \A q \in Endpoint \ {p} :
             inc'[q] = inc[q] /\ writer'[q] = writer[q] /\ out'[q] = out[q]
  <2>1. AnswerWakes(i) /\ AnswerWakes(j)
    BY <1>3, AwakeParts DEF AnswerWakes
  <2>2. AnswerWakes(inc'[p]) /\ \A q \in Endpoint \ {p} : inc'[q] = inc[q]
    BY <1>2, <2>1, EndOf, AwakeParts
  <2>3. WriterWakes(writer'[p]) /\ \A q \in Endpoint \ {p} : writer'[q] = writer[q]
    BY <1>2, <1>5, EndOf, AwakeParts
  <2> QED
    BY <1>1, <2>2, <2>3, EndOf
<1>7. Awake(p)'
  BY <1>6 DEF Awake
<1> QED
  BY <1>1, <1>6, <1>7, AwakeElsewhere

LEMMA ReceiveControlAwake ==
    ASSUME IInv, NoTimerForgotten, NEW p \in Endpoint, ~disposed[p], UNCHANGED disposed,
           NEW m \in Message, NEW o \in Half, Watched(o, timedOut[p], isReconnecting[p]),
           ReceiveControl(p, m, o)
    PROVE  NoTimerForgotten'
<1>1. CASE out' = [out EXCEPT ![p] = o] /\ UNCHANGED <<inc, writer, isReconnecting, timedOut>>
  <2>1. Awake(p)' /\ \A q \in Endpoint \ {p} : out'[q] = out[q]
    BY <1>1, EndOf, AwakeParts DEF Awake
  <2> QED
    BY <1>1, <2>1, AwakeElsewhere
<1>2. CASE /\ EndAcceptReconnection(p, o, writer[p], <<>>)
           /\ inc' = [inc EXCEPT ![p].ackId = inc[p].msgId]
  <2>1. AnswerWakes(inc'[p]) /\ \A q \in Endpoint \ {p} : inc'[q] = inc[q]
    BY <1>2, EndOf DEF AnswerWakes, Incoming
  <2>2. /\ WriterWakes(writer'[p])
        /\ Watched(out'[p], timedOut'[p], isReconnecting'[p])
        /\ \A q \in Endpoint \ {p} :
               /\ writer'[q] = writer[q] /\ out'[q] = out[q] /\ timedOut'[q] = timedOut[q]
               /\ isReconnecting'[q] = isReconnecting[q]
    BY <1>2, EndOf, EndWakes, EmptySeq, AwakeParts
  <2>3. Awake(p)'
    BY <2>1, <2>2 DEF Awake
  <2> QED
    BY <2>1, <2>2, <2>3, AwakeElsewhere
<1> QED
  BY <1>1, <1>2 DEF ReceiveControl

LEMMA ReceiveReplayRequestAwake ==
    ASSUME IInv, NoTimerForgotten, NEW p \in Endpoint, ~disposed[p], UNCHANGED disposed,
           NEW m \in Message, NEW o \in Half, Watched(o, timedOut[p], isReconnecting[p]),
           ReceiveReplayRequest(p, m, o)
    PROVE  NoTimerForgotten'
<1> DEFINE w == Write(writer[p], o.unack)
<1>1. WriterWakes(w)
  BY EndOf, WriteWakes, AwakeParts DEF Half
<1>2. writer' = [writer EXCEPT ![p] = w] /\ UNCHANGED <<inc, isReconnecting>>
  BY DEF ReceiveReplayRequest
<1> HIDE DEF w
<1>3. /\ Watched(out'[p], timedOut'[p], isReconnecting'[p])
      /\ \A q \in Endpoint \ {p} : out'[q] = out[q] /\ timedOut'[q] = timedOut[q]
  <2>1. CASE out' = [out EXCEPT ![p] = o] /\ UNCHANGED timedOut
    BY <1>2, <2>1, EndOf
  <2>2. CASE RecvAckCheck(p, o, FALSE)
    BY <1>2, <2>2, CheckWatches, EndOf
  <2> QED
    BY <2>1, <2>2 DEF ReceiveReplayRequest
<1>4. Awake(p)' /\ \A q \in Endpoint \ {p} : writer'[q] = writer[q]
  BY <1>1, <1>2, <1>3, EndOf, AwakeParts DEF Awake
<1> QED
  BY <1>2, <1>3, <1>4, AwakeElsewhere

LEMMA ReceiveMessageAwake ==
    ASSUME IInv, NoTimerForgotten, NEW p \in Endpoint, ReceiveMessage(p)
    PROVE  NoTimerForgotten'
<1> DEFINE m == Head(wire[p][socket[p]])
           o == Confirm(out[p], m.ack)
<1>1. m \in Message /\ o \in Half /\ Watched(o, timedOut[p], isReconnecting[p])
  BY ReceivedHalf DEF Written
<1>2. ~disposed[p] /\ UNCHANGED disposed
  BY DEF ReceiveMessage
<1>3. \/ ReceiveRegular(p, m, o) \/ ReceiveControl(p, m, o) \/ ReceiveReplayRequest(p, m, o)
      \/ ReceiveAck(p, m, o) \/ ReceiveDisconnect(p, m, o)
      \/ ReceivePause(p, m, o) \/ ReceiveResume(p, m, o)
  BY DEF ReceiveMessage
<1> HIDE DEF m, o
<1>4. CASE \/ ReceiveAck(p, m, o) \/ ReceiveDisconnect(p, m, o)
           \/ ReceivePause(p, m, o) \/ ReceiveResume(p, m, o)
  <2>1. /\ out' = [out EXCEPT ![p] = o] /\ UNCHANGED <<inc, isReconnecting, timedOut>>
        /\ \/ writer' = writer
           \/ writer' = [writer EXCEPT ![p].paused = TRUE]
           \/ writer' = [writer EXCEPT ![p].paused = FALSE, ![p].timer = TRUE]
    BY <1>4 DEF ReceiveAck, ReceiveDisconnect, ReceivePause, ReceiveResume
  <2>2. WriterWakes(writer'[p]) /\ \A q \in Endpoint \ {p} : writer'[q] = writer[q]
    <3>1. CASE writer' = writer
      BY <1>2, <3>1, AwakeParts
    <3>2. CASE writer' = [writer EXCEPT ![p].paused = TRUE]
      BY <3>2, EndOf DEF WriterWakes
    <3>3. CASE writer' = [writer EXCEPT ![p].paused = FALSE, ![p].timer = TRUE]
      BY <3>3, EndOf DEF WriterWakes
    <3> QED
      BY <2>1, <3>1, <3>2, <3>3
  <2>3. Awake(p)' /\ \A q \in Endpoint \ {p} : out'[q] = out[q]
    BY <1>1, <1>2, <2>1, <2>2, EndOf, AwakeParts DEF Awake
  <2> QED
    BY <1>2, <2>1, <2>2, <2>3, AwakeElsewhere
<1> QED
  BY <1>1, <1>2, <1>3, <1>4, ReceiveRegularAwake, ReceiveControlAwake, ReceiveReplayRequestAwake

-----------------------------------------------------------------------------
(* All of it.                                                                *)

LEMMA InitAwake ==
    ASSUME Init
    PROVE  NoTimerForgotten
<1> SUFFICES ASSUME NEW p \in Endpoint
             PROVE  WriterWakes(writer[p]) /\ AnswerWakes(inc[p])
                    /\ Watched(out[p], timedOut[p], isReconnecting[p])
  BY DEF NoTimerForgotten, WriterWakes, AnswerWakes, Watched
<1>1. AnswerWakes(inc[p]) /\ Watched(out[p], timedOut[p], isReconnecting[p])
  BY DEF Init, AnswerWakes, Watched
<1>2. /\ WriterWakes(NewWriter) /\ WriterWakes([NewWriter EXCEPT !.paused = TRUE])
      /\ WriterWakes(Write(NewWriter, <<Plain("Resume", 0)>>))
  <2>1. <<Plain("Resume", 0)>> \in Seq(Message)
    BY DEF Plain, Message, Types
  <2> QED
    BY <2>1, NewWriterWakes, WriteWakes DEF WriterWakes, NewWriter
<1>3. \/ writer[p] = NewWriter \/ writer[p] = [NewWriter EXCEPT !.paused = TRUE]
      \/ writer[p] = Write(NewWriter, <<Plain("Resume", 0)>>)
  BY DEF Init
<1> QED
  BY <1>1, <1>2, <1>3

LEMMA NextAwake ==
    ASSUME IInv, NoTimerForgotten, [Next]_vars
    PROVE  NoTimerForgotten'
<1>1. ASSUME NEW p \in Endpoint, NEW d \in Data, Send(p, d) PROVE NoTimerForgotten'
  BY <1>1, SendAwake
<1>2. ASSUME NEW p \in Endpoint,
             \/ WriteNow(p) \/ ReceiveMessage(p) \/ OutgoingAckTimer(p) \/ IncomingAckTimer(p)
             \/ ReplayWindowElapses(p) \/ SendKeepAlive(p) \/ Dispose(p)
      PROVE  NoTimerForgotten'
  BY <1>2, WriteNowAwake, ReceiveMessageAwake, OutgoingAckTimerAwake, IncomingAckTimerAwake,
     ReplayWindowElapsesAwake, SendKeepAliveAwake, DisposeAwake
<1>3. ASSUME Reconnect \/ ConnectionTypeRequest PROVE NoTimerForgotten'
  BY <1>3, ReconnectAwake, ConnectionTypeRequestAwake
<1>4. ASSUME NEW n \in Sockets, AcceptReconnection(n) PROVE NoTimerForgotten'
  BY <1>4, AcceptReconnectionAwake
<1>5. ASSUME NEW h \in handoff, AttachInExtHost(h) PROVE NoTimerForgotten'
  BY <1>5, AttachInExtHostAwake
<1>6. ASSUME \/ \E p \in Endpoint : SocketDrops(p)
             \/ \E n \in Sockets : HandshakeIgnores(n) \/ HandOff(n) \/ SocketBreaks(n)
             \/ \E h \in handoff : LoseInHandOff(h)
             \/ AttemptFails \/ UNCHANGED vars
      PROVE  NoTimerForgotten'
  BY <1>6, AwakeStays DEF SocketDrops, HandshakeIgnores, HandOff, SocketBreaks, LoseInHandOff,
     AttemptFails, vars, endVars, lifeVars
<1> QED
  BY <1>1, <1>2, <1>3, <1>4, <1>5, <1>6 DEF Next

\* No wake-up is lost, however writes, pauses, replies, timers and reconnections
\* interleave: each buffer that may be flushed has its flush scheduled, each
\* message received its acknowledgement, each message sent its watch.
THEOREM NoTimerIsForgotten == Spec => []NoTimerForgotten
<1>1. Init => NoTimerForgotten
  BY InitAwake
<1>2. IInv /\ NoTimerForgotten /\ [Next]_vars => NoTimerForgotten'
  BY NextAwake
<1> QED
  BY <1>1, <1>2, Invariance, PTL DEF Spec
=============================================================================
