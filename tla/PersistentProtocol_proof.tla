----------------------- MODULE PersistentProtocol_proof -----------------------
(***************************************************************************)
(* For any number of sockets, messages and faults: the type invariant, the *)
(* order of delivery and the exactness of the unacknowledged queue, and    *)
(* that each direction implements a reliable channel.                      *)
(***************************************************************************)
EXTENDS PersistentProtocol, SequenceTheorems, TLAPS

-----------------------------------------------------------------------------
(* Lemmas about the operators of the protocol.                              *)

\* There are two ends, each the other's peer.
LEMMA Peers ==
    \A p \in Endpoint : Peer(p) \in Endpoint /\ Peer(p) # p /\ Peer(Peer(p)) = p
BY DEF Endpoint, Peer

\* The messages of a plain kind carry no payload.
LEMMA PlainWritten ==
    ASSUME NEW p \in Endpoint, NEW type \in Types \ {"Regular"}, NEW ack \in Nat,
           ack <= inc[p].msgId
    PROVE  Plain(type, ack) \in Written(p)
BY DEF Plain, Written, Message, Types

\* Popping the confirmed messages of a queue numbered without gaps.
LEMMA UnconfirmedIsSuffix ==
    ASSUME NEW S, NEW queue \in Seq(S), NEW base \in Nat, NEW ack \in Nat,
           base < ack, ack <= base + Len(queue),
           \A i \in 1..Len(queue) : queue[i].id = base + i
    PROVE  Unconfirmed(queue, ack) = SubSeq(queue, ack - base + 1, Len(queue))
<1> DEFINE P(k) == /\ \A j \in 1..k : queue[j].id <= ack
                   /\ k < Len(queue) => queue[k + 1].id > ack
<1>1. Len(queue) \in Nat
  BY LenProperties
<1>2. ack - base \in 0..Len(queue) /\ P(ack - base)
  <2>1. ack - base \in 0..Len(queue)
    BY <1>1
  <2>2. \A j \in 1..(ack - base) : queue[j].id <= ack
    <3> TAKE j \in 1..(ack - base)
    <3>1. j \in 1..Len(queue) /\ base + j <= ack
      BY <1>1
    <3>2. queue[j].id = base + j
      BY <3>1
    <3> QED
      BY <3>1, <3>2
  <2>3. ASSUME ack - base < Len(queue) PROVE queue[ack - base + 1].id > ack
    <3>1. ack - base + 1 \in 1..Len(queue)
      BY <1>1, <2>1, <2>3
    <3>2. queue[ack - base + 1].id = base + (ack - base + 1)
      BY <3>1
    <3> QED
      BY <3>2
  <2> QED
    BY <2>1, <2>2, <2>3
<1>3. \A k \in 0..Len(queue) : P(k) => k = ack - base
  <2> SUFFICES ASSUME NEW k \in 0..Len(queue), P(k), k # ack - base
               PROVE  FALSE
    OBVIOUS
  <2>1. CASE k < ack - base
    <3>1. k + 1 \in 1..Len(queue) /\ queue[k + 1].id = base + (k + 1)
      BY <1>1, <2>1
    <3> QED
      BY <1>1, <2>1, <3>1
  <2>2. CASE k > ack - base
    <3>1. k \in 1..k /\ queue[k].id = base + k
      BY <1>1, <2>2
    <3> QED
      BY <1>1, <2>2, <3>1
  <2> QED
    BY <1>1, <2>1, <2>2
<1>4. (CHOOSE k \in 0..Len(queue) : P(k)) = ack - base
  BY <1>2, <1>3
<1> QED
  BY <1>4 DEF Unconfirmed

\* What a suffix of a queue is.
LEMMA SuffixProperties ==
    ASSUME NEW S, NEW s \in Seq(S), NEW k \in 0..Len(s)
    PROVE  /\ SubSeq(s, k + 1, Len(s)) \in Seq(S)
           /\ Len(SubSeq(s, k + 1, Len(s))) = Len(s) - k
           /\ \A i \in 1..Len(s) - k : SubSeq(s, k + 1, Len(s))[i] = s[k + i]
<1>1. Len(s) \in Nat /\ \A i \in k + 1..Len(s) : s[i] \in S
  BY LenProperties, ElementOfSeq
<1> DEFINE t == SubSeq(s, k + 1, Len(s))
<1>2. /\ t \in Seq(S)
      /\ Len(t) = IF k + 1 <= Len(s) THEN Len(s) - (k + 1) + 1 ELSE 0
      /\ \A i \in 1..Len(s) - (k + 1) + 1 : t[i] = s[k + 1 + i - 1]
  BY <1>1, SubSeqProperties
<1> HIDE DEF t
<1>3. Len(t) = Len(s) - k
  BY <1>1, <1>2
<1>4. \A i \in 1..Len(s) - k : t[i] = s[k + i]
  <2> TAKE i \in 1..Len(s) - k
  <2>1. i \in 1..Len(s) - (k + 1) + 1 /\ k + 1 + i - 1 = k + i
    BY <1>1
  <2> QED
    BY <1>2, <2>1
<1> QED
  BY <1>2, <1>3, <1>4 DEF t

-----------------------------------------------------------------------------
(* The values the parts of the state may take in a state that satisfies the    *)
(* invariant, and what keeps them there.                                       *)

Half     == [unack : Seq(Message), msgId : Nat, ackId : Nat, timer : BOOLEAN]
Outs     == {x \in [Endpoint -> Half] : \A p \in Endpoint : Outgoing(p, x[p])}
WriterOf(p) == [data : Seq(Written(p)), paused : BOOLEAN, timer : BOOLEAN]
Writers  == {x \in [Endpoint -> [data : Seq(Message), paused : BOOLEAN, timer : BOOLEAN]] :
                \A p \in Endpoint : x[p] \in WriterOf(p)}
Wires    == {x \in [Endpoint -> [Sockets -> Seq(Message)]] :
                \A p \in Endpoint : x[p] \in [Sockets -> Seq(Written(Peer(p)))]}
Incoming == [msgId : Nat, ackId : Nat, timer : BOOLEAN, recent : BOOLEAN,
             replayAsked : BOOLEAN]
Incs     == {x \in [Endpoint -> Incoming] : \A p \in Endpoint : x[p].msgId = inc[p].msgId}
Handoffs == SUBSET {h \in [socket : Sockets, ack : Nat] : h.ack <= inc["client"].msgId}

\* The invariant, said with these sets.
LEMMA InvariantParts ==
    ASSUME IInv
    PROVE  /\ out \in Outs /\ writer \in Writers /\ wire \in Wires /\ handoff \in Handoffs
           /\ inc \in Incs /\ TypeOK /\ DeliveredInOrder
           /\ \A p \in Endpoint : inc[p].msgId = Len(delivered[p])
<1>1. TypeOK /\ InTransit
  BY DEF IInv
<1>2. out \in Outs
  BY DEF IInv, TypeOK, Outs, Half
<1>3. writer \in Writers
  BY <1>1 DEF TypeOK, Writers, WriterOf, InTransit
<1>4. wire \in Wires
  BY <1>1, Peers DEF TypeOK, Wires, InTransit
<1>5. handoff \in Handoffs
  BY <1>1 DEF TypeOK, Handoffs, InTransit
<1>6. inc \in Incs
  BY <1>1 DEF TypeOK, Incs, Incoming
<1> QED
  BY <1>2, <1>3, <1>4, <1>5, <1>6 DEF IInv

\* A sequence of messages written by p is a sequence of messages.
LEMMA WrittenAreMessages ==
    ASSUME NEW p, NEW s \in Seq(Written(p))
    PROVE  s \in Seq(Message)
BY SeqMonotonic DEF Written

\* A writer of p put in its place leaves a family of writers.
LEMMA WritersKept ==
    ASSUME NEW x \in Writers, NEW p \in Endpoint, NEW w \in WriterOf(p)
    PROVE  [x EXCEPT ![p] = w] \in Writers
<1>1. w \in [data : Seq(Message), paused : BOOLEAN, timer : BOOLEAN]
  BY WrittenAreMessages DEF WriterOf
<1> QED
  BY <1>1 DEF Writers

\* A stream of messages written by the peer put in its place leaves a family of wires.
LEMMA WiresKept ==
    ASSUME NEW x \in Wires, NEW p \in Endpoint, NEW n \in Sockets,
           NEW s \in Seq(Written(Peer(p)))
    PROVE  [x EXCEPT ![p][n] = s] \in Wires
<1>1. s \in Seq(Message)
  BY WrittenAreMessages
<1> QED
  BY <1>1 DEF Wires

\* An outgoing half of p put in its place leaves a family of outgoing halves.
LEMMA OutsKept ==
    ASSUME NEW x \in Outs, NEW p \in Endpoint, NEW o \in Half, Outgoing(p, o)
    PROVE  [x EXCEPT ![p] = o] \in Outs
BY DEF Outs

\* An end may change everything it knows of the peer's messages but their number.
LEMMA IncsKept ==
    ASSUME NEW x \in Incs, NEW p \in Endpoint, NEW ackId \in Nat, NEW timer \in BOOLEAN,
           NEW recent \in BOOLEAN, NEW asked \in BOOLEAN
    PROVE  /\ [x EXCEPT ![p].ackId = ackId] \in Incs
           /\ [x EXCEPT ![p].timer = timer] \in Incs
           /\ [x EXCEPT ![p].recent = recent] \in Incs
           /\ [x EXCEPT ![p].replayAsked = asked] \in Incs
BY DEF Incs, Incoming

\* Writing keeps a writer among those of p.
LEMMA WriteKept ==
    ASSUME NEW p \in Endpoint, NEW w \in WriterOf(p), NEW msgs \in Seq(Written(p))
    PROVE  Write(w, msgs) \in WriterOf(p)
<1>1. w.data \o msgs \in Seq(Written(p))
  BY ConcatProperties DEF WriterOf
<1> QED
  BY <1>1 DEF Write, WriterOf

\* A last flush keeps the wires, on the socket's own end and on the other.
LEMMA AbandonedKept ==
    ASSUME IInv, NEW p \in Endpoint, NEW w \in WriterOf(p)
    PROVE  Abandoned(p, w) \in Wires
<1> DEFINE n == socket[p]
           q == Peer(p)
           s == IF closed[n] THEN wire[q][n] ELSE wire[q][n] \o Flushed(w)
           x == [wire EXCEPT ![q][n] = s]
<1>1. wire \in Wires /\ n \in Sockets /\ q \in Endpoint /\ Peer(q) = p /\ q # p
  BY InvariantParts, Peers DEF TypeOK
<1>2. wire[q][n] \in Seq(Written(p))
  BY <1>1 DEF Wires
<1>3. Flushed(w) \in Seq(Written(p))
  BY EmptySeq DEF Flushed, WriterOf
<1>4. s \in Seq(Written(Peer(q)))
  BY <1>1, <1>2, <1>3, ConcatProperties
<1>5. x \in Wires
  BY <1>1, <1>4, WiresKept
<1>6. [x EXCEPT ![p][n] = <<>>] \in Wires
  BY <1>1, <1>5, WiresKept, EmptySeq
<1>7. Abandoned(p, w) = [x EXCEPT ![p][n] = <<>>]
  BY <1>1 DEF Abandoned, Wires
<1> QED
  BY <1>6, <1>7

\* An acknowledgement of what the peer has received keeps the queue exact.
LEMMA ConfirmKept ==
    ASSUME IInv, NEW p \in Endpoint, NEW o \in Half, Outgoing(p, o), NEW ack \in Nat,
           ack <= inc[Peer(p)].msgId
    PROVE  Confirm(o, ack) \in Half /\ Outgoing(p, Confirm(o, ack))
<1>1. CASE ack <= o.ackId
  BY <1>1 DEF Confirm, Half
<1>2. CASE ack > o.ackId
  <2> DEFINE k == ack - o.ackId
             rest == SubSeq(o.unack, k + 1, Len(o.unack))
  <2>1. /\ o.unack \in Seq(Written(p)) /\ Len(o.unack) \in Nat
        /\ o.ackId \in Nat /\ o.msgId \in Nat /\ o.timer \in BOOLEAN
        /\ Len(o.unack) = o.msgId - o.ackId
        /\ \A i \in 1..Len(o.unack) : /\ o.unack[i].type = "Regular"
                                      /\ o.unack[i].id = o.ackId + i
    BY LenProperties DEF Outgoing, Half
  <2>2. inc[Peer(p)].msgId <= Len(sent[p])
    BY InvariantParts, Peers DEF DeliveredInOrder
  <2>3. /\ ack <= o.ackId + Len(o.unack) /\ k \in 0..Len(o.unack)
        /\ o.ackId + k = ack /\ o.ackId \in Nat /\ Len(o.unack) \in Nat
    <3>1. inc[Peer(p)].msgId \in Nat /\ o.msgId = Len(sent[p])
      BY InvariantParts, Peers DEF TypeOK, Outgoing
    <3> QED
      BY <1>2, <2>1, <2>2, <3>1
  <2>4. Confirm(o, ack) = [o EXCEPT !.ackId = ack, !.unack = rest]
    BY <1>2, <2>1, <2>3, UnconfirmedIsSuffix DEF Confirm
  <2>5. /\ rest \in Seq(Written(p))
        /\ Len(rest) = Len(o.unack) - k
        /\ \A i \in 1..Len(o.unack) - k : rest[i] = o.unack[k + i]
    BY <2>1, <2>3, SuffixProperties
  <2> HIDE DEF rest, k
  <2>6. \A i \in 1..Len(rest) : rest[i].type = "Regular" /\ rest[i].id = ack + i
    <3> TAKE i \in 1..Len(rest)
    <3>1. i \in 1..Len(o.unack) - k
      BY <2>5
    <3>2. k + i \in 1..Len(o.unack) /\ o.ackId + (k + i) = ack + i
      BY <2>3, <3>1
    <3> QED
      BY <2>1, <2>5, <3>1, <3>2
  <2>7. rest \in Seq(Message)
    BY <2>5, WrittenAreMessages
  <2>8. Confirm(o, ack) \in Half
    BY <2>4, <2>7 DEF Half
  <2>9. /\ Confirm(o, ack).unack = rest /\ Confirm(o, ack).ackId = ack
        /\ Confirm(o, ack).msgId = o.msgId
    BY <2>4 DEF Half
  <2>10. o.msgId = Len(sent[p]) /\ Len(rest) = o.msgId - ack
    BY <2>1, <2>3, <2>5 DEF Outgoing
  <2> QED
    BY <2>5, <2>6, <2>8, <2>9, <2>10 DEF Outgoing
<1>3. ack \in Nat /\ o.ackId \in Nat
  BY DEF Half
<1> QED
  BY <1>1, <1>2, <1>3

\* The conjuncts of the type invariant that those sets do not cover.
RestOK ==
    /\ socket \in [Endpoint -> Sockets]
    /\ isReconnecting \in [Endpoint -> BOOLEAN]
    /\ attempt \in {"none", "begun", "waiting"}
    /\ control \in Nat
    /\ timedOut \in [Endpoint -> BOOLEAN]
    /\ disposed \in [Endpoint -> BOOLEAN]
    /\ peerLeft \in [Endpoint -> BOOLEAN]
    /\ closed \in [Sockets -> BOOLEAN]
    /\ handled \in SUBSET Sockets
    /\ drops \in Nat
    /\ sent \in [Endpoint -> Seq(Data)]
    /\ delivered \in [Endpoint -> Seq(Data)]

\* The type invariant covers the rest of the state.
LEMMA TypeParts ==
    ASSUME TypeOK PROVE RestOK
BY DEF TypeOK, RestOK

\* A step that sends and delivers nothing keeps the invariant if it leaves every
\* part of the state among the values it may have.
LEMMA SteadyStep ==
    ASSUME IInv, UNCHANGED <<sent, delivered>>, inc' \in Incs, out' \in Outs, writer' \in Writers, wire' \in Wires, handoff' \in Handoffs, RestOK'
    PROVE  IInv'
<1>1. \A p \in Endpoint : Written(p)' = Written(p)
  BY Peers DEF Written, Incs
<1>2. \A p \in Endpoint : Outgoing(p, out[p])'
  <2> TAKE p \in Endpoint
  <2>1. Outgoing(p, out'[p])
    BY DEF Outs
  <2> QED
    BY <1>1, <2>1, Peers DEF Outgoing, Incs
<1>3. DeliveredInOrder' /\ \A p \in Endpoint : inc'[p].msgId = Len(delivered'[p])
  BY InvariantParts DEF DeliveredInOrder, Incs
<1>4. InTransit'
  <2>1. \A p \in Endpoint : writer'[p].data \in Seq(Written(p))
    BY DEF Writers, WriterOf
  <2>2. \A p \in Endpoint : wire'[Peer(p)] \in [Sockets -> Seq(Written(p))]
    BY Peers DEF Wires
  <2>3. \A h \in handoff' : h.ack <= inc'["client"].msgId
    BY DEF Handoffs, Endpoint, Incs
  <2> QED
    BY <1>1, <2>1, <2>2, <2>3 DEF InTransit
<1>5. TypeOK'
  <2>1. /\ out' \in [Endpoint -> Half] /\ inc' \in [Endpoint -> Incoming]
        /\ writer' \in [Endpoint -> [data : Seq(Message), paused : BOOLEAN, timer : BOOLEAN]]
    BY DEF Outs, Incs, Writers
  <2>2. /\ wire' \in [Endpoint -> [Sockets -> Seq(Message)]]
        /\ handoff' \in SUBSET [socket : Sockets, ack : Nat]
    BY DEF Wires, Handoffs
  <2> QED
    BY <2>1, <2>2 DEF TypeOK, RestOK, Half, Incoming
<1> QED
  BY <1>2, <1>3, <1>4, <1>5 DEF IInv

\* The check of outgoing acknowledgements replaces one outgoing half by another
\* that differs in its timer.
LEMMA RecvAckCheckKept ==
    ASSUME IInv, NEW p \in Endpoint, NEW o \in Half, Outgoing(p, o), NEW b \in BOOLEAN,
           RecvAckCheck(p, o, b) \/ RecvAckCheckAnew(p, o)
    PROVE  out' \in Outs /\ timedOut' \in [Endpoint -> BOOLEAN]
<1>1. out \in Outs /\ timedOut \in [Endpoint -> BOOLEAN]
  BY InvariantParts DEF TypeOK
<1>2. [o EXCEPT !.timer = TRUE] \in Half /\ Outgoing(p, [o EXCEPT !.timer = TRUE])
  <2> DEFINE t == [o EXCEPT !.timer = TRUE]
  <2>1. /\ t \in Half
        /\ t.unack = o.unack /\ t.msgId = o.msgId /\ t.ackId = o.ackId
    BY DEF Half
  <2> HIDE DEF t
  <2>2. Outgoing(p, t)
    BY <2>1 DEF Outgoing
  <2> QED
    BY <2>1, <2>2 DEF t
<1>3. out' = [out EXCEPT ![p] = o] \/ out' = [out EXCEPT ![p] = [o EXCEPT !.timer = TRUE]]
  BY DEF RecvAckCheck, RecvAckCheckAnew
<1>4. out' \in Outs
  <2> DEFINE t == [o EXCEPT !.timer = TRUE]
  <2>1. t \in Half /\ Outgoing(p, t) /\ (out' = [out EXCEPT ![p] = o] \/ out' = [out EXCEPT ![p] = t])
    BY <1>2, <1>3
  <2> HIDE DEF t
  <2> QED
    BY <1>1, <2>1, OutsKept
<1> QED
  BY <1>1, <1>4 DEF RecvAckCheck, RecvAckCheckAnew

\* What an end writes when a reconnection ends is its own.
LEMMA EndAcceptReconnectionKept ==
    ASSUME IInv, NEW p \in Endpoint, NEW o \in Half, Outgoing(p, o),
           NEW w \in WriterOf(p), NEW more \in Seq(Written(p)),
           EndAcceptReconnection(p, o, w, more)
    PROVE  /\ out' \in Outs /\ writer' \in Writers
           /\ timedOut' \in [Endpoint -> BOOLEAN]
           /\ isReconnecting' \in [Endpoint -> BOOLEAN]
<1> DEFINE ack == <<Plain("Ack", inc[p].msgId)>>
           msgs == ack \o o.unack \o more
<1>1. writer \in Writers /\ isReconnecting \in [Endpoint -> BOOLEAN] /\ inc[p].msgId \in Nat
  BY InvariantParts DEF TypeOK
<1>2. Plain("Ack", inc[p].msgId) \in Written(p)
  BY <1>1, PlainWritten DEF Types
<1>3. ack \in Seq(Written(p))
  BY <1>2
<1>4. msgs \in Seq(Written(p))
  <2>1. o.unack \in Seq(Written(p))
    BY DEF Outgoing
  <2> QED
    BY <1>3, <2>1, ConcatProperties
<1> HIDE DEF msgs
<1>5. Write(w, msgs) \in WriterOf(p)
  BY <1>4, WriteKept
<1>6. writer' = [writer EXCEPT ![p] = Write(w, msgs)]
  BY DEF EndAcceptReconnection, msgs
<1>7. writer' \in Writers
  BY <1>1, <1>5, <1>6, WritersKept
<1>8. RecvAckCheckAnew(p, o) /\ isReconnecting' = [isReconnecting EXCEPT ![p] = FALSE]
  BY DEF EndAcceptReconnection
<1> QED
  BY <1>1, <1>7, <1>8, RecvAckCheckKept

-----------------------------------------------------------------------------
(* One lemma per action.                                                     *)

\* The data of a writer is its owner's; so is one of its sequences alone.
LEMMA WriterData ==
    ASSUME IInv, NEW p \in Endpoint
    PROVE  /\ writer[p] \in WriterOf(p) /\ Flushed(writer[p]) \in Seq(Written(p))
           /\ NewWriter \in WriterOf(p)
<1>1. writer[p] \in WriterOf(p)
  BY InvariantParts DEF Writers
<1>2. <<>> \in Seq(Written(p))
  BY EmptySeq
<1> QED
  BY <1>1, <1>2 DEF Flushed, NewWriter, WriterOf

\* WriteNow moves what p wrote from its buffer to the wire.
LEMMA WriteNowStep ==
    ASSUME IInv, NEW p \in Endpoint, WriteNow(p)
    PROVE  IInv'
<1> DEFINE n == socket[p]
           q == Peer(p)
           s == IF closed[n] THEN wire[q][n] ELSE wire[q][n] \o Flushed(writer[p])
           w == [writer[p] EXCEPT !.timer = FALSE,
                                  !.data = IF writer[p].paused THEN writer[p].data ELSE <<>>]
<1>1. /\ out \in Outs /\ writer \in Writers /\ wire \in Wires /\ handoff \in Handoffs
      /\ inc \in Incs /\ RestOK /\ q \in Endpoint /\ Peer(q) = p /\ n \in Sockets
      /\ writer[p] \in WriterOf(p) /\ Flushed(writer[p]) \in Seq(Written(p))
  BY InvariantParts, TypeParts, Peers, WriterData DEF RestOK
<1>2. s \in Seq(Written(Peer(q)))
  BY <1>1, ConcatProperties DEF Wires
<1>3. w \in WriterOf(p)
  BY <1>1, EmptySeq DEF WriterOf
<1>4. writer' = [writer EXCEPT ![p] = w] /\ wire' = [wire EXCEPT ![q][n] = s]
  BY <1>1 DEF WriteNow, Writers, Wires
<1>5. writer' \in Writers /\ wire' \in Wires
  BY <1>1, <1>2, <1>3, <1>4, WritersKept, WiresKept
<1>6. RestOK'
  BY <1>1 DEF WriteNow, RestOK, lifeVars
<1>7. /\ UNCHANGED <<sent, delivered, inc>> /\ out' = out /\ handoff' = handoff
  BY DEF WriteNow
<1> QED
  BY <1>1, <1>5, <1>6, <1>7, SteadyStep

\* OutgoingAckTimer changes a timer, or reports the socket as dead.
LEMMA OutgoingAckTimerStep ==
    ASSUME IInv, NEW p \in Endpoint, OutgoingAckTimer(p)
    PROVE  IInv'
<1> DEFINE o == [out[p] EXCEPT !.timer = FALSE]
<1>1. /\ out \in Outs /\ writer \in Writers /\ wire \in Wires /\ handoff \in Handoffs
      /\ inc \in Incs /\ RestOK
  BY InvariantParts, TypeParts
<1>2. o \in Half /\ Outgoing(p, o)
  BY <1>1 DEF Outs, Half, Outgoing
<1>3. out' \in Outs /\ timedOut' \in [Endpoint -> BOOLEAN]
  <2>1. CASE out' = [out EXCEPT ![p] = o] /\ UNCHANGED timedOut
    BY <1>1, <1>2, <2>1, OutsKept DEF RestOK
  <2>2. CASE RecvAckCheck(p, o, TRUE)
    BY <1>2, <2>2, RecvAckCheckKept
  <2> QED
    BY <2>1, <2>2 DEF OutgoingAckTimer
<1>4. UNCHANGED <<inc, writer, isReconnecting, socket, attempt, control, wire, closed,
                  handled, handoff, drops, disposed, peerLeft, sent, delivered>>
  BY DEF OutgoingAckTimer, linkVars, lifeVars
<1>5. RestOK'
  BY <1>1, <1>3, <1>4 DEF RestOK
<1> QED
  BY <1>1, <1>3, <1>4, <1>5, SteadyStep

\* IncomingAckTimer acknowledges what has been received.
LEMMA IncomingAckTimerStep ==
    ASSUME IInv, NEW p \in Endpoint, IncomingAckTimer(p)
    PROVE  IInv'
<1> DEFINE w == Write(writer[p], <<Plain("Ack", inc[p].msgId)>>)
<1>1. /\ out \in Outs /\ writer \in Writers /\ wire \in Wires /\ handoff \in Handoffs
      /\ inc \in Incs /\ RestOK
      /\ writer[p] \in WriterOf(p) /\ inc[p].msgId \in Nat
  BY InvariantParts, TypeParts, WriterData DEF TypeOK
<1>2. w \in WriterOf(p)
  <2>1. Plain("Ack", inc[p].msgId) \in Written(p)
    BY <1>1, PlainWritten DEF Types
  <2>2. <<Plain("Ack", inc[p].msgId)>> \in Seq(Written(p))
    BY <2>1
  <2> QED
    BY <1>1, <2>2, WriteKept
<1>3. writer' \in Writers
  <2>1. writer' = writer \/ writer' = [writer EXCEPT ![p] = w]
    BY <1>1 DEF IncomingAckTimer, Writers
  <2> QED
    BY <1>1, <1>2, <2>1, WritersKept
<1>4. UNCHANGED <<out, isReconnecting, timedOut, socket, attempt, control, wire, closed,
                  handled, handoff, drops, disposed, peerLeft, sent, delivered>>
  BY DEF IncomingAckTimer, linkVars, lifeVars
<1>5. RestOK'
  BY <1>1, <1>4 DEF RestOK, IncomingAckTimer
<1>6. inc' \in Incs
  <2>1. inc[p].msgId \in Nat /\ inc \in Incs
    BY <1>1
  <2> DEFINE x == [inc EXCEPT ![p].timer = FALSE]
  <2>2. \/ inc' = x \/ inc' = [x EXCEPT ![p].ackId = inc[p].msgId]
        \/ inc' = [inc EXCEPT ![p].recent = FALSE]
    BY <1>1 DEF IncomingAckTimer, Incs, Incoming
  <2> HIDE DEF x
  <2>3. x \in Incs
    BY <1>1, IncsKept DEF x
  <2>4. [x EXCEPT ![p].ackId = inc[p].msgId] \in Incs
    BY <2>1, <2>3, IncsKept
  <2>5. [inc EXCEPT ![p].recent = FALSE] \in Incs
    BY <2>1, IncsKept
  <2> QED
    BY <2>2, <2>3, <2>4, <2>5
<1> QED
  BY <1>1, <1>3, <1>4, <1>5, <1>6, SteadyStep

\* ReplayWindowElapses changes a flag.
LEMMA ReplayWindowElapsesStep ==
    ASSUME IInv, NEW p \in Endpoint, ReplayWindowElapses(p)
    PROVE  IInv'
<1>1. /\ out \in Outs /\ writer \in Writers /\ wire \in Wires /\ handoff \in Handoffs
      /\ inc \in Incs /\ RestOK
  BY InvariantParts, TypeParts
<1>2. UNCHANGED <<out, writer, isReconnecting, timedOut, socket, attempt, control, wire, closed,
                  handled, handoff, drops, disposed, peerLeft, sent, delivered>>
  BY DEF ReplayWindowElapses, linkVars, lifeVars
<1>3. RestOK'
  BY <1>1, <1>2 DEF RestOK, ReplayWindowElapses
<1>4. inc' \in Incs
  BY <1>1, IncsKept DEF ReplayWindowElapses
<1> QED
  BY <1>1, <1>2, <1>3, <1>4, SteadyStep

\* SendKeepAlive writes an acknowledgement of what has been received.
LEMMA SendKeepAliveStep ==
    ASSUME IInv, NEW p \in Endpoint, SendKeepAlive(p)
    PROVE  IInv'
<1> DEFINE w == Write(writer[p], <<Plain("KeepAlive", inc[p].msgId)>>)
<1>1. /\ out \in Outs /\ writer \in Writers /\ wire \in Wires /\ handoff \in Handoffs
      /\ inc \in Incs /\ RestOK
      /\ writer[p] \in WriterOf(p) /\ inc[p].msgId \in Nat
  BY InvariantParts, TypeParts, WriterData DEF TypeOK
<1>2. w \in WriterOf(p)
  <2>1. Plain("KeepAlive", inc[p].msgId) \in Written(p)
    BY <1>1, PlainWritten DEF Types
  <2>2. <<Plain("KeepAlive", inc[p].msgId)>> \in Seq(Written(p))
    BY <2>1
  <2> QED
    BY <1>1, <2>2, WriteKept
<1>3. writer' \in Writers
  <2>1. writer' = [writer EXCEPT ![p] = w]
    BY <1>1 DEF SendKeepAlive, Writers
  <2> QED
    BY <1>1, <1>2, <2>1, WritersKept
<1>4. UNCHANGED <<out, isReconnecting, socket, attempt, control, wire, closed,
                  handled, handoff, drops, disposed, peerLeft, sent, delivered>>
  BY DEF SendKeepAlive, linkVars, lifeVars
<1>5. RestOK'
  BY <1>1, <1>4 DEF RestOK, SendKeepAlive
<1>6. inc' \in Incs
  BY <1>1, IncsKept DEF SendKeepAlive
<1> QED
  BY <1>1, <1>3, <1>4, <1>5, <1>6, SteadyStep

\* The whole state, in the form the lemmas above want it.
LEMMA State ==
    ASSUME IInv
    PROVE  /\ out \in Outs /\ writer \in Writers /\ wire \in Wires /\ handoff \in Handoffs
           /\ inc \in Incs /\ RestOK
           /\ \A p \in Endpoint : /\ writer[p] \in WriterOf(p) /\ NewWriter \in WriterOf(p)
                                  /\ inc[p].msgId \in Nat
                                  /\ out[p] \in Half /\ Outgoing(p, out[p])
BY InvariantParts, TypeParts, WriterData DEF TypeOK, Outs

\* Reading a message, or losing it.
LEMMA TailKept ==
    ASSUME IInv, NEW p \in Endpoint, NEW n \in Sockets, wire[p][n] # <<>>
    PROVE  /\ [wire EXCEPT ![p][n] = Tail(@)] \in Wires
           /\ Head(wire[p][n]) \in Written(Peer(p))
           /\ Tail(wire[p][n]) \in Seq(Written(Peer(p)))
<1>1. wire \in Wires /\ wire[p][n] \in Seq(Written(Peer(p)))
  BY State DEF Wires
<1>2. /\ Head(wire[p][n]) \in Written(Peer(p))
      /\ Tail(wire[p][n]) \in Seq(Written(Peer(p)))
  BY <1>1, HeadTailProperties
<1>3. [wire EXCEPT ![p][n] = Tail(wire[p][n])] \in Wires
  BY <1>1, <1>2, WiresKept
<1> QED
  BY <1>2, <1>3

\* Steps in which nothing but the wires changes of what the sets cover.
LEMMA WireStep ==
    ASSUME IInv, UNCHANGED <<out, inc, writer, handoff, sent, delivered>>,
           wire' \in Wires, RestOK'
    PROVE  IInv'
BY State, SteadyStep

\* HandshakeIgnores takes a message off a wire.
LEMMA HandshakeIgnoresStep ==
    ASSUME IInv, NEW n \in Sockets, HandshakeIgnores(n)
    PROVE  IInv'
<1>1. wire' \in Wires
  BY TailKept DEF HandshakeIgnores, Endpoint
<1>2. RestOK'
  BY State DEF HandshakeIgnores, endVars, lifeVars, RestOK
<1> QED
  BY <1>1, <1>2, WireStep DEF HandshakeIgnores, endVars

\* LoseInHandOff takes messages off a wire.
LEMMA LoseInHandOffStep ==
    ASSUME IInv, NEW h \in handoff, LoseInHandOff(h)
    PROVE  IInv'
<1>1. h.socket \in Sockets
  BY State DEF Handoffs
<1>2. wire' \in Wires
  BY <1>1, TailKept DEF LoseInHandOff, Endpoint
<1>3. RestOK'
  BY State DEF LoseInHandOff, endVars, lifeVars, RestOK
<1> QED
  BY <1>2, <1>3, WireStep DEF LoseInHandOff, endVars

\* SocketDrops takes a message off a wire.
LEMMA SocketDropsStep ==
    ASSUME IInv, NEW p \in Endpoint, SocketDrops(p)
    PROVE  IInv'
<1>1. socket[p] \in Sockets
  BY State DEF RestOK
<1>2. wire' \in Wires
  BY <1>1, TailKept DEF SocketDrops
<1>3. RestOK'
  BY State DEF SocketDrops, endVars, lifeVars, RestOK
<1> QED
  BY <1>2, <1>3, WireStep DEF SocketDrops, endVars

\* SocketBreaks empties the wires of a socket.
LEMMA SocketBreaksStep ==
    ASSUME IInv, NEW n \in Sockets, SocketBreaks(n)
    PROVE  IInv'
<1>1. wire' \in Wires
  <2> SUFFICES ASSUME NEW p \in Endpoint
               PROVE  [wire[p] EXCEPT ![n] = <<>>] \in [Sockets -> Seq(Written(Peer(p)))]
                      /\ [wire[p] EXCEPT ![n] = <<>>] \in [Sockets -> Seq(Message)]
    BY DEF SocketBreaks, Wires
  <2>1. <<>> \in Seq(Written(Peer(p))) /\ <<>> \in Seq(Message)
    BY EmptySeq
  <2>2. /\ wire[p] \in [Sockets -> Seq(Written(Peer(p)))]
        /\ wire[p] \in [Sockets -> Seq(Message)]
    BY State DEF Wires
  <2> QED
    BY <2>1, <2>2
<1>2. RestOK'
  BY State DEF SocketBreaks, endVars, lifeVars, RestOK
<1> QED
  BY <1>1, <1>2, WireStep DEF SocketBreaks, endVars

\* AttemptFails touches no message.
LEMMA AttemptFailsStep ==
    ASSUME IInv, AttemptFails
    PROVE  IInv'
<1>1. RestOK'
  BY State DEF AttemptFails, endVars, lifeVars, RestOK
<1> QED
  BY <1>1, State, WireStep DEF AttemptFails, endVars

\* Reconnect throws the buffer away and keeps the unacknowledged queue.
LEMMA ReconnectStep ==
    ASSUME IInv, Reconnect
    PROVE  IInv'
<1>1. "client" \in Endpoint
  BY DEF Endpoint
<1>2. wire' \in Wires
  BY <1>1, State, AbandonedKept DEF Reconnect
<1>3. writer' \in Writers
  BY <1>1, State, WritersKept DEF Reconnect
<1>4. inc' \in Incs
  BY <1>1, State, IncsKept DEF Reconnect
<1>5. RestOK'
  <2>1. socket["client"] + 1 \in Sockets
    BY <1>1, State, ConstantsAssumption DEF Reconnect, Spare, RestOK, Sockets
  <2> QED
    BY <1>1, <2>1, State DEF Reconnect, BeginAcceptReconnection, lifeVars, RestOK
<1> QED
  BY <1>2, <1>3, <1>4, <1>5, State, SteadyStep DEF Reconnect

\* The messages without a payload or an acknowledgement.
LEMMA PlainSeq ==
    ASSUME IInv, NEW p \in Endpoint, NEW type \in Types \ {"Regular"}, NEW ack \in Nat,
           ack <= inc[p].msgId
    PROVE  <<Plain(type, ack)>> \in Seq(Written(p))
<1>1. Plain(type, ack) \in Written(p)
  BY PlainWritten
<1> QED
  BY <1>1

\* ConnectionTypeRequest writes a request, and may end the reconnection.
LEMMA ConnectionTypeRequestStep ==
    ASSUME IInv, ConnectionTypeRequest
    PROVE  IInv'
<1> DEFINE c == "client"
           w == Write(writer[c], <<Plain("Control", 0)>>)
<1>1. c \in Endpoint
  BY DEF Endpoint
<1>2. w \in WriterOf(c)
  <2>1. <<Plain("Control", 0)>> \in Seq(Written(c))
    BY <1>1, State, PlainSeq DEF Types
  <2> QED
    BY <1>1, <2>1, State, WriteKept
<1> HIDE DEF w
<1>3. UNCHANGED <<socket, wire, closed, handled, handoff, drops, disposed, peerLeft,
                  sent, delivered>>
  BY DEF ConnectionTypeRequest, lifeVars
<1>4. CASE control = 0
  <2>1. /\ attempt' = "waiting" /\ writer' = [writer EXCEPT ![c] = w]
        /\ UNCHANGED <<control, out, inc, isReconnecting, timedOut>>
    BY <1>4 DEF ConnectionTypeRequest, w
  <2>2. writer' \in Writers
    BY <1>1, <1>2, <2>1, State, WritersKept
  <2>3. RestOK'
    BY <1>3, <2>1, State DEF RestOK
  <2> QED
    BY <1>3, <2>1, <2>2, <2>3, State, SteadyStep
<1>5. CASE control # 0
  <2>1. /\ attempt' = "none" /\ control' = control - 1
        /\ inc' = [inc EXCEPT ![c].ackId = inc[c].msgId]
        /\ EndAcceptReconnection(c, out[c], w, <<>>)
    BY <1>5 DEF ConnectionTypeRequest, w
  <2>2. /\ out' \in Outs /\ writer' \in Writers
        /\ timedOut' \in [Endpoint -> BOOLEAN] /\ isReconnecting' \in [Endpoint -> BOOLEAN]
    BY <1>1, <1>2, <2>1, State, EmptySeq, EndAcceptReconnectionKept
  <2>3. inc' \in Incs
    BY <1>1, <2>1, State, IncsKept
  <2>4. control' \in Nat
    BY <1>5, <2>1, State DEF RestOK
  <2>5. RestOK'
    BY <1>3, <2>1, <2>2, <2>4, State DEF RestOK
  <2> QED
    BY <1>3, <2>2, <2>3, <2>5, State, SteadyStep
<1> QED
  BY <1>4, <1>5

\* The acknowledgement of an initial chunk was made by the client.
LEMMA ChunkAckKept ==
    ASSUME IInv, NEW s \in Seq(Written("client")), NEW k \in 0..Len(s), NEW a \in ChunkAcks(s, k)
    PROVE  a \in Nat /\ a <= inc["client"].msgId
<1>1. inc["client"].msgId \in Nat
  BY State DEF Endpoint
<1>2. CASE a = 0
  BY <1>1, <1>2
<1>3. CASE a # 0
  <2>1. PICK i \in 1..k : a = s[i].ack
    BY <1>3 DEF ChunkAcks
  <2>2. i \in 1..Len(s)
    BY LenProperties
  <2>3. s[i] \in Written("client")
    BY <2>2, ElementOfSeq
  <2> QED
    BY <2>1, <2>3 DEF Written, Message
<1> QED
  BY <1>2, <1>3

\* What is left on the wire of socket n when its first messages are taken.
LEMMA RestKept ==
    ASSUME IInv, NEW n \in Sockets, wire["server"][n] # <<>>
    PROVE  /\ Tail(wire["server"][n]) \in Seq(Written("client"))
           /\ \A k \in 0..Len(Tail(wire["server"][n])) :
                 SubSeq(Tail(wire["server"][n]), k + 1, Len(Tail(wire["server"][n])))
                     \in Seq(Written("client"))
<1>1. Peer("server") = "client" /\ "server" \in Endpoint
  BY DEF Peer, Endpoint
<1>2. Tail(wire["server"][n]) \in Seq(Written("client"))
  BY <1>1, TailKept
<1> QED
  BY <1>2, SuffixProperties

\* AcceptReconnection takes the acknowledgements of the initial chunk, then replays.
LEMMA AcceptReconnectionStep ==
    ASSUME IInv, NEW n \in Sockets, AcceptReconnection(n)
    PROVE  IInv'
<1> DEFINE c == "client"
           s == "server"
           rest == Tail(wire[s][n])
           left == Abandoned(s, writer[s])
<1>1. c \in Endpoint /\ s \in Endpoint /\ Peer(s) = c /\ Peer(c) = s
  BY DEF Endpoint, Peer
<1>2. PICK k \in 0..Len(rest) : \E a \in ChunkAcks(rest, k) :
         /\ wire' = [left EXCEPT ![s][n] = SubSeq(rest, k + 1, Len(rest)),
                                 ![c][n] = IF closed[n] THEN @
                                           ELSE Append(@, Plain("Control", 0))]
         /\ EndAcceptReconnection(s, Confirm(out[s], a), NewWriter, <<>>)
  BY DEF AcceptReconnection
<1>3. PICK a \in ChunkAcks(rest, k) :
         /\ wire' = [left EXCEPT ![s][n] = SubSeq(rest, k + 1, Len(rest)),
                                 ![c][n] = IF closed[n] THEN @
                                           ELSE Append(@, Plain("Control", 0))]
         /\ EndAcceptReconnection(s, Confirm(out[s], a), NewWriter, <<>>)
  BY <1>2
<1>4. wire[s][n] # <<>>
  BY DEF AcceptReconnection, MayAccept
<1>5. rest \in Seq(Written(c)) /\ SubSeq(rest, k + 1, Len(rest)) \in Seq(Written(c))
  BY <1>4, RestKept
<1> HIDE DEF rest
<1>6. wire' \in Wires
  <2> DEFINE x == [left EXCEPT ![s][n] = SubSeq(rest, k + 1, Len(rest))]
             t == IF closed[n] THEN x[c][n] ELSE Append(x[c][n], Plain("Control", 0))
  <2>1. left \in Wires
    BY <1>1, State, AbandonedKept
  <2> HIDE DEF left
  <2>2. x \in Wires
    BY <1>1, <1>5, <2>1, WiresKept
  <2>3. wire' = [x EXCEPT ![c][n] = t]
    BY <1>1, <1>3
  <2> HIDE DEF x
  <2>4. x[c][n] \in Seq(Written(s))
    BY <1>1, <2>2 DEF Wires
  <2>5. Plain("Control", 0) \in Written(s)
    BY <1>1, State, PlainWritten DEF Types
  <2>6. t \in Seq(Written(s))
    BY <2>4, <2>5, AppendProperties
  <2> QED
    BY <1>1, <2>2, <2>3, <2>6, WiresKept
<1>7. /\ out' \in Outs /\ writer' \in Writers
      /\ timedOut' \in [Endpoint -> BOOLEAN] /\ isReconnecting' \in [Endpoint -> BOOLEAN]
  <2>1. a \in Nat /\ a <= inc[c].msgId
    BY <1>5, ChunkAckKept
  <2>2. Confirm(out[s], a) \in Half /\ Outgoing(s, Confirm(out[s], a))
    BY <1>1, <2>1, State, ConfirmKept
  <2> QED
    BY <1>1, <1>3, <2>2, State, EmptySeq, EndAcceptReconnectionKept
<1>8. inc' \in Incs
  <2> DEFINE x == [inc EXCEPT ![s].replayAsked = FALSE]
  <2>1. inc' = [x EXCEPT ![s].ackId = inc[s].msgId]
    BY <1>1, State DEF AcceptReconnection, Incs, Incoming
  <2>2. x \in Incs
    BY <1>1, State, IncsKept
  <2> HIDE DEF x
  <2> QED
    BY <1>1, <2>1, <2>2, State, IncsKept
<1>9. RestOK' /\ UNCHANGED <<handoff, sent, delivered>>
  BY <1>1, <1>7, State DEF AcceptReconnection, BeginAcceptReconnection, lifeVars, RestOK
<1> QED
  BY <1>6, <1>7, <1>8, <1>9, State, SteadyStep

\* HandOff keeps the acknowledgements of the initial chunk with the socket.
LEMMA HandOffStep ==
    ASSUME IInv, NEW n \in Sockets, HandOff(n)
    PROVE  IInv'
<1> DEFINE c == "client"
           s == "server"
           rest == Tail(wire[s][n])
<1>1. c \in Endpoint /\ s \in Endpoint /\ Peer(s) = c /\ Peer(c) = s
  BY DEF Endpoint, Peer
<1>2. PICK k \in 0..Len(rest) : \E a \in ChunkAcks(rest, k) :
         /\ wire' = [wire EXCEPT ![s][n] = SubSeq(rest, k + 1, Len(rest)),
                                 ![c][n] = IF closed[n] THEN @ ELSE @ \o HandOffAnswer]
         /\ handoff' = handoff \cup {[socket |-> n, ack |-> a]}
  BY DEF HandOff
<1>3. PICK a \in ChunkAcks(rest, k) :
         /\ wire' = [wire EXCEPT ![s][n] = SubSeq(rest, k + 1, Len(rest)),
                                 ![c][n] = IF closed[n] THEN @ ELSE @ \o HandOffAnswer]
         /\ handoff' = handoff \cup {[socket |-> n, ack |-> a]}
  BY <1>2
<1>4. wire[s][n] # <<>>
  BY DEF HandOff, MayAccept
<1>5. rest \in Seq(Written(c)) /\ SubSeq(rest, k + 1, Len(rest)) \in Seq(Written(c))
  BY <1>4, RestKept
<1> HIDE DEF rest
<1>6. wire' \in Wires
  <2> DEFINE x == [wire EXCEPT ![s][n] = SubSeq(rest, k + 1, Len(rest))]
             t == IF closed[n] THEN x[c][n] ELSE x[c][n] \o HandOffAnswer
  <2>1. x \in Wires
    BY <1>1, <1>5, State, WiresKept
  <2>2. wire' = [x EXCEPT ![c][n] = t]
    BY <1>1, <1>3
  <2> HIDE DEF x
  <2>3. Plain("Pause", 0) \in Written(s) /\ Plain("Control", 0) \in Written(s)
    BY <1>1, State, PlainWritten DEF Types
  <2>4. x[c][n] \in Seq(Written(s)) /\ HandOffAnswer \in Seq(Written(s))
    BY <1>1, <2>1, <2>3 DEF Wires, HandOffAnswer
  <2>5. t \in Seq(Written(s))
    BY <2>4, ConcatProperties
  <2> QED
    BY <1>1, <2>1, <2>2, <2>5, WiresKept
<1>7. handoff' \in Handoffs
  <2>1. a \in Nat /\ a <= inc[c].msgId
    BY <1>5, ChunkAckKept
  <2> QED
    BY <1>3, <2>1, State DEF Handoffs
<1>8. RestOK' /\ UNCHANGED <<out, inc, writer, sent, delivered>>
  BY State DEF HandOff, endVars, lifeVars, RestOK
<1> QED
  BY <1>6, <1>7, <1>8, State, SteadyStep

\* AttachInExtHost takes those acknowledgements, then replays.
LEMMA AttachInExtHostStep ==
    ASSUME IInv, NEW h \in handoff, AttachInExtHost(h)
    PROVE  IInv'
<1> DEFINE s == "server"
<1>1. s \in Endpoint /\ Peer(s) = "client"
  BY DEF Endpoint, Peer
<1>2. h.socket \in Sockets /\ h.ack \in Nat /\ h.ack <= inc["client"].msgId
  BY State DEF Handoffs
<1>3. wire' \in Wires
  BY <1>1, State, AbandonedKept DEF AttachInExtHost
<1>4. /\ out' \in Outs /\ writer' \in Writers
      /\ timedOut' \in [Endpoint -> BOOLEAN] /\ isReconnecting' \in [Endpoint -> BOOLEAN]
  <2>1. Confirm(out[s], h.ack) \in Half /\ Outgoing(s, Confirm(out[s], h.ack))
    BY <1>1, <1>2, State, ConfirmKept
  <2>2. AttachAnswer \in Seq(Written(s))
    BY <1>1, State, PlainSeq DEF AttachAnswer, Types
  <2>3. EndAcceptReconnection(s, Confirm(out[s], h.ack), NewWriter, AttachAnswer)
    BY DEF AttachInExtHost
  <2> QED
    BY <1>1, <2>1, <2>2, <2>3, State, EndAcceptReconnectionKept
<1>5. inc' \in Incs
  <2> DEFINE x == [inc EXCEPT ![s].replayAsked = FALSE]
  <2>1. inc' = [x EXCEPT ![s].ackId = inc[s].msgId]
    BY <1>1, State DEF AttachInExtHost, Incs, Incoming
  <2>2. x \in Incs
    BY <1>1, State, IncsKept
  <2> HIDE DEF x
  <2> QED
    BY <1>1, <2>1, <2>2, State, IncsKept
<1>6. RestOK' /\ UNCHANGED <<sent, delivered>> /\ handoff' = handoff \ {h}
  BY <1>1, <1>2, <1>4, State DEF AttachInExtHost, BeginAcceptReconnection, lifeVars, RestOK
<1>7. handoff' \in Handoffs
  BY <1>6, State DEF Handoffs
<1> QED
  BY <1>3, <1>4, <1>5, <1>6, <1>7, SteadyStep

\* Dispose writes a Disconnect and throws the buffer away.
LEMMA DisposeStep ==
    ASSUME IInv, NEW p \in Endpoint, Dispose(p)
    PROVE  IInv'
<1>1. Farewell(p) \in WriterOf(p)
  <2>1. <<Plain("Disconnect", 0)>> \in Seq(Written(p))
    BY State, PlainSeq DEF Types
  <2> QED
    BY <2>1, State, WriteKept DEF Farewell
<1>2. wire' \in Wires /\ writer' \in Writers
  BY <1>1, State, AbandonedKept, WritersKept DEF Dispose
<1>3. inc' \in Incs
  BY State, IncsKept DEF Dispose
<1>4. out' \in Outs
  <2>1. /\ [out[p] EXCEPT !.timer = FALSE] \in Half
        /\ Outgoing(p, [out[p] EXCEPT !.timer = FALSE])
    BY State DEF Half, Outgoing
  <2>2. out' = [out EXCEPT ![p] = [out[p] EXCEPT !.timer = FALSE]]
    BY DEF Dispose
  <2> QED
    BY <2>1, <2>2, State, OutsKept
<1>5. RestOK' /\ UNCHANGED <<handoff, sent, delivered>>
  BY State DEF Dispose, RestOK
<1> QED
  BY <1>2, <1>3, <1>4, <1>5, State, SteadyStep

\* The cases of _receiveMessage that deliver nothing: the writer may change, the
\* incoming half keeps its number.
LEMMA ReceiveQuietly ==
    ASSUME IInv, NEW p \in Endpoint, NEW m \in Written(Peer(p)), NEW o \in Half, Outgoing(p, o),
           wire' \in Wires, UNCHANGED <<socket, closed, handled, handoff, drops, disposed, sent>>,
           \/ ReceiveControl(p, m, o) \/ ReceiveAck(p, m, o) \/ ReceiveDisconnect(p, m, o)
           \/ ReceiveReplayRequest(p, m, o) \/ ReceivePause(p, m, o) \/ ReceiveResume(p, m, o)
    PROVE  IInv'
<1>1. [out EXCEPT ![p] = o] \in Outs
  BY State, OutsKept
<1>2. CASE ReceiveControl(p, m, o)
  <2>1. CASE p = "client" /\ attempt = "waiting"
    <3>1. /\ EndAcceptReconnection(p, o, writer[p], <<>>) /\ attempt' = "none"
          /\ inc' = [inc EXCEPT ![p].ackId = inc[p].msgId]
          /\ UNCHANGED <<control, peerLeft, delivered>>
      BY <1>2, <2>1 DEF ReceiveControl
    <3>2. /\ out' \in Outs /\ writer' \in Writers
          /\ timedOut' \in [Endpoint -> BOOLEAN] /\ isReconnecting' \in [Endpoint -> BOOLEAN]
      BY <3>1, State, EmptySeq, EndAcceptReconnectionKept
    <3>3. inc' \in Incs
      BY <3>1, State, IncsKept
    <3>4. RestOK'
      BY <3>1, <3>2, State DEF RestOK
    <3> QED
      BY <3>1, <3>2, <3>3, <3>4, State, SteadyStep
  <2>2. CASE ~(p = "client" /\ attempt = "waiting")
    <3>1. /\ control' \in {control, control + 1} /\ out' = [out EXCEPT ![p] = o]
          /\ UNCHANGED <<inc, writer, isReconnecting, timedOut, attempt, peerLeft, delivered>>
      BY <1>2, <2>2 DEF ReceiveControl
    <3>2. RestOK'
      BY <3>1, State DEF RestOK
    <3> QED
      BY <1>1, <3>1, <3>2, State, SteadyStep
  <2> QED
    BY <2>1, <2>2
<1>3. CASE ReceiveAck(p, m, o)
  <2>1. RestOK'
    BY <1>3, State DEF ReceiveAck, RestOK
  <2> QED
    BY <1>1, <1>3, <2>1, State, SteadyStep DEF ReceiveAck
<1>4. CASE ReceiveDisconnect(p, m, o)
  <2>1. RestOK'
    BY <1>4, State DEF ReceiveDisconnect, RestOK
  <2> QED
    BY <1>1, <1>4, <2>1, State, SteadyStep DEF ReceiveDisconnect
<1>5. CASE ReceiveReplayRequest(p, m, o)
  <2>1. Write(writer[p], o.unack) \in WriterOf(p)
    BY State, WriteKept DEF Outgoing
  <2>2. writer' \in Writers
    BY <1>5, <2>1, State, WritersKept DEF ReceiveReplayRequest
  <2>3. out' \in Outs /\ timedOut' \in [Endpoint -> BOOLEAN]
    <3>1. CASE out' = [out EXCEPT ![p] = o] /\ UNCHANGED timedOut
      BY <1>1, <3>1, State DEF RestOK
    <3>2. CASE RecvAckCheck(p, o, FALSE)
      BY <3>2, RecvAckCheckKept
    <3> QED
      BY <1>5, <3>1, <3>2 DEF ReceiveReplayRequest
  <2>4. RestOK'
    BY <1>5, <2>3, State DEF ReceiveReplayRequest, RestOK
  <2> QED
    BY <1>5, <2>2, <2>3, <2>4, State, SteadyStep DEF ReceiveReplayRequest
<1>6. CASE ReceivePause(p, m, o)
  <2>1. writer' \in Writers
    <3>1. [writer[p] EXCEPT !.paused = TRUE] \in WriterOf(p)
      BY State DEF WriterOf
    <3> QED
      BY <1>6, <3>1, State, WritersKept DEF ReceivePause
  <2>2. RestOK'
    BY <1>6, State DEF ReceivePause, RestOK
  <2> QED
    BY <1>1, <1>6, <2>1, <2>2, State, SteadyStep DEF ReceivePause
<1>7. CASE ReceiveResume(p, m, o)
  <2>1. writer' \in Writers
    <3> DEFINE w == [writer[p] EXCEPT !.paused = FALSE, !.timer = TRUE]
    <3>1. w \in WriterOf(p)
      BY State DEF WriterOf
    <3>2. writer' = [writer EXCEPT ![p] = w]
      BY <1>7, State DEF ReceiveResume, Writers
    <3> QED
      BY <3>1, <3>2, State, WritersKept
  <2>2. RestOK'
    BY <1>7, State DEF ReceiveResume, RestOK
  <2> QED
    BY <1>1, <1>7, <2>1, <2>2, State, SteadyStep DEF ReceiveResume
<1> QED
  BY <1>2, <1>3, <1>4, <1>5, <1>6, <1>7

\* What was written stays so when more is sent or more has been received.
LEMMA Growth ==
    ASSUME \A q \in Endpoint :
              /\ inc[q].msgId \in Nat /\ inc'[q].msgId \in Nat
              /\ inc[q].msgId <= inc'[q].msgId
              /\ Len(sent[q]) \in Nat /\ Len(sent'[q]) \in Nat /\ Len(sent[q]) <= Len(sent'[q])
              /\ \A i \in 1..Len(sent[q]) : sent'[q][i] = sent[q][i]
    PROVE  \A q \in Endpoint : /\ Written(q) \subseteq Written(q)'
                               /\ Seq(Written(q)) \subseteq Seq(Written(q)')
<1> TAKE q \in Endpoint
<1>1. Written(q) \subseteq Written(q)'
  <2> SUFFICES ASSUME NEW m \in Written(q) PROVE m \in Written(q)'
    OBVIOUS
  <2>1. m \in Message /\ m.ack \in Nat /\ m.ack <= inc[q].msgId
    BY DEF Written, Message
  <2>2. m.ack <= inc'[q].msgId
    BY <2>1
  <2>3. m.type = "Regular" => m.id \in 1..Len(sent'[q]) /\ m.data = sent'[q][m.id]
    BY DEF Written
  <2> QED
    BY <2>1, <2>2, <2>3 DEF Written
<1>2. \A s \in Seq(Written(q)) : s \in Seq(Written(q)')
  BY <1>1, SeqMonotonic
<1> QED
  BY <1>1, <1>2

\* x may be the outgoing half of p after the step.
OutgoingNext(p, x) ==
    /\ x.unack \in Seq(Written(p)')
    /\ x.msgId = Len(sent'[p])
    /\ x.ackId <= inc'[Peer(p)].msgId
    /\ Len(x.unack) = x.msgId - x.ackId
    /\ \A i \in 1..Len(x.unack) : x.unack[i].type = "Regular" /\ x.unack[i].id = x.ackId + i

\* The two ways of saying what the outgoing half of p is after a step.
LEMMA NextOutgoing ==
    ASSUME NEW p, OutgoingNext(p, out'[p])
    PROVE  Outgoing(p, out[p])'
BY DEF OutgoingNext, Outgoing

\* An outgoing half with one more message.
LEMMA HalfExtended ==
    ASSUME NEW h \in Half, NEW u \in Seq(Message)
    PROVE  /\ [h EXCEPT !.msgId = h.msgId + 1, !.unack = u] \in Half
           /\ [h EXCEPT !.msgId = h.msgId + 1, !.unack = u].unack = u
           /\ [h EXCEPT !.msgId = h.msgId + 1, !.unack = u].msgId = h.msgId + 1
           /\ [h EXCEPT !.msgId = h.msgId + 1, !.unack = u].ackId = h.ackId
<1> DEFINE n == h.msgId + 1
<1>1. n \in Nat
  BY DEF Half
<1> HIDE DEF n
<1>2. /\ [h EXCEPT !.msgId = n, !.unack = u] \in Half
      /\ [h EXCEPT !.msgId = n, !.unack = u].unack = u
      /\ [h EXCEPT !.msgId = n, !.unack = u].msgId = n
      /\ [h EXCEPT !.msgId = n, !.unack = u].ackId = h.ackId
  BY <1>1 DEF Half
<1> QED
  BY <1>2 DEF n

\* Send numbers a message after the last one and queues it as unacknowledged.
LEMMA SendStep ==
    ASSUME IInv, NEW p \in Endpoint, NEW d \in Data, Send(p, d)
    PROVE  IInv'
<1> DEFINE m == Regular(out[p].msgId + 1, inc[p].msgId, d)
           u == Append(out[p].unack, m)
           o == [out[p] EXCEPT !.msgId = out[p].msgId + 1, !.unack = u]
<1>1. /\ out[p] \in Half /\ Outgoing(p, out[p]) /\ Peer(p) \in Endpoint
      /\ inc[p].msgId \in Nat /\ RestOK /\ writer \in Writers
      /\ out[p].msgId = Len(sent[p]) /\ out \in Outs /\ inc \in Incs
  BY State, Peers DEF Outgoing
<1>2. /\ inc' = [inc EXCEPT ![p].ackId = inc[p].msgId] /\ sent' = [sent EXCEPT ![p] = Append(@, d)]
      /\ UNCHANGED <<isReconnecting, socket, attempt, control, wire, closed, handled,
                     handoff, drops, disposed, peerLeft, delivered>>
  BY DEF Send, linkVars, lifeVars
<1>3. inc' \in Incs
  BY <1>1, <1>2, IncsKept
<1>4. /\ sent' \in [Endpoint -> Seq(Data)] /\ sent'[p] = Append(sent[p], d)
      /\ Len(sent'[p]) = Len(sent[p]) + 1 /\ sent'[p][Len(sent[p]) + 1] = d
      /\ \A q \in Endpoint : /\ Len(sent[q]) \in Nat /\ Len(sent'[q]) \in Nat
                             /\ Len(sent[q]) <= Len(sent'[q])
                             /\ \A i \in 1..Len(sent[q]) : sent'[q][i] = sent[q][i]
  <2>1. sent \in [Endpoint -> Seq(Data)] /\ sent[p] \in Seq(Data)
    BY <1>1 DEF RestOK
  <2>2. /\ Append(sent[p], d) \in Seq(Data) /\ Len(Append(sent[p], d)) = Len(sent[p]) + 1
        /\ \A i \in 1..Len(sent[p]) : Append(sent[p], d)[i] = sent[p][i]
        /\ Append(sent[p], d)[Len(sent[p]) + 1] = d
    BY <2>1, AppendProperties
  <2>3. \A q \in Endpoint : Len(sent[q]) \in Nat
    BY <2>1, LenProperties
  <2>4. \A q \in Endpoint : sent'[q] = IF q = p THEN Append(sent[p], d) ELSE sent[q]
    BY <1>2, <2>1
  <2>5. sent' \in [Endpoint -> Seq(Data)]
    BY <1>2, <2>1, <2>2
  <2> QED
    BY <2>2, <2>3, <2>4, <2>5
<1>5. \A q \in Endpoint : Written(q) \subseteq Written(q)' /\ Seq(Written(q)) \subseteq Seq(Written(q)')
  BY <1>3, <1>4, State, Growth DEF Incs
<1>6. m \in Written(p)' /\ m \in Message /\ m.type = "Regular" /\ m.id = Len(sent[p]) + 1
  <2>1. m \in Message /\ m.type = "Regular" /\ m.id = Len(sent[p]) + 1 /\ m.data = d
        /\ m.ack = inc[p].msgId
    BY <1>1, <1>4 DEF Regular, Message, Types
  <2>2. m.ack <= inc'[p].msgId
    BY <1>1, <1>3, <2>1 DEF Incs
  <2>3. m.id \in 1..Len(sent'[p]) /\ m.data = sent'[p][m.id]
    BY <1>4, <2>1
  <2> QED
    BY <2>1, <2>2, <2>3 DEF Written
<1> HIDE DEF m, u
<1>8. o \in Half /\ OutgoingNext(p, o)
  <2>1. /\ out[p].unack \in Seq(Written(p)') /\ out[p].unack \in Seq(Message)
        /\ out[p].ackId \in Nat /\ out[p].msgId \in Nat
        /\ out[p].ackId <= inc'[Peer(p)].msgId
        /\ Len(out[p].unack) = out[p].msgId - out[p].ackId /\ Len(out[p].unack) \in Nat
        /\ \A i \in 1..Len(out[p].unack) : /\ out[p].unack[i].type = "Regular"
                                           /\ out[p].unack[i].id = out[p].ackId + i
    BY <1>1, <1>3, <1>5, LenProperties DEF Outgoing, Half, Incs
  <2>2. /\ u \in Seq(Written(p)') /\ u \in Seq(Message) /\ Len(u) = Len(out[p].unack) + 1
        /\ \A i \in 1..Len(out[p].unack) : u[i] = out[p].unack[i]
        /\ u[Len(out[p].unack) + 1] = m
    BY <1>6, <2>1, AppendProperties DEF u
  <2>3. /\ o \in Half /\ o.unack = u /\ o.msgId = out[p].msgId + 1 /\ o.ackId = out[p].ackId
    <3>1. out[p] \in Half
      BY <1>1
    <3>2. u \in Seq(Message)
      BY <2>2
    <3> QED
      BY <3>1, <3>2, HalfExtended
  <2>4. \A i \in 1..Len(u) : u[i].type = "Regular" /\ u[i].id = out[p].ackId + i
    <3> SUFFICES ASSUME NEW i \in 1..Len(u)
                 PROVE  u[i].type = "Regular" /\ u[i].id = out[p].ackId + i
      OBVIOUS
    <3>1. CASE i \in 1..Len(out[p].unack)
      BY <2>1, <2>2, <3>1
    <3>2. CASE i = Len(out[p].unack) + 1
      <4>1. out[p].ackId + i = Len(sent[p]) + 1
        BY <1>1, <2>1, <3>2
      <4> QED
        BY <1>6, <2>2, <3>2, <4>1
    <3> QED
      BY <2>1, <2>2, <3>1, <3>2
  <2>5. o.msgId = Len(sent'[p]) /\ Len(u) = o.msgId - o.ackId
    BY <1>1, <1>4, <2>1, <2>2, <2>3
  <2> HIDE DEF o
  <2> QED
    BY <2>1, <2>2, <2>3, <2>4, <2>5 DEF OutgoingNext
<1> HIDE DEF o
<1>9. /\ \/ /\ writer' = writer
             /\ out' = [out EXCEPT ![p] = o] /\ timedOut' = timedOut
          \/ /\ writer' = [writer EXCEPT ![p] = Write(writer[p], <<m>>)]
             /\ \/ out' = [out EXCEPT ![p] = o]
                \/ out' = [out EXCEPT ![p] = [o EXCEPT !.timer = TRUE]]
             /\ timedOut' = timedOut \/ timedOut' = [timedOut EXCEPT ![p] = TRUE]
  BY DEF Send, RecvAckCheck, m, u, o
<1>10. /\ out' \in [Endpoint -> Half] /\ \A q \in Endpoint : Outgoing(q, out[q])'
  <2>1. [o EXCEPT !.timer = TRUE] \in Half /\ OutgoingNext(p, [o EXCEPT !.timer = TRUE])
    BY <1>8 DEF Half, OutgoingNext
  <2>2. out' \in [Endpoint -> Half] /\ out'[p] \in {o, [o EXCEPT !.timer = TRUE]}
        /\ \A q \in Endpoint \ {p} : out'[q] = out[q]
    BY <1>1, <1>8, <1>9, <2>1 DEF Outs
  <2>3. Outgoing(p, out[p])'
    BY <1>8, <2>1, <2>2, NextOutgoing
  <2>4. \A q \in Endpoint \ {p} : Outgoing(q, out[q])'
    <3> TAKE q \in Endpoint \ {p}
    <3>1. Outgoing(q, out[q]) /\ out[q] \in Half /\ out'[q] = out[q]
      BY <2>2, State
    <3>2. out[q].unack \in Seq(Written(q)')
      BY <1>5, <3>1 DEF Outgoing
    <3>3. sent'[q] = sent[q] /\ inc'[Peer(q)].msgId = inc[Peer(q)].msgId
      BY <1>1, <1>2, <1>3, Peers DEF RestOK, Incs
    <3> QED
      BY <3>1, <3>2, <3>3 DEF Outgoing
  <2> QED
    BY <2>2, <2>3, <2>4
<1>11. /\ writer' \in [Endpoint -> [data : Seq(Message), paused : BOOLEAN, timer : BOOLEAN]]
       /\ \A q \in Endpoint : writer'[q].data \in Seq(Written(q)')
  <2> DEFINE w == Write(writer[p], <<m>>)
  <2>1. \A q \in Endpoint : writer[q].data \in Seq(Written(q)') /\ writer[q].data \in Seq(Message)
    BY <1>1, <1>5 DEF Writers, WriterOf
  <2>2. /\ writer[p].data \o <<m>> \in Seq(Written(p)')
        /\ writer[p].data \o <<m>> \in Seq(Message)
    BY <1>6, <2>1, ConcatProperties
  <2>3. w \in [data : Seq(Message), paused : BOOLEAN, timer : BOOLEAN]
        /\ w.data = writer[p].data \o <<m>>
    BY <1>1, <2>2 DEF Write, Writers, WriterOf
  <2> HIDE DEF w
  <2>4. writer' = writer \/ writer' = [writer EXCEPT ![p] = w]
    BY <1>9 DEF w
  <2> QED
    BY <1>1, <2>1, <2>2, <2>3, <2>4 DEF Writers
<1>12. InTransit'
  <2>1. \A q \in Endpoint : wire'[Peer(q)] \in [Sockets -> Seq(Written(q)')]
    <3> TAKE q \in Endpoint
    <3>1. wire[Peer(q)] \in [Sockets -> Seq(Written(q))] /\ wire' = wire
      BY <1>2, State, Peers DEF Wires
    <3> QED
      BY <1>5, <3>1
  <2>2. \A h \in handoff' : h.ack <= inc'["client"].msgId
    BY <1>2, <1>3, State DEF Handoffs, Incs, Endpoint
  <2> QED
    BY <1>11, <2>1, <2>2 DEF InTransit
<1>13. DeliveredInOrder'
  <2> SUFFICES ASSUME NEW q \in Endpoint
               PROVE  /\ Len(delivered[q]) <= Len(sent'[Peer(q)])
                      /\ \A i \in 1..Len(delivered[q]) : delivered[q][i] = sent'[Peer(q)][i]
    BY <1>2 DEF DeliveredInOrder
  <2>1. /\ Len(delivered[q]) <= Len(sent[Peer(q)]) /\ Len(delivered[q]) \in Nat
        /\ \A i \in 1..Len(delivered[q]) : delivered[q][i] = sent[Peer(q)][i]
    BY <1>1, InvariantParts, LenProperties DEF DeliveredInOrder, RestOK
  <2>2. Peer(q) \in Endpoint
    BY Peers
  <2> QED
    BY <1>4, <2>1, <2>2
<1>14. RestOK' /\ TypeOK'
  <2>1. RestOK'
    BY <1>1, <1>2, <1>4, <1>9 DEF RestOK
  <2>2. /\ out' \in [Endpoint -> [unack : Seq(Message), msgId : Nat, ackId : Nat, timer : BOOLEAN]]
        /\ inc' \in [Endpoint -> [msgId : Nat, ackId : Nat, timer : BOOLEAN,
                                  recent : BOOLEAN, replayAsked : BOOLEAN]]
    BY <1>3, <1>10 DEF Half, Incs, Incoming
  <2>3. wire' \in [Endpoint -> [Sockets -> Seq(Message)]]
        /\ handoff' \in SUBSET [socket : Sockets, ack : Nat]
    BY <1>2, State DEF Wires, Handoffs
  <2> QED
    BY <1>11, <2>1, <2>2, <2>3 DEF RestOK, TypeOK
<1>15. \A q \in Endpoint : inc'[q].msgId = Len(delivered'[q])
  BY <1>2, <1>3, InvariantParts DEF Incs
<1> QED
  BY <1>10, <1>12, <1>13, <1>14, <1>15 DEF IInv

\* A regular message is the next one, and is the one the peer sent next; or it
\* is one of the others, and changes no number.
LEMMA ReceiveRegularStep ==
    ASSUME IInv, NEW p \in Endpoint, NEW m \in Written(Peer(p)), NEW o \in Half, Outgoing(p, o),
           wire' \in Wires, UNCHANGED <<socket, closed, handled, handoff, drops, disposed, sent>>,
           ReceiveRegular(p, m, o)
    PROVE  IInv'
<1>1. [out EXCEPT ![p] = o] \in Outs /\ out' = [out EXCEPT ![p] = o]
  BY State, OutsKept DEF ReceiveRegular
<1>2. UNCHANGED <<isReconnecting, timedOut, attempt, control, peerLeft>>
  BY DEF ReceiveRegular
<1>3. CASE UNCHANGED delivered
  <2>1. /\ \/ inc' = inc \/ inc' = [inc EXCEPT ![p].replayAsked = TRUE]
        /\ \/ writer' = writer
           \/ writer' = [writer EXCEPT ![p] = Write(writer[p], <<Plain("ReplayRequest", 0)>>)]
    <3>1. delivered' # [delivered EXCEPT ![p] = Append(@, m.data)]
      <4> SUFFICES ASSUME delivered' = [delivered EXCEPT ![p] = Append(@, m.data)]
                   PROVE  FALSE
        OBVIOUS
      <4>1. delivered[p] \in Seq(Data) /\ delivered'[p] = Append(delivered[p], m.data)
        BY State DEF RestOK
      <4>2. Len(Append(delivered[p], m.data)) = Len(delivered[p]) + 1 /\ Len(delivered[p]) \in Nat
        BY <4>1, LenProperties
      <4> QED
        BY <1>3, <4>1, <4>2
    <3>2. /\ \/ inc' = inc
             \/ inc' = [inc EXCEPT ![p].replayAsked = TRUE]
             \/ delivered' = [delivered EXCEPT ![p] = Append(@, m.data)]
          /\ \/ writer' = writer
             \/ writer' = [writer EXCEPT ![p] = Write(writer[p], <<Plain("ReplayRequest", 0)>>)]
      BY DEF ReceiveRegular
    <3> QED
      BY <3>1, <3>2
  <2>2. inc' \in Incs
    <3>1. [inc EXCEPT ![p].replayAsked = TRUE] \in Incs
      BY State, IncsKept
    <3> QED
      BY <2>1, <3>1, State
  <2>3. writer' \in Writers
    <3>1. <<Plain("ReplayRequest", 0)>> \in Seq(Written(p))
      BY State, PlainSeq DEF Types
    <3>2. Write(writer[p], <<Plain("ReplayRequest", 0)>>) \in WriterOf(p)
      BY <3>1, State, WriteKept
    <3> QED
      BY <2>1, <3>2, State, WritersKept
  <2>4. RestOK'
    BY <1>2, <1>3, State DEF RestOK
  <2> QED
    BY <1>1, <1>3, <2>2, <2>3, <2>4, State, SteadyStep
<1>4. CASE delivered' # delivered
  <2> DEFINE q == Peer(p)
  <2>1. /\ m.id > inc[p].msgId /\ ~(m.id > inc[p].msgId + 1) /\ m.type = "Regular"
        /\ inc' = [inc EXCEPT ![p].msgId = m.id, ![p].recent = inc[p].timer, ![p].timer = TRUE]
        /\ delivered' = [delivered EXCEPT ![p] = Append(@, m.data)]
        /\ UNCHANGED writer
    <3>1. m.id \in Nat /\ inc[p].msgId \in Nat
      BY State DEF Written, Message
    <3> QED
      BY <1>4, <3>1 DEF ReceiveRegular, IsDuplicate, SkipsAhead
  <2>2. /\ m.id \in Nat /\ inc[p].msgId \in Nat /\ m.id = inc[p].msgId + 1
        /\ m.id \in 1..Len(sent[q]) /\ m.data = sent[q][m.id] /\ q \in Endpoint /\ p = Peer(q)
    BY <2>1, State, Peers DEF Written, Message
  <2>3. sent \in [Endpoint -> Seq(Data)] /\ delivered \in [Endpoint -> Seq(Data)]
    BY State DEF RestOK
  <2>4. /\ inc' \in [Endpoint -> Incoming] /\ inc'[p].msgId = inc[p].msgId + 1
        /\ \A r \in Endpoint \ {p} : inc'[r] = inc[r]
    <3>1. inc \in [Endpoint -> Incoming] /\ inc[p].timer \in BOOLEAN
      BY State DEF Incs, Incoming
    <3> DEFINE x == [inc EXCEPT ![p].msgId = m.id]
               y == [x EXCEPT ![p].recent = inc[p].timer]
    <3>2. x \in [Endpoint -> Incoming] /\ x[p].msgId = m.id /\ \A r \in Endpoint \ {p} : x[r] = inc[r]
      BY <2>2, <3>1 DEF Incoming
    <3> HIDE DEF x
    <3>3. y \in [Endpoint -> Incoming] /\ y[p].msgId = m.id /\ \A r \in Endpoint \ {p} : y[r] = inc[r]
      BY <3>1, <3>2 DEF Incoming
    <3>4. inc' = [y EXCEPT ![p].timer = TRUE]
      BY <2>1 DEF x
    <3> HIDE DEF y
    <3> QED
      BY <2>2, <3>3, <3>4 DEF Incoming
  <2>5. \A r \in Endpoint : inc[r].msgId \in Nat /\ inc'[r].msgId \in Nat /\ inc[r].msgId <= inc'[r].msgId
    BY <2>2, <2>4, State
  <2>6. \A r \in Endpoint : Written(r) \subseteq Written(r)' /\ Seq(Written(r)) \subseteq Seq(Written(r)')
    <3>1. \A r \in Endpoint : Len(sent[r]) \in Nat /\ sent'[r] = sent[r]
      BY <2>3, LenProperties
    <3> QED
      BY <2>5, <3>1, Growth
  <2>7. m.data \in Data
    BY <2>2, <2>3, ElementOfSeq
  <2>8. /\ delivered' \in [Endpoint -> Seq(Data)]
        /\ Len(delivered[p]) \in Nat /\ Len(delivered'[p]) = Len(delivered[p]) + 1
        /\ \A i \in 1..Len(delivered[p]) : delivered'[p][i] = delivered[p][i]
        /\ delivered'[p][Len(delivered[p]) + 1] = m.data
        /\ \A r \in Endpoint \ {p} : delivered'[r] = delivered[r]
    <3> DEFINE t == Append(delivered[p], m.data)
    <3>1. /\ t \in Seq(Data) /\ Len(t) = Len(delivered[p]) + 1 /\ Len(delivered[p]) \in Nat
          /\ \A i \in 1..Len(delivered[p]) : t[i] = delivered[p][i]
          /\ t[Len(delivered[p]) + 1] = m.data
      BY <2>3, <2>7, AppendProperties, LenProperties
    <3>2. delivered' = [delivered EXCEPT ![p] = t]
      BY <2>1, <2>3
    <3> HIDE DEF t
    <3> QED
      BY <2>3, <3>1, <3>2
  <2>9. \A r \in Endpoint : inc'[r].msgId = Len(delivered'[r]) /\ inc[r].msgId = Len(delivered[r])
    BY <2>4, <2>8, InvariantParts
  <2>10. DeliveredInOrder'
    <3> SUFFICES ASSUME NEW r \in Endpoint
                 PROVE  /\ Len(delivered'[r]) <= Len(sent[Peer(r)])
                        /\ \A i \in 1..Len(delivered'[r]) : delivered'[r][i] = sent[Peer(r)][i]
      BY DEF DeliveredInOrder
    <3>1. /\ Len(delivered[r]) <= Len(sent[Peer(r)])
          /\ \A i \in 1..Len(delivered[r]) : delivered[r][i] = sent[Peer(r)][i]
      BY InvariantParts DEF DeliveredInOrder
    <3>2. CASE r # p
      BY <2>8, <3>1, <3>2
    <3>3. CASE r = p
      <4>1. m.id = Len(delivered[p]) + 1
        BY <2>2, <2>9
      <4> QED
        BY <2>2, <2>8, <3>1, <3>3, <4>1
    <3> QED
      BY <3>2, <3>3
  <2>11. \A r \in Endpoint : Outgoing(r, out[r])'
    <3> SUFFICES ASSUME NEW r \in Endpoint PROVE OutgoingNext(r, out'[r])
      BY NextOutgoing
    <3>1. Outgoing(r, out'[r]) /\ out'[r] \in Half
      BY <1>1 DEF Outs
    <3>2. out'[r].ackId <= inc'[Peer(r)].msgId
      BY <2>5, <3>1, Peers DEF Outgoing, Half
    <3>3. out'[r].unack \in Seq(Written(r)')
      BY <2>6, <3>1 DEF Outgoing
    <3> QED
      BY <3>1, <3>2, <3>3 DEF Outgoing, OutgoingNext
  <2>12. InTransit'
    <3>1. \A r \in Endpoint : writer'[r].data \in Seq(Written(r)')
      BY <2>1, <2>6, State DEF Writers, WriterOf
    <3>2. \A r \in Endpoint : wire'[Peer(r)] \in [Sockets -> Seq(Written(r)')]
      <4> TAKE r \in Endpoint
      <4>1. wire'[Peer(r)] \in [Sockets -> Seq(Written(r))]
        BY Peers DEF Wires
      <4> QED
        BY <2>6, <4>1
    <3>3. \A h \in handoff' : h.ack <= inc'["client"].msgId
      <4> TAKE h \in handoff'
      <4>1. h.ack \in Nat /\ h.ack <= inc["client"].msgId /\ "client" \in Endpoint
        BY State DEF Handoffs, Endpoint
      <4> QED
        BY <2>5, <4>1
    <3> QED
      BY <3>1, <3>2, <3>3 DEF InTransit
  <2>13. TypeOK'
    <3>1. RestOK'
      BY <1>2, <2>3, <2>8, State DEF RestOK
    <3>2. out' \in [Endpoint -> [unack : Seq(Message), msgId : Nat, ackId : Nat, timer : BOOLEAN]]
      BY <1>1 DEF Outs, Half
    <3>3. /\ writer' \in [Endpoint -> [data : Seq(Message), paused : BOOLEAN, timer : BOOLEAN]]
          /\ wire' \in [Endpoint -> [Sockets -> Seq(Message)]]
          /\ handoff' \in SUBSET [socket : Sockets, ack : Nat]
      BY <2>1, State DEF Writers, Wires, Handoffs
    <3> QED
      BY <2>4, <3>1, <3>2, <3>3 DEF TypeOK, RestOK, Incoming
  <2> QED
    BY <2>9, <2>10, <2>11, <2>12, <2>13 DEF IInv
<1> QED
  BY <1>3, <1>4

\* ReceiveMessage, whatever the message is.
LEMMA ReceiveMessageStep ==
    ASSUME IInv, NEW p \in Endpoint, ReceiveMessage(p)
    PROVE  IInv'
<1> DEFINE n == socket[p]
           m == Head(wire[p][n])
           o == Confirm(out[p], m.ack)
<1>1. n \in Sockets /\ wire[p][n] # <<>>
  BY State DEF ReceiveMessage, RestOK
<1>2. m \in Written(Peer(p)) /\ wire' \in Wires
  BY <1>1, TailKept DEF ReceiveMessage
<1>3. o \in Half /\ Outgoing(p, o)
  BY <1>2, State, ConfirmKept DEF Written, Message
<1>4. UNCHANGED <<socket, closed, handled, handoff, drops, disposed, sent>>
  BY DEF ReceiveMessage
<1>5. \/ ReceiveRegular(p, m, o)
      \/ ReceiveControl(p, m, o) \/ ReceiveAck(p, m, o) \/ ReceiveDisconnect(p, m, o)
      \/ ReceiveReplayRequest(p, m, o) \/ ReceivePause(p, m, o) \/ ReceiveResume(p, m, o)
  BY DEF ReceiveMessage
<1> HIDE DEF m, o
<1> QED
  BY <1>2, <1>3, <1>4, <1>5, ReceiveRegularStep, ReceiveQuietly

-----------------------------------------------------------------------------
(* The inductive invariant, and what it implies.                             *)

\* Two ends that have just been constructed satisfy the invariant.
LEMMA InitInvariant ==
    ASSUME Init
    PROVE  IInv
<1>1. 1 \in Sockets /\ "client" \in Endpoint
  BY ConstantsAssumption DEF Sockets, Endpoint
<1>2. /\ \A S : <<>> \in Seq(S) /\ Len(<<>>) = 0
  BY EmptySeq
<1>3. /\ inc \in [Endpoint -> Incoming] /\ \A p \in Endpoint : inc[p].msgId = 0
      /\ sent \in [Endpoint -> Seq(Data)] /\ delivered \in [Endpoint -> Seq(Data)]
      /\ \A p \in Endpoint : sent[p] = <<>> /\ delivered[p] = <<>>
  BY <1>2 DEF Init, Incoming
<1>4. out \in [Endpoint -> Half] /\ \A p \in Endpoint : Outgoing(p, out[p])
  <2>1. \A p \in Endpoint : /\ out[p] = [unack |-> <<>>, msgId |-> 0, ackId |-> 0, timer |-> FALSE]
                           /\ out[p] \in Half
    BY <1>2 DEF Init, Half
  <2>2. out \in [Endpoint -> Half]
    BY <2>1 DEF Init
  <2>3. \A p \in Endpoint : Outgoing(p, out[p])
    BY <1>2, <1>3, <2>1, Peers DEF Outgoing
  <2> QED
    BY <2>2, <2>3
<1>5. /\ writer \in [Endpoint -> [data : Seq(Message), paused : BOOLEAN, timer : BOOLEAN]]
      /\ \A p \in Endpoint : writer[p].data \in Seq(Written(p))
  <2> SUFFICES ASSUME NEW p \in Endpoint
               PROVE  writer[p] \in WriterOf(p)
    BY WrittenAreMessages DEF Init, WriterOf
  <2>1. NewWriter \in WriterOf(p) /\ [NewWriter EXCEPT !.paused = TRUE] \in WriterOf(p)
    BY <1>2 DEF NewWriter, WriterOf
  <2>2. <<Plain("Resume", 0)>> \in Seq(Written(p))
    <3>1. Plain("Resume", 0) \in Written(p)
      BY <1>3, PlainWritten DEF Types
    <3> QED
      BY <3>1
  <2>3. Write(NewWriter, <<Plain("Resume", 0)>>) \in WriterOf(p)
    BY <2>1, <2>2, WriteKept
  <2> QED
    BY <2>1, <2>3 DEF Init
<1>6. /\ wire \in [Endpoint -> [Sockets -> Seq(Message)]]
      /\ \A p \in Endpoint : wire[Peer(p)] \in [Sockets -> Seq(Written(p))]
  BY <1>2, Peers DEF Init
<1>7. DeliveredInOrder
  BY <1>2, <1>3, Peers DEF DeliveredInOrder
<1>8. TypeOK
  BY <1>1, <1>3, <1>4, <1>5, <1>6 DEF Init, TypeOK, Incoming, Half
<1> QED
  BY <1>2, <1>3, <1>4, <1>5, <1>6, <1>7, <1>8 DEF Init, IInv, InTransit

\* A step that changes nothing keeps the invariant.
LEMMA StutterStep ==
    ASSUME IInv, UNCHANGED vars
    PROVE  IInv'
<1>1. RestOK'
  BY State DEF vars, endVars, linkVars, lifeVars, RestOK
<1> QED
  BY <1>1, State, SteadyStep DEF vars, endVars, linkVars, lifeVars

\* Every step keeps the invariant.
LEMMA NextInvariant ==
    ASSUME IInv, [Next]_vars
    PROVE  IInv'
<1>1. ASSUME NEW p \in Endpoint, NEW d \in Data, Send(p, d) PROVE IInv'
  BY <1>1, SendStep
<1>2. ASSUME NEW p \in Endpoint,
             \/ WriteNow(p) \/ ReceiveMessage(p) \/ OutgoingAckTimer(p) \/ IncomingAckTimer(p)
             \/ ReplayWindowElapses(p) \/ SendKeepAlive(p) \/ Dispose(p) \/ SocketDrops(p)
      PROVE  IInv'
  BY <1>2, WriteNowStep, ReceiveMessageStep, OutgoingAckTimerStep, IncomingAckTimerStep,
     ReplayWindowElapsesStep, SendKeepAliveStep, DisposeStep, SocketDropsStep
<1>3. ASSUME Reconnect \/ ConnectionTypeRequest \/ AttemptFails PROVE IInv'
  BY <1>3, ReconnectStep, ConnectionTypeRequestStep, AttemptFailsStep
<1>4. ASSUME NEW n \in Sockets,
             \/ HandshakeIgnores(n) \/ AcceptReconnection(n) \/ HandOff(n) \/ SocketBreaks(n)
      PROVE  IInv'
  BY <1>4, HandshakeIgnoresStep, AcceptReconnectionStep, HandOffStep, SocketBreaksStep
<1>5. ASSUME NEW h \in handoff, LoseInHandOff(h) \/ AttachInExtHost(h) PROVE IInv'
  BY <1>5, LoseInHandOffStep, AttachInExtHostStep
<1>6. ASSUME UNCHANGED vars PROVE IInv'
  BY <1>6, StutterStep
<1> QED
  BY <1>1, <1>2, <1>3, <1>4, <1>5, <1>6 DEF Next

\* The inductive invariant holds throughout, whatever the sockets do.
THEOREM Invariance == Spec => []IInv
<1>1. Init => IInv
  BY InitInvariant
<1>2. IInv /\ [Next]_vars => IInv'
  BY NextInvariant
<1> QED
  BY <1>1, <1>2, PTL DEF Spec

\* Every part of the state keeps its type: in particular nothing without its
\* payload is ever handed to onMessage.
THEOREM TypeCorrect == Spec => []TypeOK
<1>1. IInv => TypeOK
  BY DEF IInv
<1> QED
  BY <1>1, Invariance, PTL

\* Replays, duplicates, lost messages and stale sockets never reorder, repeat or
\* alter what onMessage is given.
THEOREM InOrder == Spec => []DeliveredInOrder
<1>1. IInv => DeliveredInOrder
  BY DEF IInv
<1> QED
  BY <1>1, Invariance, PTL

\* The unacknowledged queue is exactly what the peer has not confirmed, so what
\* endAcceptReconnection and a replay request send again is what is missing.
THEOREM QueueExact == Spec => []NothingForgotten
<1>1. IInv => NothingForgotten
  <2> SUFFICES ASSUME IInv, NEW p \in Endpoint
               PROVE  /\ out[p].ackId <= inc[Peer(p)].msgId
                      /\ Len(out[p].unack) = out[p].msgId - out[p].ackId
                      /\ \A i \in 1..Len(out[p].unack) :
                            /\ out[p].unack[i].id = out[p].ackId + i
                            /\ out[p].unack[i].data = sent[p][out[p].ackId + i]
    BY DEF NothingForgotten
  <2>1. Outgoing(p, out[p])
    BY State
  <2>2. \A i \in 1..Len(out[p].unack) : out[p].unack[i] \in Written(p)
    BY <2>1, ElementOfSeq DEF Outgoing
  <2> QED
    BY <2>1, <2>2 DEF Outgoing, Written
<1> QED
  BY <1>1, Invariance, PTL

-----------------------------------------------------------------------------
(* Each direction implements a reliable channel.                             *)

\* What a step may do to the direction out of q: confirm, send or deliver.
Confirms(q) == /\ sent'[q] = sent[q] /\ delivered'[Peer(q)] = delivered[Peer(q)]
               /\ out[q].ackId <= out'[q].ackId
Sends(q)    == /\ \E d \in Data : sent'[q] = Append(sent[q], d)
               /\ delivered'[Peer(q)] = delivered[Peer(q)] /\ out'[q].ackId = out[q].ackId
Delivers(q) == /\ sent'[q] = sent[q] /\ out'[q].ackId = out[q].ackId
               /\ \E d \in Data : delivered'[Peer(q)] = Append(delivered[Peer(q)], d)
ChannelStep == \A q \in Endpoint : Confirms(q) \/ Sends(q) \/ Delivers(q)

\* The number of the last confirmed message is a number.
LEMMA AckIds ==
    ASSUME IInv
    PROVE  \A q \in Endpoint : out[q].ackId \in Nat /\ out[q] \in Half
BY State DEF Half

\* A step that replaces the outgoing half of p by one that confirms more.
LEMMA AckGrows ==
    ASSUME IInv, NEW p \in Endpoint, NEW o, out[p].ackId <= o.ackId,
           UNCHANGED <<sent, delivered>>,
           out' = [out EXCEPT ![p] = o] \/ out' = [out EXCEPT ![p] = [o EXCEPT !.timer = TRUE]],
           o \in Half
    PROVE  ChannelStep
<1>1. out \in [Endpoint -> Half] /\ [o EXCEPT !.timer = TRUE].ackId = o.ackId
  BY State DEF Outs, Half
<1>2. \A q \in Endpoint : out'[q].ackId = IF q = p THEN o.ackId ELSE out[q].ackId
  BY <1>1
<1> QED
  BY <1>2, AckIds DEF ChannelStep, Confirms

\* A step that leaves the outgoing halves alone is a step of neither direction.
LEMMA AckStays ==
    ASSUME IInv, UNCHANGED <<out, sent, delivered>>
    PROVE  ChannelStep
BY AckIds DEF ChannelStep, Confirms

\* An acknowledgement never takes one back.
LEMMA ConfirmGrows ==
    ASSUME NEW o \in Half, NEW ack \in Nat
    PROVE  o.ackId <= Confirm(o, ack).ackId
<1>1. CASE ack > o.ackId
  <2>1. Confirm(o, ack) = [o EXCEPT !.ackId = ack, !.unack = Unconfirmed(o.unack, ack)]
    BY <1>1 DEF Confirm
  <2>2. [o EXCEPT !.ackId = ack, !.unack = Unconfirmed(o.unack, ack)].ackId = ack
    BY DEF Half
  <2> QED
    BY <1>1, <2>1, <2>2 DEF Half
<1>2. CASE ~(ack > o.ackId)
  BY <1>2 DEF Confirm, Half
<1> QED
  BY <1>1, <1>2

\* The check of outgoing acknowledgements changes at most a timer.
LEMMA CheckedHalf ==
    ASSUME NEW p, NEW o, NEW b, RecvAckCheck(p, o, b) \/ RecvAckCheckAnew(p, o)
    PROVE  out' = [out EXCEPT ![p] = o] \/ out' = [out EXCEPT ![p] = [o EXCEPT !.timer = TRUE]]
BY DEF RecvAckCheck, RecvAckCheckAnew

\* The end of a reconnection may confirm messages.
LEMMA EndChannelStep ==
    ASSUME IInv, NEW p \in Endpoint, NEW o \in Half, NEW w, NEW more, out[p].ackId <= o.ackId,
           EndAcceptReconnection(p, o, w, more), UNCHANGED <<sent, delivered>>
    PROVE  ChannelStep
BY AckGrows, CheckedHalf DEF EndAcceptReconnection

\* Send is a step of the direction out of p.
LEMMA SendChannelStep ==
    ASSUME IInv, NEW p \in Endpoint, NEW d \in Data, Send(p, d)
    PROVE  ChannelStep
<1> DEFINE o == [out[p] EXCEPT !.msgId = out[p].msgId + 1,
                               !.unack = Append(out[p].unack, Regular(out[p].msgId + 1, inc[p].msgId, d))]
<1>1. out \in [Endpoint -> Half] /\ out[p] \in Half /\ out[p].ackId \in Nat
      /\ sent \in [Endpoint -> Seq(Data)]
  BY State, AckIds DEF Outs, RestOK
<1>2. o.ackId = out[p].ackId /\ [o EXCEPT !.timer = TRUE].ackId = out[p].ackId
  BY <1>1 DEF Half
<1>3. out' = [out EXCEPT ![p] = o] \/ out' = [out EXCEPT ![p] = [o EXCEPT !.timer = TRUE]]
  BY CheckedHalf DEF Send
<1> HIDE DEF o
<1>4. \A q \in Endpoint : out'[q].ackId = out[q].ackId
  BY <1>1, <1>2, <1>3
<1>5. /\ delivered' = delivered /\ sent'[p] = Append(sent[p], d)
      /\ \A q \in Endpoint \ {p} : sent'[q] = sent[q]
  BY <1>1 DEF Send
<1> QED
  BY <1>4, <1>5, AckIds DEF ChannelStep, Confirms, Sends

\* ReceiveMessage delivers in one direction and confirms in the other.
LEMMA ReceiveChannelStep ==
    ASSUME IInv, NEW p \in Endpoint, ReceiveMessage(p)
    PROVE  ChannelStep
<1> DEFINE m == Head(wire[p][socket[p]])
           o == Confirm(out[p], m.ack)
<1>1. socket[p] \in Sockets /\ wire[p][socket[p]] # <<>> /\ sent' = sent
  BY State DEF ReceiveMessage, RestOK
<1>2. m \in Written(Peer(p))
  BY <1>1, TailKept
<1>3. o \in Half /\ out[p].ackId <= o.ackId
  BY <1>2, State, ConfirmKept, ConfirmGrows DEF Written, Message
<1>4. \/ ReceiveRegular(p, m, o)
      \/ ReceiveControl(p, m, o) \/ ReceiveAck(p, m, o) \/ ReceiveDisconnect(p, m, o)
      \/ ReceiveReplayRequest(p, m, o) \/ ReceivePause(p, m, o) \/ ReceiveResume(p, m, o)
  BY DEF ReceiveMessage
<1> HIDE DEF m, o
<1>5. CASE ReceiveRegular(p, m, o)
  <2>1. out' = [out EXCEPT ![p] = o]
    BY <1>5 DEF ReceiveRegular
  <2>2. CASE delivered' = delivered
    BY <1>1, <1>3, <2>1, <2>2, AckGrows
  <2>3. CASE delivered' # delivered
    <3>1. /\ delivered' = [delivered EXCEPT ![p] = Append(@, m.data)]
          /\ m.type = "Regular"
      BY <1>5, <2>3 DEF ReceiveRegular
    <3>2. m.data \in Data
      BY <1>2, <3>1, Peers, State, ElementOfSeq DEF Written, RestOK
    <3>3. /\ delivered \in [Endpoint -> Seq(Data)] /\ out \in [Endpoint -> Half]
          /\ Peer(p) \in Endpoint /\ Peer(p) # p /\ Peer(Peer(p)) = p
      BY State, Peers DEF RestOK, Outs
    <3>4. Delivers(Peer(p))
      BY <1>1, <2>1, <3>1, <3>2, <3>3 DEF Delivers
    <3>5. Confirms(p)
      BY <1>1, <1>3, <2>1, <3>1, <3>3 DEF Confirms
    <3>6. \A q \in Endpoint : q = p \/ q = Peer(p)
      BY DEF Endpoint, Peer
    <3> QED
      BY <3>4, <3>5, <3>6 DEF ChannelStep
  <2> QED
    BY <2>2, <2>3
<1>6. CASE ReceiveControl(p, m, o)
  <2>1. \/ EndAcceptReconnection(p, o, writer[p], <<>>)
        \/ out' = [out EXCEPT ![p] = o]
    BY <1>6 DEF ReceiveControl
  <2>2. delivered' = delivered
    BY <1>6 DEF ReceiveControl
  <2> QED
    BY <1>1, <1>3, <2>1, <2>2, AckGrows, EndChannelStep
<1>7. CASE ReceiveReplayRequest(p, m, o)
  <2>1. RecvAckCheck(p, o, FALSE) \/ out' = [out EXCEPT ![p] = o]
    BY <1>7 DEF ReceiveReplayRequest
  <2> QED
    BY <1>1, <1>3, <1>7, <2>1, AckGrows, CheckedHalf DEF ReceiveReplayRequest
<1>8. CASE ReceiveAck(p, m, o)
  BY <1>1, <1>3, <1>8, AckGrows DEF ReceiveAck
<1>9. CASE ReceiveDisconnect(p, m, o)
  BY <1>1, <1>3, <1>9, AckGrows DEF ReceiveDisconnect
<1>10. CASE ReceivePause(p, m, o)
  BY <1>1, <1>3, <1>10, AckGrows DEF ReceivePause
<1>11. CASE ReceiveResume(p, m, o)
  BY <1>1, <1>3, <1>11, AckGrows DEF ReceiveResume
<1> QED
  BY <1>4, <1>5, <1>6, <1>7, <1>8, <1>9, <1>10, <1>11

\* Disarming the timer of the outgoing half.
LEMMA DisarmedHalf ==
    ASSUME IInv, NEW p \in Endpoint
    PROVE  /\ [out[p] EXCEPT !.timer = FALSE] \in Half
           /\ out[p].ackId <= [out[p] EXCEPT !.timer = FALSE].ackId
<1>1. out[p] \in Half
  BY State
<1>2. /\ [out[p] EXCEPT !.timer = FALSE] \in Half
      /\ [out[p] EXCEPT !.timer = FALSE].ackId = out[p].ackId
  BY <1>1 DEF Half
<1>3. out[p].ackId <= out[p].ackId
  BY <1>1 DEF Half
<1> QED
  BY <1>2, <1>3

\* OutgoingAckTimer confirms nothing.
LEMMA OutgoingAckTimerChannelStep ==
    ASSUME IInv, NEW p \in Endpoint, OutgoingAckTimer(p)
    PROVE  ChannelStep
<1> DEFINE o == [out[p] EXCEPT !.timer = FALSE]
<1>1. o \in Half /\ out[p].ackId <= o.ackId
  BY DisarmedHalf
<1>2. UNCHANGED <<sent, delivered>>
  BY DEF OutgoingAckTimer
<1>3. out' = [out EXCEPT ![p] = o] \/ RecvAckCheck(p, o, TRUE)
  BY DEF OutgoingAckTimer
<1> HIDE DEF o
<1> QED
  BY <1>1, <1>2, <1>3, AckGrows, CheckedHalf

\* Dispose confirms nothing.
LEMMA DisposeChannelStep ==
    ASSUME IInv, NEW p \in Endpoint, Dispose(p)
    PROVE  ChannelStep
<1> DEFINE o == [out[p] EXCEPT !.timer = FALSE]
<1>1. o \in Half /\ out[p].ackId <= o.ackId
  BY DisarmedHalf
<1>2. UNCHANGED <<sent, delivered>> /\ out' = [out EXCEPT ![p] = o]
  BY DEF Dispose
<1> HIDE DEF o
<1> QED
  BY <1>1, <1>2, AckGrows

\* The server's half of the handshake confirms what the client has received.
LEMMA HandshakeChannelStep ==
    ASSUME IInv, UNCHANGED <<sent, delivered>>, NEW a \in Nat, NEW more,
           EndAcceptReconnection("server", Confirm(out["server"], a), NewWriter, more),
           a <= inc["client"].msgId
    PROVE  ChannelStep
<1>1. "server" \in Endpoint /\ Peer("server") = "client"
  BY DEF Endpoint, Peer
<1>2. Confirm(out["server"], a) \in Half
  BY <1>1, State, ConfirmKept
<1>3. out["server"].ackId <= Confirm(out["server"], a).ackId
  BY <1>1, State, ConfirmGrows
<1> QED
  BY <1>1, <1>2, <1>3, EndChannelStep

\* AcceptReconnection may confirm messages of the server.
LEMMA AcceptReconnectionChannelStep ==
    ASSUME IInv, NEW n \in Sockets, AcceptReconnection(n)
    PROVE  ChannelStep
<1> DEFINE rest == Tail(wire["server"][n])
<1>1. PICK k \in 0..Len(rest) : \E a \in ChunkAcks(rest, k) :
         EndAcceptReconnection("server", Confirm(out["server"], a), NewWriter, <<>>)
  BY DEF AcceptReconnection
<1>2. PICK a \in ChunkAcks(rest, k) :
         EndAcceptReconnection("server", Confirm(out["server"], a), NewWriter, <<>>)
  BY <1>1
<1>3. wire["server"][n] # <<>> /\ UNCHANGED <<sent, delivered>>
  BY DEF AcceptReconnection, MayAccept
<1>4. rest \in Seq(Written("client"))
  BY <1>3, RestKept
<1> HIDE DEF rest
<1>5. a \in Nat /\ a <= inc["client"].msgId
  BY <1>4, ChunkAckKept
<1> QED
  BY <1>2, <1>3, <1>5, HandshakeChannelStep

\* AttachInExtHost may confirm messages of the server.
LEMMA AttachInExtHostChannelStep ==
    ASSUME IInv, NEW h \in handoff, AttachInExtHost(h)
    PROVE  ChannelStep
<1>1. h.ack \in Nat /\ h.ack <= inc["client"].msgId
  BY State DEF Handoffs
<1>2. UNCHANGED <<sent, delivered>>
  BY DEF AttachInExtHost
<1> QED
  BY <1>1, <1>2, HandshakeChannelStep DEF AttachInExtHost

\* ConnectionTypeRequest confirms nothing.
LEMMA ConnectionTypeRequestChannelStep ==
    ASSUME IInv, ConnectionTypeRequest
    PROVE  ChannelStep
<1>1. "client" \in Endpoint /\ UNCHANGED <<sent, delivered>>
  BY DEF Endpoint, ConnectionTypeRequest
<1>2. out["client"] \in Half /\ out["client"].ackId \in Nat
  BY <1>1, AckIds
<1>3. CASE control = 0
  BY <1>1, <1>3, AckStays DEF ConnectionTypeRequest
<1>4. CASE control # 0
  BY <1>1, <1>2, <1>4, EndChannelStep DEF ConnectionTypeRequest
<1> QED
  BY <1>3, <1>4

\* Every step confirms, sends or delivers, or leaves both directions alone.
LEMMA NextChannelStep ==
    ASSUME IInv, [Next]_vars
    PROVE  ChannelStep
<1>1. ASSUME NEW p \in Endpoint, NEW d \in Data, Send(p, d) PROVE ChannelStep
  BY <1>1, SendChannelStep
<1>2. ASSUME NEW p \in Endpoint, ReceiveMessage(p) \/ OutgoingAckTimer(p) \/ Dispose(p)
      PROVE  ChannelStep
  BY <1>2, ReceiveChannelStep, OutgoingAckTimerChannelStep, DisposeChannelStep
<1>3. ASSUME NEW p \in Endpoint,
             \/ WriteNow(p) \/ IncomingAckTimer(p) \/ ReplayWindowElapses(p)
             \/ SendKeepAlive(p) \/ SocketDrops(p)
      PROVE  ChannelStep
  BY <1>3, AckStays DEF WriteNow, IncomingAckTimer, ReplayWindowElapses, SendKeepAlive,
     SocketDrops, endVars
<1>4. ASSUME Reconnect \/ AttemptFails PROVE ChannelStep
  BY <1>4, AckStays DEF Reconnect, AttemptFails, endVars
<1>5. ASSUME ConnectionTypeRequest PROVE ChannelStep
  BY <1>5, ConnectionTypeRequestChannelStep
<1>6. ASSUME NEW n \in Sockets, HandshakeIgnores(n) \/ HandOff(n) \/ SocketBreaks(n)
      PROVE  ChannelStep
  BY <1>6, AckStays DEF HandshakeIgnores, HandOff, SocketBreaks, endVars
<1>7. ASSUME NEW n \in Sockets, AcceptReconnection(n) PROVE ChannelStep
  BY <1>7, AcceptReconnectionChannelStep
<1>8. ASSUME NEW h \in handoff, LoseInHandOff(h) PROVE ChannelStep
  BY <1>8, AckStays DEF LoseInHandOff, endVars
<1>9. ASSUME NEW h \in handoff, AttachInExtHost(h) PROVE ChannelStep
  BY <1>9, AttachInExtHostChannelStep
<1>10. ASSUME UNCHANGED vars PROVE ChannelStep
  BY <1>10, AckStays DEF vars, endVars
<1> QED
  BY <1>1, <1>2, <1>3, <1>4, <1>5, <1>6, <1>7, <1>8, <1>9, <1>10 DEF Next

\* A step of the direction out of q, in the terms of the reliable channel.
LEMMA Direction ==
    ASSUME IInv, IInv', [Next]_vars, NEW q \in Endpoint
    PROVE  \/ /\ sent'[q] = sent[q] /\ delivered'[Peer(q)] = delivered[Peer(q)]
              /\ \/ out'[q].ackId = out[q].ackId
                 \/ out'[q].ackId \in out[q].ackId + 1 .. Len(delivered[Peer(q)])
           \/ Sends(q)
           \/ /\ sent'[q] = sent[q] /\ out'[q].ackId = out[q].ackId
              /\ Len(delivered[Peer(q)]) < Len(sent[q])
              /\ delivered'[Peer(q)]
                     = Append(delivered[Peer(q)], sent[q][Len(delivered[Peer(q)]) + 1])
<1> DEFINE r == Peer(q)
           n == Len(delivered[r])
<1>1. r \in Endpoint /\ Peer(r) = q
  BY Peers
<1>2. /\ out'[q].ackId \in Nat /\ out[q].ackId \in Nat
      /\ out'[q].ackId <= inc'[r].msgId /\ inc'[r].msgId = Len(delivered'[r])
  BY <1>1, AckIds DEF IInv, TypeOK, Outgoing
<1>3. Confirms(q) \/ Sends(q) \/ Delivers(q)
  BY NextChannelStep DEF ChannelStep
<1>4. CASE Confirms(q)
  BY <1>1, <1>2, <1>4 DEF Confirms
<1>5. CASE Delivers(q)
  <2>1. PICK d \in Data : delivered'[r] = Append(delivered[r], d)
    BY <1>5 DEF Delivers
  <2>2. delivered[r] \in Seq(Data) /\ n \in Nat
    BY <1>1, State DEF RestOK
  <2>3. Len(delivered'[r]) = n + 1 /\ delivered'[r][n + 1] = d
    BY <2>1, <2>2, AppendProperties
  <2>4. /\ Len(delivered'[r]) <= Len(sent'[q])
        /\ \A i \in 1..Len(delivered'[r]) : delivered'[r][i] = sent'[q][i]
    BY <1>1 DEF IInv, DeliveredInOrder
  <2>5. sent'[q] = sent[q] /\ out'[q].ackId = out[q].ackId /\ Len(sent[q]) \in Nat
    BY <1>5, State DEF Delivers, RestOK
  <2>6. n < Len(sent[q]) /\ d = sent[q][n + 1]
    BY <2>2, <2>3, <2>4, <2>5
  <2> QED
    BY <2>1, <2>5, <2>6
<1> QED
  BY <1>3, <1>4, <1>5

\* What the client sends reaches the server as through a reliable channel, and
\* is confirmed to the client only once the server has been given it.
THEOREM ImplementsToServer == Spec => ToServer
<1>1. Init => ClientToServer!Init
  BY DEF Init, ClientToServer!Init, Endpoint
<1>2. IInv /\ IInv' /\ [Next]_vars => [ClientToServer!Next]_(ClientToServer!vars)
  <2> SUFFICES ASSUME IInv, IInv', [Next]_vars
               PROVE  [ClientToServer!Next]_(ClientToServer!vars)
    OBVIOUS
  <2>1. "client" \in Endpoint /\ Peer("client") = "server"
    BY DEF Endpoint, Peer
  <2> QED
    BY <2>1, Direction
    DEF Sends, ClientToServer!Next, ClientToServer!vars, ClientToServer!Send,
        ClientToServer!Deliver, ClientToServer!Confirm
<1> QED
  BY <1>1, <1>2, Invariance, PTL DEF Spec, ToServer, ClientToServer!Spec

\* The same for what the server sends.
THEOREM ImplementsToClient == Spec => ToClient
<1>1. Init => ServerToClient!Init
  BY DEF Init, ServerToClient!Init, Endpoint
<1>2. IInv /\ IInv' /\ [Next]_vars => [ServerToClient!Next]_(ServerToClient!vars)
  <2> SUFFICES ASSUME IInv, IInv', [Next]_vars
               PROVE  [ServerToClient!Next]_(ServerToClient!vars)
    OBVIOUS
  <2>1. "server" \in Endpoint /\ Peer("server") = "client"
    BY DEF Endpoint, Peer
  <2> QED
    BY <2>1, Direction
    DEF Sends, ServerToClient!Next, ServerToClient!vars, ServerToClient!Send,
        ServerToClient!Deliver, ServerToClient!Confirm
<1> QED
  BY <1>1, <1>2, Invariance, PTL DEF Spec, ToClient, ServerToClient!Spec

\* Both directions together, whatever happens to the sockets between them.
THEOREM Implements == Spec => ReliableBothWays
  BY ImplementsToServer, ImplementsToClient DEF ReliableBothWays

=============================================================================
