--------------------------- MODULE RemoteConnections ---------------------------
(***************************************************************************)
(* The connections of a window and the server that registers them, over    *)
(* sockets that may break at any time: what the reconnection loop of the   *)
(* one and the grace timers of the other promise together.                 *)
(***************************************************************************)
EXTENDS ReconnectionLoop, ConnectionRegistry

vars == <<link, clientVars, serverVars>>

Init == LinkInit /\ ClientInit /\ ServerInit

Network ==
    /\ \E s \in Sockets : Break(s)
    /\ UNCHANGED <<clientVars, serverVars>>

Next ==
    \/ ClientNext /\ UNCHANGED serverVars
    \/ ServerNext /\ UNCHANGED clientVars
    \/ Network

Spec == Init /\ [][Next]_vars

-----------------------------------------------------------------------------
(* Fairness.  Timers elapse, promises settle and what a live peer wrote is  *)
(* read; the network need not be kind, and no owner need close anything.    *)

\* The server, or the extension host process, is at the other end of c's socket.
Served(c) ==
    /\ entry[c].live /\ ~entry[c].closed
    /\ client[c].socket # NoSocket /\ entry[c].socket = client[c].socket

Client(A) == A /\ UNCHANGED serverVars
Server(A) == A /\ UNCHANGED clientVars

Fairness ==
    /\ \A c \in Conns :
         /\ WF_vars(Client(\/ Resolve(c) \/ (\E s \in Sockets : SocketOpens(c, s))
                           \/ ReadSign(c) \/ ReadAnswer(c) \/ ReadRefusal(c)
                           \/ AttemptFails(c) \/ Wake(c)))
         /\ WF_vars(Client(GraceElapses(c)))
         /\ WF_vars(Client(HearClose(c)))
         /\ WF_vars(Client(~Served(c) /\ SocketTimesOut(c)))
         /\ WF_vars(Server(Fork(c) \/ AsksForSocket(c) \/ ReadyArrives(c)))
         /\ WF_vars(Server(\E s \in Sockets : Attach(c, s)))
         /\ WF_vars(Server(StartTimesOut(c)))
         /\ WF_vars(Server(ExitHeard(c)))
         /\ WF_vars(Server(HearClosed(c)))
         /\ WF_vars(Server(GraceExpires(c)))
    /\ \A s \in Sockets : WF_vars(Server(ReceiveAuth(s) \/ ReceiveRequest(s) \/ Decide(s)))

FairSpec == Spec /\ Fairness

-----------------------------------------------------------------------------
(* Properties.                                                             *)

\* The sockets, the connections of the window and the registries have their types.
TypeOK == LinkTypeOK /\ ClientTypeOK /\ ServerTypeOK

(* A management connection whose client was last told that it has gained the  *)
(* connection, on a socket that works, is registered with that very socket and *)
(* is not being timed out.  (acceptReconnection cancels both timers; whichever *)
(* socket the server takes it disposes the other, even when it takes an older  *)
(* one last.  A connection that has failed may end an attempt that was under   *)
(* way without an answer, and then keeps a socket nobody has registered: its   *)
(* last event was the failure.)                                                *)
Latest(events) == events[Len(events)]

InUse(c) ==
    /\ client[c].events # <<>> /\ Latest(client[c].events) = "gain"
    /\ client[c].pc # "left" /\ ~client[c].disposed
    /\ client[c].socket # NoSocket /\ link[client[c].socket].alive

SameSocket ==
    \A c \in Conns \ HandedOver : InUse(c) => /\ Served(c)
                                              /\ ~entry[c].long /\ ~entry[c].short

(* A grace timer runs only for a connection whose current socket is known to  *)
(* have closed, and for each of those the long one does: nobody in use is     *)
(* timed out, nobody abandoned is forgotten.                                  *)
TimedIffAbandoned ==
    \A c \in Conns : /\ entry[c].short => entry[c].long
                     /\ entry[c].long <=> entry[c].closed
                     /\ entry[c].closed => entry[c].live /\ ~link[entry[c].socket].alive

(* The inductive invariant behind it: an opened socket belongs to a           *)
(* connection; what is registered for one are sockets that have been opened;  *)
(* an extension host connection that waits for its process keeps the socket   *)
(* it will hand over; and only a live entry has anything at all.              *)
Opened(s) == link[s].stage # "unopened"

Registered(c) ==
    LET e == entry[c]
    IN  /\ e.socket # NoSocket => e.live /\ Opened(e.socket)
        /\ e.data # NoSocket => Opened(e.data)
        /\ \A s \in e.transit : e.live /\ Opened(s)
        /\ e.proc # "none" => e.live /\ c \in HandedOver
        /\ (c \in HandedOver /\ e.live /\ e.proc \in {"none", "starting", "asking"})
                => e.data # NoSocket
        /\ e.short => e.long
        /\ e.long <=> e.closed
        /\ e.closed => e.socket # NoSocket /\ ~link[e.socket].alive

IInv == /\ TypeOK
        /\ \A s \in Sockets : /\ Opened(s) => link[s].conn \in Conns
                              /\ link[s].stage = "checking" => link[s].conn \in HandedOver
        /\ \A c \in Conns : Registered(c)

(* A permanent failure reaches every connection of the window, those whose     *)
(* initial connection completes only afterwards included.                      *)
FailureReachesAll ==
    permanentFailure => \A c \in Instances : client[c].failed

(* The events of the management connection, which the user interface observes  *)
(* (workbench/contrib/remote/browser/remote.ts), follow one another as it has  *)
(* to expect: a retry waits again, a permanent failure may come from another   *)
(* connection at any moment, only an attempt that was under way then may still *)
(* end in a gain, and nothing is lost or tried anew after a failure.           *)
EventOrder ==
    {<<"gain", "lost">>, <<"lost", "running">>, <<"running", "wait">>, <<"wait", "running">>,
     <<"running", "gain">>, <<"failure", "gain">>}
        \cup {<<e, "failure">> : e \in Events}

\* A batch of events follows on the one before it.
FollowsOn(old, batch, order) ==
    batch # old =>
        LET run == IF old = <<>> THEN batch ELSE <<Latest(old)>> \o batch
        IN  \A i \in 1..(Len(run) - 1) : <<run[i], run[i + 1]>> \in order

Follows(c, order) == FollowsOn(client[c].events, client'[c].events, order)

EventsFollow == [][\A c \in Fatal : Follows(c, EventOrder)]_vars

(* A reconnection loop ends, and a connection that is not served does not stay *)
(* so unnoticed: it is served again, or its user learns that it failed.        *)
LoopEnds == \A c \in Conns : Looping(c) ~> ~Looping(c)

ServedOrFailed ==
    \A c \in Conns : c \in Instances ~> (Served(c) \/ client[c].failed \/ c \notin Instances)

(* The server does not keep what belongs to a window that is gone. *)
AbandonedIsDisposed ==
    \A c \in Conns : (client[c].pc = "left") ~> [](~entry[c].live)
================================================================================
