---------------------------- MODULE ReliableChannel ----------------------------
(***************************************************************************)
(* What one direction of a persistent connection promises: the messages    *)
(* sent are delivered in order, each once, and a message is confirmed to   *)
(* the sender only after its delivery.                                     *)
(***************************************************************************)
EXTENDS Integers, Sequences

CONSTANT Messages
VARIABLES sent, delivered, confirmed

vars == <<sent, delivered, confirmed>>

Init == sent = <<>> /\ delivered = <<>> /\ confirmed = 0

Send(m) == /\ sent' = Append(sent, m)
           /\ UNCHANGED <<delivered, confirmed>>

Deliver == /\ Len(delivered) < Len(sent)
           /\ delivered' = Append(delivered, sent[Len(delivered) + 1])
           /\ UNCHANGED <<sent, confirmed>>

Confirm(k) == /\ k \in confirmed + 1 .. Len(delivered)
              /\ confirmed' = k
              /\ UNCHANGED <<sent, delivered>>

Next == \/ \E m \in Messages : Send(m)
        \/ Deliver
        \/ \E k \in confirmed + 1 .. Len(delivered) : Confirm(k)

Spec == Init /\ [][Next]_vars
=============================================================================
