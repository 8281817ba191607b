------------------------------- MODULE RemoteCalls -------------------------------
(***************************************************************************)
(* What IChannel.call of base/parts/ipc/common/ipc.ts promises: "at most    *)
(* one single return value", of a command that is run at most once, and    *)
(* has been run when the call has a result of it.                          *)
(***************************************************************************)
CONSTANT Calls

VARIABLES
    outcome,    \* what the caller has of a call
    runs        \* how often its command was run

Init ==
    /\ outcome = [c \in Calls |-> "none"]
    /\ runs = [c \in Calls |-> 0]

\* What a step may do to a call.
Keeps(c) == outcome'[c] = outcome[c] /\ runs'[c] = runs[c]

\* A client that is disposed refuses it.
Starts(c) ==
    /\ outcome[c] = "none" /\ outcome'[c] \in {"pending", "cancelled"}
    /\ runs'[c] = runs[c]

\* It may run although it was given up meanwhile.
Runs(c) ==
    /\ outcome[c] # "none" /\ runs[c] = 0
    /\ runs'[c] = 1 /\ outcome'[c] = outcome[c]

\* A result and an error are the command's own.
Settles(c) ==
    /\ outcome[c] = "pending" /\ outcome'[c] \in {"result", "error", "unknown", "cancelled"}
    /\ outcome'[c] \in {"result", "error"} => runs[c] = 1
    /\ runs'[c] = runs[c]

Next == \A c \in Calls : Keeps(c) \/ Starts(c) \/ Runs(c) \/ Settles(c)

Spec == Init /\ [][Next]_<<outcome, runs>>
==================================================================================
