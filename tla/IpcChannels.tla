------------------------------- MODULE IpcChannels -------------------------------
(***************************************************************************)
(* The ChannelClient and the ChannelServer at the two ends of a connection *)
(* (base/parts/ipc/common/ipc.ts): calls with their cancellation, and      *)
(* events that are listened to, on a channel that is registered late or    *)
(* never.  The protocol below delivers in order; both ends are disposed    *)
(* when it is gone.                                                        *)
(***************************************************************************)
EXTENDS Integers, Sequences, FiniteSets, SequencesExt

CONSTANTS
    MaxCalls,           \* bound: calls
    Events,             \* events of the channel, each used by one Event object
    MaxFires,           \* bound: events fired
    MaxRegistrations,   \* bound: registerChannel
    MaxInputs           \* bound: all that is asked of the two ends

ASSUME IpcAssumption ==
    /\ MaxCalls \in Nat /\ MaxFires \in Nat /\ MaxRegistrations \in Nat /\ MaxInputs \in Nat
    /\ Events \cap Nat = {} /\ IsFiniteSet(Events)

\* Calls have the numbers of their requests, in the order they are made.  An
\* Event keeps the number it has, whoever listens.
Calls == 1..MaxCalls

VARIABLES
    client,     \* initialized, disposed
    outcome,    \* what the caller has of a call
    unsent,     \* requests that wait for the Initialize response
    handlers,   \* whose responses are handled
    listening,  \* events that have a listener
    heard,      \* the last that a listener was told, by event
    server,     \* registered, flushes: the timers of registerChannel, disposed
    pending,    \* requests for the unknown channel, and whether their timer runs
    token,      \* of the calls that run: "running", or "cancelled"
    active,     \* activeRequests
    subscribed, \* how many listeners the server has on an event
    toServer, toClient,
    fired,      \* how many events were fired
    runs,       \* how often a call was run
    history     \* crossed: requests that were given up while they were pending;
                \* lost: calls whose result could not be sent; inputs

clientVars == <<client, outcome, unsent, handlers, listening, heard>>
serverVars == <<server, pending, token, active, subscribed, fired, runs>>
vars == <<clientVars, serverVars, toServer, toClient, history>>

Message(type, id) == [type |-> type, id |-> id]
Request(id) == Message(IF id \in Calls THEN "call" ELSE "listen", id)
Without(s, id) ==
    IF Contains(s, id) THEN RemoveAt(s, CHOOSE i \in DOMAIN s : s[i] = id) ELSE s

\* The server says Initialize first.
Init ==
    /\ client = [initialized |-> FALSE, disposed |-> FALSE]
    /\ outcome = [c \in Calls |-> "none"]
    /\ unsent = <<>> /\ handlers = {} /\ listening = {} /\ heard = [e \in Events |-> 0]
    /\ server = [registered |-> FALSE, flushes |-> 0, registrations |-> 0, disposed |-> FALSE]
    /\ pending = <<>> /\ token = [c \in Calls |-> "none"] /\ active = {}
    /\ subscribed = [e \in Events |-> 0] /\ fired = 0 /\ runs = [c \in Calls |-> 0]
    /\ toServer = <<>> /\ toClient = <<Message("initialize", 0)>>
    /\ history = [crossed |-> {}, lost |-> {}, inputs |-> 0]

-----------------------------------------------------------------------------
(* The client.                                                             *)

Input ==
    /\ history.inputs < MaxInputs
    /\ history' = [history EXCEPT !.inputs = @ + 1]

Send(messages) == toServer' = toServer \o messages

\* The request goes out at once, or when the server is known to listen.
Ask(id) ==
    IF client.initialized
    THEN Send(<<Request(id)>>) /\ UNCHANGED unsent
    ELSE unsent' = Append(unsent, id) /\ UNCHANGED toServer

\* requestPromise
Call(c) ==
    /\ Input
    /\ outcome[c] = "none" /\ \A d \in 1..(c - 1) : outcome[d] # "none"
    /\ IF client.disposed
       THEN /\ outcome' = [outcome EXCEPT ![c] = "cancelled"]
            /\ UNCHANGED <<unsent, handlers, toServer>>
       ELSE /\ outcome' = [outcome EXCEPT ![c] = "pending"]
            /\ handlers' = IF client.initialized THEN handlers \cup {c} ELSE handlers
            /\ Ask(c)
    /\ UNCHANGED <<client, listening, heard, serverVars, toClient>>

\* Mutant of Cancel: the server is not told.
CancelUntold(c) ==
    /\ Input
    /\ outcome[c] = "pending"
    /\ outcome' = [outcome EXCEPT ![c] = "cancelled"]
    /\ unsent' = Without(unsent, c)
    /\ UNCHANGED <<client, handlers, listening, heard, serverVars, toServer, toClient>>

\* Its token is cancelled: the caller is told, and the server if it was asked.
Cancel(c) ==
    /\ Input
    /\ outcome[c] = "pending"
    /\ outcome' = [outcome EXCEPT ![c] = "cancelled"]
    /\ unsent' = Without(unsent, c)
    /\ Send(IF Contains(unsent, c) THEN <<>> ELSE <<Message("cancel", c)>>)
    /\ UNCHANGED <<client, handlers, listening, heard, serverVars, toClient>>

\* onWillAddFirstListener
Listen(e) ==
    /\ e \notin listening /\ ~client.disposed
    /\ Input
    /\ listening' = listening \cup {e} /\ handlers' = handlers \cup {e}
    /\ heard' = [heard EXCEPT ![e] = 0]
    /\ Ask(e)
    /\ UNCHANGED <<client, outcome, serverVars, toClient>>

\* onDidRemoveLastListener
Unlisten(e) ==
    /\ Input
    /\ e \in listening
    /\ listening' = listening \ {e} /\ handlers' = handlers \ {e}
    /\ unsent' = Without(unsent, e)
    /\ Send(IF Contains(unsent, e) THEN <<>> ELSE <<Message("unlisten", e)>>)
    /\ UNCHANGED <<client, outcome, heard, serverVars, toClient>>

\* onResponse, of Initialize: what waits for it is sent.
ClientInitialized ==
    /\ client' = [client EXCEPT !.initialized = TRUE]
    /\ Send([i \in DOMAIN unsent |-> Request(unsent[i])])
    /\ handlers' = handlers \cup Range(unsent)
    /\ unsent' = <<>>
    /\ UNCHANGED <<outcome, listening, heard>>

\* Mutant of ClientAnswered: that a call was cancelled is seen first.
ClientAnsweredPending(response) ==
    /\ IF response.id \in handlers /\ outcome[response.id] = "pending"
       THEN /\ handlers' = handlers \ {response.id}
            /\ outcome' = [outcome EXCEPT ![response.id] = response.type]
       ELSE UNCHANGED <<handlers, outcome>>
    /\ UNCHANGED <<client, unsent, listening, heard, toServer>>

\* onResponse: a call that was cancelled is settled already.
ClientAnswered(response) ==
    /\ IF response.id \in handlers
       THEN /\ handlers' = handlers \ {response.id}
            /\ outcome' = [outcome EXCEPT ![response.id] = IF @ = "pending" THEN response.type ELSE @]
       ELSE UNCHANGED <<handlers, outcome>>
    /\ UNCHANGED <<client, unsent, listening, heard, toServer>>

ClientHears(response) ==
    /\ heard' = IF response.id \in handlers THEN [heard EXCEPT ![response.id] = response.number]
                ELSE heard
    /\ UNCHANGED <<client, outcome, unsent, handlers, listening, toServer>>

ClientReceives ==
    /\ ~client.disposed /\ toClient # <<>>
    /\ toClient' = Tail(toClient)
    /\ LET response == Head(toClient)
       IN  CASE response.type = "initialize" -> ClientInitialized
             [] response.type = "fire" -> ClientHears(response)
             [] OTHER -> ClientAnswered(response)
    /\ UNCHANGED <<serverVars, history>>

ForEach(ids, type) ==
    LET order == SetToSeq(ids)
    IN  [i \in 1..Cardinality(ids) |-> Message(type, order[i])]

\* dispose: every call that is not settled is cancelled, every event that was
\* asked for is left; one that still waits for Initialize is not, and waits for
\* ever, in an order that no longer matters.
ClientDisposes ==
    /\ ~client.disposed
    /\ client' = [client EXCEPT !.disposed = TRUE]
    /\ LET calls == {c \in Calls : outcome[c] = "pending"}
           left == {e \in listening : ~Contains(unsent, e)}
       IN  /\ outcome' = [c \in Calls |-> IF c \in calls THEN "cancelled" ELSE outcome[c]]
           /\ unsent' = SetToSeq(Range(unsent) \ calls)
           /\ listening' = listening \ left /\ handlers' = handlers \ left
           /\ Send(ForEach(calls \ Range(unsent), "cancel") \o ForEach(left, "unlisten"))
    /\ UNCHANGED <<heard, serverVars, toClient, history>>

-----------------------------------------------------------------------------
(* The server.                                                             *)

Respond(messages) == toClient' = toClient \o messages

\* onPromise and onEventListen of several requests, in their order.
Start(requests) ==
    LET calls == {r.id : r \in {r \in Range(requests) : r.type = "call"}}
        times(e) == Cardinality({i \in DOMAIN requests : requests[i].id = e})
    IN  /\ token' = [c \in Calls |-> IF c \in calls THEN "running" ELSE token[c]]
        /\ runs' = [c \in Calls |-> IF c \in calls THEN runs[c] + 1 ELSE runs[c]]
        /\ subscribed' = [e \in Events |-> subscribed[e] + times(e)]
        /\ active' = active \cup {r.id : r \in Range(requests)}

\* Mutant of DisposeActive: what listens goes on.
DisposeActiveOnly(ids) ==
    /\ token' = [c \in Calls |-> IF c \in ids \cap active THEN "cancelled" ELSE token[c]]
    /\ active' = active \ ids
    /\ UNCHANGED subscribed

\* Mutant of DisposeActive: it stays.
DisposeActiveKept(ids) ==
    /\ token' = [c \in Calls |-> IF c \in ids \cap active THEN "cancelled" ELSE token[c]]
    /\ subscribed' = [e \in Events |-> IF e \in ids \cap active THEN subscribed[e] - 1
                                       ELSE subscribed[e]]
    /\ UNCHANGED active

\* disposeActiveRequest: the token of a call is cancelled, an event is left.
DisposeActive(ids) ==
    /\ token' = [c \in Calls |-> IF c \in ids \cap active THEN "cancelled" ELSE token[c]]
    /\ subscribed' = [e \in Events |-> IF e \in ids \cap active THEN subscribed[e] - 1
                                       ELSE subscribed[e]]
    /\ active' = active \ ids

Pends(id) == \E i \in DOMAIN pending : pending[i].id = id

\* onRawMessage
ServerReceives ==
    /\ ~server.disposed /\ toServer # <<>>
    /\ toServer' = Tail(toServer)
    /\ LET request == Head(toServer)
       IN  \/ /\ request.type \in {"call", "listen"} /\ server.registered
              /\ Start(<<request>>)
              /\ UNCHANGED <<pending, history>>
           \/ /\ request.type \in {"call", "listen"} /\ ~server.registered
              /\ pending' = Append(pending, [type |-> request.type, id |-> request.id, timer |-> TRUE])
              /\ UNCHANGED <<token, runs, subscribed, active, history>>
           \/ /\ request.type \in {"cancel", "unlisten"}
              /\ DisposeActive({request.id})
              /\ history' = [history EXCEPT !.crossed =
                                 IF Pends(request.id) THEN @ \cup {request.id} ELSE @]
              /\ UNCHANGED <<pending, runs>>
    /\ UNCHANGED <<server, fired, clientVars, toClient>>

\* registerChannel
Register ==
    /\ Input
    /\ ~server.disposed /\ server.registrations < MaxRegistrations
    /\ server' = [server EXCEPT !.registered = TRUE, !.flushes = @ + 1, !.registrations = @ + 1]
    /\ UNCHANGED <<pending, token, active, subscribed, fired, runs, clientVars, toServer, toClient>>

\* Mutant of FlushPendingRequests: they stay.
FlushPendingRequestsKept ==
    /\ server.flushes > 0
    /\ server' = [server EXCEPT !.flushes = @ - 1]
    /\ Start(pending)
    /\ UNCHANGED <<pending, fired, clientVars, toServer, toClient, history>>

\* The timer of registerChannel, which is not stopped by dispose.
FlushPendingRequests ==
    /\ server.flushes > 0
    /\ server' = [server EXCEPT !.flushes = @ - 1]
    /\ Start(pending)
    /\ pending' = <<>>
    /\ UNCHANGED <<fired, clientVars, toServer, toClient, history>>

\* Mutant of Timeout: nobody is told.
TimeoutUntold(i) ==
    /\ i \in DOMAIN pending /\ pending[i].timer
    /\ pending' = [pending EXCEPT ![i].timer = FALSE]
    /\ UNCHANGED <<server, token, active, subscribed, fired, runs, clientVars, toServer, toClient,
                   history>>

\* The timer of a pending request: a call is answered, and stays pending.
Timeout(i) ==
    /\ i \in DOMAIN pending /\ pending[i].timer
    /\ pending' = [pending EXCEPT ![i].timer = FALSE]
    /\ Respond(IF pending[i].type = "call" THEN <<Message("unknown", pending[i].id)>> ELSE <<>>)
    /\ UNCHANGED <<server, token, active, subscribed, fired, runs, clientVars, toServer, history>>

\* The promise of a call settles; its value may be one that cannot be sent.
Answer(c) ==
    /\ token[c] # "none"
    /\ token' = [token EXCEPT ![c] = "none"] /\ active' = active \ {c}
    /\ \/ /\ \E type \in {"result", "error"} : Respond(<<Message(type, c)>>)
          /\ UNCHANGED history
       \/ /\ history' = [history EXCEPT !.lost = @ \cup {c}]
          /\ UNCHANGED toClient
    /\ UNCHANGED <<server, pending, subscribed, fired, runs, clientVars, toServer>>

\* An event of the channel goes to everyone who listens.
Fire(e) ==
    /\ Input
    /\ fired < MaxFires /\ subscribed[e] > 0
    /\ fired' = fired + 1
    /\ Respond([i \in 1..subscribed[e] |-> [type |-> "fire", id |-> e, number |-> fired']])
    /\ UNCHANGED <<server, pending, token, active, subscribed, runs, clientVars, toServer>>

\* dispose: timers go on.
ServerDisposes ==
    /\ ~server.disposed
    /\ server' = [server EXCEPT !.disposed = TRUE]
    /\ DisposeActive(active)
    /\ UNCHANGED <<pending, fired, runs, clientVars, toServer, toClient, history>>

-----------------------------------------------------------------------------

\* What goes on by itself.  A connection that is lost is lost to both.
Runs ==
    \/ ClientReceives \/ ServerReceives \/ FlushPendingRequests
    \/ \E i \in DOMAIN pending : Timeout(i)
    \/ \E c \in Calls : Answer(c)
    \/ server.disposed /\ ClientDisposes

Next ==
    \/ Runs
    \/ \E c \in Calls : Call(c) \/ Cancel(c)
    \/ \E e \in Events : Listen(e) \/ Unlisten(e) \/ Fire(e)
    \/ Register \/ ClientDisposes \/ ServerDisposes

Spec == Init /\ [][Next]_vars

\* Messages are delivered, timers elapse and commands come to an end.
FairSpec == Spec /\ WF_vars(Runs)

-----------------------------------------------------------------------------
(* Properties.                                                             *)

Requests == Calls \cup Events

Outcomes == {"none", "pending", "cancelled", "result", "error", "unknown"}
ToServer == [type : {"call", "cancel"}, id : Calls] \cup [type : {"listen", "unlisten"}, id : Events]
Pending == [type : {"call"}, id : Calls, timer : BOOLEAN]
               \cup [type : {"listen"}, id : Events, timer : BOOLEAN]
ToClient == {Message("initialize", 0)} \cup [type : {"result", "error", "unknown"}, id : Calls]
                \cup [type : {"fire"}, id : Events, number : 1..MaxFires]

ClientTypeOK ==
    /\ client \in [initialized : BOOLEAN, disposed : BOOLEAN]
    /\ outcome \in [Calls -> Outcomes]
    /\ unsent \in Seq(Requests) /\ (client.initialized => unsent = <<>>)
    /\ handlers \subseteq Requests /\ listening \subseteq Events
    /\ heard \in [Events -> 0..MaxFires]

ServerTypeOK ==
    /\ server \in [registered : BOOLEAN, flushes : Nat, registrations : Nat, disposed : BOOLEAN]
    /\ pending \in Seq(Pending)
    /\ token \in [Calls -> {"none", "running", "cancelled"}] /\ runs \in [Calls -> Nat]
    /\ active \subseteq Requests /\ subscribed \in [Events -> Nat] /\ fired \in 0..MaxFires

TypeOK ==
    /\ ClientTypeOK /\ ServerTypeOK
    /\ toServer \in Seq(ToServer) /\ toClient \in Seq(ToClient)
    /\ history \in [crossed : SUBSET Requests, lost : SUBSET Calls, inputs : Nat]

IsRequest(m) == m.type \in {"call", "listen"}
IsFire(m, e) == m.type = "fire" /\ m.id = e

HasRequest(messages, id) ==
    \E i \in DOMAIN messages : messages[i].id = id /\ IsRequest(messages[i])
HasEnd(messages, id) ==
    \E i \in DOMAIN messages : messages[i].id = id /\ ~IsRequest(messages[i])
HasAnswer(messages, id, types) ==
    \E i \in DOMAIN messages : messages[i].id = id /\ messages[i].type \in types

Once(ids, id) == \A i, j \in DOMAIN ids : ids[i] = id /\ ids[j] = id => i = j
RequestedOnce(messages, id) ==
    \A i, j \in DOMAIN messages :
        /\ messages[i].id = id /\ IsRequest(messages[i])
        /\ messages[j].id = id /\ IsRequest(messages[j])
        => i = j

\* A request with its end behind it.
RequestEnds(messages, id) ==
    \A i \in DOMAIN messages :
        messages[i].id = id /\ IsRequest(messages[i]) =>
            \E j \in DOMAIN messages : j > i /\ messages[j].id = id /\ ~IsRequest(messages[j])

\* Requests and ends of an event follow one another in messages, so that from
\* having it, or not, they lead to wanting it, or not.
Alternate(messages, e, has, wants) ==
    \E state \in [0..Len(messages) -> BOOLEAN] :
        /\ state[0] = has /\ state[Len(messages)] = wants
        /\ \A i \in 1..Len(messages) :
               IF messages[i].id = e
               THEN state[i] = IsRequest(messages[i]) /\ state[i - 1] # state[i]
               ELSE state[i] = state[i - 1]

\* What was fired comes in order, and is news.
InOrder(messages, e, last, newest) ==
    /\ \A i \in DOMAIN messages :
           IsFire(messages[i], e) => messages[i].number > last /\ messages[i].number <= newest
    /\ \A i, j \in DOMAIN messages :
           IsFire(messages[i], e) /\ IsFire(messages[j], e) /\ i < j =>
               messages[i].number < messages[j].number

Unsent(id) == Contains(unsent, id)
Sent(id) == HasRequest(toServer, id)
PendsOnce(id) == \A i, j \in DOMAIN pending : pending[i].id = id /\ pending[j].id = id => i = j

\* A request has at most one place, from where it waits to where it has run.
OnePlace(c) ==
    /\ Once(unsent, c) /\ RequestedOnce(toServer, c) /\ PendsOnce(c)
    /\ Unsent(c) => ~Sent(c)
    /\ Unsent(c) \/ Sent(c) => ~Pends(c)
    /\ Unsent(c) \/ Sent(c) \/ Pends(c) => runs[c] = 0 /\ outcome[c] # "none"
    /\ runs[c] \in {0, 1} /\ (runs[c] = 1 => outcome[c] # "none")

\* Only a call that has run has a token, or an answer of its own.
AnsweredHasRun(c) ==
    /\ token[c] = "running" <=> c \in active
    /\ token[c] # "none" \/ HasAnswer(toClient, c, {"result", "error"}) => runs[c] = 1

\* A call that is cancelled has its cancellation behind it.
CancelFollows(c) ==
    outcome[c] = "cancelled" =>
        /\ ~Unsent(c) /\ RequestEnds(toServer, c)
        /\ Pends(c) \/ token[c] = "running" => HasEnd(toServer, c) \/ c \in history.crossed

\* A call whose response is handled will have one, or none can be sent.
HandledUntilAnswered(c) ==
    c \in handlers =>
        \/ Sent(c) \/ Pends(c) \/ token[c] # "none"
        \/ HasAnswer(toClient, c, {"result", "error", "unknown"}) \/ c \in history.lost

\* What waits for Initialize has a listener, what has one a handler, and what the
\* server disposes of once it has.
EventKept(e) ==
    /\ Once(unsent, e) /\ (Unsent(e) => e \in listening)
    /\ e \in handlers <=> e \in listening
    /\ e \in active => subscribed[e] > 0

\* What the server has of an event, and what the client wants it to have.
Has(e) == Pends(e) \/ e \in active
Wants(e) == e \in listening /\ ~Unsent(e)

\* Of an event that was not left while its channel was unknown, the server has one
\* listener at most.
ListenedOnce(e) ==
    /\ subscribed[e] = IF e \in active THEN 1 ELSE 0
    /\ PendsOnce(e) /\ (Pends(e) => e \notin active)
    /\ ~server.disposed => Alternate(toServer, e, Has(e), Wants(e))

FiredInOrder(e) == heard[e] <= fired /\ InOrder(toClient, e, heard[e], fired)

\* A call that is not settled is one of a client that is not disposed: it waits for
\* Initialize, or its response is handled.
ServesPending(c) == outcome[c] = "pending" => ~client.disposed /\ (Unsent(c) \/ c \in handlers)

\* A call whose timer elapsed while it was pending has been told so.
Elapsed(c) == \E i \in DOMAIN pending : pending[i].id = c /\ ~pending[i].timer
TellsElapsed(c) == c \in handlers /\ Elapsed(c) => HasAnswer(toClient, c, {"unknown"})

\* What whoever waits for an answer relies on.
AnswersCome ==
    /\ client.initialized \/ HasAnswer(toClient, 0, {"initialize"})
    /\ \A c \in Calls : ServesPending(c) /\ TellsElapsed(c)

\* What the two ends rely on.
IInv ==
    /\ TypeOK
    /\ \A c \in Calls :
           OnePlace(c) /\ AnsweredHasRun(c) /\ CancelFollows(c) /\ HandledUntilAnswered(c)
    /\ \A e \in Events : EventKept(e)
    /\ \A e \in Events \ history.crossed : ListenedOnce(e) /\ FiredInOrder(e)

\* ... and what whoever waits relies on too.
AInv == IInv /\ AnswersCome

\* The calls are what a caller may expect of them: no command is run twice and
\* every result is that of a run, although requests wait on both sides, are
\* answered by a timer, and registered for more than once.
Called == INSTANCE RemoteCalls

\* The refinement: what callers see of their calls are steps of RemoteCalls.
ImplementsRemoteCalls == Called!Spec

AtRest == toServer = <<>> /\ toClient = <<>> /\ unsent = <<>> /\ pending = <<>>

\* Once nothing is on its way, the two ends remember the same: the server has
\* exactly one listener for every event that is listened to, unless one was left
\* while its channel was unknown, and the client has handlers for its listeners,
\* calls that run and lost ones, and for nothing that is over.
EndsAgree ==
    AtRest /\ ~client.disposed /\ ~server.disposed =>
        /\ \A e \in Events \ history.crossed :
               subscribed[e] = IF e \in listening THEN 1 ELSE 0
        /\ listening \subseteq handlers
        /\ handlers \subseteq listening \cup history.lost \cup {c \in Calls : token[c] # "none"}

\* A cancellation reaches the command that runs, unless it came before it ran.
CancelsArrive ==
    \A c \in Calls :
        toServer = <<>> /\ outcome[c] = "cancelled" /\ token[c] = "running" => c \in history.crossed

\* A listener hears no event twice and none after a later one, also when it left
\* and listens again while events are on their way: what comes is news to it.
HeardOnce ==
    \A e \in (Events \cap handlers) \ history.crossed : \A i \in DOMAIN toClient :
        IsFire(toClient[i], e) =>
            /\ toClient[i].number > heard[e]
            /\ \A j \in 1..(i - 1) :
                   IsFire(toClient[j], e) => toClient[j].number < toClient[i].number

\* Nothing goes on by itself any more: what is on its way is for an end that is
\* disposed, no timer is set and no command runs.
Idle ==
    /\ client.disposed \/ toClient = <<>>
    /\ server.disposed \/ toServer = <<>>
    /\ server.disposed => client.disposed
    /\ server.flushes = 0 /\ \A i \in DOMAIN pending : ~pending[i].timer
    /\ \A c \in Calls : token[c] = "none"

\* No call is left behind: what is not settled then is a call whose result could
\* not be sent.
SettledWhenIdle == Idle => \A c \in Calls : outcome[c] = "pending" => c \in history.lost

\* Whoever calls is answered: by the server, by a timer, or by the client when it
\* is disposed; not when the result could not be sent.
CallsSettle == <>[](\A c \in Calls : outcome[c] = "pending" => c \in history.lost)
==================================================================================
