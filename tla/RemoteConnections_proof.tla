------------------------ MODULE RemoteConnections_proof ------------------------
(***************************************************************************)
(* For any number of connections, sockets, restarts and crashes: the type  *)
(* invariant, that the grace timers run exactly for the connections that   *)
(* were abandoned, that a permanent failure reaches every connection, that *)
(* both ends of a management connection agree on its socket, and that the  *)
(* events of one come in order.                                            *)
(***************************************************************************)
EXTENDS RemoteConnections, SequenceTheorems, TLAPS

USE SocketsAssumption, LoopAssumption, RegistryAssumption DEF NoSocket, Sockets

\* Sockets, the opened ones of which belong to a connection, and those of which
\* the server looks at asynchronously to an extension host connection.
Links ==
    {l \in [Sockets -> [conn : Conns \cup {NoConn}, fresh : BOOLEAN, stage : Stages,
                        alive : BOOLEAN, bye : BOOLEAN]] :
        \A s \in Sockets : /\ l[s].stage # "unopened" => l[s].conn \in Conns
                           /\ l[s].stage = "checking" => l[s].conn \in HandedOver}

Entries == [live : BOOLEAN, socket : Sockets \cup {NoSocket}, closed : BOOLEAN,
            long : BOOLEAN, short : BOOLEAN, proc : Processes,
            data : Sockets \cup {NoSocket}, transit : SUBSET Sockets, reduce : BOOLEAN]

Clients == [pc : Awaits \cup {"idle", "rejected", "left"}, initial : BOOLEAN,
            attempt : 1..MaxAttempts, socket : Sockets \cup {NoSocket},
            heard : BOOLEAN, late : BOOLEAN, failed : BOOLEAN,
            disposed : BOOLEAN, events : Seq(Events)]

\* From l to m no opened socket is unopened again, and none comes alive.
Keeps(l, m) ==
    \A s \in Sockets : l[s].stage # "unopened" => /\ m[s].stage # "unopened"
                                                  /\ m[s].alive => l[s].alive

-----------------------------------------------------------------------------
(* What is done to the sockets.                                             *)

LEMMA KeepsIsTransitive ==
    ASSUME NEW l \in Links, NEW m \in Links, NEW n \in Links, Keeps(l, m), Keeps(m, n)
    PROVE  Keeps(l, n)
BY DEF Keeps

LEMMA EndKeeps ==
    ASSUME NEW l \in Links, NEW S
    PROVE  End(l, S) \in Links /\ Keeps(l, End(l, S))
<1> DEFINE m == End(l, S)
<1>1. ASSUME NEW s \in Sockets
      PROVE  /\ m[s] \in [conn : Conns \cup {NoConn}, fresh : BOOLEAN, stage : Stages,
                          alive : BOOLEAN, bye : BOOLEAN]
             /\ m[s].stage = l[s].stage /\ m[s].conn = l[s].conn
             /\ m[s].alive => l[s].alive
  <2> DEFINE r == l[s]
  <2>1. m[s] = IF s \in S THEN [r EXCEPT !.alive = FALSE] ELSE r
    BY DEF End
  <2>2. r \in [conn : Conns \cup {NoConn}, fresh : BOOLEAN, stage : Stages,
               alive : BOOLEAN, bye : BOOLEAN]
    BY DEF Links
  <2> HIDE DEF r, m
  <2> QED
    BY <2>1, <2>2 DEF r
<1>2. m \in [Sockets -> [conn : Conns \cup {NoConn}, fresh : BOOLEAN, stage : Stages,
                         alive : BOOLEAN, bye : BOOLEAN]]
  BY <1>1 DEF End
<1> HIDE DEF m
<1>3. m \in Links
  BY <1>1, <1>2 DEF Links
<1>4. Keeps(l, m)
  BY <1>1 DEF Keeps
<1> QED
  BY <1>3, <1>4 DEF m

LEMMA FarewellKeeps ==
    ASSUME NEW l \in Links, NEW S
    PROVE  Farewell(l, S) \in Links /\ Keeps(l, Farewell(l, S))
<1> DEFINE m == Farewell(l, S)
<1>1. ASSUME NEW s \in Sockets
      PROVE  /\ m[s] \in [conn : Conns \cup {NoConn}, fresh : BOOLEAN, stage : Stages,
                          alive : BOOLEAN, bye : BOOLEAN]
             /\ m[s].stage = l[s].stage /\ m[s].conn = l[s].conn
             /\ m[s].alive => l[s].alive
  <2>1. m[s] = IF s \in S THEN [l[s] EXCEPT !.alive = FALSE, !.bye = l[s].alive] ELSE l[s]
    BY DEF Farewell
  <2> DEFINE r == l[s]
  <2>2. r \in [conn : Conns \cup {NoConn}, fresh : BOOLEAN, stage : Stages,
               alive : BOOLEAN, bye : BOOLEAN]
    BY DEF Links
  <2> HIDE DEF r, m
  <2> QED
    BY <2>1, <2>2 DEF r
<1>2. m \in [Sockets -> [conn : Conns \cup {NoConn}, fresh : BOOLEAN, stage : Stages,
                         alive : BOOLEAN, bye : BOOLEAN]]
  BY <1>1 DEF Farewell
<1> HIDE DEF m
<1>3. m \in Links
  BY <1>1, <1>2 DEF Links
<1>4. Keeps(l, m)
  BY <1>1 DEF Keeps
<1> QED
  BY <1>3, <1>4 DEF m

LEMMA SayKeeps ==
    ASSUME NEW l \in Links, NEW s \in Sockets, NEW stage \in Stages \ {"unopened", "checking"},
           l[s].stage # "unopened"
    PROVE  /\ Say(l, s, stage) \in Links /\ Keeps(l, Say(l, s, stage))
           /\ Say(l, s, stage)[s].stage # "unopened"
BY DEF Links, Say, Keeps, Stages

LEMMA ByeKeeps ==
    ASSUME NEW l \in Links, NEW s \in Sockets, NEW bye \in BOOLEAN
    PROVE  LET m == [l EXCEPT ![s].bye = bye] IN m \in Links /\ Keeps(l, m)
BY DEF Links, Keeps

LEMMA StageKeeps ==
    ASSUME NEW l \in Links, NEW s \in Sockets, NEW stage \in Stages \ {"unopened"},
           l[s].stage # "unopened", stage = "checking" => l[s].conn \in HandedOver
    PROVE  LET m == [l EXCEPT ![s].stage = stage] IN m \in Links /\ Keeps(l, m)
<1> DEFINE m == [l EXCEPT ![s].stage = stage]
<1>1. ASSUME NEW t \in Sockets
      PROVE  /\ m[t] \in [conn : Conns \cup {NoConn}, fresh : BOOLEAN, stage : Stages,
                          alive : BOOLEAN, bye : BOOLEAN]
             /\ m[t].stage = (IF t = s THEN stage ELSE l[t].stage)
             /\ m[t].conn = l[t].conn /\ m[t].alive = l[t].alive
  <2> DEFINE r == l[t]
  <2>1. r \in [conn : Conns \cup {NoConn}, fresh : BOOLEAN, stage : Stages,
               alive : BOOLEAN, bye : BOOLEAN]
    BY DEF Links
  <2>2. m[t] = IF t = s THEN [r EXCEPT !.stage = stage] ELSE r
    BY DEF Links
  <2> HIDE DEF r, m
  <2> QED
    BY <2>1, <2>2 DEF r
<1>2. m \in [Sockets -> [conn : Conns \cup {NoConn}, fresh : BOOLEAN, stage : Stages,
                         alive : BOOLEAN, bye : BOOLEAN]]
  <2>1. DOMAIN l = Sockets
    BY DEF Links
  <2> QED
    BY <1>1, <2>1
<1> HIDE DEF m
<1>3. m \in Links
  <2> SUFFICES ASSUME NEW t \in Sockets
               PROVE  /\ m[t].stage # "unopened" => m[t].conn \in Conns
                      /\ m[t].stage = "checking" => m[t].conn \in HandedOver
    BY <1>2 DEF Links
  <2> QED
    BY <1>1 DEF Links
<1>4. Keeps(l, m)
  BY <1>1 DEF Keeps
<1> QED
  BY <1>3, <1>4 DEF m

LEMMA OpenKeeps ==
    ASSUME link \in Links, NEW s \in Sockets, NEW c \in Conns, NEW fresh \in BOOLEAN,
           link[s].stage = "unopened"
    PROVE  Open(s, c, fresh) \in Links /\ Keeps(link, Open(s, c, fresh))
BY DEF Links, Open, Keeps, Stages

-----------------------------------------------------------------------------
(* What is registered.                                                      *)

\* An entry e of connection c that agrees with sockets l.
Fits(c, e, l) ==
    /\ e.socket # NoSocket => e.live /\ l[e.socket].stage # "unopened"
    /\ e.data # NoSocket => l[e.data].stage # "unopened"
    /\ \A s \in e.transit : e.live /\ l[s].stage # "unopened"
    /\ e.proc # "none" => e.live /\ c \in HandedOver
    /\ (c \in HandedOver /\ e.live /\ e.proc \in {"none", "starting", "asking"})
            => e.data # NoSocket
    /\ e.short => e.long
    /\ e.long <=> e.closed
    /\ e.closed => e.socket # NoSocket /\ ~l[e.socket].alive

LEMMA RegisteredFits ==
    /\ \A c \in Conns : Registered(c) <=> Fits(c, entry[c], link)
    /\ \A c \in Conns : Registered(c)' <=> Fits(c, entry'[c], link')
BY DEF Registered, Fits, Opened

\* An entry goes on fitting when sockets are opened, used and closed.
LEMMA FitsKept ==
    ASSUME NEW c \in Conns, NEW e \in Entries, NEW l \in Links, NEW m \in Links,
           Fits(c, e, l), Keeps(l, m)
    PROVE  Fits(c, e, m)
BY DEF Fits, Entries, Keeps, Links

LEMMA NoEntryFits ==
    ASSUME NEW c \in Conns, NEW l
    PROVE  NoEntry \in Entries /\ Fits(c, NoEntry, l)
BY DEF Fits, NoEntry, Entries, Processes

LEMMA ShortenedFits ==
    ASSUME NEW c \in Conns, NEW e \in Entries, NEW l, Fits(c, e, l)
    PROVE  Shortened(e) \in Entries /\ Fits(c, Shortened(e), l)
BY DEF Fits, Shortened, Entries

LEMMA ReconnectedFits ==
    ASSUME NEW c \in Conns, NEW e \in Entries, NEW l, Fits(c, e, l),
           NEW s \in Sockets, l[s].stage # "unopened", e.live
    PROVE  Reconnected(e, s) \in Entries /\ Fits(c, Reconnected(e, s), l)
BY DEF Fits, Reconnected, Entries

LEMMA HandOverFits ==
    ASSUME NEW c \in HandedOver, NEW e \in Entries, NEW l, Fits(c, e, l),
           NEW s \in Sockets, l[s].stage # "unopened"
    PROVE  LET f == HandOver([e EXCEPT !.live = TRUE], s)
           IN  f \in Entries /\ Fits(c, f, l)
<1> DEFINE g == [e EXCEPT !.live = TRUE]
<1>1. /\ g \in Entries /\ g.live /\ g.proc = e.proc /\ g.data = e.data /\ g.socket = e.socket
      /\ g.transit = e.transit /\ g.short = e.short /\ g.long = e.long /\ g.closed = e.closed
  BY DEF Entries
<1>2. e.proc # "none" => Fits(c, g, l)
  BY <1>1 DEF Fits
<1> HIDE DEF g
<1>3. CASE e.proc = "none"
  <2>1. HandOver(g, s) = [g EXCEPT !.data = s]
    BY <1>1, <1>3 DEF HandOver
  <2>2. [g EXCEPT !.data = s] \in Entries /\ Fits(c, [g EXCEPT !.data = s], l)
    BY <1>1, <1>3 DEF Fits, Entries
  <2> QED
    BY <2>1, <2>2 DEF g
<1>4. CASE e.proc = "exited"
  <2>1. HandOver(g, s) = g
    BY <1>1, <1>4 DEF HandOver
  <2> QED
    BY <1>1, <1>2, <1>4, <2>1 DEF g
<1>5. CASE e.proc \notin {"none", "exited"}
  <2>1. HandOver(g, s) = [g EXCEPT !.transit = @ \cup {s}]
    BY <1>1, <1>5 DEF HandOver
  <2>2. [g EXCEPT !.transit = @ \cup {s}] \in Entries /\ Fits(c, [g EXCEPT !.transit = @ \cup {s}], l)
    BY <1>1, <1>2, <1>5 DEF Fits, Entries
  <2> QED
    BY <2>1, <2>2 DEF g
<1> QED
  BY <1>3, <1>4, <1>5

LEMMA IInvByParts ==
    IInv <=> /\ link \in Links /\ client \in [Conns -> Clients] /\ permanentFailure \in BOOLEAN
             /\ entry \in [Conns -> Entries]
             /\ faults \in [restarts : 0..MaxRestarts, crashes : 0..MaxCrashes]
             /\ \A c \in Conns : Fits(c, entry[c], link)
BY RegisteredFits
   DEF IInv, TypeOK, LinkTypeOK, ClientTypeOK, ServerTypeOK, Links, Clients, Entries, Opened

-----------------------------------------------------------------------------
(* The steps of the server.                                                 *)

\* What every step of the server has to show.
ServerKeeps ==
    /\ link' \in Links /\ Keeps(link, link')
    /\ entry' \in [Conns -> Entries] /\ \A d \in Conns : Fits(d, entry'[d], link')
    /\ faults' \in [restarts : 0..MaxRestarts, crashes : 0..MaxCrashes]

ServerBefore ==
    /\ link \in Links /\ entry \in [Conns -> Entries]
    /\ \A d \in Conns : Fits(d, entry[d], link)
    /\ faults \in [restarts : 0..MaxRestarts, crashes : 0..MaxCrashes]

\* A step that changes the entry of c only, to e, which fits.
LEMMA OneEntry ==
    ASSUME ServerBefore, NEW c \in Conns, NEW e \in Entries,
           entry' = [entry EXCEPT ![c] = e], Fits(c, e, link'),
           link' \in Links, Keeps(link, link'),
           faults' \in [restarts : 0..MaxRestarts, crashes : 0..MaxCrashes]
    PROVE  ServerKeeps
<1>1. \A d \in Conns : Fits(d, entry[d], link')
  BY FitsKept DEF ServerBefore
<1>2. \A d \in Conns : entry'[d] = IF d = c THEN e ELSE entry[d]
  BY DEF ServerBefore
<1>3. entry' \in [Conns -> Entries]
  BY DEF ServerBefore
<1> QED
  BY <1>1, <1>2, <1>3 DEF ServerKeeps

\* A step that changes the sockets only.
LEMMA NoNewEntry ==
    ASSUME ServerBefore, entry' = entry, faults' = faults, link' \in Links, Keeps(link, link')
    PROVE  ServerKeeps
BY FitsKept DEF ServerBefore, ServerKeeps

\* The request of any connection shortens all grace times.
LEMMA ShortenAllFits ==
    ASSUME ServerBefore
    PROVE  /\ ShortenAll \in [Conns -> Entries]
           /\ \A d \in Conns : Fits(d, ShortenAll[d], link)
           /\ \A d \in Conns : ShortenAll[d].live = entry[d].live
<1> SUFFICES ASSUME NEW d \in Conns
             PROVE  /\ ShortenAll[d] \in Entries /\ Fits(d, ShortenAll[d], link)
                    /\ ShortenAll[d].live = entry[d].live
  BY DEF ShortenAll
<1> DEFINE e == entry[d]
<1>1. e \in Entries /\ Fits(d, e, link)
  BY DEF ServerBefore
<1>2. CASE d \in HandedOver
  <2>1. ShortenAll[d] = [e EXCEPT !.reduce = e.proc \notin {"none", "exited"}]
    BY <1>2 DEF ShortenAll
  <2> HIDE DEF e
  <2> QED
    BY <1>1, <2>1 DEF Entries, Fits, e
<1>3. CASE d \notin HandedOver
  <2>1. ShortenAll[d] = Shortened(e)
    BY <1>3 DEF ShortenAll
  <2>2. Shortened(e).live = e.live
    BY <1>1 DEF Shortened, Entries
  <2> QED
    BY <1>1, <2>1, <2>2, ShortenedFits
<1> QED
  BY <1>2, <1>3

LEMMA ReceiveAuthKeeps ==
    ASSUME ServerBefore, NEW s \in Sockets, ReceiveAuth(s)
    PROVE  ServerKeeps
<1> link \in Links /\ entry' = entry /\ faults' = faults
  BY DEF ServerBefore, ReceiveAuth, serverVars
<1> link[s].stage # "unopened"
  BY DEF ReceiveAuth
<1>1. CASE link' = Say(link, s, "sign")
  BY <1>1, SayKeeps, NoNewEntry DEF Stages
<1>2. CASE link' = End(Say(link, s, "refused"), {s})
  <2> DEFINE l == Say(link, s, "refused")
  <2>1. l \in Links /\ Keeps(link, l)
    BY SayKeeps DEF Stages
  <2>2. link' \in Links /\ Keeps(l, link')
    BY <1>2, <2>1, EndKeeps
  <2> HIDE DEF l
  <2> QED
    BY <2>1, <2>2, KeepsIsTransitive, NoNewEntry
<1> QED
  BY <1>1, <1>2 DEF ReceiveAuth

\* An answer, and the end of a socket.
LEMMA SayThenEnd ==
    ASSUME link \in Links, NEW s \in Sockets, NEW stage \in Stages \ {"unopened", "checking"},
           link[s].stage # "unopened", NEW S
    PROVE  LET m == End(Say(link, s, stage), S)
           IN  m \in Links /\ Keeps(link, m) /\ m[s].stage # "unopened"
<1> DEFINE l == Say(link, s, stage)
<1>1. l \in Links /\ Keeps(link, l) /\ l[s].stage # "unopened"
  BY SayKeeps
<1>2. End(l, S) \in Links /\ Keeps(l, End(l, S))
  BY <1>1, EndKeeps
<1> HIDE DEF l
<1>3. End(l, S)[s].stage # "unopened"
  BY <1>1, <1>2 DEF Keeps
<1> QED
  BY <1>1, <1>2, <1>3, KeepsIsTransitive DEF l

LEMMA ReceiveRequestKeeps ==
    ASSUME ServerBefore, NEW s \in Sockets, ReceiveRequest(s)
    PROVE  ServerKeeps
<1> DEFINE c == link[s].conn
<1>1. /\ link \in Links /\ entry \in [Conns -> Entries] /\ c \in Conns /\ link[s].stage = "request"
      /\ faults' = faults /\ faults \in [restarts : 0..MaxRestarts, crashes : 0..MaxCrashes]
  BY DEF ServerBefore, ReceiveRequest, Links
<1>2. /\ ShortenAll \in [Conns -> Entries] /\ \A d \in Conns : Fits(d, ShortenAll[d], link)
      /\ \A d \in Conns : ShortenAll[d].live = entry[d].live
  BY ShortenAllFits
<1>3. ASSUME link' \in Links, Keeps(link, link') PROVE \A d \in Conns : Fits(d, ShortenAll[d], link')
  BY <1>1, <1>2, <1>3, FitsKept
<1>4. CASE c \in HandedOver
  <2>1. link' = [link EXCEPT ![s].stage = "checking"] /\ entry' = ShortenAll
    BY <1>4 DEF ReceiveRequest
  <2>2. link' \in Links /\ Keeps(link, link')
    BY <1>1, <1>4, <2>1, StageKeeps DEF Stages
  <2> QED
    BY <1>1, <1>2, <1>3, <2>1, <2>2 DEF ServerKeeps
<1>5. CASE c \notin HandedOver /\ Refused(s)
  <2>1. link' = End(Say(link, s, "refused"), {s}) /\ entry' = ShortenAll
    BY <1>5 DEF ReceiveRequest, Refuse
  <2>2. link' \in Links /\ Keeps(link, link')
    BY <1>1, <2>1, SayThenEnd DEF Stages
  <2> QED
    BY <1>1, <1>2, <1>3, <2>1, <2>2 DEF ServerKeeps
<1>6. CASE c \notin HandedOver /\ ~Refused(s)
  <2> DEFINE e == ShortenAll[c]
             f == [Reconnected(e, s) EXCEPT !.live = TRUE]
  <2>1. link' = End(Say(link, s, "answered"), {entry[c].socket}) /\ entry' = [ShortenAll EXCEPT ![c] = f]
    BY <1>6 DEF ReceiveRequest, AcceptManagement
  <2>2. link' \in Links /\ Keeps(link, link') /\ link'[s].stage # "unopened"
    BY <1>1, <2>1, SayThenEnd DEF Stages
  <2>3. e \in Entries /\ Fits(c, e, link')
    BY <1>1, <1>2, <1>3, <2>2
  <2> HIDE DEF e
  <2>4. f \in Entries /\ Fits(c, f, link')
    BY <1>6, <2>2, <2>3 DEF Reconnected, Entries, Fits
  <2> HIDE DEF f
  <2>5. \A d \in Conns : entry'[d] = IF d = c THEN f ELSE ShortenAll[d]
    BY <1>2, <2>1
  <2>6. entry' \in [Conns -> Entries]
    BY <1>1, <1>2, <2>1, <2>4
  <2> QED
    BY <1>1, <1>2, <1>3, <2>2, <2>4, <2>5, <2>6 DEF ServerKeeps
<1> QED
  BY <1>4, <1>5, <1>6

LEMMA DecideKeeps ==
    ASSUME ServerBefore, NEW s \in Sockets, Decide(s)
    PROVE  ServerKeeps
<1> DEFINE c == link[s].conn
<1>1. /\ link \in Links /\ entry \in [Conns -> Entries] /\ c \in HandedOver /\ link[s].stage = "checking"
      /\ faults' = faults /\ faults \in [restarts : 0..MaxRestarts, crashes : 0..MaxCrashes]
  BY DEF ServerBefore, Decide, Links
<1>2. CASE Refused(s)
  <2>1. link' = End(Say(link, s, "refused"), {s}) /\ entry' = entry
    BY <1>2 DEF Decide, Refuse
  <2>2. link' \in Links /\ Keeps(link, link')
    BY <1>1, <2>1, SayThenEnd DEF Stages
  <2> QED
    BY <1>1, <2>1, <2>2, NoNewEntry
<1>3. CASE ~Refused(s)
  <2> DEFINE e == entry[c]
             f == HandOver([e EXCEPT !.live = TRUE], s)
  <2>1. link' = Say(link, s, "answered") /\ entry' = [entry EXCEPT ![c] = f]
    BY <1>3 DEF Decide
  <2>2. link' \in Links /\ Keeps(link, link') /\ link'[s].stage # "unopened"
    BY <1>1, <2>1, SayKeeps DEF Stages
  <2>3. e \in Entries /\ Fits(c, e, link')
    BY <1>1, <2>2, FitsKept DEF ServerBefore
  <2> HIDE DEF e
  <2>4. f \in Entries /\ Fits(c, f, link')
    BY <1>1, <2>2, <2>3, HandOverFits
  <2> HIDE DEF f
  <2> QED
    BY <1>1, <2>1, <2>2, <2>4, OneEntry
<1> QED
  BY <1>2, <1>3

LEMMA ForkKeeps ==
    ASSUME ServerBefore, NEW c \in Conns, Fork(c)
    PROVE  ServerKeeps
<1> DEFINE e == entry[c]
<1>1. /\ link \in Links /\ entry \in [Conns -> Entries] /\ e \in Entries /\ Fits(c, e, link)
      /\ faults \in [restarts : 0..MaxRestarts, crashes : 0..MaxCrashes]
  BY DEF ServerBefore
<1>2. c \in HandedOver /\ e.live /\ e.proc = "none"
  BY DEF Fork
<1>3. CASE entry' = [entry EXCEPT ![c].proc = "starting"] /\ UNCHANGED <<link, faults>>
  <2> DEFINE f == [e EXCEPT !.proc = "starting"]
  <2>1. entry' = [entry EXCEPT ![c] = f]
    BY <1>3
  <2> HIDE DEF e
  <2>2. f \in Entries /\ Fits(c, f, link)
    BY <1>1, <1>2 DEF Entries, Fits, Processes
  <2> HIDE DEF f
  <2>3. Keeps(link, link)
    BY DEF Keeps
  <2> QED
    BY <1>1, <1>3, <2>1, <2>2, <2>3, OneEntry
<1>4. CASE /\ faults.crashes < MaxCrashes
           /\ faults' = [faults EXCEPT !.crashes = @ + 1]
           /\ entry' = [entry EXCEPT ![c] = NoEntry]
           /\ link' = End(link, {entry[c].data})
  <2>1. faults' \in [restarts : 0..MaxRestarts, crashes : 0..MaxCrashes]
    BY <1>1, <1>4
  <2>2. link' \in Links /\ Keeps(link, link')
    BY <1>1, <1>4, EndKeeps
  <2> QED
    BY <1>4, <2>1, <2>2, NoEntryFits, OneEntry
<1> QED
  BY <1>3, <1>4 DEF Fork

LEMMA AsksForSocketKeeps ==
    ASSUME ServerBefore, NEW c \in Conns, AsksForSocket(c)
    PROVE  ServerKeeps
<1> DEFINE e == entry[c]
           f == [e EXCEPT !.proc = "asking"]
<1>1. e \in Entries /\ Fits(c, e, link) /\ e.proc = "starting" /\ entry' = [entry EXCEPT ![c] = f]
  BY DEF ServerBefore, AsksForSocket
<1>2. link' = link /\ faults' = faults /\ Keeps(link, link')
  BY DEF AsksForSocket, Keeps
<1> HIDE DEF e
<1>3. f \in Entries /\ Fits(c, f, link)
  BY <1>1 DEF Entries, Fits, Processes
<1> HIDE DEF f
<1> QED
  BY <1>1, <1>2, <1>3, OneEntry DEF ServerBefore

LEMMA ReadyArrivesKeeps ==
    ASSUME ServerBefore, NEW c \in Conns, ReadyArrives(c)
    PROVE  ServerKeeps
<1> DEFINE e == entry[c]
           f == [e EXCEPT !.proc = "running", !.data = NoSocket, !.transit = @ \cup {e.data}]
<1>1. e \in Entries /\ Fits(c, e, link) /\ e.proc = "asking" /\ entry' = [entry EXCEPT ![c] = f]
  BY DEF ServerBefore, ReadyArrives
<1>2. link' = link /\ faults' = faults /\ Keeps(link, link')
  BY DEF ReadyArrives, Keeps
<1> HIDE DEF e
<1>3. e.live /\ c \in HandedOver /\ e.data # NoSocket /\ e.data \in Sockets
  BY <1>1 DEF Fits, Entries
<1>4. f \in Entries
  BY <1>1, <1>3 DEF Entries, Processes
<1>5. Fits(c, f, link)
  BY <1>1, <1>3 DEF Entries, Fits
<1> HIDE DEF f
<1> QED
  BY <1>1, <1>2, <1>4, <1>5, OneEntry DEF ServerBefore

LEMMA AttachKeeps ==
    ASSUME ServerBefore, NEW c \in Conns, NEW s \in Sockets, Attach(c, s)
    PROVE  ServerKeeps
<1> DEFINE e == [entry[c] EXCEPT !.transit = @ \ {s}]
<1>1. /\ entry[c] \in Entries /\ Fits(c, entry[c], link) /\ s \in entry[c].transit
      /\ link \in Links /\ faults' = faults
      /\ faults \in [restarts : 0..MaxRestarts, crashes : 0..MaxCrashes]
  BY DEF ServerBefore, Attach
<1>2. e \in Entries /\ Fits(c, e, link) /\ e.live /\ link[s].stage # "unopened"
  BY <1>1 DEF Entries, Fits
<1> SUFFICES ASSUME \/ /\ entry' = [entry EXCEPT ![c] = Reconnected(e, s)]
                       /\ link' = End(link, {entry[c].socket})
                    \/ /\ entry' = [entry EXCEPT ![c] = e]
                       /\ UNCHANGED link
             PROVE  ServerKeeps
  BY DEF Attach
<1> HIDE DEF e
<1>3. CASE /\ entry' = [entry EXCEPT ![c] = Reconnected(e, s)]
           /\ link' = End(link, {entry[c].socket})
  <2>1. link' \in Links /\ Keeps(link, link')
    BY <1>1, <1>3, EndKeeps
  <2>2. Reconnected(e, s) \in Entries /\ Fits(c, Reconnected(e, s), link)
    BY <1>2, ReconnectedFits
  <2>3. Fits(c, Reconnected(e, s), link')
    BY <1>1, <2>1, <2>2, FitsKept
  <2> QED
    BY <1>1, <1>3, <2>1, <2>2, <2>3, OneEntry
<1>4. CASE entry' = [entry EXCEPT ![c] = e] /\ UNCHANGED link
  <2>1. Keeps(link, link')
    BY <1>4 DEF Keeps
  <2> QED
    BY <1>1, <1>2, <1>4, <2>1, OneEntry
<1> QED
  BY <1>3, <1>4

LEMMA ReduceArrivesKeeps ==
    ASSUME ServerBefore, NEW c \in Conns, ReduceArrives(c)
    PROVE  ServerKeeps
<1> DEFINE e == Shortened(entry[c])
           f == [e EXCEPT !.reduce = FALSE]
<1>1. e \in Entries /\ Fits(c, e, link)
  BY ShortenedFits DEF ServerBefore
<1>2. /\ link' = link /\ faults' = faults /\ Keeps(link, link') /\ entry' = [entry EXCEPT ![c] = f]
  BY DEF ReduceArrives, Keeps
<1> HIDE DEF e
<1>3. f \in Entries /\ Fits(c, f, link)
  BY <1>1 DEF Entries, Fits
<1> HIDE DEF f
<1> QED
  BY <1>2, <1>3, OneEntry DEF ServerBefore

\* The process exits, for whatever reason.
LEMMA ExitKeeps ==
    ASSUME ServerBefore, NEW c \in HandedOver, Exit(c), entry[c].live,
           faults' \in [restarts : 0..MaxRestarts, crashes : 0..MaxCrashes]
    PROVE  ServerKeeps
<1> DEFINE e == [NoEntry EXCEPT !.live = TRUE, !.proc = "exited", !.data = entry[c].data]
<1>1. PICK dead \in SUBSET entry[c].transit : link' = End(link, dead \cup {entry[c].socket})
  BY DEF Exit
<1>2. link' \in Links /\ Keeps(link, link')
  BY <1>1, EndKeeps DEF ServerBefore
<1>3. entry[c] \in Entries /\ Fits(c, entry[c], link')
  BY <1>2, FitsKept DEF ServerBefore
<1>4. /\ e \in Entries /\ e.live /\ e.proc = "exited" /\ e.data = entry[c].data /\ e.socket = NoSocket
      /\ e.transit = {} /\ ~e.short /\ ~e.long /\ ~e.closed
  BY <1>3 DEF NoEntry, Entries, Processes
<1>5. entry' = [entry EXCEPT ![c] = e]
  BY DEF Exit
<1> HIDE DEF e
<1>6. Fits(c, e, link')
  BY <1>3, <1>4 DEF Fits
<1> QED
  BY <1>2, <1>4, <1>5, <1>6, OneEntry

LEMMA ProcessKeeps ==
    ASSUME ServerBefore, NEW c \in Conns, StartTimesOut(c) \/ Crash(c)
    PROVE  ServerKeeps
<1>1. /\ entry[c] \in Entries /\ Fits(c, entry[c], link)
      /\ faults \in [restarts : 0..MaxRestarts, crashes : 0..MaxCrashes]
  BY DEF ServerBefore
<1>2. entry[c].proc # "none" /\ Exit(c)
  BY DEF StartTimesOut, Crash, Listens
<1>3. c \in HandedOver /\ entry[c].live
  BY <1>1, <1>2 DEF Fits
<1>4. faults' \in [restarts : 0..MaxRestarts, crashes : 0..MaxCrashes]
  BY <1>1 DEF StartTimesOut, Crash
<1> QED
  BY <1>2, <1>3, <1>4, ExitKeeps

LEMMA ExitHeardKeeps ==
    ASSUME ServerBefore, NEW c \in Conns, ExitHeard(c)
    PROVE  ServerKeeps
<1>1. link' \in Links /\ Keeps(link, link')
  BY EndKeeps DEF ServerBefore, ExitHeard
<1>2. entry' = [entry EXCEPT ![c] = NoEntry] /\ faults' = faults
  BY DEF ExitHeard
<1> QED
  BY <1>1, <1>2, NoEntryFits, OneEntry DEF ServerBefore

LEMMA CleanResourcesKeeps ==
    ASSUME ServerBefore, NEW c \in Conns, CleanResources(c), entry[c].live
    PROVE  ServerKeeps
<1>1. faults' = faults /\ faults \in [restarts : 0..MaxRestarts, crashes : 0..MaxCrashes]
  BY DEF CleanResources, ServerBefore
<1>2. CASE c \in HandedOver
  BY <1>1, <1>2, ExitKeeps DEF CleanResources
<1>3. CASE c \notin HandedOver
  <2>1. link' \in Links /\ Keeps(link, link')
    BY <1>3, EndKeeps DEF ServerBefore, CleanResources
  <2>2. entry' = [entry EXCEPT ![c] = NoEntry]
    BY <1>3 DEF CleanResources
  <2> QED
    BY <1>1, <2>1, <2>2, NoEntryFits, OneEntry
<1> QED
  BY <1>2, <1>3

LEMMA HearClosedKeeps ==
    ASSUME ServerBefore, NEW c \in Conns, HearClosed(c)
    PROVE  ServerKeeps
<1> DEFINE e == entry[c]
           f == [e EXCEPT !.closed = TRUE, !.long = TRUE]
<1>1. /\ e \in Entries /\ Fits(c, e, link) /\ e.socket # NoSocket /\ ~link[e.socket].alive
      /\ entry' = [entry EXCEPT ![c] = f]
  BY DEF ServerBefore, HearClosed
<1>2. link' = link /\ faults' = faults /\ Keeps(link, link')
  BY DEF HearClosed, Keeps
<1> HIDE DEF e
<1>3. f \in Entries /\ Fits(c, f, link)
  BY <1>1 DEF Entries, Fits
<1> HIDE DEF f
<1> QED
  BY <1>1, <1>2, <1>3, OneEntry DEF ServerBefore

LEMMA LeavingKeeps ==
    ASSUME ServerBefore, NEW c \in Conns, GraceExpires(c) \/ DisconnectArrives(c)
    PROVE  ServerKeeps
<1>1. Fits(c, entry[c], link) /\ CleanResources(c)
  BY DEF ServerBefore, GraceExpires, DisconnectArrives
<1>2. entry[c].live
  BY <1>1 DEF GraceExpires, DisconnectArrives, Fits
<1> QED
  BY <1>1, <1>2, CleanResourcesKeeps

LEMMA RestartKeeps ==
    ASSUME ServerBefore, Restart
    PROVE  ServerKeeps
<1>1. faults' \in [restarts : 0..MaxRestarts, crashes : 0..MaxCrashes]
  <2>1. faults \in [restarts : 0..MaxRestarts, crashes : 0..MaxCrashes]
    BY DEF ServerBefore
  <2>2. faults.restarts < MaxRestarts /\ faults' = [faults EXCEPT !.restarts = @ + 1]
    BY DEF Restart
  <2> QED
    BY <2>1, <2>2
<1>2. \A s \in Sockets :
        link'[s] = [link[s] EXCEPT !.alive = FALSE,
                                   !.stage = IF @ \in {"auth", "request", "checking"} THEN "lost" ELSE @]
  BY DEF Restart
<1>3. ASSUME NEW s \in Sockets
      PROVE  /\ link'[s] \in [conn : Conns \cup {NoConn}, fresh : BOOLEAN, stage : Stages,
                              alive : BOOLEAN, bye : BOOLEAN]
             /\ link'[s].stage \in {link[s].stage, "lost"} \ {"checking"}
             /\ (link'[s].stage = "unopened") <=> (link[s].stage = "unopened")
             /\ link'[s].conn = link[s].conn /\ ~link'[s].alive
  <2> DEFINE r == link[s]
  <2>1. r \in [conn : Conns \cup {NoConn}, fresh : BOOLEAN, stage : Stages,
               alive : BOOLEAN, bye : BOOLEAN]
    BY DEF ServerBefore, Links
  <2>2. link'[s] = [r EXCEPT !.alive = FALSE,
                             !.stage = IF @ \in {"auth", "request", "checking"} THEN "lost" ELSE @]
    BY <1>2
  <2> HIDE DEF r
  <2> QED
    BY <2>1, <2>2 DEF Stages, r
<1>4. link' \in Links
  <2>1. \A s \in Sockets : /\ link'[s].stage # "unopened" => link'[s].conn \in Conns
                           /\ link'[s].stage = "checking" => link'[s].conn \in HandedOver
    BY <1>3 DEF ServerBefore, Links
  <2>2. link' \in [Sockets -> [conn : Conns \cup {NoConn}, fresh : BOOLEAN, stage : Stages,
                              alive : BOOLEAN, bye : BOOLEAN]]
    BY <1>3 DEF Restart
  <2> QED
    BY <2>1, <2>2 DEF Links
<1>5. Keeps(link, link')
  BY <1>3 DEF Keeps
<1>6. entry' \in [Conns -> Entries] /\ \A d \in Conns : Fits(d, entry'[d], link')
  BY NoEntryFits DEF Restart
<1> QED
  BY <1>1, <1>4, <1>5, <1>6 DEF ServerKeeps

LEMMA ServerNextKeeps ==
    ASSUME ServerBefore, ServerNext
    PROVE  ServerKeeps
BY ReceiveAuthKeeps, ReceiveRequestKeeps, DecideKeeps, ForkKeeps, AsksForSocketKeeps,
   ReadyArrivesKeeps, AttachKeeps, ReduceArrivesKeeps, ProcessKeeps, ExitHeardKeeps,
   HearClosedKeeps, LeavingKeeps, RestartKeeps
   DEF ServerNext

-----------------------------------------------------------------------------
(* The steps of the client.                                                 *)

ClientBefore ==
    /\ link \in Links /\ client \in [Conns -> Clients] /\ permanentFailure \in BOOLEAN
    /\ FailureReachesAll

ClientKeeps ==
    /\ link' \in Links /\ Keeps(link, link')
    /\ client' \in [Conns -> Clients] /\ permanentFailure' \in BOOLEAN
    /\ FailureReachesAll'

IsInstance(k) == ~k.initial /\ ~k.disposed /\ k.pc # "left"

LEMMA InstancesAre ==
    /\ Instances = {c \in Conns : IsInstance(client[c])}
    /\ Instances' = {c \in Conns : IsInstance(client'[c])}
BY DEF Instances, IsInstance

LEMMA FireKeeps ==
    ASSUME NEW k \in Clients, NEW batch \in Seq(Events)
    PROVE  LET f == Fire(k, batch)
           IN  /\ f \in Clients /\ f.failed = k.failed /\ f.initial = k.initial
               /\ f.disposed = k.disposed /\ f.pc = k.pc
BY DEF Fire, Clients

LEMMA FailedKeeps ==
    ASSUME NEW k \in Clients, NEW batch \in Seq(Events)
    PROVE  LET f == Failed(k, batch)
           IN  /\ f \in Clients /\ f.failed /\ f.initial = k.initial
               /\ f.disposed = k.disposed /\ f.pc = k.pc
<1> DEFINE g == Fire(k, batch)
<1>1. g \in Clients /\ g.initial = k.initial /\ g.disposed = k.disposed /\ g.pc = k.pc
  BY FireKeeps
<1>2. Failed(k, batch) = [g EXCEPT !.failed = TRUE, !.socket = NoSocket]
  BY DEF Failed
<1> HIDE DEF g
<1> QED
  BY <1>1, <1>2 DEF Clients

\* A step that changes the record of c only, to k.
LEMMA OneClient ==
    ASSUME ClientBefore, NEW c \in Conns, NEW k \in Clients,
           client' = [client EXCEPT ![c] = k], permanentFailure' = permanentFailure,
           link' \in Links, Keeps(link, link'),
           permanentFailure /\ IsInstance(k) => k.failed
    PROVE  ClientKeeps
<1>1. \A d \in Conns : client'[d] = IF d = c THEN k ELSE client[d]
  BY DEF ClientBefore
<1>2. client' \in [Conns -> Clients]
  BY DEF ClientBefore
<1>3. FailureReachesAll'
  BY <1>1, InstancesAre DEF ClientBefore, FailureReachesAll
<1> QED
  BY <1>2, <1>3 DEF ClientBefore, ClientKeeps

\* What setting fields does to a record: whether it is that of an instance.
LEMMA MovedKeeps ==
    ASSUME NEW k \in Clients, NEW pc \in Awaits \cup {"idle"}, k.pc # "left"
    PROVE  LET j == [k EXCEPT !.pc = pc]
           IN  j \in Clients /\ j.failed = k.failed /\ (IsInstance(j) => IsInstance(k))
BY DEF Clients, IsInstance

LEMMA MovedLateKeeps ==
    ASSUME NEW k \in Clients, NEW pc \in Awaits \cup {"idle"}, NEW late \in BOOLEAN, k.pc # "left"
    PROVE  LET j == [k EXCEPT !.pc = pc, !.late = late]
           IN  j \in Clients /\ j.failed = k.failed /\ (IsInstance(j) => IsInstance(k))
BY DEF Clients, IsInstance

LEMMA NewSocketKeeps ==
    ASSUME NEW k \in Clients, NEW s \in Sockets, k.pc # "left"
    PROVE  LET j == [k EXCEPT !.pc = "authenticating", !.socket = s, !.heard = FALSE]
           IN  j \in Clients /\ j.failed = k.failed /\ (IsInstance(j) => IsInstance(k))
BY DEF Clients, Awaits, IsInstance

LEMMA HeardKeeps ==
    ASSUME NEW k \in Clients
    PROVE  LET j == [k EXCEPT !.heard = TRUE]
           IN  j \in Clients /\ j.failed = k.failed /\ (IsInstance(j) <=> IsInstance(k))
BY DEF Clients, IsInstance

LEMMA DisposedKeeps ==
    ASSUME NEW k \in Clients
    PROVE  LET j == [k EXCEPT !.disposed = TRUE]
           IN  j \in Clients /\ j.failed = k.failed /\ ~IsInstance(j)
BY DEF Clients, IsInstance

LEMMA GainedKeeps ==
    ASSUME NEW k \in Clients, k.pc # "left"
    PROVE  LET j == [k EXCEPT !.pc = "idle", !.initial = FALSE]
           IN  /\ j \in Clients /\ j.failed = k.failed
               /\ ~k.initial => (IsInstance(j) => IsInstance(k))
BY DEF Clients, IsInstance

\* The usual case: c is no more an instance than before, and has failed if it had.
LEMMA SameClient ==
    ASSUME ClientBefore, NEW c \in Conns, NEW k \in Clients,
           client' = [client EXCEPT ![c] = k], permanentFailure' = permanentFailure,
           link' \in Links, Keeps(link, link'),
           k.failed = client[c].failed, IsInstance(k) => IsInstance(client[c])
    PROVE  ClientKeeps
<1>1. permanentFailure /\ IsInstance(k) => k.failed
  BY InstancesAre DEF ClientBefore, FailureReachesAll
<1> QED
  BY <1>1, OneClient

LEMMA GiveUpKeeps ==
    ASSUME ClientBefore, NEW c \in Conns, NEW k \in Clients, NEW before \in Seq(Events),
           NEW fatal, GiveUp(c, k, before, fatal), k.failed = client[c].failed,
           IsInstance(k) => IsInstance(client[c])
    PROVE  ClientKeeps
<1> DEFINE F == FailedWith(c, fatal)
           R(d) == IF d = c THEN k ELSE client[d]
           B(d) == IF d = c THEN before \o <<"failure">> ELSE <<"failure">>
<1>1. \A d \in Conns : R(d) \in Clients /\ B(d) \in Seq(Events)
  <2>1. <<"failure">> \in Seq(Events)
    BY DEF Events
  <2>2. before \o <<"failure">> \in Seq(Events)
    BY <2>1, ConcatProperties
  <2> QED
    BY <2>1, <2>2 DEF ClientBefore
<1>2. /\ client' = [d \in Conns |-> IF d \in F THEN Failed(R(d), B(d)) ELSE R(d)]
      /\ link' = End(link, {client[d].socket : d \in F})
      /\ permanentFailure' = (permanentFailure \/ fatal)
  BY DEF GiveUp
<1>3. link' \in Links /\ Keeps(link, link')
  BY <1>2, EndKeeps DEF ClientBefore
<1>4. \A d \in Conns : /\ IsInstance(R(d)) => IsInstance(client[d])
                       /\ R(d).failed = client[d].failed
  OBVIOUS
<1>5. \A d \in Conns : d \in F \/ ~IsInstance(client[d]) \/ ~fatal
  BY InstancesAre DEF FailedWith
<1> HIDE DEF F, R, B
<1>6. ASSUME NEW d \in Conns
      PROVE  /\ client'[d] \in Clients
             /\ d \in F => client'[d].failed
             /\ d \notin F => client'[d] = R(d)
             /\ IsInstance(client'[d]) => IsInstance(R(d))
  <2>1. CASE d \in F
    <3>1. client'[d] = Failed(R(d), B(d))
      BY <1>2, <2>1
    <3>2. LET f == Failed(R(d), B(d))
          IN  /\ f \in Clients /\ f.failed /\ f.initial = R(d).initial
              /\ f.disposed = R(d).disposed /\ f.pc = R(d).pc
      BY <1>1, FailedKeeps
    <3> QED
      BY <2>1, <3>1, <3>2 DEF IsInstance
  <2>2. CASE d \notin F
    BY <1>1, <1>2, <2>2
  <2> QED
    BY <2>1, <2>2
<1>7. client' \in [Conns -> Clients]
  BY <1>2, <1>6
<1>8. FailureReachesAll'
  <2> SUFFICES ASSUME permanentFailure', NEW d \in Conns, IsInstance(client'[d])
               PROVE  client'[d].failed
    BY InstancesAre DEF FailureReachesAll
  <2>1. IsInstance(client[d])
    BY <1>4, <1>6
  <2>2. CASE d \in F
    BY <1>6, <2>2
  <2>3. CASE d \notin F
    <3>1. permanentFailure
      BY <1>2, <1>5, <2>1, <2>3
    <3>2. client[d].failed
      BY <2>1, <3>1, InstancesAre DEF ClientBefore, FailureReachesAll
    <3> QED
      BY <1>4, <1>6, <2>3, <3>2
  <2> QED
    BY <2>2, <2>3
<1> QED
  BY <1>2, <1>3, <1>7, <1>8 DEF ClientBefore, ClientKeeps

\* Batches of events.
LEMMA Batches ==
    /\ <<>> \in Seq(Events) /\ <<"gain">> \in Seq(Events) /\ <<"lost">> \in Seq(Events)
    /\ <<"wait">> \in Seq(Events) /\ <<"running">> \in Seq(Events) /\ <<"failure">> \in Seq(Events)
    /\ <<"lost", "running">> \in Seq(Events) /\ <<"gain", "failure">> \in Seq(Events)
BY DEF Events

LEMMA SocketsStay ==
    ASSUME ClientBefore, link' = link
    PROVE  link' \in Links /\ Keeps(link, link')
BY DEF ClientBefore, Keeps

LEMMA BeginReconnectingKeeps ==
    ASSUME ClientBefore, NEW c \in Conns, NEW k \in Clients, BeginReconnecting(c, k),
           k.failed = client[c].failed, IsInstance(k), IsInstance(client[c])
    PROVE  ClientKeeps
<1>1. CASE /\ client' = [client EXCEPT ![c] =
                            Fire([k EXCEPT !.pc = "resolving", !.late = FALSE], <<"lost", "running">>)]
           /\ UNCHANGED <<link, permanentFailure>>
  <2> DEFINE j == [k EXCEPT !.pc = "resolving", !.late = FALSE]
             f == Fire(j, <<"lost", "running">>)
  <2>1. j \in Clients /\ j.failed = k.failed /\ j.initial = k.initial /\ j.disposed = k.disposed
    BY DEF Clients, Awaits
  <2>2. client' = [client EXCEPT ![c] = f]
    BY <1>1
  <2> HIDE DEF j
  <2>3. f \in Clients /\ f.failed = k.failed
    BY <2>1, Batches, FireKeeps
  <2> HIDE DEF f
  <2> QED
    BY <1>1, <2>2, <2>3, SameClient, SocketsStay
<1>2. CASE GiveUp(c, k, <<"lost">>, c \in Fatal)
  BY <1>2, Batches, GiveUpKeeps
<1> QED
  BY <1>1, <1>2 DEF BeginReconnecting

LEMMA HearCloseKeeps ==
    ASSUME ClientBefore, NEW c \in Conns, HearClose(c)
    PROVE  ClientKeeps
<1> DEFINE k == [client[c] EXCEPT !.heard = TRUE]
<1>1. k \in Clients /\ k.failed = client[c].failed /\ (IsInstance(k) <=> IsInstance(client[c]))
  BY HeardKeeps DEF ClientBefore
<1>2. CASE MayReconnect(c) /\ BeginReconnecting(c, k)
  <2>1. IsInstance(client[c])
    BY <1>2 DEF MayReconnect, IsInstance
  <2> HIDE DEF k
  <2> QED
    BY <1>1, <1>2, <2>1, BeginReconnectingKeeps
<1>3. CASE client' = [client EXCEPT ![c] = k] /\ UNCHANGED <<link, permanentFailure>>
  <2> HIDE DEF k
  <2> QED
    BY <1>1, <1>3, SameClient, SocketsStay
<1> QED
  BY <1>2, <1>3 DEF HearClose

LEMMA SocketTimesOutKeeps ==
    ASSUME ClientBefore, NEW c \in Conns, SocketTimesOut(c)
    PROVE  ClientKeeps
<1>1. client[c] \in Clients /\ IsInstance(client[c]) /\ BeginReconnecting(c, client[c])
  BY DEF ClientBefore, SocketTimesOut, MayReconnect, IsInstance
<1> QED
  BY <1>1, BeginReconnectingKeeps

\* A step that only moves a connection on, or marks that time has passed.
LEMMA MovesOn ==
    ASSUME ClientBefore, NEW c \in Conns, NEW pc \in Awaits \cup {"idle"}, NEW late \in BOOLEAN,
           client[c].pc # "left",
           client' = [client EXCEPT ![c] = [@ EXCEPT !.pc = pc, !.late = late]],
           link' \in Links, Keeps(link, link'), permanentFailure' = permanentFailure
    PROVE  ClientKeeps
<1> DEFINE k == [client[c] EXCEPT !.pc = pc, !.late = late]
<1>1. /\ k \in Clients /\ k.failed = client[c].failed
      /\ IsInstance(k) => IsInstance(client[c])
  BY MovedLateKeeps DEF ClientBefore
<1>2. client' = [client EXCEPT ![c] = k]
  OBVIOUS
<1> HIDE DEF k
<1> QED
  BY <1>1, <1>2, SameClient

LEMMA SocketOpensKeeps ==
    ASSUME ClientBefore, NEW c \in Conns, NEW s \in Sockets, SocketOpens(c, s)
    PROVE  ClientKeeps
<1> DEFINE k == [client[c] EXCEPT !.pc = "authenticating", !.socket = s, !.heard = FALSE]
           l == Open(s, c, client[c].initial)
<1>1. k \in Clients /\ k.failed = client[c].failed /\ (IsInstance(k) => IsInstance(client[c]))
  BY NewSocketKeeps DEF ClientBefore, SocketOpens
<1>2. client' = [client EXCEPT ![c] = k]
  BY DEF SocketOpens
<1>3. client[c].initial \in BOOLEAN
  BY DEF ClientBefore, Clients
<1>4. l \in Links /\ Keeps(link, l)
  BY <1>3, OpenKeeps DEF ClientBefore, SocketOpens
<1>5. link' = End(l, {client[c].socket}) /\ permanentFailure' = permanentFailure
  BY DEF SocketOpens
<1> HIDE DEF k, l
<1>6. link' \in Links /\ Keeps(link, link')
  BY <1>4, <1>5, EndKeeps, KeepsIsTransitive DEF ClientBefore
<1> QED
  BY <1>1, <1>2, <1>5, <1>6, SameClient

LEMMA ReadSignKeeps ==
    ASSUME ClientBefore, NEW c \in Conns, ReadSign(c)
    PROVE  ClientKeeps
<1>1. /\ client[c].pc = "authenticating" /\ client[c].socket \in Sockets
      /\ link[client[c].socket].stage = "sign"
  BY DEF ClientBefore, ReadSign, Reads, Clients
<1>2. link' \in Links /\ Keeps(link, link')
  BY <1>1, SayKeeps DEF ReadSign, ClientBefore, Stages
<1>3. /\ client' = [client EXCEPT ![c] = [@ EXCEPT !.pc = "requesting", !.late = client[c].late]]
      /\ client[c].late \in BOOLEAN
  BY DEF ReadSign, ClientBefore, Clients
<1> QED
  BY <1>1, <1>2, <1>3, MovesOn DEF ReadSign, Awaits

LEMMA TimePasses ==
    ASSUME ClientBefore, NEW c \in Conns, Resolve(c) \/ GraceElapses(c)
    PROVE  ClientKeeps
<1>1. link' \in Links /\ Keeps(link, link') /\ permanentFailure' = permanentFailure
  BY SocketsStay DEF Resolve, GraceElapses
<1>2. CASE Resolve(c)
  <2>1. /\ client' = [client EXCEPT ![c] = [@ EXCEPT !.pc = "connecting", !.late = client[c].late]]
        /\ client[c].late \in BOOLEAN /\ client[c].pc # "left"
    BY <1>2 DEF Resolve, ClientBefore, Clients
  <2> QED
    BY <1>1, <2>1, MovesOn DEF Awaits
<1>3. CASE GraceElapses(c)
  <2>1. /\ client' = [client EXCEPT ![c] = [@ EXCEPT !.pc = client[c].pc, !.late = TRUE]]
        /\ client[c].pc \in Awaits /\ client[c].pc # "left"
    BY <1>3 DEF GraceElapses, Looping, ClientBefore, Clients, Awaits
  <2> QED
    BY <1>1, <2>1, MovesOn
<1> QED
  BY <1>2, <1>3

LEMMA WakeKeeps ==
    ASSUME ClientBefore, NEW c \in Conns, Wake(c)
    PROVE  ClientKeeps
<1> DEFINE j == [client[c] EXCEPT !.pc = "idle"]
           r == [client[c] EXCEPT !.pc = "resolving"]
           f == Fire(r, <<"running">>)
           k == IF permanentFailure THEN j ELSE f
<1>1. /\ j \in Clients /\ j.failed = client[c].failed /\ (IsInstance(j) => IsInstance(client[c]))
      /\ r \in Clients /\ r.failed = client[c].failed /\ (IsInstance(r) => IsInstance(client[c]))
  BY MovedKeeps DEF Wake, ClientBefore, Awaits
<1>2. client' = [client EXCEPT ![c] = k]
  BY DEF Wake
<1>3. link' \in Links /\ Keeps(link, link') /\ permanentFailure' = permanentFailure
  BY SocketsStay DEF Wake
<1> HIDE DEF j, r
<1>4. k \in Clients /\ k.failed = client[c].failed /\ (IsInstance(k) => IsInstance(client[c]))
  BY <1>1, Batches, FireKeeps DEF IsInstance
<1> HIDE DEF k
<1> QED
  BY <1>2, <1>3, <1>4, SameClient

LEMMA DisposeKeeps ==
    ASSUME ClientBefore, NEW c \in Conns, Dispose(c)
    PROVE  ClientKeeps
<1> DEFINE k == [client[c] EXCEPT !.disposed = TRUE]
<1>1. k \in Clients /\ k.failed = client[c].failed /\ ~IsInstance(k)
  BY DisposedKeeps DEF ClientBefore
<1>2. client' = [client EXCEPT ![c] = k] /\ permanentFailure' = permanentFailure
  BY DEF Dispose
<1>3. link' \in Links /\ Keeps(link, link')
  BY FarewellKeeps DEF Dispose, ClientBefore
<1> HIDE DEF k
<1> QED
  BY <1>1, <1>2, <1>3, SameClient

LEMMA ReadAnswerKeeps ==
    ASSUME ClientBefore, NEW c \in Conns, ReadAnswer(c)
    PROVE  ClientKeeps
<1> DEFINE s == client[c].socket
           j == [client[c] EXCEPT !.pc = "idle", !.initial = FALSE]
           k == Fire(j, <<"gain">>)
           f == Failed(k, <<"gain", "failure">>)
<1>0. client[c].pc = "requesting" /\ client[c] \in Clients
  BY DEF ReadAnswer, ClientBefore
<1>1. /\ j \in Clients /\ j.failed = client[c].failed
      /\ ~client[c].initial => (IsInstance(j) => IsInstance(client[c]))
  BY <1>0, GainedKeeps
<1>cases. \/ client[c].initial /\ Connected(c, k)
      \/ /\ ~client[c].initial
         /\ client' = [client EXCEPT ![c] = k]
         /\ link' = [link EXCEPT ![s].bye = @ \/ (client[c].disposed /\ c \in HandedOver)]
         /\ UNCHANGED permanentFailure
  BY DEF ReadAnswer
<1> HIDE DEF j
<1>2. /\ k \in Clients /\ k.failed = client[c].failed
      /\ ~client[c].initial => (IsInstance(k) => IsInstance(client[c]))
  BY <1>1, Batches, FireKeeps DEF IsInstance
<1>3. CASE client[c].initial /\ Connected(c, k)
  <2> HIDE DEF k
  <2>1. CASE permanentFailure
    <3>1. /\ client' = [client EXCEPT ![c] = f] /\ link' = End(link, {client[c].socket})
          /\ permanentFailure' = permanentFailure
      BY <1>3, <2>1 DEF Connected
    <3>2. link' \in Links /\ Keeps(link, link')
      BY <3>1, EndKeeps DEF ClientBefore
    <3>3. f \in Clients /\ f.failed
      BY <1>2, Batches, FailedKeeps
    <3> HIDE DEF f
    <3> QED
      BY <3>1, <3>2, <3>3, OneClient
  <2>2. CASE ~permanentFailure
    <3>1. client' = [client EXCEPT ![c] = k] /\ UNCHANGED <<link, permanentFailure>>
      BY <1>3, <2>2 DEF Connected
    <3> QED
      BY <1>2, <2>2, <3>1, OneClient, SocketsStay
  <2> QED
    BY <2>1, <2>2
<1>4. CASE /\ ~client[c].initial
           /\ client' = [client EXCEPT ![c] = k]
           /\ link' = [link EXCEPT ![s].bye = @ \/ (client[c].disposed /\ c \in HandedOver)]
           /\ UNCHANGED permanentFailure
  <2> HIDE DEF k
  <2>1. s \in Sockets
    BY DEF ReadAnswer, Reads, ClientBefore, Clients
  <2> DEFINE bye == link[s].bye \/ (client[c].disposed /\ c \in HandedOver)
  <2>2. bye \in BOOLEAN /\ link' = [link EXCEPT ![s].bye = bye]
    BY <1>4
  <2> HIDE DEF bye
  <2>3. link' \in Links /\ Keeps(link, link')
    BY <2>1, <2>2, ByeKeeps DEF ClientBefore
  <2> QED
    BY <1>2, <1>4, <2>3, SameClient
<1> QED
  BY <1>cases, <1>3, <1>4

LEMMA InitialAttemptFailsKeeps ==
    ASSUME ClientBefore, NEW c \in Conns, InitialAttemptFails(c), client[c].pc # "left"
    PROVE  ClientKeeps
<1> DEFINE k == [client[c] EXCEPT !.socket = NoSocket]
           j == [k EXCEPT !.pc = "resolving", !.attempt = @ + 1]
           r == [k EXCEPT !.pc = "rejected"]
<1>1. client[c] \in Clients /\ client[c].initial
  BY DEF ClientBefore, InitialAttemptFails
<1>2. k \in Clients /\ k.failed = client[c].failed /\ k.initial /\ k.attempt = client[c].attempt
  BY <1>1 DEF Clients
<1>3. \/ /\ AttemptLeft(c)
         /\ client' = [client EXCEPT ![c] = j]
         /\ link' = End(link, {client[c].socket})
         /\ UNCHANGED permanentFailure
      \/ /\ permanentFailure' = TRUE
         /\ client' = [d \in Conns |-> IF d = c THEN r
                                       ELSE IF d \in Instances THEN Failed(client[d], <<"failure">>)
                                       ELSE client[d]]
         /\ link' = End(link, {client[d].socket : d \in Instances \cup {c}})
  BY DEF InitialAttemptFails
<1>4. CASE /\ AttemptLeft(c)
           /\ client' = [client EXCEPT ![c] = j]
           /\ link' = End(link, {client[c].socket})
           /\ UNCHANGED permanentFailure
  <2>1. client[c].attempt + 1 \in 1..MaxAttempts
    BY <1>1, <1>4 DEF AttemptLeft, Clients
  <2> HIDE DEF k
  <2>2. j \in Clients /\ ~IsInstance(j) /\ j.failed = client[c].failed
    BY <1>2, <2>1 DEF Clients, Awaits, IsInstance
  <2> HIDE DEF j
  <2>3. link' \in Links /\ Keeps(link, link')
    BY <1>4, EndKeeps DEF ClientBefore
  <2> QED
    BY <1>4, <2>2, <2>3, SameClient
<1>5. CASE /\ permanentFailure' = TRUE
           /\ client' = [d \in Conns |-> IF d = c THEN r
                                         ELSE IF d \in Instances THEN Failed(client[d], <<"failure">>)
                                         ELSE client[d]]
           /\ link' = End(link, {client[d].socket : d \in Instances \cup {c}})
  <2> HIDE DEF k
  <2>1. r \in Clients /\ ~IsInstance(r)
    BY <1>2 DEF Clients, IsInstance
  <2> HIDE DEF r
  <2>2. ASSUME NEW d \in Conns
        PROVE  client'[d] \in Clients /\ (IsInstance(client'[d]) => client'[d].failed)
    <3>1. CASE d = c
      BY <1>5, <2>1, <3>1
    <3>2. CASE d # c /\ d \in Instances
      <4>1. client'[d] = Failed(client[d], <<"failure">>)
        BY <1>5, <3>2
      <4>2. client[d] \in Clients
        BY DEF ClientBefore
      <4>3. <<"failure">> \in Seq(Events)
        BY Batches
      <4>4. Failed(client[d], <<"failure">>) \in Clients /\ Failed(client[d], <<"failure">>).failed
        BY <4>2, <4>3, FailedKeeps
      <4> QED
        BY <4>1, <4>4
    <3>3. CASE d # c /\ d \notin Instances
      <4>1. client'[d] = client[d] /\ ~IsInstance(client[d])
        BY <1>5, <3>3, InstancesAre
      <4> QED
        BY <4>1 DEF ClientBefore
    <3> QED
      BY <3>1, <3>2, <3>3
  <2>3. link' \in Links /\ Keeps(link, link')
    BY <1>5, EndKeeps DEF ClientBefore
  <2>4. client' \in [Conns -> Clients]
    BY <1>5, <2>2
  <2>5. FailureReachesAll'
    BY <2>2, InstancesAre DEF FailureReachesAll
  <2> QED
    BY <1>5, <2>3, <2>4, <2>5 DEF ClientKeeps
<1> QED
  BY <1>3, <1>4, <1>5

LEMMA ToIdle ==
    ASSUME ClientBefore, NEW c \in Conns, client[c].pc # "left"
    PROVE  LET k == [client[c] EXCEPT !.pc = "idle"]
           IN  k \in Clients /\ k.failed = client[c].failed /\ (IsInstance(k) => IsInstance(client[c]))
BY MovedKeeps DEF ClientBefore

LEMMA TryAgainKeeps ==
    ASSUME ClientBefore, NEW c \in Conns, TryAgain(c), client[c].pc # "left"
    PROVE  ClientKeeps
<1> DEFINE k == [client[c] EXCEPT !.pc = "idle"]
           j == [client[c] EXCEPT !.pc = "sleeping"]
           f == Fire(j, <<"wait">>)
<1>1. k \in Clients /\ k.failed = client[c].failed /\ (IsInstance(k) => IsInstance(client[c]))
  BY ToIdle
<1>2. j \in Clients /\ j.failed = client[c].failed /\ (IsInstance(j) => IsInstance(client[c]))
  BY MovedKeeps DEF ClientBefore, Awaits
<1>3. \/ GiveUp(c, k, <<>>, c \in Fatal)
      \/ client' = [client EXCEPT ![c] = k] /\ UNCHANGED <<link, permanentFailure>>
      \/ client' = [client EXCEPT ![c] = f] /\ UNCHANGED <<link, permanentFailure>>
  BY DEF TryAgain
<1> HIDE DEF k, j
<1>4. f \in Clients /\ f.failed = client[c].failed /\ (IsInstance(f) => IsInstance(client[c]))
  BY <1>2, Batches, FireKeeps DEF IsInstance
<1> HIDE DEF f
<1>5. CASE GiveUp(c, k, <<>>, c \in Fatal)
  BY <1>1, <1>5, Batches, GiveUpKeeps
<1>6. CASE client' = [client EXCEPT ![c] = k] /\ UNCHANGED <<link, permanentFailure>>
  BY <1>1, <1>6, SameClient, SocketsStay
<1>7. CASE client' = [client EXCEPT ![c] = f] /\ UNCHANGED <<link, permanentFailure>>
  BY <1>4, <1>7, SameClient, SocketsStay
<1> QED
  BY <1>3, <1>5, <1>6, <1>7

LEMMA FailuresKeep ==
    ASSUME ClientBefore, NEW c \in Conns, AttemptFails(c) \/ AttemptAborts(c) \/ ReadRefusal(c)
    PROVE  ClientKeeps
<1>1. client[c].pc # "left"
  BY DEF AttemptFails, AttemptAborts, ReadRefusal
<1>2. \/ InitialAttemptFails(c) \/ TryAgain(c)
      \/ GiveUp(c, [client[c] EXCEPT !.pc = "idle"], <<>>, c \in Fatal)
  BY DEF AttemptFails, AttemptAborts, ReadRefusal, Abort
<1>3. CASE GiveUp(c, [client[c] EXCEPT !.pc = "idle"], <<>>, c \in Fatal)
  BY <1>1, <1>3, ToIdle, Batches, GiveUpKeeps
<1> QED
  BY <1>1, <1>2, <1>3, InitialAttemptFailsKeeps, TryAgainKeeps

LEMMA WindowClosesKeeps ==
    ASSUME ClientBefore, NEW graceful \in BOOLEAN, WindowCloses(graceful)
    PROVE  ClientKeeps
<1>1. ASSUME NEW c \in Conns
      PROVE  client'[c] \in Clients /\ ~IsInstance(client'[c])
  <2>1. client[c] \in Clients /\ client'[c] = [client[c] EXCEPT !.pc = "left"]
    BY DEF ClientBefore, WindowCloses
  <2> QED
    BY <2>1 DEF Clients, IsInstance
<1>2. client' \in [Conns -> Clients]
  BY <1>1 DEF WindowCloses
<1>3. FailureReachesAll'
  BY <1>1, InstancesAre DEF FailureReachesAll
<1>4. link' \in Links /\ Keeps(link, link')
  BY EndKeeps, FarewellKeeps DEF WindowCloses, ClientBefore
<1> QED
  BY <1>2, <1>3, <1>4 DEF WindowCloses, ClientBefore, ClientKeeps

LEMMA ClientNextKeeps ==
    ASSUME ClientBefore, ClientNext
    PROVE  ClientKeeps
BY TimePasses, SocketOpensKeeps, ReadSignKeeps, ReadAnswerKeeps, FailuresKeep, WakeKeeps,
   HearCloseKeeps, SocketTimesOutKeeps, DisposeKeeps, WindowClosesKeeps
   DEF ClientNext, ClientStep

-----------------------------------------------------------------------------
(* The inductive invariant.                                                 *)

LEMMA InitOK == Init => IInv /\ FailureReachesAll
<1> SUFFICES ASSUME Init PROVE IInv /\ FailureReachesAll
  OBVIOUS
<1>1. link \in Links
  BY DEF Init, LinkInit, Unopened, Links, Stages
<1>2. client \in [Conns -> Clients] /\ permanentFailure \in BOOLEAN
  <2> DEFINE k == [pc |-> "resolving", initial |-> TRUE, attempt |-> 1, socket |-> NoSocket,
                   heard |-> FALSE, late |-> FALSE, failed |-> FALSE, disposed |-> FALSE,
                   events |-> <<>>]
  <2>1. <<>> \in Seq(Events) /\ 1 \in 1..MaxAttempts
    BY Batches
  <2>2. k \in Clients
    BY <2>1 DEF Clients, Awaits
  <2>3. client = [c \in Conns |-> k] /\ permanentFailure = FALSE
    BY DEF Init, ClientInit
  <2> HIDE DEF k
  <2> QED
    BY <2>2, <2>3
<1>3. /\ entry \in [Conns -> Entries] /\ \A c \in Conns : Fits(c, entry[c], link)
      /\ faults \in [restarts : 0..MaxRestarts, crashes : 0..MaxCrashes]
  BY NoEntryFits DEF Init, ServerInit
<1>4. FailureReachesAll
  BY DEF Init, ClientInit, FailureReachesAll
<1> QED
  BY <1>1, <1>2, <1>3, <1>4, IInvByParts

LEMMA IInvByPartsNext ==
    IInv' <=> /\ link' \in Links /\ client' \in [Conns -> Clients] /\ permanentFailure' \in BOOLEAN
              /\ entry' \in [Conns -> Entries]
              /\ faults' \in [restarts : 0..MaxRestarts, crashes : 0..MaxCrashes]
              /\ \A c \in Conns : Fits(c, entry'[c], link')
BY RegisteredFits
   DEF IInv, TypeOK, LinkTypeOK, ClientTypeOK, ServerTypeOK, Links, Clients, Entries, Opened

LEMMA NextOK == IInv /\ FailureReachesAll /\ [Next]_vars => (IInv /\ FailureReachesAll)'
<1> SUFFICES ASSUME IInv, FailureReachesAll, [Next]_vars PROVE IInv' /\ FailureReachesAll'
  OBVIOUS
<1>1. ServerBefore /\ ClientBefore
  BY IInvByParts DEF ServerBefore, ClientBefore
<1>2. CASE ClientNext /\ UNCHANGED serverVars
  <2>1. ClientKeeps /\ entry' = entry /\ faults' = faults
    BY <1>1, <1>2, ClientNextKeeps DEF serverVars
  <2>2. \A c \in Conns : Fits(c, entry'[c], link')
    BY <1>1, <2>1, FitsKept DEF ServerBefore, ClientKeeps
  <2> QED
    BY <1>1, <2>1, <2>2, IInvByPartsNext DEF ServerBefore, ClientKeeps
<1>3. CASE ServerNext /\ UNCHANGED clientVars
  <2>1. ServerKeeps /\ client' = client /\ permanentFailure' = permanentFailure
    BY <1>1, <1>3, ServerNextKeeps DEF clientVars
  <2>2. FailureReachesAll'
    BY <2>1, InstancesAre DEF FailureReachesAll
  <2> QED
    BY <1>1, <2>1, <2>2, IInvByPartsNext DEF ServerKeeps, ClientBefore
<1>4. CASE Network
  <2>1. /\ link' \in Links /\ Keeps(link, link')
        /\ client' = client /\ permanentFailure' = permanentFailure /\ entry' = entry /\ faults' = faults
    BY <1>1, <1>4, EndKeeps DEF Network, Break, ServerBefore, clientVars, serverVars
  <2>2. ServerKeeps
    BY <1>1, <2>1, NoNewEntry
  <2>3. FailureReachesAll'
    BY <2>1, InstancesAre DEF FailureReachesAll
  <2> QED
    BY <1>1, <2>1, <2>2, <2>3, IInvByPartsNext DEF ServerKeeps, ClientBefore
<1>5. CASE UNCHANGED vars
  <2>1. /\ link' = link /\ client' = client /\ permanentFailure' = permanentFailure
        /\ entry' = entry /\ faults' = faults
    BY <1>5 DEF vars, clientVars, serverVars
  <2>2. FailureReachesAll'
    BY <2>1, InstancesAre DEF FailureReachesAll
  <2> QED
    BY <1>1, <2>1, <2>2, IInvByPartsNext DEF ServerBefore, ClientBefore
<1> QED
  BY <1>2, <1>3, <1>4, <1>5 DEF Next

(* What is registered for a connection agrees with the sockets, always.     *)
THEOREM Invariance == Spec => []IInv
<1>1. Spec => [](IInv /\ FailureReachesAll)
  BY InitOK, NextOK, PTL DEF Spec
<1> QED
  BY <1>1, PTL

(* The sockets, the client's connections and the server's entries keep their *)
(* types.                                                                    *)
THEOREM TypeCorrect == Spec => []TypeOK
<1>1. IInv => TypeOK
  BY DEF IInv
<1> QED
  BY <1>1, Invariance, PTL

(* A grace timer runs for a connection exactly while its current socket is   *)
(* known to have closed, whatever sockets, crashes and restarts there are.   *)
THEOREM GraceTimersExact == Spec => []TimedIffAbandoned
<1>1. IInv => TimedIffAbandoned
  BY DEF IInv, Registered, TimedIffAbandoned
<1> QED
  BY <1>1, Invariance, PTL

(* A permanent failure reaches every connection of the window, also one      *)
(* whose initial connection was under way.                                   *)
THEOREM FailureSpreads == Spec => []FailureReachesAll
<1>1. Spec => [](IInv /\ FailureReachesAll)
  BY InitOK, NextOK, PTL DEF Spec
<1> QED
  BY <1>1, PTL

-----------------------------------------------------------------------------
(* What the sockets have been answered.                                     *)

\* From l to m: an opened socket stays that of its connection, does not come
\* alive and stays answered; answered are otherwise only those of A.
Moves(l, m, A) ==
    \A s \in Sockets :
        /\ l[s].stage # "unopened" => /\ m[s].stage # "unopened" /\ m[s].conn = l[s].conn
                                      /\ m[s].alive => l[s].alive
        /\ l[s].stage = "answered" => m[s].stage = "answered"
        /\ m[s].stage = "answered" => l[s].stage = "answered" \/ s \in A

LEMMA MovesIsTransitive ==
    ASSUME NEW l \in Links, NEW m \in Links, NEW n \in Links, NEW A, NEW B,
           Moves(l, m, A), Moves(m, n, B)
    PROVE  Moves(l, n, A \cup B)
BY DEF Moves

LEMMA StayMoves ==
    ASSUME NEW l \in Links
    PROVE  Moves(l, l, {})
BY DEF Moves

LEMMA EndMoves ==
    ASSUME NEW l \in Links, NEW S
    PROVE  /\ Moves(l, End(l, S), {})
           /\ \A s \in Sockets : s \in S => ~End(l, S)[s].alive
<1> DEFINE m == End(l, S)
<1>1. ASSUME NEW s \in Sockets
      PROVE  /\ m[s].stage = l[s].stage /\ m[s].conn = l[s].conn
             /\ m[s].alive => l[s].alive
             /\ s \in S => ~m[s].alive
  <2> DEFINE r == l[s]
  <2>1. m[s] = IF s \in S THEN [r EXCEPT !.alive = FALSE] ELSE r
    BY DEF End
  <2>2. r \in [conn : Conns \cup {NoConn}, fresh : BOOLEAN, stage : Stages,
               alive : BOOLEAN, bye : BOOLEAN]
    BY DEF Links
  <2> HIDE DEF r, m
  <2> QED
    BY <2>1, <2>2 DEF r
<1> HIDE DEF m
<1>2. Moves(l, m, {}) /\ \A s \in Sockets : s \in S => ~m[s].alive
  BY <1>1 DEF Moves
<1> QED
  BY <1>2 DEF m

LEMMA FarewellMoves ==
    ASSUME NEW l \in Links, NEW S
    PROVE  Moves(l, Farewell(l, S), {})
<1> DEFINE m == Farewell(l, S)
<1>1. ASSUME NEW s \in Sockets
      PROVE  /\ m[s].stage = l[s].stage /\ m[s].conn = l[s].conn
             /\ m[s].alive => l[s].alive
  <2>1. m[s] = IF s \in S THEN [l[s] EXCEPT !.alive = FALSE, !.bye = l[s].alive] ELSE l[s]
    BY DEF Farewell
  <2> DEFINE r == l[s]
  <2>2. r \in [conn : Conns \cup {NoConn}, fresh : BOOLEAN, stage : Stages,
               alive : BOOLEAN, bye : BOOLEAN]
    BY DEF Links
  <2> HIDE DEF r, m
  <2> QED
    BY <2>1, <2>2 DEF r
<1> HIDE DEF m
<1>2. Moves(l, m, {})
  BY <1>1 DEF Moves
<1> QED
  BY <1>2 DEF m

\* What is said on a socket that has not been answered.
LEMMA SayMoves ==
    ASSUME NEW l \in Links, NEW s \in Sockets, NEW stage \in Stages \ {"unopened"},
           l[s].stage \notin {"unopened", "answered"}
    PROVE  Moves(l, Say(l, s, stage), IF stage = "answered" THEN {s} ELSE {})
BY DEF Links, Say, Moves, Stages

LEMMA ByeMoves ==
    ASSUME NEW l \in Links, NEW s \in Sockets, NEW bye \in BOOLEAN
    PROVE  LET m == [l EXCEPT ![s].bye = bye] IN Moves(l, m, {})
BY DEF Links, Moves

LEMMA CheckingMoves ==
    ASSUME NEW l \in Links, NEW s \in Sockets, l[s].stage = "request"
    PROVE  Moves(l, [l EXCEPT ![s].stage = "checking"], {})
BY DEF Links, Moves

LEMMA OpenMoves ==
    ASSUME link \in Links, NEW s \in Sockets, NEW c \in Conns, NEW fresh \in BOOLEAN,
           link[s].stage = "unopened"
    PROVE  /\ Moves(link, Open(s, c, fresh), {})
           /\ Open(s, c, fresh)[s].conn = c /\ Open(s, c, fresh)[s].stage # "unopened"
BY DEF Links, Open, Moves

\* A management connection is registered with the one socket that was answered
\* for it and still works.
Answers ==
    \A s \in Sockets :
        (link[s].stage = "answered" /\ link[s].alive /\ link[s].conn \notin HandedOver)
            => entry[link[s].conn].socket = s

\* A step that answers nobody but connections whose sockets are handed over,
\* and takes from a management connection no socket that stays open.
LEMMA AnswersKept ==
    ASSUME link \in Links, link' \in Links, NEW A, Moves(link, link', A), Answers,
           \A s \in A : link[s].conn \in HandedOver,
           \A s \in A : link[s].stage # "unopened",
           \A c \in Conns \ HandedOver :
               \/ entry'[c].socket = entry[c].socket
               \/ \A s \in Sockets : s = entry[c].socket => ~link'[s].alive
    PROVE  Answers'
<1> SUFFICES ASSUME NEW s \in Sockets, link'[s].stage = "answered", link'[s].alive,
                    link'[s].conn \notin HandedOver
             PROVE  entry'[link'[s].conn].socket = s
  BY DEF Answers
<1>1. link[s].stage # "unopened" /\ link[s].conn = link'[s].conn /\ link[s].alive
  BY DEF Moves
<1>2. link[s].stage = "answered"
  BY <1>1 DEF Moves
<1>3. link[s].conn \in Conns
  BY <1>1 DEF Links
<1> QED
  BY <1>1, <1>2, <1>3 DEF Answers

LEMMA SomeMove ==
    ASSUME NEW l, NEW m, NEW A, Moves(l, m, A)
    PROVE  Moves(l, m, Sockets)
BY DEF Moves

\* What a step of the server has to show of the answers.
ServerAnswers == Moves(link, link', Sockets) /\ Answers'

\* A step of the server that answers nobody.
LEMMA NoAnswer ==
    ASSUME ServerBefore, ServerKeeps, Answers, Moves(link, link', {}),
           \A c \in Conns \ HandedOver :
               \/ entry'[c].socket = entry[c].socket
               \/ \A s \in Sockets : s = entry[c].socket => ~link'[s].alive
    PROVE  ServerAnswers
BY AnswersKept, SomeMove DEF ServerBefore, ServerKeeps, ServerAnswers

\* Shortening grace times changes no socket.
LEMMA ShortenAllSockets ==
    ASSUME ServerBefore
    PROVE  \A d \in Conns : ShortenAll[d].socket = entry[d].socket
<1> SUFFICES ASSUME NEW d \in Conns PROVE ShortenAll[d].socket = entry[d].socket
  OBVIOUS
<1> DEFINE e == entry[d]
<1>1. e \in Entries
  BY DEF ServerBefore
<1>2. CASE d \in HandedOver
  <2>1. ShortenAll[d] = [e EXCEPT !.reduce = e.proc \notin {"none", "exited"}]
    BY <1>2 DEF ShortenAll
  <2> HIDE DEF e
  <2> QED
    BY <1>1, <2>1 DEF Entries, e
<1>3. CASE d \notin HandedOver
  <2>1. ShortenAll[d] = Shortened(e)
    BY <1>3 DEF ShortenAll
  <2>2. Shortened(e).socket = e.socket
    BY <1>1 DEF Shortened, Entries
  <2> QED
    BY <2>1, <2>2
<1> QED
  BY <1>2, <1>3

\* Something other than the answer is said, and then perhaps the socket ends.
LEMMA SayThenEndMoves ==
    ASSUME link \in Links, NEW s \in Sockets, NEW stage \in Stages \ {"unopened", "checking"},
           link[s].stage \notin {"unopened", "answered"}, NEW S
    PROVE  LET A == IF stage = "answered" THEN {s} ELSE {}
           IN  /\ Moves(link, Say(link, s, stage), A)
               /\ Moves(link, End(Say(link, s, stage), S), A)
               /\ \A t \in Sockets : t \in S => ~End(Say(link, s, stage), S)[t].alive
<1> DEFINE l == Say(link, s, stage)
           A == IF stage = "answered" THEN {s} ELSE {}
<1>1. l \in Links /\ Moves(link, l, A)
  BY SayKeeps, SayMoves
<1>2. /\ End(l, S) \in Links /\ Moves(l, End(l, S), {})
      /\ \A t \in Sockets : t \in S => ~End(l, S)[t].alive
  BY <1>1, EndKeeps, EndMoves
<1> HIDE DEF l, A
<1>3. Moves(link, End(l, S), A \cup {})
  BY <1>1, <1>2, MovesIsTransitive
<1>4. A \cup {} = A
  OBVIOUS
<1> QED
  BY <1>1, <1>2, <1>3, <1>4 DEF l, A

LEMMA ReceiveAuthAnswers ==
    ASSUME ServerBefore, ServerKeeps, Answers, NEW s \in Sockets, ReceiveAuth(s)
    PROVE  ServerAnswers
<1>1. link \in Links /\ entry' = entry /\ link[s].stage = "auth"
  BY DEF ServerBefore, ReceiveAuth, serverVars
<1>2. link' = Say(link, s, "sign") \/ link' = End(Say(link, s, "refused"), {s})
  BY DEF ReceiveAuth
<1>3. Moves(link, link', {})
  BY <1>1, <1>2, SayThenEndMoves DEF Stages
<1> QED
  BY <1>1, <1>3, NoAnswer

LEMMA DecideAnswers ==
    ASSUME ServerBefore, ServerKeeps, Answers, NEW s \in Sockets, Decide(s)
    PROVE  ServerAnswers
<1>1. link \in Links /\ link[s].stage = "checking" /\ link[s].conn \in HandedOver
  BY DEF ServerBefore, Decide, Links
<1>2. \A c \in Conns \ HandedOver : entry'[c].socket = entry[c].socket
  BY <1>1 DEF Decide, ServerBefore
<1>3. link' = Say(link, s, "answered") \/ link' = End(Say(link, s, "refused"), {s})
  BY DEF Decide, Refuse
<1>4. Moves(link, link', {}) \/ Moves(link, link', {s})
  BY <1>1, <1>3, SayThenEndMoves DEF Stages
<1>5. Moves(link, link', {s})
  BY <1>4 DEF Moves
<1>6. link' \in Links
  BY DEF ServerKeeps
<1>7. Answers'
  BY <1>1, <1>2, <1>5, <1>6, AnswersKept
<1> QED
  BY <1>5, <1>7, SomeMove DEF ServerAnswers

LEMMA ReceiveRequestAnswers ==
    ASSUME ServerBefore, ServerKeeps, Answers, NEW s \in Sockets, ReceiveRequest(s)
    PROVE  ServerAnswers
<1> DEFINE c == link[s].conn
<1>1. /\ link \in Links /\ link' \in Links /\ entry \in [Conns -> Entries] /\ c \in Conns
      /\ link[s].stage = "request"
  BY DEF ServerBefore, ServerKeeps, ReceiveRequest, Links
<1>2. \A d \in Conns : ShortenAll[d].socket = entry[d].socket
  BY ShortenAllSockets
<1>3. CASE c \in HandedOver
  <2>1. link' = [link EXCEPT ![s].stage = "checking"] /\ entry' = ShortenAll
    BY <1>3 DEF ReceiveRequest
  <2>2. Moves(link, link', {})
    BY <1>1, <2>1, CheckingMoves
  <2> QED
    BY <1>2, <2>1, <2>2, NoAnswer
<1>4. CASE c \notin HandedOver /\ Refused(s)
  <2>1. link' = End(Say(link, s, "refused"), {s}) /\ entry' = ShortenAll
    BY <1>4 DEF ReceiveRequest, Refuse
  <2>2. Moves(link, link', {})
    BY <1>1, <2>1, SayThenEndMoves DEF Stages
  <2> QED
    BY <1>2, <2>1, <2>2, NoAnswer
<1>5. CASE c \notin HandedOver /\ ~Refused(s)
  <2> DEFINE e == ShortenAll[c]
             f == [Reconnected(e, s) EXCEPT !.live = TRUE]
             old == entry[c].socket
  <2>1. link' = End(Say(link, s, "answered"), {old}) /\ entry' = [ShortenAll EXCEPT ![c] = f]
    BY <1>5 DEF ReceiveRequest, AcceptManagement
  <2>2. Moves(link, link', {s}) /\ \A t \in Sockets : t = old => ~link'[t].alive
    BY <1>1, <2>1, SayThenEndMoves DEF Stages
  <2>3. e \in Entries
    BY <1>1, ShortenAllFits
  <2> HIDE DEF e
  <2>4. f.socket = s
    BY <2>3 DEF Reconnected, Entries
  <2> HIDE DEF f
  <2>5. ShortenAll \in [Conns -> Entries]
    BY ShortenAllFits
  <2>6. \A d \in Conns : entry'[d].socket = IF d = c THEN s ELSE entry[d].socket
    BY <1>1, <1>2, <2>1, <2>4, <2>5
  <2>7. Answers'
    <3> SUFFICES ASSUME NEW t \in Sockets, link'[t].stage = "answered", link'[t].alive,
                        link'[t].conn \notin HandedOver
                 PROVE  entry'[link'[t].conn].socket = t
      BY DEF Answers
    <3>1. /\ link[t].stage # "unopened" /\ link[t].conn = link'[t].conn /\ link[t].alive
          /\ link[t].stage = "answered" \/ t = s
      BY <1>1, <2>2 DEF Moves
    <3>2. link[t].conn \in Conns
      BY <1>1, <3>1 DEF Links
    <3>3. CASE t = s
      BY <1>1, <2>6, <3>1, <3>3
    <3>4. CASE t # s
      <4>1. entry[link[t].conn].socket = t
        BY <3>1, <3>4 DEF Answers
      <4>2. link[t].conn # c
        BY <2>2, <4>1
      <4> QED
        BY <2>6, <3>1, <3>2, <4>1, <4>2
    <3> QED
      BY <3>3, <3>4
  <2> QED
    BY <2>2, <2>7, SomeMove DEF ServerAnswers
<1> QED
  BY <1>3, <1>4, <1>5

\* Of a process there is only one for an extension host connection.
LEMMA ProcessesAreHandedOver ==
    ASSUME ServerBefore, NEW c \in Conns, entry[c].proc # "none"
    PROVE  c \in HandedOver
BY DEF ServerBefore, Fits

LEMMA ExitAnswers ==
    ASSUME ServerBefore, ServerKeeps, Answers, NEW c \in HandedOver, Exit(c)
    PROVE  ServerAnswers
<1> DEFINE e == [NoEntry EXCEPT !.live = TRUE, !.proc = "exited", !.data = entry[c].data]
<1>1. PICK dead \in SUBSET entry[c].transit : link' = End(link, dead \cup {entry[c].socket})
  BY DEF Exit
<1>2. entry' = [entry EXCEPT ![c] = e]
  BY DEF Exit
<1> HIDE DEF e
<1>3. \A d \in Conns \ HandedOver : entry'[d] = entry[d]
  BY <1>2 DEF ServerBefore
<1>4. Moves(link, link', {})
  BY <1>1, EndMoves DEF ServerBefore
<1> QED
  BY <1>3, <1>4, NoAnswer

LEMMA ProcessStepAnswers ==
    ASSUME ServerBefore, ServerKeeps, Answers, NEW c \in Conns,
           \/ Fork(c) \/ AsksForSocket(c) \/ ReadyArrives(c) \/ ReduceArrives(c)
           \/ (\E s \in Sockets : Attach(c, s)) \/ ExitHeard(c)
    PROVE  ServerAnswers
<1>1. c \in HandedOver
  BY ProcessesAreHandedOver
     DEF Fork, AsksForSocket, ReadyArrives, ReduceArrives, Attach, ExitHeard, Listens
<1>2. \A d \in Conns \ HandedOver : entry'[d] = entry[d]
  BY <1>1 DEF ServerBefore, Fork, AsksForSocket, ReadyArrives, ReduceArrives, Attach, ExitHeard
<1>3. link' = link \/ \E S : link' = End(link, S)
  BY DEF Fork, AsksForSocket, ReadyArrives, ReduceArrives, Attach, ExitHeard
<1>4. Moves(link, link', {})
  BY <1>3, EndMoves, StayMoves DEF ServerBefore
<1> QED
  BY <1>2, <1>4, NoAnswer

LEMMA ProcessEndAnswers ==
    ASSUME ServerBefore, ServerKeeps, Answers, NEW c \in Conns, StartTimesOut(c) \/ Crash(c)
    PROVE  ServerAnswers
BY ProcessesAreHandedOver, ExitAnswers DEF StartTimesOut, Crash, Listens

LEMMA HearClosedAnswers ==
    ASSUME ServerBefore, ServerKeeps, Answers, NEW c \in Conns, HearClosed(c)
    PROVE  ServerAnswers
<1> DEFINE e == entry[c]
           f == [e EXCEPT !.closed = TRUE, !.long = TRUE]
<1>1. e \in Entries /\ entry' = [entry EXCEPT ![c] = f] /\ link' = link
  BY DEF ServerBefore, HearClosed
<1> HIDE DEF e
<1>2. f.socket = e.socket
  BY <1>1 DEF Entries
<1> HIDE DEF f
<1>3. \A d \in Conns : entry'[d].socket = entry[d].socket
  BY <1>1, <1>2 DEF ServerBefore, e
<1> QED
  BY <1>1, <1>3, StayMoves, NoAnswer DEF ServerBefore

LEMMA LeavingAnswers ==
    ASSUME ServerBefore, ServerKeeps, Answers, NEW c \in Conns, GraceExpires(c) \/ DisconnectArrives(c)
    PROVE  ServerAnswers
<1>1. CleanResources(c)
  BY DEF GraceExpires, DisconnectArrives
<1>2. CASE c \in HandedOver
  BY <1>1, <1>2, ExitAnswers DEF CleanResources
<1>3. CASE c \notin HandedOver
  <2>1. entry' = [entry EXCEPT ![c] = NoEntry] /\ link' = End(link, {entry[c].socket})
    BY <1>1, <1>3 DEF CleanResources
  <2>2. Moves(link, link', {}) /\ \A s \in Sockets : s = entry[c].socket => ~link'[s].alive
    BY <2>1, EndMoves DEF ServerBefore
  <2>3. \A d \in Conns : d # c => entry'[d] = entry[d]
    BY <2>1 DEF ServerBefore
  <2> QED
    BY <2>2, <2>3, NoAnswer
<1> QED
  BY <1>2, <1>3

LEMMA RestartAnswers ==
    ASSUME ServerBefore, Restart
    PROVE  ServerAnswers
<1>1. \A s \in Sockets :
        link'[s] = [link[s] EXCEPT !.alive = FALSE,
                                   !.stage = IF @ \in {"auth", "request", "checking"} THEN "lost" ELSE @]
  BY DEF Restart
<1>2. ASSUME NEW s \in Sockets
      PROVE  /\ link'[s].stage \in {link[s].stage, "lost"}
             /\ link[s].stage \in {"answered", "unopened"} => link'[s].stage = link[s].stage
             /\ link'[s].conn = link[s].conn /\ ~link'[s].alive
  <2> DEFINE r == link[s]
  <2>1. r \in [conn : Conns \cup {NoConn}, fresh : BOOLEAN, stage : Stages,
               alive : BOOLEAN, bye : BOOLEAN]
    BY DEF ServerBefore, Links
  <2>2. link'[s] = [r EXCEPT !.alive = FALSE,
                             !.stage = IF @ \in {"auth", "request", "checking"} THEN "lost" ELSE @]
    BY <1>1
  <2> HIDE DEF r
  <2> QED
    BY <2>1, <2>2 DEF Stages, r
<1>3. Moves(link, link', Sockets)
  BY <1>2 DEF Moves
<1>4. Answers'
  BY <1>2 DEF Answers
<1> QED
  BY <1>3, <1>4 DEF ServerAnswers

LEMMA ServerNextAnswers ==
    ASSUME ServerBefore, Answers, ServerNext
    PROVE  ServerAnswers
<1>1. ServerKeeps
  BY ServerNextKeeps
<1> QED
  BY <1>1, ReceiveAuthAnswers, ReceiveRequestAnswers, DecideAnswers, ProcessStepAnswers,
     ProcessEndAnswers, HearClosedAnswers, LeavingAnswers, RestartAnswers
     DEF ServerNext

LEMMA SocketOpensMoves ==
    ASSUME ClientBefore, NEW c \in Conns, NEW s \in Sockets, SocketOpens(c, s)
    PROVE  /\ Moves(link, link', {})
           /\ link'[s].conn = c /\ link'[s].stage # "unopened"
<1> DEFINE l == Open(s, c, client[c].initial)
<1>1. client[c].initial \in BOOLEAN /\ link \in Links
  BY DEF ClientBefore, Clients
<1>2. l \in Links /\ Moves(link, l, {}) /\ l[s].conn = c /\ l[s].stage # "unopened"
  BY <1>1, OpenKeeps, OpenMoves DEF SocketOpens
<1>3. link' = End(l, {client[c].socket})
  BY DEF SocketOpens
<1> HIDE DEF l
<1>4. link' \in Links /\ Moves(l, link', {})
  BY <1>2, <1>3, EndKeeps, EndMoves
<1>5. Moves(link, link', {} \cup {}) /\ {} \cup {} = {}
  BY <1>1, <1>2, <1>4, MovesIsTransitive
<1> QED
  BY <1>2, <1>4, <1>5 DEF Moves

LEMMA ReadSignMoves ==
    ASSUME ClientBefore, NEW c \in Conns, ReadSign(c)
    PROVE  Moves(link, link', {})
<1>1. client[c].socket \in Sockets /\ link[client[c].socket].stage = "sign" /\ link \in Links
  BY DEF ClientBefore, ReadSign, Reads, Clients
<1> QED
  BY <1>1, SayMoves DEF ReadSign, Stages

LEMMA ReadAnswerMoves ==
    ASSUME ClientBefore, NEW c \in Conns, ReadAnswer(c)
    PROVE  Moves(link, link', {})
<1> DEFINE s == client[c].socket
           bye == link[s].bye \/ (client[c].disposed /\ c \in HandedOver)
<1>1. s \in Sockets /\ link \in Links
  BY DEF ClientBefore, ReadAnswer, Reads, Clients
<1>2. \/ link' = link \/ link' = End(link, {s})
      \/ bye \in BOOLEAN /\ link' = [link EXCEPT ![s].bye = bye]
  BY DEF ReadAnswer, Connected
<1> HIDE DEF bye
<1> QED
  BY <1>1, <1>2, StayMoves, EndMoves, ByeMoves

\* The steps after which sockets are as they were, or closed.
LEMMA ClosingMoves ==
    ASSUME link \in Links, link' = link \/ (\E S : link' = End(link, S) \/ link' = Farewell(link, S))
    PROVE  Moves(link, link', {})
BY StayMoves, EndMoves, FarewellMoves

LEMMA OthersMove ==
    ASSUME ClientBefore, NEW c \in Conns,
           \/ Resolve(c) \/ ReadRefusal(c) \/ AttemptFails(c) \/ AttemptAborts(c) \/ Wake(c)
           \/ GraceElapses(c) \/ HearClose(c) \/ SocketTimesOut(c) \/ Dispose(c)
    PROVE  Moves(link, link', {})
<1>1. CASE Resolve(c) \/ Wake(c) \/ GraceElapses(c) \/ Dispose(c)
  BY <1>1, ClosingMoves DEF ClientBefore, Resolve, Wake, GraceElapses, Dispose
<1>2. CASE ReadRefusal(c) \/ AttemptFails(c) \/ AttemptAborts(c)
  BY <1>2, ClosingMoves
     DEF ClientBefore, ReadRefusal, AttemptFails, AttemptAborts, Abort, InitialAttemptFails, TryAgain, GiveUp
<1>3. CASE HearClose(c) \/ SocketTimesOut(c)
  BY <1>3, ClosingMoves DEF ClientBefore, HearClose, SocketTimesOut, BeginReconnecting, GiveUp
<1> QED
  BY <1>1, <1>2, <1>3

LEMMA ClientNextMoves ==
    ASSUME ClientBefore, ClientNext
    PROVE  Moves(link, link', {})
<1>1. ASSUME NEW graceful \in BOOLEAN, WindowCloses(graceful) PROVE Moves(link, link', {})
  BY <1>1, ClosingMoves DEF ClientBefore, WindowCloses
<1> QED
  BY <1>1, SocketOpensMoves, ReadSignMoves, ReadAnswerMoves, OthersMove DEF ClientNext, ClientStep

-----------------------------------------------------------------------------
(* What the events say.                                                     *)

\* Sequences of one and of two events.
LEMMA EndsOfBatches ==
    /\ <<"gain">> # <<>> /\ Latest(<<"gain">>) = "gain"
    /\ <<"wait">> # <<>> /\ Latest(<<"wait">>) = "wait"
    /\ <<"running">> # <<>> /\ Latest(<<"running">>) = "running"
    /\ <<"failure">> # <<>> /\ Latest(<<"failure">>) = "failure"
    /\ <<"lost", "running">> # <<>> /\ Latest(<<"lost", "running">>) = "running"
    /\ <<"lost", "failure">> # <<>> /\ Latest(<<"lost", "failure">>) = "failure"
    /\ <<"gain", "failure">> # <<>> /\ Latest(<<"gain", "failure">>) = "failure"
    /\ <<>> \o <<"failure">> = <<"failure">> /\ <<"lost">> \o <<"failure">> = <<"lost", "failure">>
<1>1. /\ Len(<<"gain">>) = 1 /\ Len(<<"wait">>) = 1 /\ Len(<<"running">>) = 1
      /\ Len(<<"failure">>) = 1 /\ Len(<<"lost", "running">>) = 2
      /\ Len(<<"lost", "failure">>) = 2 /\ Len(<<"gain", "failure">>) = 2 /\ Len(<<>>) = 0
  OBVIOUS
<1>2. <<>> \o <<"failure">> = <<"failure">>
  BY Batches, ConcatEmptySeq
<1>3. <<"lost">> \o <<"failure">> = <<"lost", "failure">>
  <2> DEFINE s == <<"lost">> \o <<"failure">>
             t == <<"lost", "failure">>
  <2>1. s \in Seq(Events) /\ Len(s) = 2 /\ s[1] = "lost" /\ s[2] = "failure"
    BY Batches, ConcatProperties
  <2>2. t \in Seq(Events) /\ Len(t) = 2 /\ t[1] = "lost" /\ t[2] = "failure"
    BY DEF Events
  <2> HIDE DEF s, t
  <2>3. \A i \in 1..Len(s) : s[i] = t[i]
    BY <2>1, <2>2
  <2> QED
    BY <2>1, <2>2, <2>3, SeqEqual DEF s, t
<1> QED
  BY <1>1, <1>2, <1>3 DEF Latest

LEMMA NothingFollows ==
    ASSUME NEW old, NEW order
    PROVE  FollowsOn(old, old, order)
BY DEF FollowsOn

LEMMA OneFollows ==
    ASSUME NEW old, NEW e, NEW order, old = <<>> \/ <<Latest(old), e>> \in order
    PROVE  FollowsOn(old, <<e>>, order)
<1>1. CASE old = <<>>
  <2>1. Len(<<e>>) - 1 = 0
    OBVIOUS
  <2> QED
    BY <1>1, <2>1 DEF FollowsOn
<1>2. CASE old # <<>>
  <2> DEFINE x == Latest(old)
             run == <<x>> \o <<e>>
  <2>1. Len(run) = 2 /\ run[1] = x /\ run[2] = e
    OBVIOUS
  <2>2. <<x, e>> \in order
    BY <1>2
  <2> HIDE DEF x, run
  <2>3. \A i \in 1..(Len(run) - 1) : i = 1
    BY <2>1
  <2>4. \A i \in 1..(Len(run) - 1) : <<run[i], run[i + 1]>> \in order
    BY <2>1, <2>2, <2>3
  <2> QED
    BY <1>2, <2>4 DEF FollowsOn, x, run
<1> QED
  BY <1>1, <1>2

LEMMA TwoFollow ==
    ASSUME NEW old, NEW e, NEW f, NEW order, old = <<>> \/ <<Latest(old), e>> \in order,
           <<e, f>> \in order
    PROVE  FollowsOn(old, <<e, f>>, order)
<1>1. CASE old = <<>>
  <2>1. Len(<<e, f>>) - 1 = 1 /\ <<e, f>>[1] = e /\ <<e, f>>[1 + 1] = f
    OBVIOUS
  <2> DEFINE run == <<e, f>>
  <2>2. \A i \in 1..(Len(run) - 1) : <<run[i], run[i + 1]>> \in order
    BY <2>1
  <2> QED
    BY <1>1, <2>2 DEF FollowsOn
<1>2. CASE old # <<>>
  <2> DEFINE x == Latest(old)
             run == <<x>> \o <<e, f>>
  <2>1. Len(run) - 1 = 2 /\ run[1] = x /\ run[2] = e /\ run[3] = f
    OBVIOUS
  <2>2. <<x, e>> \in order
    BY <1>2
  <2> HIDE DEF x, run
  <2>3. \A i \in 1..2 : i = 1 \/ i = 2
    OBVIOUS
  <2>4. \A i \in 1..2 : <<run[i], run[i + 1]>> \in order
    BY <2>1, <2>2, <2>3
  <2>5. \A i \in 1..(Len(run) - 1) : <<run[i], run[i + 1]>> \in order
    BY <2>1, <2>4
  <2> QED
    BY <1>2, <2>5 DEF FollowsOn, x, run
<1> QED
  BY <1>1, <1>2

LEMMA OrderOfEvents ==
    /\ <<"gain", "lost">> \in EventOrder /\ <<"lost", "running">> \in EventOrder
    /\ <<"running", "wait">> \in EventOrder /\ <<"wait", "running">> \in EventOrder
    /\ <<"running", "gain">> \in EventOrder /\ <<"failure", "gain">> \in EventOrder
    /\ \A e \in Events : <<e, "failure">> \in EventOrder
BY DEF EventOrder

\* The last event of a connection says where its loop is: e is that event, pc
\* the place and pf whether there is a permanent failure.
Expected(c, e, pc, pf) ==
    \/ e = "failure" /\ (c \in Fatal => pf)
    \/ e = "gain" /\ pc = "idle"
    \/ e = "wait" /\ pc = "sleeping" /\ ~pf
    \/ e = "running" /\ pc \in Awaits \ {"sleeping"} /\ ~pf

\* Connection c, of which k is the record, has been told what it should.
Told(c, k, pf) ==
    /\ k.initial => k.events = <<>> /\ ~k.disposed /\ k.pc # "sleeping"
    /\ IsInstance(k) => k.events # <<>> /\ Expected(c, Latest(k.events), k.pc, pf)

\* A step from record k to record m that leaves it so.
Tells(c, k, m, pf) ==
    /\ Told(c, m, pf)
    /\ c \in Fatal => FollowsOn(k.events, m.events, EventOrder)

\* The socket of c is its own, and was answered if c was told of a gain.
Holds(c, k, l) ==
    k.socket # NoSocket =>
        /\ l[k.socket].stage # "unopened" /\ l[k.socket].conn = c
        /\ (IsInstance(k) /\ Latest(k.events) = "gain") => l[k.socket].stage = "answered"

\* The socket stays or goes, and there is no new gain.
LEMMA HoldsOn ==
    ASSUME NEW c, NEW k \in Clients, NEW m \in Clients, NEW l, NEW n, Holds(c, k, l),
           Moves(l, n, Sockets), m.socket \in {k.socket, NoSocket},
           (IsInstance(m) /\ Latest(m.events) = "gain") => (IsInstance(k) /\ Latest(k.events) = "gain")
    PROVE  Holds(c, m, n)
<1> SUFFICES ASSUME m.socket # NoSocket PROVE Holds(c, m, n)
  BY DEF Holds
<1>1. m.socket = k.socket /\ m.socket \in Sockets
  BY DEF Clients
<1> QED
  BY <1>1 DEF Holds, Moves

\* Nothing is fired: c is no instance any more, or goes on where it was, or
\* leaves its loop after the permanent failure it has been told of.
LEMMA QuietTells ==
    ASSUME NEW c \in Conns, NEW k \in Clients, NEW m \in Clients, NEW pf \in BOOLEAN, NEW pg \in BOOLEAN,
           Told(c, k, pf), m.events = k.events, m.initial = k.initial, m.initial => ~m.disposed /\ m.pc # "sleeping",
           IsInstance(m) => /\ IsInstance(k) /\ pg = pf
                            /\ \/ m.pc = k.pc
                               \/ m.pc \in Awaits \ {"sleeping"} /\ k.pc \in Awaits \ {"sleeping"}
                               \/ pf /\ k.pc # "idle"
    PROVE  Tells(c, k, m, pg)
<1>1. FollowsOn(k.events, m.events, EventOrder)
  BY NothingFollows
<1>2. Told(c, m, pg)
  BY DEF Told, Expected, Awaits
<1> QED
  BY <1>1, <1>2 DEF Tells

\* The fields of a record after events have been fired.
FiresOn(k, j, m, batch) ==
    /\ m.initial = j.initial /\ m.disposed = k.disposed /\ m.pc = j.pc
    /\ m.events = IF k.disposed THEN k.events ELSE batch

\* A disposed connection is told nothing.
LEMMA DisposedTells ==
    ASSUME NEW c \in Conns, NEW k \in Clients, NEW m \in Clients, NEW pf, NEW pg, NEW j, NEW batch,
           Told(c, k, pf), k.disposed, FiresOn(k, j, m, batch), ~j.initial
    PROVE  Tells(c, k, m, pg) /\ ~IsInstance(m)
BY NothingFollows DEF FiresOn, Tells, Told, IsInstance

LEMMA LoopBegins ==
    ASSUME NEW c \in Conns, NEW k \in Clients, NEW m \in Clients, NEW j,
           Told(c, k, FALSE), IsInstance(k), k.pc = "idle",
           FiresOn(k, j, m, <<"lost", "running">>), ~j.initial, j.pc = "resolving"
    PROVE  Tells(c, k, m, FALSE) /\ Latest(m.events) # "gain"
<1>1. k.events # <<>> /\ (c \in Fatal => Latest(k.events) = "gain") /\ m.events = <<"lost", "running">>
  BY DEF Told, Expected, FiresOn, IsInstance, Awaits
<1>2. c \in Fatal => FollowsOn(k.events, m.events, EventOrder)
  BY <1>1, OrderOfEvents, TwoFollow
<1>3. Told(c, m, FALSE) /\ Latest(m.events) # "gain"
  BY <1>1, EndsOfBatches DEF Told, FiresOn, Expected, Awaits
<1> QED
  BY <1>2, <1>3 DEF Tells

LEMMA LoopWaits ==
    ASSUME NEW c \in Conns, NEW k \in Clients, NEW m \in Clients, NEW j,
           Told(c, k, FALSE), IsInstance(k), k.pc \in Awaits \ {"sleeping"},
           FiresOn(k, j, m, <<"wait">>), ~j.initial, j.pc = "sleeping"
    PROVE  Tells(c, k, m, FALSE) /\ Latest(m.events) # "gain"
<1>1. k.events # <<>> /\ (c \in Fatal => Latest(k.events) = "running") /\ m.events = <<"wait">>
  BY DEF Told, Expected, FiresOn, IsInstance, Awaits
<1>2. c \in Fatal => FollowsOn(k.events, m.events, EventOrder)
  BY <1>1, OrderOfEvents, OneFollows
<1>3. Told(c, m, FALSE) /\ Latest(m.events) # "gain"
  BY <1>1, EndsOfBatches DEF Told, FiresOn, Expected, Awaits
<1> QED
  BY <1>2, <1>3 DEF Tells

LEMMA LoopWakes ==
    ASSUME NEW c \in Conns, NEW k \in Clients, NEW m \in Clients, NEW j,
           Told(c, k, FALSE), IsInstance(k), k.pc = "sleeping",
           FiresOn(k, j, m, <<"running">>), ~j.initial, j.pc = "resolving"
    PROVE  Tells(c, k, m, FALSE) /\ Latest(m.events) # "gain"
<1>1. k.events # <<>> /\ (c \in Fatal => Latest(k.events) = "wait") /\ m.events = <<"running">>
  BY DEF Told, Expected, FiresOn, IsInstance, Awaits
<1>2. c \in Fatal => FollowsOn(k.events, m.events, EventOrder)
  BY <1>1, OrderOfEvents, OneFollows
<1>3. Told(c, m, FALSE) /\ Latest(m.events) # "gain"
  BY <1>1, EndsOfBatches DEF Told, FiresOn, Expected, Awaits
<1> QED
  BY <1>2, <1>3 DEF Tells

\* The loop ends with the connection, or the initial connection is there.
LEMMA LoopGains ==
    ASSUME NEW c \in Conns, NEW k \in Clients, NEW m \in Clients, NEW pf \in BOOLEAN, NEW j,
           Told(c, k, pf), k.pc = "requesting", ~k.disposed,
           FiresOn(k, j, m, <<"gain">>), ~j.initial, j.pc = "idle"
    PROVE  Tells(c, k, m, pf)
<1>1. /\ k.events = <<>> \/ Latest(k.events) \in {"failure", "running"}
      /\ m.events = <<"gain">>
  BY DEF Told, Expected, FiresOn, IsInstance, Awaits, Clients
<1>2. k.events = <<>> \/ <<Latest(k.events), "gain">> \in EventOrder
  BY <1>1, OrderOfEvents
<1>3. FollowsOn(k.events, <<"gain">>, EventOrder)
  BY <1>2, OneFollows
<1>4. Told(c, m, pf)
  BY <1>1, EndsOfBatches DEF Told, FiresOn, Expected, Awaits
<1> QED
  BY <1>1, <1>3, <1>4 DEF Tells

\* The initial connection is there after a permanent failure.
LEMMA GainsInVain ==
    ASSUME NEW c \in Conns, NEW k \in Clients, NEW m \in Clients, NEW j,
           Told(c, k, TRUE), k.initial,
           FiresOn(k, j, m, <<"gain", "failure">>), ~j.initial
    PROVE  Tells(c, k, m, TRUE) /\ Latest(m.events) # "gain"
<1>1. k.events = <<>> /\ m.events = <<"gain", "failure">>
  BY DEF Told, FiresOn
<1>2. FollowsOn(k.events, m.events, EventOrder)
  <2>1. <<"gain", "failure">> \in EventOrder
    BY OrderOfEvents DEF Events
  <2>2. FollowsOn(<<>>, <<"gain", "failure">>, EventOrder)
    BY <2>1, TwoFollow
  <2> QED
    BY <1>1, <2>2
<1>3. Told(c, m, TRUE) /\ Latest(m.events) # "gain"
  BY <1>1, EndsOfBatches DEF Told, FiresOn, Expected
<1> QED
  BY <1>2, <1>3 DEF Tells

\* A permanent failure, at any moment or on the loss of the socket.
LEMMA FailureTells ==
    ASSUME NEW c \in Conns, NEW k \in Clients, NEW m \in Clients, NEW pf \in BOOLEAN, NEW pg \in BOOLEAN,
           NEW j, NEW batch,
           Told(c, k, pf), ~k.initial, k.pc # "left", FiresOn(k, j, m, batch), ~j.initial,
           \/ batch = <<"failure">>
           \/ batch = <<"lost", "failure">> /\ k.pc = "idle" /\ ~pf,
           c \in Fatal => pg
    PROVE  Tells(c, k, m, pg) /\ (~IsInstance(m) \/ Latest(m.events) # "gain")
<1>1. CASE k.disposed
  BY <1>1, DisposedTells
<1>2. CASE ~k.disposed
  <2>1. /\ k.events # <<>> /\ Latest(k.events) \in Events /\ m.events = batch
        /\ (c \in Fatal /\ k.pc = "idle" /\ ~pf) => Latest(k.events) = "gain"
    BY <1>2 DEF Told, Expected, FiresOn, IsInstance, Awaits, Events
  <2>2. c \in Fatal => FollowsOn(k.events, m.events, EventOrder)
    <3>1. CASE batch = <<"failure">>
      <4>1. <<Latest(k.events), "failure">> \in EventOrder
        BY <2>1, OrderOfEvents
      <4>2. FollowsOn(k.events, <<"failure">>, EventOrder)
        BY <4>1, OneFollows
      <4> QED
        BY <2>1, <3>1, <4>2
    <3>2. CASE batch = <<"lost", "failure">> /\ k.pc = "idle" /\ ~pf
      BY <2>1, <3>2, OrderOfEvents, TwoFollow DEF Events
    <3> QED
      BY <3>1, <3>2
  <2>3. m.events # <<>> /\ Latest(m.events) = "failure"
    BY <2>1, EndsOfBatches
  <2>4. Told(c, m, pg)
    BY <2>3 DEF Told, FiresOn, Expected
  <2> QED
    BY <2>2, <2>3, <2>4 DEF Tells
<1> QED
  BY <1>1, <1>2 DEF Clients

LEMMA FireFires ==
    ASSUME NEW k \in Clients, NEW j \in Clients, NEW batch \in Seq(Events),
           j.disposed = k.disposed, j.events = k.events
    PROVE  FiresOn(k, j, Fire(j, batch), batch) /\ Fire(j, batch).socket = j.socket
<1>1. CASE j.disposed
  BY <1>1 DEF FiresOn, Fire
<1>2. CASE ~j.disposed
  <2> DEFINE m == [j EXCEPT !.events = batch]
  <2>1. Fire(j, batch) = m
    BY <1>2 DEF Fire
  <2>2. /\ m.initial = j.initial /\ m.disposed = j.disposed /\ m.pc = j.pc /\ m.events = batch
        /\ m.socket = j.socket
    BY DEF Clients
  <2> HIDE DEF m
  <2> QED
    BY <1>2, <2>1, <2>2 DEF FiresOn
<1> QED
  BY <1>1, <1>2

LEMMA FailedFires ==
    ASSUME NEW k \in Clients, NEW j \in Clients, NEW batch \in Seq(Events),
           j.disposed = k.disposed, j.events = k.events
    PROVE  FiresOn(k, j, Failed(j, batch), batch) /\ Failed(j, batch).socket = NoSocket
<1> DEFINE g == Fire(j, batch)
<1>1. FiresOn(k, j, g, batch) /\ g \in Clients
  BY FireFires, FireKeeps
<1>2. Failed(j, batch) = [g EXCEPT !.failed = TRUE, !.socket = NoSocket]
  BY DEF Failed
<1> HIDE DEF g
<1> QED
  BY <1>1, <1>2 DEF FiresOn, Clients

\* What the client has been told, and what a step of the client has to show.
ClientTold ==
    \A d \in Conns : Told(d, client[d], permanentFailure) /\ Holds(d, client[d], link)

ClientTells ==
    \A d \in Conns : /\ Tells(d, client[d], client'[d], permanentFailure')
                     /\ Holds(d, client'[d], link')

ToldBefore == ClientBefore /\ ClientKeeps /\ ClientTold /\ Moves(link, link', Sockets)

\* A connection of which the record stays, and whose failures do.
LEMMA OtherTells ==
    ASSUME ToldBefore, NEW d \in Conns, client'[d] = client[d],
           permanentFailure' = permanentFailure \/ ~IsInstance(client[d])
    PROVE  /\ Tells(d, client[d], client'[d], permanentFailure')
           /\ Holds(d, client'[d], link')
<1> DEFINE k == client[d]
<1>1. /\ k \in Clients /\ permanentFailure \in BOOLEAN /\ permanentFailure' \in BOOLEAN
      /\ Told(d, k, permanentFailure) /\ Holds(d, k, link) /\ Moves(link, link', Sockets)
  BY DEF ToldBefore, ClientBefore, ClientKeeps, ClientTold
<1> HIDE DEF k
<1>2. k.initial => ~k.disposed /\ k.pc # "sleeping"
  BY <1>1 DEF Told
<1>3. Tells(d, k, k, permanentFailure')
  BY <1>1, <1>2, QuietTells DEF k
<1>4. Holds(d, k, link')
  BY <1>1, HoldsOn
<1> QED
  BY <1>3, <1>4 DEF k

\* A connection that has failed with the permanent failure of another one.
LEMMA TakenDownTells ==
    ASSUME ToldBefore, NEW d \in Conns, IsInstance(client[d]),
           client'[d] = Failed(client[d], <<"failure">>), d \in Fatal => permanentFailure'
    PROVE  /\ Tells(d, client[d], client'[d], permanentFailure')
           /\ Holds(d, client'[d], link')
<1> DEFINE k == client[d]
           m == client'[d]
<1>1. /\ k \in Clients /\ m \in Clients /\ permanentFailure \in BOOLEAN /\ permanentFailure' \in BOOLEAN
      /\ Told(d, k, permanentFailure)
  BY DEF ToldBefore, ClientBefore, ClientKeeps, ClientTold
<1>2. FiresOn(k, k, m, <<"failure">>) /\ m.socket = NoSocket
  <2> DEFINE b == <<"failure">>
  <2>1. b \in Seq(Events) /\ m = Failed(k, b)
    BY Batches
  <2> HIDE DEF b, k, m
  <2>2. FiresOn(k, k, m, b) /\ m.socket = NoSocket
    BY ONLY <1>1, <2>1, FailedFires
  <2> QED
    BY ONLY <2>2 DEF b
<1>3. ~k.initial /\ k.pc # "left"
  BY DEF IsInstance
<1>4. Tells(d, k, m, permanentFailure')
  BY <1>1, <1>2, <1>3, FailureTells
<1> QED
  BY <1>2, <1>4 DEF Holds

\* A step that changes the record of c only.
LEMMA OneTells ==
    ASSUME ToldBefore, NEW c \in Conns, NEW m, client' = [client EXCEPT ![c] = m],
           permanentFailure' = permanentFailure,
           Tells(c, client[c], m, permanentFailure), Holds(c, m, link')
    PROVE  ClientTells
<1>1. \A d \in Conns : client'[d] = IF d = c THEN m ELSE client[d]
  BY DEF ToldBefore, ClientBefore
<1> QED
  BY <1>1, OtherTells DEF ClientTells

\* A step of c that fires nothing.
LEMMA OneQuiet ==
    ASSUME ToldBefore, NEW c \in Conns, NEW m \in Clients, client' = [client EXCEPT ![c] = m],
           permanentFailure' = permanentFailure,
           m.events = client[c].events, m.initial = client[c].initial, m.initial => ~m.disposed /\ m.pc # "sleeping",
           m.socket \in {client[c].socket, NoSocket},
           IsInstance(m) =>
               /\ IsInstance(client[c])
               /\ \/ m.pc = client[c].pc
                  \/ m.pc \in Awaits \ {"sleeping"} /\ client[c].pc \in Awaits \ {"sleeping"}
                  \/ permanentFailure /\ client[c].pc # "idle"
    PROVE  ClientTells
<1> DEFINE k == client[c]
<1>1. /\ k \in Clients /\ permanentFailure \in BOOLEAN
      /\ Told(c, k, permanentFailure) /\ Holds(c, k, link) /\ Moves(link, link', Sockets)
  BY DEF ToldBefore, ClientBefore, ClientTold
<1>2. Tells(c, k, m, permanentFailure)
  BY <1>1, QuietTells
<1>3. Holds(c, m, link')
  BY <1>1, HoldsOn
<1> QED
  BY <1>2, <1>3, OneTells

LEMMA GiveUpTells ==
    ASSUME ToldBefore, NEW c \in Conns, NEW k \in Clients, NEW before,
           GiveUp(c, k, before, c \in Fatal), ~client[c].initial, client[c].pc # "left",
           k.events = client[c].events, k.initial = client[c].initial,
           k.disposed = client[c].disposed, k.socket = client[c].socket,
           \/ before = <<>>
           \/ before = <<"lost">> /\ client[c].pc = "idle" /\ ~permanentFailure
    PROVE  ClientTells
<1> DEFINE F == FailedWith(c, c \in Fatal)
           R(d) == IF d = c THEN k ELSE client[d]
           B(d) == IF d = c THEN before \o <<"failure">> ELSE <<"failure">>
<1>1. /\ client' = [d \in Conns |-> IF d \in F THEN Failed(R(d), B(d)) ELSE R(d)]
      /\ permanentFailure' = (permanentFailure \/ c \in Fatal)
  BY DEF GiveUp
<1>2. F = IF c \in Fatal THEN {d \in Conns : IsInstance(client[d])} ELSE {c}
  BY InstancesAre DEF FailedWith
<1>3. /\ client \in [Conns -> Clients] /\ client' \in [Conns -> Clients]
      /\ permanentFailure \in BOOLEAN /\ permanentFailure' \in BOOLEAN
      /\ Told(c, client[c], permanentFailure) /\ Holds(c, client[c], link) /\ Moves(link, link', Sockets)
  BY DEF ToldBefore, ClientBefore, ClientKeeps, ClientTold
<1> HIDE DEF F
<1> SUFFICES ASSUME NEW d \in Conns
             PROVE  /\ Tells(d, client[d], client'[d], permanentFailure')
                    /\ Holds(d, client'[d], link')
  BY DEF ClientTells
<1>4. CASE d # c /\ d \in F
  <2>1. client'[d] = Failed(client[d], <<"failure">>)
    BY <1>1, <1>4
  <2> QED
    BY <1>1, <1>2, <1>4, <2>1, TakenDownTells
<1>5. CASE d # c /\ d \notin F
  <2>1. client'[d] = client[d]
    BY <1>1, <1>5
  <2>2. permanentFailure' = permanentFailure \/ ~IsInstance(client[d])
    BY <1>1, <1>2, <1>3, <1>5
  <2> QED
    BY <2>1, <2>2, OtherTells
<1>6. CASE d = c /\ c \in F
  <2> DEFINE b == before \o <<"failure">>
             m == client'[c]
  <2>1. m = Failed(k, b)
    BY <1>1, <1>6
  <2>2. b = <<"failure">> \/ (b = <<"lost", "failure">> /\ client[c].pc = "idle" /\ ~permanentFailure)
    BY EndsOfBatches
  <2>3. b \in Seq(Events)
    <3>1. <<"lost", "failure">> \in Seq(Events)
      BY DEF Events
    <3> HIDE DEF b
    <3> QED
      BY <2>2, <3>1, Batches
  <2>4. m \in Clients /\ client[c] \in Clients
    BY <1>3
  <2> HIDE DEF b
  <2>5. FiresOn(client[c], k, m, b) /\ m.socket = NoSocket
    BY <2>1, <2>3, <2>4, FailedFires
  <2> HIDE DEF m
  <2>6. Tells(c, client[c], m, permanentFailure')
    BY <1>1, <1>3, <2>2, <2>4, <2>5, FailureTells
  <2> QED
    BY <1>6, <2>5, <2>6 DEF Holds, m
<1>7. CASE d = c /\ c \notin F
  <2>1. client'[c] = k /\ c \in Fatal /\ client[c].disposed
    BY <1>1, <1>2, <1>7 DEF IsInstance, Clients
  <2>2. ~IsInstance(k) /\ ~k.initial
    BY <2>1 DEF IsInstance
  <2>3. Tells(c, client[c], k, permanentFailure')
    BY <1>3, <2>2, QuietTells
  <2>4. Holds(c, k, link')
    BY <1>3, <2>2, HoldsOn
  <2> QED
    BY <1>7, <2>1, <2>3, <2>4
<1> QED
  BY <1>4, <1>5, <1>6, <1>7

LEMMA BeginReconnectingTells ==
    ASSUME ToldBefore, NEW c \in Conns, NEW k \in Clients, BeginReconnecting(c, k), MayReconnect(c),
           k.events = client[c].events, k.initial = client[c].initial, k.pc = client[c].pc,
           k.disposed = client[c].disposed, k.socket = client[c].socket
    PROVE  ClientTells
<1>1. /\ ~client[c].initial /\ client[c].pc = "idle" /\ ~permanentFailure /\ ~client[c].disposed
      /\ IsInstance(client[c])
  BY DEF MayReconnect, IsInstance
<1>2. CASE GiveUp(c, k, <<"lost">>, c \in Fatal)
  BY <1>1, <1>2, GiveUpTells
<1>3. CASE /\ client' = [client EXCEPT ![c] =
                            Fire([k EXCEPT !.pc = "resolving", !.late = FALSE], <<"lost", "running">>)]
           /\ UNCHANGED <<link, permanentFailure>>
  <2> DEFINE o == client[c]
             j == [k EXCEPT !.pc = "resolving", !.late = FALSE]
             m == Fire(j, <<"lost", "running">>)
  <2>1. /\ o \in Clients /\ Told(c, o, permanentFailure) /\ Holds(c, o, link)
        /\ Moves(link, link', Sockets) /\ permanentFailure \in BOOLEAN
    BY DEF ToldBefore, ClientBefore, ClientTold
  <2>2. /\ j \in Clients /\ j.disposed = o.disposed /\ j.events = o.events /\ ~j.initial
        /\ j.pc = "resolving" /\ j.socket = o.socket
    BY <1>1 DEF Clients, Awaits
  <2>3. client' = [client EXCEPT ![c] = m] /\ permanentFailure' = permanentFailure
    BY <1>3
  <2> HIDE DEF j
  <2>4. m \in Clients /\ FiresOn(o, j, m, <<"lost", "running">>) /\ m.socket = o.socket
    <3>1. <<"lost", "running">> \in Seq(Events)
      BY Batches
    <3>2. m \in Clients
      BY <2>2, <3>1, FireKeeps
    <3>3. FiresOn(o, j, m, <<"lost", "running">>) /\ m.socket = j.socket
      <4> DEFINE b == <<"lost", "running">>
      <4>1. b \in Seq(Events) /\ m = Fire(j, b)
        BY <3>1
      <4> HIDE DEF b, m, o
      <4>2. FiresOn(o, j, m, b) /\ m.socket = j.socket
        BY ONLY <2>1, <2>2, <4>1, FireFires
      <4> QED
        BY ONLY <4>2 DEF b
    <3> QED
      BY <2>2, <3>2, <3>3
  <2> HIDE DEF m
  <2>5. Told(c, o, FALSE) /\ permanentFailure = FALSE
    BY <1>1, <2>1
  <2>6. Tells(c, o, m, FALSE) /\ Latest(m.events) # "gain"
    BY <1>1, <2>1, <2>2, <2>4, <2>5, LoopBegins
  <2>7. Holds(c, m, link')
    BY <2>1, <2>4, <2>6, HoldsOn
  <2> QED
    BY <2>3, <2>5, <2>6, <2>7, OneTells
<1> QED
  BY <1>2, <1>3 DEF BeginReconnecting

LEMMA HearCloseTells ==
    ASSUME ToldBefore, NEW c \in Conns, HearClose(c)
    PROVE  ClientTells
<1> DEFINE k == [client[c] EXCEPT !.heard = TRUE]
<1>1. /\ k \in Clients /\ k.events = client[c].events /\ k.initial = client[c].initial
      /\ k.pc = client[c].pc /\ k.disposed = client[c].disposed /\ k.socket = client[c].socket
  <2> DEFINE o == client[c]
             yes == TRUE
  <2>1. o \in Clients
    BY DEF ToldBefore, ClientBefore
  <2>2. yes \in BOOLEAN /\ k = [o EXCEPT !.heard = yes]
    OBVIOUS
  <2> HIDE DEF k, yes, o
  <2>3. /\ k \in Clients /\ k.events = o.events /\ k.initial = o.initial
        /\ k.pc = o.pc /\ k.disposed = o.disposed /\ k.socket = o.socket
    BY <2>1, <2>2 DEF Clients
  <2> QED
    BY <2>3 DEF o
<1>2. CASE MayReconnect(c) /\ BeginReconnecting(c, k)
  <2> HIDE DEF k
  <2> QED
    BY <1>1, <1>2, BeginReconnectingTells
<1>3. CASE client' = [client EXCEPT ![c] = k] /\ UNCHANGED <<link, permanentFailure>>
  <2>1. client[c].initial => ~client[c].disposed /\ client[c].pc # "sleeping"
    BY DEF ToldBefore, ClientTold, Told
  <2> HIDE DEF k
  <2>2. IsInstance(k) => IsInstance(client[c])
    BY <1>1 DEF IsInstance
  <2> QED
    BY <1>1, <1>3, <2>1, <2>2, OneQuiet
<1> QED
  BY <1>2, <1>3 DEF HearClose

LEMMA SocketTimesOutTells ==
    ASSUME ToldBefore, NEW c \in Conns, SocketTimesOut(c)
    PROVE  ClientTells
<1>1. client[c] \in Clients /\ BeginReconnecting(c, client[c]) /\ MayReconnect(c)
  BY DEF ToldBefore, ClientBefore, SocketTimesOut
<1> QED
  BY <1>1, BeginReconnectingTells

\* A step that only moves a connection on, or marks that time has passed.
LEMMA MovingTells ==
    ASSUME ToldBefore, NEW c \in Conns, NEW pc \in Awaits \cup {"idle"}, NEW late \in BOOLEAN,
           client' = [client EXCEPT ![c] = [@ EXCEPT !.pc = pc, !.late = late]],
           permanentFailure' = permanentFailure, client[c].pc # "left",
           \/ pc = client[c].pc
           \/ pc \in Awaits \ {"sleeping"} /\ client[c].pc \in Awaits \ {"sleeping"}
           \/ pc = "idle" /\ (client[c].disposed \/ (permanentFailure /\ client[c].pc # "idle"))
    PROVE  ClientTells
<1> DEFINE k == client[c]
           m == [k EXCEPT !.pc = pc, !.late = late]
<1>1. k \in Clients /\ (k.initial => ~k.disposed /\ k.pc # "sleeping")
  BY DEF ToldBefore, ClientBefore, ClientTold, Told
<1>2. client' = [client EXCEPT ![c] = m]
  OBVIOUS
<1>3. /\ m \in Clients /\ m.events = k.events /\ m.initial = k.initial /\ m.disposed = k.disposed
      /\ m.socket = k.socket /\ m.pc = pc
  BY <1>1 DEF Clients
<1> HIDE DEF m
<1>4. IsInstance(m) => IsInstance(k) /\ ~k.disposed
  BY <1>3 DEF IsInstance
<1>5. m.initial => ~m.disposed /\ m.pc # "sleeping"
  BY <1>1, <1>3
<1> QED
  BY <1>1, <1>2, <1>3, <1>4, <1>5, OneQuiet

LEMMA TimeTells ==
    ASSUME ToldBefore, NEW c \in Conns, Resolve(c) \/ GraceElapses(c) \/ ReadSign(c)
    PROVE  ClientTells
<1>1. client[c] \in Clients /\ client[c].late \in BOOLEAN
  BY DEF ToldBefore, ClientBefore, Clients
<1>2. CASE Resolve(c)
  <2>1. /\ client' = [client EXCEPT ![c] = [@ EXCEPT !.pc = "connecting", !.late = client[c].late]]
        /\ permanentFailure' = permanentFailure /\ client[c].pc = "resolving"
    BY <1>1, <1>2 DEF Resolve, ToldBefore, ClientBefore, Clients
  <2> QED
    BY <1>1, <2>1, MovingTells DEF Awaits
<1>3. CASE ReadSign(c)
  <2>1. /\ client' = [client EXCEPT ![c] = [@ EXCEPT !.pc = "requesting", !.late = client[c].late]]
        /\ permanentFailure' = permanentFailure /\ client[c].pc = "authenticating"
    BY <1>1, <1>3 DEF ReadSign, ToldBefore, ClientBefore, Clients
  <2> QED
    BY <1>1, <2>1, MovingTells DEF Awaits
<1>4. CASE GraceElapses(c)
  <2>1. /\ client' = [client EXCEPT ![c] = [@ EXCEPT !.pc = client[c].pc, !.late = TRUE]]
        /\ permanentFailure' = permanentFailure /\ client[c].pc \in Awaits
    BY <1>1, <1>4 DEF GraceElapses, Looping, ToldBefore, ClientBefore, Clients
  <2> QED
    BY <1>1, <2>1, MovingTells DEF Awaits
<1> QED
  BY <1>2, <1>3, <1>4

LEMMA SocketOpensTells ==
    ASSUME ToldBefore, NEW c \in Conns, NEW s \in Sockets, SocketOpens(c, s)
    PROVE  ClientTells
<1> DEFINE k == client[c]
           m == [k EXCEPT !.pc = "authenticating", !.socket = s, !.heard = FALSE]
<1>1. /\ k \in Clients /\ permanentFailure \in BOOLEAN /\ k.pc = "connecting"
      /\ Told(c, k, permanentFailure)
  BY DEF ToldBefore, ClientBefore, ClientTold, SocketOpens
<1>2. client' = [client EXCEPT ![c] = m] /\ permanentFailure' = permanentFailure
  BY DEF SocketOpens
<1>3. link'[s].conn = c /\ link'[s].stage # "unopened"
  BY SocketOpensMoves DEF ToldBefore
<1> HIDE DEF k
<1>4. /\ m \in Clients /\ m.events = k.events /\ m.initial = k.initial /\ m.disposed = k.disposed
      /\ m.socket = s /\ m.pc = "authenticating"
  BY <1>1 DEF Clients, Awaits
<1> HIDE DEF m
<1>5. (k.initial => ~k.disposed) /\ (IsInstance(m) => IsInstance(k))
  BY <1>1, <1>4 DEF IsInstance, Told
<1>6. Tells(c, k, m, permanentFailure)
  BY <1>1, <1>4, <1>5, QuietTells DEF Awaits
<1>7. IsInstance(m) => Latest(m.events) # "gain"
  BY <1>1, <1>4, <1>5 DEF Told, Expected
<1>8. Holds(c, m, link')
  BY <1>3, <1>4, <1>7 DEF Holds
<1> QED
  BY <1>2, <1>6, <1>8, OneTells DEF k

LEMMA WakeTells ==
    ASSUME ToldBefore, NEW c \in Conns, Wake(c)
    PROVE  ClientTells
<1> DEFINE k == client[c]
           j == [k EXCEPT !.pc = "resolving"]
           m == Fire(j, <<"running">>)
<1>1. /\ k \in Clients /\ permanentFailure \in BOOLEAN /\ k.pc = "sleeping"
      /\ Told(c, k, permanentFailure) /\ Holds(c, k, link) /\ Moves(link, link', Sockets)
      /\ permanentFailure' = permanentFailure
  BY DEF ToldBefore, ClientBefore, ClientTold, Wake
<1>2. CASE permanentFailure
  <2>1. client' = [client EXCEPT ![c] = [@ EXCEPT !.pc = "idle", !.late = client[c].late]]
    BY <1>1, <1>2 DEF Wake, ToldBefore, ClientBefore, Clients
  <2>2. client[c].late \in BOOLEAN
    BY <1>1 DEF Clients
  <2> QED
    BY <1>1, <1>2, <2>1, <2>2, MovingTells
<1>3. CASE ~permanentFailure
  <2>1. client' = [client EXCEPT ![c] = m]
    BY <1>3 DEF Wake
  <2> HIDE DEF k
  <2>2. /\ j \in Clients /\ j.disposed = k.disposed /\ j.events = k.events /\ j.initial = k.initial
        /\ j.pc = "resolving" /\ j.socket = k.socket
    BY <1>1 DEF Clients, Awaits
  <2> HIDE DEF j
  <2>3. <<"running">> \in Seq(Events)
    BY Batches
  <2>4. m \in Clients /\ FiresOn(k, j, m, <<"running">>) /\ m.socket = k.socket
    <3>1. m \in Clients
      BY <2>2, <2>3, FireKeeps
    <3>2. FiresOn(k, j, m, <<"running">>) /\ m.socket = j.socket
      BY <1>1, <2>2, <2>3, FireFires
    <3> QED
      BY <2>2, <3>1, <3>2
  <2> HIDE DEF m
  <2>5. CASE ~IsInstance(k)
    <3>1. /\ m.initial = k.initial /\ ~k.initial /\ m.disposed = k.disposed /\ ~IsInstance(m)
          /\ m.events = k.events
      BY <1>1, <2>2, <2>4, <2>5 DEF IsInstance, FiresOn, Told, Clients
    <3> QED
      BY <1>1, <2>1, <2>4, <3>1, OneQuiet DEF k
  <2>6. CASE IsInstance(k)
    <3>1. ~j.initial /\ permanentFailure = FALSE
      BY <1>1, <1>3, <2>2, <2>6 DEF IsInstance
    <3>2. Tells(c, k, m, FALSE) /\ Latest(m.events) # "gain"
      BY <1>1, <2>2, <2>4, <2>6, <3>1, LoopWakes
    <3>3. Holds(c, m, link')
      BY <1>1, <2>4, <3>2, HoldsOn
    <3> QED
      BY <1>1, <2>1, <3>1, <3>2, <3>3, OneTells DEF k
  <2> QED
    BY <2>5, <2>6
<1> QED
  BY <1>2, <1>3

LEMMA DisposeTells ==
    ASSUME ToldBefore, NEW c \in Conns, Dispose(c)
    PROVE  ClientTells
<1> DEFINE k == client[c]
           m == [k EXCEPT !.disposed = TRUE]
<1>1. k \in Clients /\ ~k.initial
  BY InstancesAre DEF ToldBefore, ClientBefore, Dispose, IsInstance
<1>2. client' = [client EXCEPT ![c] = m] /\ permanentFailure' = permanentFailure
  BY DEF Dispose
<1> HIDE DEF k
<1>3. /\ m \in Clients /\ m.events = k.events /\ m.initial = k.initial /\ m.socket = k.socket
      /\ ~IsInstance(m)
  BY <1>1 DEF Clients, IsInstance
<1> HIDE DEF m
<1> QED
  BY <1>1, <1>2, <1>3, OneQuiet DEF k

LEMMA WindowClosesTells ==
    ASSUME ToldBefore, NEW graceful \in BOOLEAN, WindowCloses(graceful)
    PROVE  ClientTells
<1> SUFFICES ASSUME NEW d \in Conns
             PROVE  /\ Tells(d, client[d], client'[d], permanentFailure')
                    /\ Holds(d, client'[d], link')
  BY DEF ClientTells
<1> DEFINE k == client[d]
           m == client'[d]
<1>1. /\ k \in Clients /\ m \in Clients /\ permanentFailure \in BOOLEAN
      /\ Told(d, k, permanentFailure) /\ Holds(d, k, link) /\ Moves(link, link', Sockets)
      /\ permanentFailure' = permanentFailure
  BY DEF ToldBefore, ClientBefore, ClientKeeps, ClientTold, WindowCloses
<1>2. m = [k EXCEPT !.pc = "left"]
  BY DEF WindowCloses
<1> HIDE DEF k, m
<1>3. /\ m.events = k.events /\ m.initial = k.initial /\ m.disposed = k.disposed
      /\ m.socket = k.socket /\ m.pc = "left"
  BY <1>1, <1>2 DEF Clients
<1>4. ~IsInstance(m) /\ (m.initial => ~m.disposed /\ m.pc # "sleeping")
  BY <1>1, <1>3 DEF IsInstance, Told
<1>5. Tells(d, k, m, permanentFailure)
  BY <1>1, <1>3, <1>4, QuietTells
<1>6. Holds(d, m, link')
  BY <1>1, <1>3, <1>4, HoldsOn
<1> QED
  BY <1>1, <1>5, <1>6 DEF k, m

LEMMA InitialAttemptFailsTells ==
    ASSUME ToldBefore, NEW c \in Conns, InitialAttemptFails(c)
    PROVE  ClientTells
<1> DEFINE o == client[c]
           k == [o EXCEPT !.socket = NoSocket]
           j == [k EXCEPT !.pc = "resolving", !.attempt = @ + 1]
           r == [k EXCEPT !.pc = "rejected"]
<1>1. /\ o \in Clients /\ o.initial /\ permanentFailure \in BOOLEAN
      /\ Told(c, o, permanentFailure) /\ Moves(link, link', Sockets)
      /\ client' \in [Conns -> Clients] /\ permanentFailure' \in BOOLEAN
  BY DEF ToldBefore, ClientBefore, ClientKeeps, ClientTold, InitialAttemptFails
<1>2. \/ client' = [client EXCEPT ![c] = j] /\ UNCHANGED permanentFailure
      \/ /\ permanentFailure' = TRUE
         /\ client' = [d \in Conns |-> IF d = c THEN r
                                       ELSE IF d \in Instances THEN Failed(client[d], <<"failure">>)
                                       ELSE client[d]]
  BY DEF InitialAttemptFails
<1> HIDE DEF o
<1>3. k \in Clients /\ k.events = o.events /\ k.initial = o.initial /\ k.disposed = o.disposed
      /\ k.socket = NoSocket
  BY <1>1 DEF Clients
<1> HIDE DEF k
<1>4. /\ j.events = o.events /\ j.initial = o.initial /\ j.disposed = o.disposed
      /\ j.socket = NoSocket /\ j.pc = "resolving"
      /\ r.events = o.events /\ r.initial = o.initial /\ r.disposed = o.disposed
      /\ r.socket = NoSocket /\ r.pc = "rejected"
  BY <1>3 DEF Clients
<1>5. o.initial => ~o.disposed
  BY <1>1 DEF Told
<1>6. CASE client' = [client EXCEPT ![c] = j] /\ UNCHANGED permanentFailure
  <2> HIDE DEF j
  <2>1. j = client'[c] /\ j \in Clients
    BY <1>1, <1>6 DEF ToldBefore, ClientBefore
  <2>2. ~IsInstance(j)
    BY <1>1, <1>4 DEF IsInstance
  <2> QED
    BY <1>1, <1>4, <1>5, <1>6, <2>1, <2>2, OneQuiet DEF o
<1>7. CASE /\ permanentFailure' = TRUE
           /\ client' = [d \in Conns |-> IF d = c THEN r
                                         ELSE IF d \in Instances THEN Failed(client[d], <<"failure">>)
                                         ELSE client[d]]
  <2> HIDE DEF r
  <2> SUFFICES ASSUME NEW d \in Conns
               PROVE  /\ Tells(d, client[d], client'[d], permanentFailure')
                      /\ Holds(d, client'[d], link')
    BY DEF ClientTells
  <2>1. CASE d = c
    <3>1. client'[c] = r /\ r \in Clients
      BY <1>1, <1>7
    <3>2. ~IsInstance(r) /\ (r.initial => ~r.disposed /\ r.pc # "sleeping")
      BY <1>1, <1>4, <1>5 DEF IsInstance
    <3>3. Tells(c, o, r, permanentFailure')
      BY <1>1, <1>4, <3>2, NothingFollows DEF Tells, Told
    <3>4. Holds(c, r, link')
      BY <1>4 DEF Holds
    <3> QED
      BY <2>1, <3>1, <3>3, <3>4 DEF o
  <2>2. CASE d # c /\ IsInstance(client[d])
    <3>1. client'[d] = Failed(client[d], <<"failure">>)
      BY <1>7, <2>2, InstancesAre
    <3> QED
      BY <1>7, <2>2, <3>1, TakenDownTells
  <2>3. CASE d # c /\ ~IsInstance(client[d])
    <3>1. client'[d] = client[d]
      BY <1>7, <2>3, InstancesAre
    <3> QED
      BY <2>3, <3>1, OtherTells
  <2> QED
    BY <2>1, <2>2, <2>3
<1> QED
  BY <1>2, <1>6, <1>7

LEMMA TryAgainTells ==
    ASSUME ToldBefore, NEW c \in Conns, TryAgain(c), client[c].pc \in Awaits \ {"sleeping"}
    PROVE  ClientTells
<1> DEFINE o == client[c]
           k == [o EXCEPT !.pc = "idle"]
           j == [o EXCEPT !.pc = "sleeping"]
           m == Fire(j, <<"wait">>)
<1>1. /\ o \in Clients /\ ~o.initial /\ permanentFailure \in BOOLEAN
      /\ Told(c, o, permanentFailure) /\ Holds(c, o, link) /\ Moves(link, link', Sockets)
      /\ o.pc # "left" /\ o.pc # "idle"
  BY DEF ToldBefore, ClientBefore, ClientTold, TryAgain, Awaits
<1>2. \/ GiveUp(c, k, <<>>, c \in Fatal)
      \/ /\ permanentFailure \/ o.disposed
         /\ client' = [client EXCEPT ![c].pc = "idle"] /\ permanentFailure' = permanentFailure
      \/ /\ ~permanentFailure /\ ~o.disposed
         /\ client' = [client EXCEPT ![c] = m] /\ permanentFailure' = permanentFailure
  BY DEF TryAgain
<1>3. CASE GiveUp(c, k, <<>>, c \in Fatal)
  <2>1. /\ k \in Clients /\ k.events = o.events /\ k.initial = o.initial /\ k.disposed = o.disposed
        /\ k.socket = o.socket
    BY <1>1 DEF Clients
  <2> HIDE DEF k
  <2> QED
    BY <1>1, <1>3, <2>1, GiveUpTells
<1>4. CASE /\ permanentFailure \/ o.disposed
           /\ client' = [client EXCEPT ![c].pc = "idle"] /\ permanentFailure' = permanentFailure
  <2>1. /\ client' = [client EXCEPT ![c] = [@ EXCEPT !.pc = "idle", !.late = client[c].late]]
        /\ client[c].late \in BOOLEAN
    BY <1>1, <1>4 DEF ToldBefore, ClientBefore, Clients
  <2> QED
    BY <1>1, <1>4, <2>1, MovingTells
<1>5. CASE /\ ~permanentFailure /\ ~o.disposed
           /\ client' = [client EXCEPT ![c] = m] /\ permanentFailure' = permanentFailure
  <2> HIDE DEF o
  <2>1. /\ j \in Clients /\ j.disposed = o.disposed /\ j.events = o.events /\ ~j.initial
        /\ j.pc = "sleeping" /\ j.socket = o.socket
    BY <1>1 DEF Clients, Awaits
  <2> HIDE DEF j
  <2>2. <<"wait">> \in Seq(Events)
    BY Batches
  <2>3. m \in Clients /\ FiresOn(o, j, m, <<"wait">>) /\ m.socket = o.socket
    <3>1. m \in Clients
      BY <2>1, <2>2, FireKeeps
    <3>2. FiresOn(o, j, m, <<"wait">>) /\ m.socket = j.socket
      <4> DEFINE b == <<"wait">>
      <4>1. b \in Seq(Events) /\ m = Fire(j, b)
        BY <2>2
      <4> HIDE DEF b, m
      <4>2. FiresOn(o, j, m, b) /\ m.socket = j.socket
        BY ONLY <1>1, <2>1, <4>1, FireFires
      <4> QED
        BY ONLY <4>2 DEF b
    <3> QED
      BY <2>1, <3>1, <3>2
  <2> HIDE DEF m
  <2>4. permanentFailure = FALSE /\ IsInstance(o) /\ o.pc \in Awaits \ {"sleeping"}
    BY <1>1, <1>5 DEF IsInstance, o
  <2>5. Tells(c, o, m, FALSE) /\ Latest(m.events) # "gain"
    BY <1>1, <2>1, <2>3, <2>4, LoopWaits
  <2>6. Holds(c, m, link')
    BY <1>1, <2>3, <2>5, HoldsOn
  <2> QED
    BY <1>5, <2>4, <2>5, <2>6, OneTells DEF o
<1> QED
  BY <1>2, <1>3, <1>4, <1>5

LEMMA FailuresTell ==
    ASSUME ToldBefore, NEW c \in Conns, AttemptFails(c) \/ AttemptAborts(c) \/ ReadRefusal(c)
    PROVE  ClientTells
<1>1. client[c].pc \in Awaits \ {"sleeping"} /\ client[c].pc # "left" /\ client[c] \in Clients
  BY DEF ToldBefore, ClientBefore, AttemptFails, AttemptAborts, ReadRefusal, Awaits
<1>2. \/ InitialAttemptFails(c) \/ TryAgain(c)
      \/ ~client[c].initial /\ GiveUp(c, [client[c] EXCEPT !.pc = "idle"], <<>>, c \in Fatal)
  BY DEF AttemptFails, AttemptAborts, ReadRefusal, Abort
<1>3. CASE ~client[c].initial /\ GiveUp(c, [client[c] EXCEPT !.pc = "idle"], <<>>, c \in Fatal)
  <2> DEFINE k == [client[c] EXCEPT !.pc = "idle"]
  <2>1. /\ k \in Clients /\ k.events = client[c].events /\ k.initial = client[c].initial
        /\ k.disposed = client[c].disposed /\ k.socket = client[c].socket
    BY <1>1 DEF Clients
  <2> HIDE DEF k
  <2>2. GiveUp(c, k, <<>>, c \in Fatal)
    BY <1>3 DEF k
  <2> QED
    BY <1>1, <1>3, <2>1, <2>2, GiveUpTells
<1> QED
  BY <1>1, <1>2, <1>3, InitialAttemptFailsTells, TryAgainTells

LEMMA ReadAnswerTells ==
    ASSUME ToldBefore, NEW c \in Conns, ReadAnswer(c)
    PROVE  ClientTells
<1> DEFINE o == client[c]
           s == o.socket
           j == [o EXCEPT !.pc = "idle", !.initial = FALSE]
           k == Fire(j, <<"gain">>)
           f == Failed(k, <<"gain", "failure">>)
<1>1. /\ o \in Clients /\ permanentFailure \in BOOLEAN /\ o.pc = "requesting"
      /\ Told(c, o, permanentFailure) /\ Holds(c, o, link) /\ Moves(link, link', Sockets)
      /\ s \in Sockets /\ link[s].stage = "answered"
  BY DEF ToldBefore, ClientBefore, ClientTold, ReadAnswer, Reads, Clients
<1>2. \/ /\ o.initial /\ permanentFailure
         /\ client' = [client EXCEPT ![c] = f] /\ permanentFailure' = permanentFailure
      \/ /\ ~o.initial \/ ~permanentFailure
         /\ client' = [client EXCEPT ![c] = k] /\ permanentFailure' = permanentFailure
  BY DEF ReadAnswer, Connected
<1> HIDE DEF o
<1>3. /\ j \in Clients /\ j.disposed = o.disposed /\ j.events = o.events /\ ~j.initial
      /\ j.pc = "idle" /\ j.socket = s
  BY <1>1 DEF Clients
<1> HIDE DEF j
<1>4. <<"gain">> \in Seq(Events) /\ <<"gain", "failure">> \in Seq(Events)
  BY Batches
<1>5. k \in Clients /\ FiresOn(o, j, k, <<"gain">>) /\ k.socket = s
  <2>1. k \in Clients
    BY <1>3, <1>4, FireKeeps
  <2>2. FiresOn(o, j, k, <<"gain">>) /\ k.socket = j.socket
    <3> DEFINE b == <<"gain">>
    <3>1. b \in Seq(Events) /\ k = Fire(j, b)
      BY <1>4
    <3> HIDE DEF b, k
    <3>2. FiresOn(o, j, k, b) /\ k.socket = j.socket
      BY ONLY <1>1, <1>3, <3>1, FireFires
    <3> QED
      BY ONLY <3>2 DEF b
  <2> QED
    BY <1>3, <2>1, <2>2
<1> HIDE DEF k
<1>6. CASE /\ o.initial /\ permanentFailure
           /\ client' = [client EXCEPT ![c] = f] /\ permanentFailure' = permanentFailure
  <2>1. f \in Clients /\ FiresOn(k, k, f, <<"gain", "failure">>) /\ f.socket = NoSocket
    BY <1>4, <1>5, FailedKeeps, FailedFires
  <2> HIDE DEF f
  <2>2. ~o.disposed
    BY <1>1, <1>6 DEF Told
  <2>3. FiresOn(o, k, f, <<"gain", "failure">>) /\ ~k.initial
    BY <1>3, <1>5, <2>1, <2>2 DEF FiresOn
  <2>4. permanentFailure = TRUE
    BY <1>1, <1>6
  <2>5. Tells(c, o, f, TRUE)
    BY <1>1, <1>6, <2>1, <2>3, <2>4, GainsInVain
  <2>6. Holds(c, f, link')
    BY <2>1 DEF Holds
  <2> QED
    BY <1>6, <2>4, <2>5, <2>6, OneTells DEF o
<1>7. CASE /\ ~o.initial \/ ~permanentFailure
           /\ client' = [client EXCEPT ![c] = k] /\ permanentFailure' = permanentFailure
  <2>1. Holds(c, k, link')
    BY <1>1, <1>5 DEF Holds, Moves
  <2>2. CASE o.disposed
    <3>1. Tells(c, o, k, permanentFailure)
      BY <1>1, <1>3, <1>5, <2>2, DisposedTells
    <3> QED
      BY <1>7, <2>1, <3>1, OneTells DEF o
  <2>3. CASE ~o.disposed
    <3>1. Tells(c, o, k, permanentFailure)
      BY <1>1, <1>3, <1>5, <2>3, LoopGains
    <3> QED
      BY <1>7, <2>1, <3>1, OneTells DEF o
  <2> QED
    BY <2>2, <2>3
<1> QED
  BY <1>2, <1>6, <1>7

LEMMA ClientNextTells ==
    ASSUME ToldBefore, ClientNext
    PROVE  ClientTells
BY TimeTells, SocketOpensTells, ReadAnswerTells, FailuresTell, WakeTells,
   HearCloseTells, SocketTimesOutTells, DisposeTells, WindowClosesTells
   DEF ClientNext, ClientStep

-----------------------------------------------------------------------------
(* Sockets and events.                                                      *)

\* What joins the inductive invariant: the sockets that were answered, and what
\* the client was told.
AnswersAndEvents == Answers /\ ClientTold

LEMMA AnswersAtFirst == Init => AnswersAndEvents
<1> SUFFICES ASSUME Init PROVE Answers /\ ClientTold
  BY DEF AnswersAndEvents
<1>1. Answers
  BY DEF Init, LinkInit, Unopened, Answers
<1>2. ClientTold
  BY DEF Init, ClientInit, ClientTold, Told, Holds, IsInstance
<1> QED
  BY <1>1, <1>2

\* The records of the client stay.
LEMMA ClientStays ==
    ASSUME ClientBefore, ClientTold, client' = client, permanentFailure' = permanentFailure,
           Moves(link, link', Sockets)
    PROVE  ClientTold' /\ \A d \in Conns : Follows(d, EventOrder)
<1>1. \A d \in Conns : Holds(d, client[d], link')
  BY HoldsOn DEF ClientBefore, ClientTold
<1>2. ClientTold'
  BY <1>1 DEF ClientTold
<1>3. \A d \in Conns : Follows(d, EventOrder)
  BY NothingFollows DEF Follows
<1> QED
  BY <1>2, <1>3

LEMMA AnswersNext ==
    ASSUME IInv, FailureReachesAll, AnswersAndEvents, [Next]_vars
    PROVE  AnswersAndEvents' /\ \A c \in Fatal : Follows(c, EventOrder)
<1>1. ServerBefore /\ ClientBefore /\ Answers /\ ClientTold
  BY IInvByParts DEF ServerBefore, ClientBefore, AnswersAndEvents
<1>2. CASE ClientNext /\ UNCHANGED serverVars
  <2>1. ClientKeeps /\ entry' = entry
    BY <1>1, <1>2, ClientNextKeeps DEF serverVars
  <2>2. Moves(link, link', {}) /\ Moves(link, link', Sockets)
    BY <1>1, <1>2, ClientNextMoves, SomeMove
  <2>3. Answers'
    BY <1>1, <2>1, <2>2, AnswersKept DEF ClientBefore, ClientKeeps
  <2>4. ClientTells
    BY <1>1, <1>2, <2>1, <2>2, ClientNextTells DEF ToldBefore
  <2>5. ClientTold'
    BY <2>4 DEF ClientTells, Tells, ClientTold
  <2>6. \A c \in Fatal : Follows(c, EventOrder)
    BY <2>4 DEF ClientTells, Tells, Follows
  <2> QED
    BY <2>3, <2>5, <2>6 DEF AnswersAndEvents
<1>3. CASE ServerNext /\ UNCHANGED clientVars
  <2>1. ServerAnswers /\ client' = client /\ permanentFailure' = permanentFailure
    BY <1>1, <1>3, ServerNextAnswers DEF clientVars
  <2> QED
    BY <1>1, <2>1, ClientStays DEF ServerAnswers, AnswersAndEvents
<1>4. CASE Network
  <2>1. client' = client /\ permanentFailure' = permanentFailure /\ entry' = entry
    BY <1>4 DEF Network, clientVars, serverVars
  <2>2. link' \in Links /\ Moves(link, link', {}) /\ Moves(link, link', Sockets)
    BY <1>1, <1>4, EndKeeps, EndMoves, SomeMove DEF Network, Break, ServerBefore
  <2>3. Answers'
    BY <1>1, <2>1, <2>2, AnswersKept DEF ServerBefore
  <2> QED
    BY <1>1, <2>1, <2>2, <2>3, ClientStays DEF AnswersAndEvents
<1>5. CASE UNCHANGED vars
  <2>1. link' = link /\ client' = client /\ permanentFailure' = permanentFailure /\ entry' = entry
    BY <1>5 DEF vars, clientVars, serverVars
  <2>2. Moves(link, link', Sockets)
    BY <2>1 DEF Moves
  <2>3. Answers'
    BY <1>1, <2>1 DEF Answers
  <2> QED
    BY <1>1, <2>1, <2>2, <2>3, ClientStays DEF AnswersAndEvents
<1> QED
  BY <1>2, <1>3, <1>4, <1>5 DEF Next

LEMMA AnswersAlways == Spec => [](IInv /\ FailureReachesAll /\ AnswersAndEvents)
<1>1. Init => IInv /\ FailureReachesAll /\ AnswersAndEvents
  BY InitOK, AnswersAtFirst
<1>2. IInv /\ FailureReachesAll /\ AnswersAndEvents /\ [Next]_vars
        => (IInv /\ FailureReachesAll /\ AnswersAndEvents)'
  BY NextOK, AnswersNext
<1> QED
  BY <1>1, <1>2, PTL DEF Spec

(* Both ends of a management connection agree on the socket in use, and it is *)
(* not being timed out.                                                       *)
THEOREM BothEndsAgree == Spec => []SameSocket
<1>1. IInv /\ FailureReachesAll /\ AnswersAndEvents => SameSocket
  <2> SUFFICES ASSUME IInv, AnswersAndEvents, NEW c \in Conns \ HandedOver, InUse(c)
               PROVE  Served(c) /\ ~entry[c].long /\ ~entry[c].short
    BY DEF SameSocket
  <2> DEFINE k == client[c]
             s == k.socket
  <2>1. /\ k \in Clients /\ Told(c, k, permanentFailure) /\ Holds(c, k, link)
        /\ Registered(c) /\ Answers
    BY IInvByParts DEF IInv, AnswersAndEvents, ClientTold
  <2>2. /\ k.events # <<>> /\ Latest(k.events) = "gain" /\ k.pc # "left" /\ ~k.disposed
        /\ s # NoSocket /\ link[s].alive
    BY DEF InUse
  <2>3. IsInstance(k) /\ s \in Sockets
    BY <2>1, <2>2 DEF Told, IsInstance, Clients
  <2>4. link[s].stage = "answered" /\ link[s].conn = c
    BY <2>1, <2>2, <2>3 DEF Holds
  <2>5. entry[c].socket = s
    BY <2>1, <2>2, <2>3, <2>4 DEF Answers
  <2> QED
    BY <2>1, <2>2, <2>5 DEF Registered, Served
<1> QED
  BY <1>1, AnswersAlways, PTL

(* The events of a management connection follow one another as the user       *)
(* interface has to expect, whenever permanent failures of others come.       *)
THEOREM EventsInOrder == Spec => EventsFollow
<1>1. IInv /\ FailureReachesAll /\ AnswersAndEvents /\ [Next]_vars
        => [\A c \in Fatal : Follows(c, EventOrder)]_vars
  BY AnswersNext
<1> QED
  BY <1>1, AnswersAlways, PTL DEF Spec, EventsFollow
================================================================================
