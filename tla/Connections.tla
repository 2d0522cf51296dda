---------------------------- MODULE Connections ----------------------------
(***************************************************************************)
(* One network interface and the endpoints that serve it: the wranglers of *)
(* src/net-protocol, one for each root the system goes through as it is    *)
(* reloaded, with their server socket, their rate limiter and the          *)
(* connections of their clients.                                           *)
(*                                                                         *)
(* A step is what happens between two events of the network or of the      *)
(* clock, with all the microtasks that follow from it.  An accept loop     *)
(* that runs therefore takes a connection in the step in which it arrives, *)
(* and stop() gets as far as its first wait in the step in which it is     *)
(* called.                                                                 *)
(***************************************************************************)
EXTENDS Integers, FiniteSets

CONSTANTS
  MaxGens,         \* bound: how many wranglers there are, one after the other
  Conns            \* bound: the connections that clients make

ASSUME MaxGensAssumption == MaxGens \in Nat \ {0}

Gens == 1 .. MaxGens
Nobody == 0

VARIABLES
  http2,           \* is it an Http2Wrangler, or an HttpWrangler?
  limited,         \* is there a ConnectionRateLimiter?
  stage,           \* how far start() and stop() of each wrangler are
  willReload,      \* #willReload
  serverSocket,    \* #serverSocket of each AsyncServerSocket, named after the
                   \* wrangler it was made for
  listeners,       \* whose listeners each server socket has
  listening,       \* the server sockets that are listening
  stashed,         \* AsyncServerSocket.#stashedInstances
  timers,          \* the stashed instances whose timeout is to come
  acceptor,        \* where each TcpWrangler.#runner is
  server,          \* where each protocol server is
  conns            \* the state of each connection

protocol == <<http2, limited>>
sockets == <<serverSocket, listeners, listening>>
networkVars == <<protocol, stage, willReload, sockets, stashed, timers, acceptor, server, conns>>

(***************************************************************************)
(* "new"        not started                                                *)
(* "listening"  start() waits for the server socket to listen              *)
(* "running"    start() has returned                                       *)
(* "failed"     start() threw                                              *)
(* "stopping"   stop() waits for the acceptor and for the protocol server  *)
(* "stopped"    stop() has returned                                        *)
(* "gone"       the services of its root have been stopped too             *)
(***************************************************************************)
Phases == {"new", "listening", "running", "failed", "stopping", "stopped", "gone"}

(* The accept loop runs, or it ended and waits for #anySockets to be false. *)
AcceptorPlaces == {"idle", "accepting", "draining", "done"}

(* The protocol server is up, in a grace period of its sessions, or closed. *)
ServerPlaces == {"idle", "up", "grace", "down"}

(***************************************************************************)
(* at   "pending": an event nobody has accepted; "limited": it waits for   *)
(*      the rate limiter; "open": it is one of #sockets; "lost": neither   *)
(*      handled nor closed                                                 *)
(* of   the wrangler that has it, if any                                   *)
(* use  whether it ever had a request, and has one now                     *)
(* ses  its HTTP2 session: "none" or no more; "open" or told to close, and *)
(*      in #sessions; or "refused": told to close and never added          *)
(***************************************************************************)
ConnStates ==
  [at : {"none", "pending", "limited", "open", "closed", "lost"},
   of : Gens \union {Nobody},
   use : {"fresh", "busy", "idle"},
   ses : {"none", "open", "closed", "refused"}]

ConnectionsTypeOK ==
  /\ http2 \in BOOLEAN /\ limited \in BOOLEAN
  /\ stage \in [Gens -> Phases]
  /\ willReload \in [Gens -> BOOLEAN]
  /\ serverSocket \in [Gens -> Gens \union {Nobody}]
  /\ listeners \in [Gens -> Gens \union {Nobody}]
  /\ listening \subseteq Gens /\ stashed \subseteq Gens /\ timers \subseteq Gens
  /\ acceptor \in [Gens -> AcceptorPlaces]
  /\ server \in [Gens -> ServerPlaces]
  /\ conns \in [Conns -> ConnStates]
  /\ \A c \in Conns :
       /\ conns[c].of = Nobody <=> conns[c].at \in {"none", "closed", "lost"}
       /\ conns[c].at # "open" => conns[c].use = "fresh" /\ conns[c].ses = "none"

Conn(at, g) == [at |-> at, of |-> g, use |-> "fresh", ses |-> "none"]
Closed == Conn("closed", Nobody)

ConnectionsInit ==
  /\ http2 \in BOOLEAN /\ limited \in BOOLEAN
  /\ stage = [g \in Gens |-> "new"]
  /\ willReload = [g \in Gens |-> FALSE]
  /\ serverSocket = [g \in Gens |-> Nobody]
  /\ listeners = [g \in Gens |-> Nobody]
  /\ listening = {} /\ stashed = {} /\ timers = {}
  /\ acceptor = [g \in Gens |-> "idle"]
  /\ server = [g \in Gens |-> "idle"]
  /\ conns = [c \in Conns |-> Conn("none", Nobody)]

(* The connections of a wrangler at a certain place; those in its #sockets; those
   whose session is in its #sessions. *)
ConnsAt(at, g) == {c \in Conns : conns[c].at = at /\ conns[c].of = g}
Sockets(g) == ConnsAt("open", g)
Sessions(g) == {c \in Sockets(g) : conns[c].ses \in {"open", "closed"}}

(* The connections in S get a new state, all the same. *)
Become(S, new) == [c \in Conns |-> IF c \in S THEN new ELSE conns[c]]

(* Mutants of Drained: the last socket to be removed does not reset #anySockets;
   nobody waits for it. *)
NeverDrained(places) == places
DrainedAtOnce(places) ==
  [g \in Gens |-> IF places[g] = "draining" THEN "done" ELSE places[g]]

(* The 'close' handler of the sockets: when the last of them is gone, whoever
   waits for #anySockets to be false is released. *)
Drained(places) ==
  [g \in Gens |->
     IF places[g] = "draining" /\ \A c \in Conns : conns'[c].at = "open" => conns'[c].of # g
     THEN "done" ELSE places[g]]

-----------------------------------------------------------------------------
(* The wranglers of a system follow one another: the next is started when the
   root of the one before has been stopped for a reload. *)
MayStart(g) == stage[g] = "new" /\ (g > 1 => stage[g - 1] = "gone" /\ willReload[g - 1])

(* Both threads of the wrangler are up by the time the socket is asked for. *)
Started(g) ==
  /\ server' = [server EXCEPT ![g] = "up"]
  /\ acceptor' = [acceptor EXCEPT ![g] = "accepting"]

(* start() without a stashed instance: a new server socket is to listen. *)
StartAfresh(g) ==
  /\ MayStart(g)
  /\ stashed = {}
  /\ Started(g)
  /\ stage' = [stage EXCEPT ![g] = "listening"]
  /\ serverSocket' = [serverSocket EXCEPT ![g] = g]
  /\ listeners' = [listeners EXCEPT ![g] = g]
  /\ UNCHANGED <<protocol, willReload, listening, stashed, timers, conns>>

(* Mutant of StartUnstashed: the stash is not looked at. *)
StartRegardless(g) ==
  /\ MayStart(g)
  /\ stashed # {}
  /\ Started(g)
  /\ stage' = [stage EXCEPT ![g] = "listening"]
  /\ serverSocket' = [serverSocket EXCEPT ![g] = g]
  /\ listeners' = [listeners EXCEPT ![g] = g]
  /\ UNCHANGED <<protocol, willReload, listening, stashed, timers, conns>>

(* start() with a stashed instance takes over its server socket.  If connections
   arrived in the meantime, the attempt to hand over the first of them is a call
   of a method that does not exist: start() throws, after the old listeners were
   removed and before there are new ones. *)
StartUnstashed(g) ==
  /\ MayStart(g)
  /\ \E f \in stashed :
       LET s == serverSocket[f]
           unaccepted == ConnsAt("pending", f)
       IN  /\ stashed' = stashed \ {f}
           /\ serverSocket' = [serverSocket EXCEPT ![g] = s]
           /\ Started(g)
           /\ IF unaccepted = {}
              THEN /\ listeners' = [listeners EXCEPT ![s] = g]
                   /\ stage' = [stage EXCEPT ![g] = "running"]
                   /\ UNCHANGED conns
              ELSE /\ listeners' = [listeners EXCEPT ![s] = Nobody]
                   /\ stage' = [stage EXCEPT ![g] = "failed"]
                   /\ conns' = Become(unaccepted, Conn("lost", Nobody))
  /\ UNCHANGED <<protocol, willReload, listening, timers>>

(* The new server socket listens, or cannot. *)
ListenSucceeds(g) ==
  /\ stage[g] = "listening"
  /\ listening' = listening \union {serverSocket[g]}
  /\ stage' = [stage EXCEPT ![g] = "running"]
  /\ UNCHANGED <<protocol, willReload, serverSocket, listeners, stashed, timers, acceptor,
                 server, conns>>
ListenFails(g) ==
  /\ stage[g] = "listening"
  /\ stage' = [stage EXCEPT ![g] = "failed"]
  /\ UNCHANGED <<protocol, willReload, sockets, stashed, timers, acceptor, server, conns>>

-----------------------------------------------------------------------------
(* What stop() does to the server socket: left open in the stash if there will
   be a reload, closed otherwise. *)
StashOrClose(g, reload) ==
  IF reload
  THEN /\ stashed' = {g}           \* whatever else was there is dropped
       /\ timers' = timers \union {g}
       /\ UNCHANGED listening
  ELSE /\ listening' = listening \ {serverSocket[g]}
       /\ UNCHANGED <<stashed, timers>>

(* What stop() does to a server of HTTP1: connections that are idle after a
   request are closed, the others go on. *)
CloseIdle(g) ==
  /\ server' = [server EXCEPT ![g] = "down"]
  /\ conns' = Become({c \in Sockets(g) : conns[c].use = "idle"}, Closed)

(* What it does to one of HTTP2: the sessions are told to close, and given time. *)
CloseSessions(g) ==
  /\ server' = [server EXCEPT ![g] = IF Sessions(g) = {} THEN "down" ELSE "grace"]
  /\ conns' = [c \in Conns |->
       IF c \in Sessions(g) THEN [conns[c] EXCEPT !.ses = "closed"] ELSE conns[c]]

(* stop(): the acceptor's loop ends, and it waits until there are no sockets. *)
Stop(g, reload) ==
  /\ stage[g] = "running"
  /\ stage' = [stage EXCEPT ![g] = "stopping"]
  /\ willReload' = [willReload EXCEPT ![g] = reload]
  /\ StashOrClose(g, reload)
  /\ IF http2 THEN CloseSessions(g) ELSE CloseIdle(g)
  /\ acceptor' = Drained([acceptor EXCEPT ![g] = "draining"])
  /\ UNCHANGED <<protocol, serverSocket, listeners>>

(* The sessions are closed or the time is over.  A session that was told to close
   says it is closed, and so the second round leaves it alone: it destroys what
   is not closed. *)
GraceEnds(g) ==
  /\ server[g] = "grace"
  /\ server' = [server EXCEPT ![g] = "down"]
  /\ conns' = Become({c \in Sessions(g) : conns[c].ses # "closed"}, Closed)
  /\ acceptor' = Drained(acceptor)
  /\ UNCHANGED <<protocol, stage, willReload, sockets, stashed, timers>>

(* stop() returns when both are done. *)
StopReturns(g) ==
  /\ stage[g] = "stopping"
  /\ acceptor[g] = "done"
  /\ server[g] = "down"
  /\ stage' = [stage EXCEPT ![g] = "stopped"]
  /\ UNCHANGED <<protocol, willReload, sockets, stashed, timers, acceptor, server, conns>>

(* The rate limiter of the same root is stopped: it denies whoever waits. *)
ServicesStop(g) ==
  /\ stage[g] = "stopped"
  /\ stage' = [stage EXCEPT ![g] = "gone"]
  /\ conns' = Become(ConnsAt("limited", g), Closed)
  /\ UNCHANGED <<protocol, willReload, sockets, stashed, timers, acceptor, server>>

(* Mutant of StashTimeout: a server socket in use is closed as well. *)
StashTimeoutCloses(g) ==
  /\ g \in timers
  /\ timers' = timers \ {g}
  /\ stashed' = stashed \ {g}
  /\ listening' = listening \ {serverSocket[g]}
  /\ conns' = Become(ConnsAt("pending", g), Closed)
  /\ UNCHANGED <<protocol, stage, willReload, serverSocket, listeners, acceptor, server>>
(* An instance that was in the stash for too long is closed, and what it has not
   accepted is destroyed. *)
StashTimeout(g) ==
  /\ g \in timers
  /\ timers' = timers \ {g}
  /\ IF g \in stashed
     THEN /\ stashed' = stashed \ {g}
          /\ listening' = listening \ {serverSocket[g]}
          /\ conns' = Become(ConnsAt("pending", g), Closed)
     ELSE UNCHANGED <<stashed, listening, conns>>
  /\ UNCHANGED <<protocol, stage, willReload, serverSocket, listeners, acceptor, server>>

-----------------------------------------------------------------------------
(* A client connects.  Whoever has the listeners queues an event, which a running
   accept loop takes at once; without listeners, Node drops it on the floor. *)
Connects(c) ==
  /\ conns[c].at = "none"
  /\ \E s \in listening :
       LET g == listeners[s]
       IN  conns' = [conns EXCEPT ![c] =
             IF g = Nobody THEN Conn("lost", Nobody)
             ELSE IF acceptor[g] # "accepting" THEN Conn("pending", g)
             ELSE Conn(IF limited THEN "limited" ELSE "open", g)]
  /\ UNCHANGED <<protocol, stage, willReload, sockets, stashed, timers, acceptor, server>>

(* #handleConnection() goes on once the rate limiter has answered, whatever the
   wrangler is at by then. *)
LimiterGrants(c) ==
  /\ conns[c].at = "limited"
  /\ conns' = [conns EXCEPT ![c].at = "open"]
  /\ UNCHANGED <<protocol, stage, willReload, sockets, stashed, timers, acceptor, server>>
LimiterDenies(c) ==
  /\ conns[c].at = "limited"
  /\ conns' = [conns EXCEPT ![c] = Closed]
  /\ UNCHANGED <<protocol, stage, willReload, sockets, stashed, timers, acceptor, server>>

(* The protocol server announces a session: #addSession(). *)
SessionOpens(c) ==
  /\ http2 /\ conns[c].at = "open" /\ conns[c].use = "fresh" /\ conns[c].ses = "none"
  /\ conns' = [conns EXCEPT ![c].ses =
       IF stage[conns[c].of] = "running" THEN "open" ELSE "refused"]
  /\ UNCHANGED <<protocol, stage, willReload, sockets, stashed, timers, acceptor, server>>

(* The session's own timeout tells it to close. *)
SessionTimesOut(c) ==
  /\ conns[c].ses = "open"
  /\ conns' = [conns EXCEPT ![c].ses = "closed"]
  /\ UNCHANGED <<protocol, stage, willReload, sockets, stashed, timers, acceptor, server>>

(* The 'close' event of a socket. *)
CloseSocket(c) ==
  /\ conns' = [conns EXCEPT ![c] = Closed]
  /\ acceptor' = Drained(acceptor)

(* A session that was told to close ends when it has no stream. *)
SessionEnds(c) ==
  /\ conns[c].ses \in {"closed", "refused"}
  /\ conns[c].use # "busy"
  /\ CloseSocket(c)
  /\ UNCHANGED <<protocol, stage, willReload, sockets, stashed, timers, server>>

(* A request comes in, and is answered whatever the wrangler is at. *)
RequestArrives(c) ==
  /\ conns[c].at = "open" /\ conns[c].use # "busy"
  /\ conns[c].ses \in {"none", "open"}
  /\ conns' = [conns EXCEPT ![c].use = "busy"]
  /\ UNCHANGED <<protocol, stage, willReload, sockets, stashed, timers, acceptor, server>>
RequestAnswered(c) ==
  /\ conns[c].use = "busy"
  /\ conns' = [conns EXCEPT ![c].use = "idle"]
  /\ UNCHANGED <<protocol, stage, willReload, sockets, stashed, timers, acceptor, server>>

(* An answer that closes the connection, a peer that leaves, or a timeout. *)
SocketEnds(c) ==
  /\ conns[c].at = "open"
  /\ CloseSocket(c)
  /\ UNCHANGED <<protocol, stage, willReload, sockets, stashed, timers, server>>

-----------------------------------------------------------------------------
Wrangler(g) ==
  \/ StartAfresh(g) \/ StartUnstashed(g) \/ ListenSucceeds(g) \/ ListenFails(g)
  \/ Stop(g, TRUE) \/ Stop(g, FALSE) \/ GraceEnds(g) \/ StopReturns(g)
  \/ ServicesStop(g) \/ StashTimeout(g)
Connection(c) ==
  \/ Connects(c) \/ LimiterGrants(c) \/ LimiterDenies(c)
  \/ SessionOpens(c) \/ SessionTimesOut(c) \/ SessionEnds(c)
  \/ RequestArrives(c) \/ RequestAnswered(c) \/ SocketEnds(c)
ConnectionsNext == (\E g \in Gens : Wrangler(g)) \/ (\E c \in Conns : Connection(c))

(***************************************************************************)
(* Timers fire and microtasks run.  Every connection ends at some time: a  *)
(* peer that is idle for three minutes is timed out, and one that is not   *)
(* is assumed to leave.                                                    *)
(***************************************************************************)
ConnectionsFairness ==
  /\ \A g \in Gens :
       /\ WF_networkVars(GraceEnds(g))
       /\ WF_networkVars(StopReturns(g))
       /\ WF_networkVars(StashTimeout(g))
  /\ \A c \in Conns : WF_networkVars(SocketEnds(c))

ConnectionsSpec == ConnectionsInit /\ [][ConnectionsNext]_networkVars
FairConnectionsSpec == ConnectionsSpec /\ ConnectionsFairness

-----------------------------------------------------------------------------
(* A wrangler whose start() has returned is reachable until it is stopped: its
   server socket listens and reports to it.  In particular the timeout of a
   stashed instance never closes a socket that was taken over. *)
RunningListens ==
  \A g \in Gens : stage[g] = "running" =>
    /\ serverSocket[g] \in listening
    /\ listeners[serverSocket[g]] = g

(* One server socket at most listens on the interface: a second would be an
   error, so whatever a start() finds in the stash it has to take; and none does
   once stop() has returned that was not for a reload. *)
ListensOnce ==
  /\ Cardinality(listening) <= 1
  /\ \A g \in Gens : stage[g] = "listening" => listening = {}
  /\ \A g \in Gens : stage[g] = "stopped" /\ ~willReload[g] => listening = {}

(* Without a limiter, a wrangler whose stop() has returned has no connection. *)
StoppedIsQuiet ==
  ~limited => \A g \in Gens : stage[g] \in {"stopped", "gone"} => Sockets(g) = {}

(* "This method async-returns once the instance has actually stopped": it does,
   once its connections have ended.  And a connection that arrives while the server
   socket is stashed does not stay unnoticed for ever. *)
StopsInTheEnd ==
  /\ \A g \in Gens : stage[g] = "stopping" ~> stage[g] = "stopped"
  /\ \A c \in Conns : conns[c].at = "pending" ~> conns[c].at # "pending"

-----------------------------------------------------------------------------
(* "Transfer any unhandled events to the new instance": a reload loses no
   connection that the server socket has accepted. *)
NoConnectionLost == \A c \in Conns : conns[c].at # "lost"
=============================================================================
