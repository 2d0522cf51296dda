--------------------------- MODULE Network_proofs ---------------------------
(***************************************************************************)
(* Proofs about what happens on a network interface: the server sockets of *)
(* Connections and what is left of the connections after a stop, for any   *)
(* number of reloads and of connections; and the answers of Requests, for  *)
(* any sites, files and requests.                                          *)
(***************************************************************************)
EXTENDS Connections, Requests, FiniteSetTheorems, TLAPS

-----------------------------------------------------------------------------
(* Connections.  The inductive invariant is about the server sockets only. *)
SocketTypes ==
  /\ stage \in [Gens -> Phases]
  /\ willReload \in [Gens -> BOOLEAN]
  /\ serverSocket \in [Gens -> Gens \union {Nobody}]
  /\ listeners \in [Gens -> Gens \union {Nobody}]
  /\ listening \subseteq Gens /\ stashed \subseteq Gens

(* The wranglers take turns. *)
OneByOne ==
  \A g, h \in Gens : g < h /\ stage[h] # "new" => stage[g] = "gone" /\ willReload[g]

(* What is stashed belongs to the latest wrangler that was stopped, and to nobody
   as soon as there is a next one. *)
StashIsOfTheLatest ==
  /\ \A g, h \in stashed : g = h
  /\ \A g \in stashed :
       /\ stage[g] \in {"stopping", "stopped", "gone"} /\ willReload[g]
       /\ serverSocket[g] \in listening
  /\ \A g \in Gens : stage[g] \in {"listening", "running", "failed"} => stashed = {}

(* A server socket listens if somebody holds it who has not closed it. *)
ListeningIsHeld ==
  /\ \A s, t \in listening : s = t
  /\ \A s \in listening : \E g \in Gens :
       serverSocket[g] = s /\ (g \in stashed \/ stage[g] \in {"running", "failed"})
  /\ \A g \in Gens : stage[g] = "listening" =>
       listening = {} /\ serverSocket[g] = g /\ listeners[g] = g
  /\ \A g \in Gens :
       stage[g] \in {"stopping", "stopped", "gone"} /\ ~willReload[g] => listening = {}

SocketsInvariant ==
  /\ SocketTypes /\ OneByOne /\ StashIsOfTheLatest /\ ListeningIsHeld
  /\ RunningListens

LEMMA SocketsAtFirst == ConnectionsInit => SocketsInvariant
  BY MaxGensAssumption
  DEF ConnectionsInit, SocketsInvariant, SocketTypes, OneByOne, StashIsOfTheLatest, ListeningIsHeld,
      RunningListens, Gens, Nobody, Phases

(* What does not touch the server sockets, nor the phases, keeps it. *)
socketState == <<stage, willReload, sockets, stashed>>
LEMMA SocketsUntouched ==
  ASSUME SocketsInvariant, UNCHANGED socketState
  PROVE  SocketsInvariant'
  BY DEF socketState, sockets, SocketsInvariant, SocketTypes, OneByOne, StashIsOfTheLatest,
         ListeningIsHeld, RunningListens

(* When a wrangler is started, those before it are gone, those after it are new,
   and what listens is in the stash. *)
LEMMA AtStart ==
  ASSUME SocketsInvariant, NEW g \in Gens, MayStart(g)
  PROVE  /\ stage[g] = "new"
         /\ \A h \in Gens : h < g => stage[h] = "gone" /\ willReload[h]
         /\ \A h \in Gens : h > g => stage[h] = "new"
         /\ \A h \in Gens : stage[h] \in {"new", "gone"}
         /\ \A s \in listening : \E h \in stashed : serverSocket[h] = s
<1>1. stage[g] = "new"
  BY DEF MayStart
<1>2. ASSUME NEW h \in Gens, h < g PROVE stage[h] = "gone" /\ willReload[h]
  <2>1. g > 1 /\ g - 1 \in Gens
    BY <1>2, MaxGensAssumption DEF Gens
  <2>2. stage[g - 1] = "gone" /\ willReload[g - 1]
    BY <2>1 DEF MayStart
  <2>3. CASE h = g - 1
    BY <2>2, <2>3
  <2>4. CASE h # g - 1
    <3>1. h \in Int /\ g \in Int
      BY DEF Gens
    <3>2. h < g - 1
      BY <1>2, <2>4, <3>1
    <3> QED
      BY <2>1, <2>2, <3>2 DEF SocketsInvariant, OneByOne
  <2> QED
    BY <2>3, <2>4
<1>3. ASSUME NEW h \in Gens, h > g PROVE stage[h] = "new"
  BY <1>1, <1>3 DEF SocketsInvariant, OneByOne
<1>4. ASSUME NEW h \in Gens PROVE stage[h] \in {"new", "gone"}
  <2>1. h < g \/ h = g \/ h > g
    BY DEF Gens
  <2> QED
    BY <1>1, <1>2, <1>3, <2>1
<1>5. ASSUME NEW s \in listening PROVE \E h \in stashed : serverSocket[h] = s
  <2>1. PICK h \in Gens :
          serverSocket[h] = s /\ (h \in stashed \/ stage[h] \in {"running", "failed"})
    BY DEF SocketsInvariant, ListeningIsHeld
  <2> QED
    BY <1>4, <2>1
<1> QED
  BY <1>1, <1>2, <1>3, <1>4, <1>5

LEMMA StartAfreshKeeps ==
  ASSUME SocketsInvariant, NEW g \in Gens, StartAfresh(g)
  PROVE  SocketsInvariant'
<1> USE DEF StartAfresh
<1>1. /\ stage[g] = "new" /\ listening = {}
      /\ \A h \in Gens : h < g => stage[h] = "gone" /\ willReload[h]
      /\ \A h \in Gens : h > g => stage[h] = "new"
      /\ \A h \in Gens : stage[h] \in {"new", "gone"}
  BY AtStart
<1>2. /\ SocketTypes
      /\ stage' = [stage EXCEPT ![g] = "listening"]
      /\ serverSocket' = [serverSocket EXCEPT ![g] = g]
      /\ listeners' = [listeners EXCEPT ![g] = g]
      /\ willReload' = willReload /\ listening' = {} /\ stashed' = {}
  BY <1>1 DEF SocketsInvariant, SocketTypes
<1>3. SocketTypes'
  BY <1>2 DEF SocketTypes, Phases
<1>4. OneByOne'
  BY <1>1, <1>2 DEF OneByOne, SocketTypes, Gens
<1>5. StashIsOfTheLatest'
  BY <1>2 DEF StashIsOfTheLatest
<1>6. ListeningIsHeld'
  BY <1>1, <1>2 DEF ListeningIsHeld, SocketTypes
<1>7. RunningListens'
  BY <1>1, <1>2 DEF RunningListens, SocketTypes
<1> QED
  BY <1>3, <1>4, <1>5, <1>6, <1>7 DEF SocketsInvariant

(* The socket of the stashed instance is the only one that listens, so that it
   is enough to look at the wrangler that takes it over. *)
LEMMA StartUnstashedKeeps ==
  ASSUME SocketsInvariant, NEW g \in Gens, StartUnstashed(g)
  PROVE  SocketsInvariant'
<1>1. PICK f \in stashed :
        /\ stashed' = stashed \ {f}
        /\ serverSocket' = [serverSocket EXCEPT ![g] = serverSocket[f]]
        /\ \/ /\ listeners' = [listeners EXCEPT ![serverSocket[f]] = g]
              /\ stage' = [stage EXCEPT ![g] = "running"]
           \/ /\ listeners' = [listeners EXCEPT ![serverSocket[f]] = Nobody]
              /\ stage' = [stage EXCEPT ![g] = "failed"]
  BY DEF StartUnstashed
<1> DEFINE s == serverSocket[f]
<1>2. /\ MayStart(g) /\ willReload' = willReload /\ listening' = listening
  BY DEF StartUnstashed
<1>3. /\ stage[g] = "new"
      /\ \A h \in Gens : h < g => stage[h] = "gone" /\ willReload[h]
      /\ \A h \in Gens : h > g => stage[h] = "new"
      /\ \A h \in Gens : stage[h] \in {"new", "gone"}
  BY <1>2, AtStart
<1>4. s \in listening /\ (\A t \in listening : t = s) /\ stashed = {f} /\ f \in Gens
  BY DEF SocketsInvariant, SocketTypes, StashIsOfTheLatest, ListeningIsHeld
<1>5. stashed' = {} /\ SocketTypes /\ s \in Gens
  BY <1>1, <1>4 DEF SocketsInvariant, SocketTypes
<1>6. stage'[g] \in {"running", "failed"} /\ \A h \in Gens : h # g => stage'[h] = stage[h]
  BY <1>1, <1>5 DEF SocketTypes
<1>7. serverSocket'[g] = s
  BY <1>1, <1>5 DEF SocketTypes
<1>8. SocketTypes'
  BY <1>1, <1>2, <1>5 DEF SocketTypes, Phases
<1>9. OneByOne'
  BY <1>2, <1>3, <1>6 DEF OneByOne, Gens
<1>10. StashIsOfTheLatest'
  BY <1>5 DEF StashIsOfTheLatest
<1>11. ListeningIsHeld'
  <2>1. \A h \in Gens : stage'[h] # "listening"
    BY <1>3, <1>6
  <2>2. \A h \in Gens :
          stage'[h] \in {"stopping", "stopped", "gone"} => willReload'[h]
    <3> SUFFICES ASSUME NEW h \in Gens, stage'[h] \in {"stopping", "stopped", "gone"}
                 PROVE  willReload[h]
      BY <1>2
    <3>1. h # g /\ stage[h] = "gone"
      BY <1>3, <1>6
    <3>2. h < g
      BY <1>3, <3>1 DEF Gens
    <3> QED
      BY <1>3, <3>2
  <2> QED
    BY <1>2, <1>4, <1>6, <1>7, <2>1, <2>2 DEF ListeningIsHeld
<1>12. RunningListens'
  <2> SUFFICES ASSUME NEW h \in Gens, stage'[h] = "running"
               PROVE  serverSocket'[h] \in listening' /\ listeners'[serverSocket'[h]] = h
    BY DEF RunningListens
  <2>1. h = g
    BY <1>3, <1>6
  <2>2. listeners' = [listeners EXCEPT ![s] = g]
    BY <1>1, <1>5, <2>1 DEF SocketTypes
  <2> QED
    BY <1>2, <1>4, <1>5, <1>7, <2>1, <2>2 DEF SocketTypes
<1> QED
  BY <1>8, <1>9, <1>10, <1>11, <1>12 DEF SocketsInvariant

(* Another state of a wrangler that has been started makes no difference to the
   turns. *)
LEMMA SameTurns ==
  ASSUME OneByOne, SocketTypes, NEW g \in Gens, NEW p, p # "new",
         stage[g] \notin {"new", "gone"}, stage' = [stage EXCEPT ![g] = p],
         \A h \in Gens : h # g => willReload'[h] = willReload[h]
  PROVE  /\ OneByOne'
         /\ \A h \in Gens : h # g => stage[h] = "new" \/ (stage[h] = "gone" /\ willReload[h])
<1>1. stage'[g] = p /\ \A h \in Gens : h # g => stage'[h] = stage[h]
  BY DEF SocketTypes
<1>2. \A h \in Gens : h > g => stage[h] = "new"
  BY DEF OneByOne
<1>3. \A h \in Gens : h < g => stage[h] = "gone" /\ willReload[h]
  BY DEF OneByOne
<1>4. \A h \in Gens : h # g => h > g \/ h < g
  BY DEF Gens
<1>5. OneByOne'
  <2> SUFFICES ASSUME NEW h \in Gens, NEW k \in Gens, h < k, stage'[k] # "new"
               PROVE  stage'[h] = "gone" /\ willReload'[h]
    BY DEF OneByOne
  <2>1. CASE h = g
    <3>1. k # g /\ k > g
      BY <2>1 DEF Gens
    <3> QED
      BY <1>1, <1>2, <3>1
  <2>2. CASE h # g
    <3>1. stage[h] = "gone" /\ willReload[h]
      <4>1. CASE k = g
        BY <1>3, <4>1
      <4>2. CASE k # g
        BY <1>1, <4>2 DEF OneByOne
      <4> QED
        BY <4>1, <4>2
    <3> QED
      BY <1>1, <2>2, <3>1
  <2> QED
    BY <2>1, <2>2
<1> QED
  BY <1>2, <1>3, <1>4, <1>5

LEMMA ListenKeeps ==
  ASSUME SocketsInvariant, NEW g \in Gens, ListenSucceeds(g) \/ ListenFails(g)
  PROVE  SocketsInvariant'
<1>1. /\ stage[g] = "listening" /\ willReload' = willReload /\ stashed' = stashed
      /\ serverSocket' = serverSocket /\ listeners' = listeners
  BY DEF ListenSucceeds, ListenFails, sockets
<1>2. PICK p \in {"running", "failed"} :
        /\ stage' = [stage EXCEPT ![g] = p]
        /\ p = "running" => listening' = listening \union {serverSocket[g]}
        /\ p = "failed" => listening' = listening
  BY DEF ListenSucceeds, ListenFails, sockets
<1>3. /\ SocketTypes /\ listening = {} /\ stashed = {}
      /\ serverSocket[g] = g /\ listeners[g] = g
  BY <1>1 DEF SocketsInvariant, ListeningIsHeld, StashIsOfTheLatest
<1>4. stage'[g] = p /\ \A h \in Gens : h # g => stage'[h] = stage[h]
  BY <1>2, <1>3 DEF SocketTypes
<1>5. /\ OneByOne'
      /\ \A h \in Gens : h # g => stage[h] = "new" \/ (stage[h] = "gone" /\ willReload[h])
  BY <1>1, <1>2, <1>3, SameTurns DEF SocketsInvariant
<1>6. SocketTypes'
  BY <1>1, <1>2, <1>3 DEF SocketTypes, Phases
<1>7. StashIsOfTheLatest'
  BY <1>1, <1>3 DEF StashIsOfTheLatest
<1>8. ListeningIsHeld'
  <2>1. \A h \in Gens : stage'[h] # "listening"
    BY <1>4, <1>5
  <2>2. \A h \in Gens :
          ~(stage'[h] \in {"stopping", "stopped", "gone"} /\ ~willReload'[h])
    BY <1>1, <1>4, <1>5
  <2>3. \A s \in listening' : s = g /\ serverSocket'[g] = g
    BY <1>1, <1>2, <1>3
  <2> QED
    BY <1>4, <2>1, <2>2, <2>3 DEF ListeningIsHeld
<1>9. RunningListens'
  <2> SUFFICES ASSUME NEW h \in Gens, stage'[h] = "running"
               PROVE  serverSocket'[h] \in listening' /\ listeners'[serverSocket'[h]] = h
    BY DEF RunningListens
  <2>1. h = g /\ p = "running"
    BY <1>4, <1>5
  <2> QED
    BY <1>1, <1>2, <1>3, <2>1
<1> QED
  BY <1>5, <1>6, <1>7, <1>8, <1>9 DEF SocketsInvariant

LEMMA StopKeeps ==
  ASSUME SocketsInvariant, NEW g \in Gens, NEW reload \in BOOLEAN, Stop(g, reload)
  PROVE  SocketsInvariant'
<1>1. /\ stage[g] = "running" /\ stage' = [stage EXCEPT ![g] = "stopping"]
      /\ willReload' = [willReload EXCEPT ![g] = reload]
      /\ serverSocket' = serverSocket /\ listeners' = listeners
      /\ StashOrClose(g, reload)
  BY DEF Stop
<1>2. /\ SocketTypes /\ stashed = {} /\ serverSocket[g] \in listening
      /\ \A s \in listening : s = serverSocket[g]
  BY <1>1 DEF SocketsInvariant, ListeningIsHeld, StashIsOfTheLatest, RunningListens
<1>3. /\ stage'[g] = "stopping" /\ willReload'[g] = reload
      /\ \A h \in Gens : h # g => stage'[h] = stage[h] /\ willReload'[h] = willReload[h]
  BY <1>1, <1>2 DEF SocketTypes
<1>4. /\ OneByOne'
      /\ \A h \in Gens : h # g => stage[h] = "new" \/ (stage[h] = "gone" /\ willReload[h])
  BY <1>1, <1>2, <1>3, SameTurns DEF SocketsInvariant
<1>5. \/ reload = TRUE /\ stashed' = {g} /\ listening' = listening
      \/ reload = FALSE /\ stashed' = {} /\ listening' = {}
  <2>1. CASE reload = TRUE
    BY <1>1, <2>1 DEF StashOrClose
  <2>2. CASE reload = FALSE
    BY <1>1, <1>2, <2>2 DEF StashOrClose
  <2> QED
    BY <2>1, <2>2
<1>6. SocketTypes'
  BY <1>1, <1>2, <1>5 DEF SocketTypes, Phases
<1>7. \A h \in Gens : stage'[h] \in {"new", "gone", "stopping"}
  BY <1>3, <1>4
<1>8. StashIsOfTheLatest'
  BY <1>1, <1>2, <1>3, <1>5, <1>7 DEF StashIsOfTheLatest
<1>9. ListeningIsHeld'
  <2>1. \A h \in Gens :
          stage'[h] \in {"stopping", "stopped", "gone"} /\ ~willReload'[h]
            => h = g /\ reload = FALSE
    BY <1>3, <1>4
  <2>2. \A s \in listening' : s = serverSocket'[g] /\ g \in stashed'
    BY <1>1, <1>2, <1>5
  <2> QED
    BY <1>5, <1>7, <2>1, <2>2 DEF ListeningIsHeld
<1>10. RunningListens'
  BY <1>7 DEF RunningListens
<1> QED
  BY <1>4, <1>6, <1>8, <1>9, <1>10 DEF SocketsInvariant

(* stop() returns, or the services follow: no socket is touched. *)
LEMMA StoppedKeeps ==
  ASSUME SocketsInvariant, NEW g \in Gens, StopReturns(g) \/ ServicesStop(g)
  PROVE  SocketsInvariant'
<1>1. /\ stage[g] \in {"stopping", "stopped"} /\ willReload' = willReload
      /\ serverSocket' = serverSocket /\ listeners' = listeners /\ listening' = listening
      /\ stashed' = stashed
  BY DEF StopReturns, ServicesStop, sockets
<1>2. PICK p \in {"stopped", "gone"} : stage' = [stage EXCEPT ![g] = p]
  BY DEF StopReturns, ServicesStop
<1>3. SocketTypes
  BY DEF SocketsInvariant
<1>4. stage'[g] = p /\ \A h \in Gens : h # g => stage'[h] = stage[h]
  BY <1>2, <1>3 DEF SocketTypes
<1>5. OneByOne'
  BY <1>1, <1>2, <1>3, SameTurns DEF SocketsInvariant
<1>6. SocketTypes'
  BY <1>1, <1>2, <1>3 DEF SocketTypes, Phases
<1>7. StashIsOfTheLatest'
  BY <1>1, <1>3, <1>4 DEF SocketsInvariant, SocketTypes, StashIsOfTheLatest
<1>8. ListeningIsHeld'
  <2>1. \A h \in Gens :
          stage'[h] \in {"stopping", "stopped", "gone"} =>
            stage[h] \in {"stopping", "stopped", "gone"}
    BY <1>1, <1>4
  <2>2. \A h \in Gens : stage[h] \in {"running", "failed"} => stage'[h] = stage[h]
    BY <1>1, <1>4
  <2>3. \A h \in Gens : stage'[h] = "listening" => stage[h] = "listening"
    BY <1>1, <1>4
  <2>4. \A s \in listening : \E h \in Gens :
          serverSocket[h] = s /\ (h \in stashed \/ stage'[h] \in {"running", "failed"})
    BY <2>2 DEF SocketsInvariant, ListeningIsHeld
  <2> QED
    BY <1>1, <2>1, <2>3, <2>4 DEF SocketsInvariant, ListeningIsHeld
<1>9. RunningListens'
  BY <1>1, <1>4 DEF SocketsInvariant, RunningListens
<1> QED
  BY <1>5, <1>6, <1>7, <1>8, <1>9 DEF SocketsInvariant

(* The timeout closes a server socket only if nobody has taken it over. *)
LEMMA StashTimeoutKeeps ==
  ASSUME SocketsInvariant, NEW g \in Gens, StashTimeout(g)
  PROVE  SocketsInvariant'
<1>1. /\ stage' = stage /\ willReload' = willReload
      /\ serverSocket' = serverSocket /\ listeners' = listeners
  BY DEF StashTimeout
<1>2. CASE g \notin stashed
  BY <1>1, <1>2, SocketsUntouched DEF StashTimeout, socketState, sockets
<1>3. CASE g \in stashed
  <2>1. /\ SocketTypes /\ serverSocket[g] \in listening
        /\ \A s \in listening : s = serverSocket[g]
        /\ \A h \in stashed : h = g
        /\ \A h \in Gens : stage[h] \notin {"listening", "running", "failed"}
    BY <1>3 DEF SocketsInvariant, StashIsOfTheLatest, ListeningIsHeld
  <2>2. stashed' = {} /\ listening' = {}
    BY <1>3, <2>1 DEF StashTimeout
  <2>3. SocketTypes'
    BY <1>1, <2>1, <2>2 DEF SocketTypes
  <2>4. OneByOne'
    BY <1>1 DEF SocketsInvariant, OneByOne
  <2>5. StashIsOfTheLatest' /\ ListeningIsHeld' /\ RunningListens'
    BY <1>1, <2>1, <2>2 DEF StashIsOfTheLatest, ListeningIsHeld, RunningListens
  <2> QED
    BY <2>3, <2>4, <2>5 DEF SocketsInvariant
<1> QED
  BY <1>2, <1>3

LEMMA SocketsKept == SocketsInvariant /\ [ConnectionsNext]_networkVars => SocketsInvariant'
<1> SUFFICES ASSUME SocketsInvariant, [ConnectionsNext]_networkVars PROVE SocketsInvariant'
  OBVIOUS
<1>1. ASSUME NEW g \in Gens, Wrangler(g) PROVE SocketsInvariant'
  <2>1. CASE GraceEnds(g)
    BY <2>1, SocketsUntouched DEF GraceEnds, socketState
  <2>2. CASE Stop(g, TRUE) \/ Stop(g, FALSE)
    BY <2>2, StopKeeps
  <2> QED
    BY <1>1, <2>1, <2>2, StartAfreshKeeps, StartUnstashedKeeps, ListenKeeps, StoppedKeeps,
       StashTimeoutKeeps DEF Wrangler
<1>2. ASSUME NEW c \in Conns, Connection(c) PROVE SocketsInvariant'
  <2>1. UNCHANGED socketState
    BY <1>2 DEF Connection, Connects, LimiterGrants, LimiterDenies, SessionOpens,
                SessionTimesOut, SessionEnds, RequestArrives, RequestAnswered, SocketEnds,
                socketState
  <2> QED
    BY <2>1, SocketsUntouched
<1>3. CASE UNCHANGED networkVars
  BY <1>3, SocketsUntouched DEF networkVars, socketState
<1> QED
  BY <1>1, <1>2, <1>3 DEF ConnectionsNext

(* The state of the server sockets is coherent through any number of reloads. *)
LEMMA ServerSocketsAreHeld == ConnectionsSpec => []SocketsInvariant
<1> QED
  BY SocketsAtFirst, SocketsKept, PTL DEF ConnectionsSpec

(* A wrangler whose start() has returned is reachable until it is stopped:
   AsyncServerSocket's stash and its timeout never close a server socket that is
   in use, nor does it report to anybody else. *)
THEOREM RunningWranglersListen == ConnectionsSpec => []RunningListens
<1>1. SocketsInvariant => RunningListens
  BY DEF SocketsInvariant
<1> QED
  BY <1>1, ServerSocketsAreHeld, PTL

(* At no time do two server sockets listen on the interface; none does while a new
   one is about to, or once stop() has returned that was not for a reload. *)
THEOREM NeverTwoServerSockets == ConnectionsSpec => []ListensOnce
<1>1. SocketsInvariant => ListensOnce
  <2> SUFFICES ASSUME SocketsInvariant PROVE ListensOnce
    OBVIOUS
  <2>1. Cardinality(listening) <= 1
    <3>1. CASE listening = {}
      BY <3>1, FS_EmptySet
    <3>2. CASE listening # {}
      <4>1. PICK s \in listening : TRUE
        BY <3>2
      <4>2. listening = {s}
        BY <4>1 DEF SocketsInvariant, ListeningIsHeld
      <4>3. Cardinality({s}) = 1
        BY FS_Singleton
      <4> QED
        BY <4>2, <4>3
    <3> QED
      BY <3>1, <3>2
  <2> QED
    BY <2>1 DEF SocketsInvariant, ListeningIsHeld, ListensOnce
<1> QED
  BY <1>1, ServerSocketsAreHeld, PTL

-----------------------------------------------------------------------------
(* The connections.  Their part of the inductive invariant says what the    *)
(* acceptor knows of the sockets.                                          *)
ConnTypes ==
  /\ conns \in [Conns -> ConnStates]
  /\ acceptor \in [Gens -> AcceptorPlaces]
  /\ ~limited => \A c \in Conns : conns[c].at # "limited"

(* An acceptor does not end before its wrangler is asked to stop, and is done
   when that has stopped. *)
DoneInTime ==
  \A g \in Gens :
    /\ acceptor[g] \in {"draining", "done"} => stage[g] \in {"stopping", "stopped", "gone"}
    /\ stage[g] \in {"stopped", "gone"} => acceptor[g] = "done"

(* The acceptor is done when #anySockets is false, and there it stays, if
   nobody comes from the limiter later. *)
DoneIsQuiet ==
  ~limited => \A g \in Gens : acceptor[g] = "done" => Sockets(g) = {}

WranglersQuiet == ConnTypes /\ DoneInTime /\ DoneIsQuiet

LEMMA InitQuiet == ConnectionsInit => WranglersQuiet
  BY DEF ConnectionsInit, WranglersQuiet, ConnTypes, DoneInTime, DoneIsQuiet, ConnStates, Conn, AcceptorPlaces,
         Sockets, ConnsAt, Nobody

(* No connection has become one of the sockets. *)
NoneOpened ==
  \A c \in Conns : conns'[c].at = "open" => conns[c].at = "open" /\ conns[c].of = conns'[c].of

(* What keeps the invariant if no socket is added: the acceptors stay where
   they are, or those that drain are done as soon as they have no socket. *)
LEMMA NoneOpenedKeeps ==
  ASSUME WranglersQuiet, limited' = limited,
         conns' \in [Conns -> ConnStates], NoneOpened,
         \A c \in Conns : conns'[c].at = "limited" => conns[c].at = "limited",
         NEW before \in [Gens -> AcceptorPlaces],
         acceptor' = before \/ acceptor' = Drained(before),
         \A g \in Gens : before[g] = "done" => acceptor[g] = "done",
         \A g \in Gens : acceptor[g] = "done" => before[g] = "done",
         \A g \in Gens : before[g] \in {"draining", "done"} =>
           stage'[g] \in {"stopping", "stopped", "gone"},
         \A g \in Gens : stage'[g] \in {"stopped", "gone"} => acceptor[g] = "done"
  PROVE  WranglersQuiet'
<1>1. \A g \in Gens :
        \/ acceptor'[g] = before[g]
        \/ /\ before[g] = "draining" /\ acceptor'[g] = "done"
           /\ \A c \in Conns : conns'[c].at = "open" => conns'[c].of # g
  BY DEF Drained
<1>2. acceptor' \in [Gens -> AcceptorPlaces]
  BY DEF Drained, AcceptorPlaces
<1>3. ConnTypes'
  BY <1>2 DEF WranglersQuiet, ConnTypes
<1>4. DoneInTime'
  BY <1>1 DEF WranglersQuiet, DoneInTime
<1>5. DoneIsQuiet'
  <2>. SUFFICES ASSUME ~limited, NEW g \in Gens, acceptor'[g] = "done",
                       NEW c \in Conns, conns'[c].at = "open", conns'[c].of = g
                PROVE  FALSE
    BY DEF DoneIsQuiet, Sockets, ConnsAt
  <2>1. acceptor[g] = "done"
    BY <1>1
  <2>2. conns[c].at = "open" /\ conns[c].of = g
    BY DEF NoneOpened
  <2>. QED  BY <2>1, <2>2 DEF WranglersQuiet, DoneIsQuiet, Sockets, ConnsAt
<1>. QED  BY <1>3, <1>4, <1>5 DEF WranglersQuiet

(* What is done to the sockets of a wrangler adds none. *)
LEMMA BecomeOpensNone ==
  ASSUME ConnTypes, NEW S \in SUBSET Conns, NEW at \in {"closed", "lost"},
         conns' = Become(S, Conn(at, Nobody))
  PROVE  /\ conns' \in [Conns -> ConnStates] /\ NoneOpened
         /\ \A c \in Conns : conns'[c].at = "limited" => conns[c].at = "limited"
<1>1. Conn(at, Nobody) \in ConnStates /\ Conn(at, Nobody).at = at
  BY DEF Conn, ConnStates, Nobody
<1>2. \A c \in Conns : conns'[c] = conns[c] \/ conns'[c] = Conn(at, Nobody)
  BY DEF Become
<1>3. conns' \in [Conns -> ConnStates]
  BY <1>1 DEF Become, ConnTypes
<1>4. ASSUME NEW c \in Conns, conns'[c].at \in {"open", "limited"} PROVE conns'[c] = conns[c]
  BY <1>1, <1>2, <1>4
<1>. QED  BY <1>3, <1>4 DEF NoneOpened

(* start(): the acceptor was idle before. *)
LEMMA StartQuiet ==
  ASSUME SocketsInvariant, WranglersQuiet, NEW g \in Gens, StartAfresh(g) \/ StartUnstashed(g)
  PROVE  WranglersQuiet'
<1>. DEFINE before == [acceptor EXCEPT ![g] = "accepting"]
<1>1. stage[g] = "new" /\ acceptor[g] # "done"
  BY DEF StartAfresh, StartUnstashed, MayStart, WranglersQuiet, DoneInTime
<1>2. before \in [Gens -> AcceptorPlaces] /\ acceptor' = before /\ before[g] = "accepting"
      /\ \A h \in Gens : h # g => before[h] = acceptor[h]
  BY DEF StartAfresh, StartUnstashed, Started, WranglersQuiet, ConnTypes, AcceptorPlaces
<1>3. /\ conns' \in [Conns -> ConnStates] /\ NoneOpened
      /\ \A c \in Conns : conns'[c].at = "limited" => conns[c].at = "limited"
  <2>1. conns' = conns \/ \E S \in SUBSET Conns : conns' = Become(S, Conn("lost", Nobody))
    BY DEF StartAfresh, StartUnstashed, ConnsAt
  <2>2. CASE conns' = conns
    BY <2>2 DEF WranglersQuiet, ConnTypes, NoneOpened
  <2>. QED  BY <2>1, <2>2, BecomeOpensNone DEF WranglersQuiet
<1>4. /\ limited' = limited
      /\ stage'[g] \in {"listening", "running", "failed"}
      /\ \A h \in Gens : h # g => stage'[h] = stage[h]
  BY DEF StartAfresh, StartUnstashed, protocol, SocketsInvariant, SocketTypes
<1>. HIDE DEF before
<1>5. \A h \in Gens : before[h] \in {"draining", "done"} => h # g
  BY <1>2
<1>6. \A h \in Gens : before[h] \in {"draining", "done"} =>
        stage'[h] \in {"stopping", "stopped", "gone"}
  BY <1>2, <1>4, <1>5 DEF WranglersQuiet, DoneInTime
<1>7. \A h \in Gens : stage'[h] \in {"stopped", "gone"} => acceptor[h] = "done"
  BY <1>4 DEF WranglersQuiet, DoneInTime
<1>8. \A h \in Gens : acceptor[h] = "done" <=> before[h] = "done"
  BY <1>1, <1>2
<1>. QED  BY <1>2, <1>3, <1>4, <1>6, <1>7, <1>8, NoneOpenedKeeps

(* stop(): the acceptor begins to drain. *)
LEMMA StopQuiet ==
  ASSUME SocketsInvariant, WranglersQuiet, NEW g \in Gens, NEW reload \in BOOLEAN, Stop(g, reload)
  PROVE  WranglersQuiet'
<1>. DEFINE before == [acceptor EXCEPT ![g] = "draining"]
<1>1. stage[g] = "running" /\ acceptor[g] # "done"
  BY DEF Stop, WranglersQuiet, DoneInTime
<1>2. /\ before \in [Gens -> AcceptorPlaces] /\ acceptor' = Drained(before)
      /\ before[g] = "draining" /\ \A h \in Gens : h # g => before[h] = acceptor[h]
  BY DEF Stop, WranglersQuiet, ConnTypes, AcceptorPlaces
<1>3. /\ conns' \in [Conns -> ConnStates] /\ NoneOpened
      /\ \A c \in Conns : conns'[c].at = "limited" => conns[c].at = "limited"
  <2>1. CASE http2
    <3>1. \A c \in Conns :
            conns'[c] = conns[c] \/ conns'[c] = [conns[c] EXCEPT !.ses = "closed"]
      BY <2>1 DEF Stop, CloseSessions
    <3>2. conns' = [c \in Conns |-> conns'[c]]
      BY <2>1 DEF Stop, CloseSessions
    <3>3. \A c \in Conns : conns[c] \in ConnStates
      BY DEF WranglersQuiet, ConnTypes
    <3>4. \A c \in Conns :
            conns'[c] \in ConnStates /\ conns'[c].at = conns[c].at /\ conns'[c].of = conns[c].of
      BY <3>1, <3>3 DEF ConnStates
    <3>. QED  BY <3>2, <3>4 DEF NoneOpened
  <2>2. CASE ~http2
    <3>1. \E S \in SUBSET Conns : conns' = Become(S, Conn("closed", Nobody))
      BY <2>2 DEF Stop, CloseIdle, Closed, Sockets, ConnsAt
    <3>. QED  BY <3>1, BecomeOpensNone DEF WranglersQuiet
  <2>. QED  BY <2>1, <2>2
<1>4. /\ limited' = limited /\ stage'[g] = "stopping"
      /\ \A h \in Gens : h # g => stage'[h] = stage[h]
  BY DEF Stop, protocol, SocketsInvariant, SocketTypes
<1>. HIDE DEF before
<1>5. \A h \in Gens : before[h] \in {"draining", "done"} =>
        stage'[h] \in {"stopping", "stopped", "gone"}
  BY <1>2, <1>4 DEF WranglersQuiet, DoneInTime
<1>6. \A h \in Gens : stage'[h] \in {"stopped", "gone"} => acceptor[h] = "done"
  BY <1>4 DEF WranglersQuiet, DoneInTime
<1>7. \A h \in Gens : acceptor[h] = "done" <=> before[h] = "done"
  BY <1>1, <1>2
<1>. QED  BY <1>2, <1>3, <1>4, <1>5, <1>6, <1>7, NoneOpenedKeeps

(* What leaves the phases as they are, or moves one further after the acceptor
   is done, and adds no socket. *)
LEMMA QuietWranglers ==
  ASSUME SocketsInvariant, WranglersQuiet, limited' = limited,
         acceptor' = acceptor \/ acceptor' = Drained(acceptor),
         conns' \in [Conns -> ConnStates], NoneOpened,
         \A c \in Conns : conns'[c].at = "limited" => conns[c].at = "limited",
         \/ stage' = stage
         \/ \E g \in Gens, p \in {"running", "failed", "stopped", "gone"} :
              /\ stage' = [stage EXCEPT ![g] = p]
              /\ IF acceptor[g] \in {"draining", "done"}
                 THEN acceptor[g] = "done" /\ p \in {"stopped", "gone"}
                 ELSE p \in {"running", "failed"}
  PROVE  WranglersQuiet'
<1>1. acceptor \in [Gens -> AcceptorPlaces]
  BY DEF WranglersQuiet, ConnTypes
<1>2. /\ \A h \in Gens : acceptor[h] \in {"draining", "done"} =>
           stage'[h] \in {"stopping", "stopped", "gone"}
      /\ \A h \in Gens : stage'[h] \in {"stopped", "gone"} => acceptor[h] = "done"
  BY DEF WranglersQuiet, DoneInTime, SocketsInvariant, SocketTypes
<1>. QED  BY <1>1, <1>2, NoneOpenedKeeps

LEMMA WranglerQuiet ==
  ASSUME SocketsInvariant, WranglersQuiet, NEW g \in Gens, Wrangler(g)
  PROVE  WranglersQuiet'
<1>1. CASE ListenSucceeds(g) \/ ListenFails(g)
  <2>1. /\ UNCHANGED <<limited, acceptor, conns>> /\ acceptor[g] \notin {"draining", "done"}
        /\ \E p \in {"running", "failed"} : stage' = [stage EXCEPT ![g] = p]
    BY <1>1 DEF ListenSucceeds, ListenFails, protocol, WranglersQuiet, DoneInTime
  <2>. QED  BY <2>1, QuietWranglers DEF WranglersQuiet, ConnTypes, NoneOpened
<1>2. CASE StopReturns(g)
  <2>1. /\ UNCHANGED <<limited, acceptor, conns>> /\ acceptor[g] = "done"
        /\ stage' = [stage EXCEPT ![g] = "stopped"]
    BY <1>2 DEF StopReturns, protocol
  <2>. QED  BY <2>1, QuietWranglers DEF WranglersQuiet, ConnTypes, NoneOpened
<1>3. CASE ServicesStop(g)
  <2>1. /\ UNCHANGED <<limited, acceptor>> /\ acceptor[g] = "done"
        /\ stage' = [stage EXCEPT ![g] = "gone"]
        /\ conns' = Become(ConnsAt("limited", g), Conn("closed", Nobody))
    BY <1>3 DEF ServicesStop, protocol, Closed, WranglersQuiet, DoneInTime
  <2>2. ConnsAt("limited", g) \in SUBSET Conns
    BY DEF ConnsAt
  <2>. QED  BY <2>1, <2>2, BecomeOpensNone, QuietWranglers DEF WranglersQuiet
<1>4. CASE GraceEnds(g)
  <2>1. /\ UNCHANGED <<limited, stage>> /\ acceptor' = Drained(acceptor)
        /\ \E S \in SUBSET Conns : conns' = Become(S, Conn("closed", Nobody))
    BY <1>4 DEF GraceEnds, protocol, Closed, Sessions, Sockets, ConnsAt
  <2>. QED  BY <2>1, BecomeOpensNone, QuietWranglers DEF WranglersQuiet
<1>5. CASE StashTimeout(g)
  <2>1. /\ UNCHANGED <<limited, stage, acceptor>>
        /\ conns' = conns \/ \E S \in SUBSET Conns : conns' = Become(S, Conn("closed", Nobody))
    BY <1>5 DEF StashTimeout, protocol, Closed, ConnsAt
  <2>2. CASE conns' = conns
    BY <2>1, <2>2, QuietWranglers DEF WranglersQuiet, ConnTypes, NoneOpened
  <2>. QED  BY <2>1, <2>2, BecomeOpensNone, QuietWranglers DEF WranglersQuiet
<1>. QED
  BY <1>1, <1>2, <1>3, <1>4, <1>5, StartQuiet, StopQuiet DEF Wrangler

(* A connection comes to an acceptor that accepts, or is not taken. *)
LEMMA ConnectsQuiet ==
  ASSUME SocketsInvariant, WranglersQuiet, NEW c \in Conns, Connects(c)
  PROVE  WranglersQuiet'
<1>1. UNCHANGED <<limited, stage, acceptor>>
  BY DEF Connects, protocol
<1>2. PICK s \in listening :
        conns' = [conns EXCEPT ![c] =
          IF listeners[s] = Nobody THEN Conn("lost", Nobody)
          ELSE IF acceptor[listeners[s]] # "accepting" THEN Conn("pending", listeners[s])
          ELSE Conn(IF limited THEN "limited" ELSE "open", listeners[s])]
  BY DEF Connects
<1>. DEFINE g == listeners[s]
<1>3. g \in Gens \union {Nobody}
  BY DEF SocketsInvariant, SocketTypes
<1>4. /\ \A d \in Conns : d # c => conns'[d] = conns[d]
      /\ \/ conns'[c] = Conn("lost", Nobody) \/ conns'[c] = Conn("pending", g)
         \/ limited /\ conns'[c] = Conn("limited", g)
         \/ ~limited /\ g \in Gens /\ acceptor[g] = "accepting" /\ conns'[c] = Conn("open", g)
      /\ conns' = [d \in Conns |-> conns'[d]]
  BY <1>2, <1>3 DEF WranglersQuiet, ConnTypes
<1>. HIDE DEF g
<1>5. conns'[c] \in ConnStates
  BY <1>3, <1>4 DEF Conn, ConnStates
<1>6. ConnTypes'
  <2>1. \A d \in Conns : conns'[d] \in ConnStates
    BY <1>4, <1>5 DEF WranglersQuiet, ConnTypes
  <2>2. ~limited => conns'[c].at # "limited"
    BY <1>4 DEF Conn
  <2>. QED  BY <1>1, <1>4, <2>1, <2>2 DEF WranglersQuiet, ConnTypes
<1>7. DoneInTime'
  BY <1>1 DEF WranglersQuiet, DoneInTime
<1>8. DoneIsQuiet'
  <2>. SUFFICES ASSUME ~limited, NEW h \in Gens, acceptor[h] = "done",
                       NEW d \in Conns, conns'[d].at = "open", conns'[d].of = h
                PROVE  FALSE
    BY <1>1 DEF DoneIsQuiet, Sockets, ConnsAt
  <2>1. CASE d = c
    BY <1>4, <2>1 DEF Conn
  <2>2. CASE d # c
    BY <1>4, <2>2 DEF WranglersQuiet, DoneIsQuiet, Sockets, ConnsAt
  <2>. QED  BY <2>1, <2>2
<1>. QED  BY <1>6, <1>7, <1>8 DEF WranglersQuiet

(* What happens on a connection later leaves it where it is, but for its end
   and for the limiter. *)
LEMMA ConnectionQuiet ==
  ASSUME SocketsInvariant, WranglersQuiet, NEW c \in Conns, Connection(c)
  PROVE  WranglersQuiet'
<1>0. /\ conns[c] \in ConnStates /\ conns \in [Conns -> ConnStates]
      /\ ~limited => conns[c].at # "limited"
  BY DEF WranglersQuiet, ConnTypes
<1>1. CASE SessionOpens(c) \/ SessionTimesOut(c) \/ RequestArrives(c) \/ RequestAnswered(c)
  <2>1. /\ UNCHANGED <<limited, stage, acceptor>>
        /\ \/ \E x \in {"open", "refused", "closed"} : conns' = [conns EXCEPT ![c].ses = x]
           \/ \E x \in {"busy", "idle"} : conns' = [conns EXCEPT ![c].use = x]
    BY <1>1 DEF SessionOpens, SessionTimesOut, RequestArrives, RequestAnswered, protocol
  <2>2. conns' \in [Conns -> ConnStates] /\ conns'[c].at = conns[c].at /\ conns'[c].of = conns[c].of
        /\ \A d \in Conns : d # c => conns'[d] = conns[d]
    BY <1>0, <2>1 DEF ConnStates
  <2>3. NoneOpened /\ \A d \in Conns : conns'[d].at = "limited" => conns[d].at = "limited"
    BY <2>2 DEF NoneOpened
  <2>. QED  BY <2>1, <2>2, <2>3, QuietWranglers
<1>2. CASE LimiterDenies(c) \/ SessionEnds(c) \/ SocketEnds(c)
  <2>1. /\ UNCHANGED <<limited, stage>>
        /\ acceptor' = acceptor \/ acceptor' = Drained(acceptor)
        /\ conns' = Become({c}, Conn("closed", Nobody))
    BY <1>0, <1>2 DEF LimiterDenies, SessionEnds, SocketEnds, CloseSocket, protocol, Closed, Become
  <2>. QED  BY <2>1, BecomeOpensNone, QuietWranglers DEF WranglersQuiet
<1>3. CASE LimiterGrants(c)
  <2>1. /\ UNCHANGED <<limited, stage, acceptor>> /\ limited
        /\ conns' = [conns EXCEPT ![c].at = "open"]
    BY <1>0, <1>3 DEF LimiterGrants, protocol
  <2>2. conns' \in [Conns -> ConnStates]
    BY <1>0, <2>1 DEF ConnStates
  <2>. QED  BY <2>1, <2>2 DEF WranglersQuiet, ConnTypes, DoneInTime, DoneIsQuiet
<1>. QED  BY <1>1, <1>2, <1>3, ConnectsQuiet DEF Connection

LEMMA NextQuiet ==
  ASSUME SocketsInvariant, WranglersQuiet, [ConnectionsNext]_networkVars
  PROVE  WranglersQuiet'
<1>1. CASE UNCHANGED networkVars
  BY <1>1 DEF networkVars, protocol, WranglersQuiet, ConnTypes, DoneInTime, DoneIsQuiet, Sockets, ConnsAt
<1>. QED  BY <1>1, WranglerQuiet, ConnectionQuiet DEF ConnectionsNext

(* Without a rate limiter, stop() of a wrangler returns only when there is no
   connection left, and there will never be another: TcpWrangler's acceptor waits
   for its #anySockets to be false, after it has stopped to take any. *)
THEOREM StoppedWranglersAreQuiet == ConnectionsSpec => []StoppedIsQuiet
<1>1. ConnectionsInit => SocketsInvariant /\ WranglersQuiet
  BY SocketsAtFirst, InitQuiet
<1>2. SocketsInvariant /\ WranglersQuiet /\ [ConnectionsNext]_networkVars
        => (SocketsInvariant /\ WranglersQuiet)'
  BY SocketsKept, NextQuiet
<1>3. SocketsInvariant /\ WranglersQuiet => StoppedIsQuiet
  BY DEF WranglersQuiet, DoneInTime, DoneIsQuiet, StoppedIsQuiet
<1>. QED  BY <1>1, <1>2, <1>3, PTL DEF ConnectionsSpec

-----------------------------------------------------------------------------
(* Requests.  What is known of a request by where it is: while StaticFiles *)
(* looks for a file, while the answer waits to be written, in the middle   *)
(* of writing it, and when it is done.                                     *)
StaticPhases == {"stat", "index", "tag", "missing", "nf-stat", "nf-read"}
WritingPhases == {"answered", "read-once", "open", "chunks"}
RequestPhases == {"idle", "reading", "handling", "done"} \union StaticPhases \union WritingPhases

IsSeq(s) == s \in Seq(ToSet(s))
IsOn(f) == f = [r \in Requests |-> f[r]]

RequestTypes ==
  /\ site \in DOMAIN Sites
  /\ phase \in [Requests -> RequestPhases]
  /\ conn \in {"new", "open", "closing", "closed"}
  /\ fs \in [Files -> [version : 1 .. MaxVersion, there : BOOLEAN]]
  /\ IsOn(client) /\ IsOn(todo) /\ IsOn(asked) /\ IsOn(look) /\ IsOn(answer) /\ IsOn(came)
  /\ IsOn(sent) /\ IsOn(status) /\ IsOn(declared) /\ IsOn(changed)

(* The page that StaticFiles keeps for what is not found. *)
PageOK == notFound.version \in 1 .. MaxVersion

(* Nobody asks before there is a connection. *)
NobodyFirst == conn = "new" => \A r \in Requests : phase[r] = "idle"

(* The file and the application that the request has come to. *)
IsStatic(r) == asked[r] # <<>> /\ Last(asked[r]).app \in OfType("StaticFiles")
AppOf(r) == Site.apps[Last(asked[r]).app]
NamesOf(r) == DecodedPath(Last(asked[r]).dispatch.extra).names
IsNow(file, version) == fs[file] = [version |-> version, there |-> TRUE]

FileIsRight(r, file, version) ==
  /\ file \in Files /\ version \in 1 .. MaxVersion
  /\ ~changed[r] => IsNow(file, version) /\ file = FileOf(r)

(* The index files that are still to be looked for; those before are not there. *)
IndexLeft(r) ==
  /\ AppOf(r).tree[NamesOf(r)].kind # "file"
  /\ look[r] = [file |-> None, names |-> look[r].names]
  /\ \E k \in 0 .. Len(AppOf(r).index) :
       /\ look[r].names = SubSeq(AppOf(r).index, k + 1, Len(AppOf(r).index))
       /\ ~changed[r] => \A j \in 1 .. k : ~HasIndex(AppOf(r), NamesOf(r), j)

LooksRight(r) ==
  /\ phase[r] \in StaticPhases =>
       IsStatic(r) /\ Head(todo[r]) = Last(asked[r]) /\ GetOrHead(client[r].method)
  /\ phase[r] = "index" => IndexLeft(r)
  /\ phase[r] = "tag" =>
       /\ look[r] = [file |-> look[r].file, version |-> look[r].version]
       /\ FileIsRight(r, look[r].file, look[r].version)
  /\ phase[r] = "nf-stat" => look[r].file \in Files /\ look[r].existing \in 1 .. MaxVersion
  /\ phase[r] = "nf-read" => look[r].file \in Files
  /\ phase[r] \in {"answered", "read-once", "open"} => look[r] = NoLook

(* The answer is one that can be written, and says what is so. *)
FileBody(b) ==
  /\ b.of \in Files /\ b.version \in 1 .. MaxVersion
  /\ b.first \in Nat /\ b.length \in Nat /\ b.first + b.length <= Lengths[b.version]

SaysOf(c, a, file, version) ==
  LET length == Lengths[version]
      last == Min2(c.range.last, length - 1)
  IN  /\ a.status = 200 =>
           /\ a.body = DataBody("file", file, version, 0, length)
           /\ c.noCache \/ c.inm = None \/ a.etag \notin c.inm
      /\ a.status = 206 =>
           /\ c.range.kind = "one"
           /\ a.body = DataBody("file", file, version, c.range.first, last - c.range.first + 1)
      /\ a.status = 304 => a.body = NoBody /\ ~c.noCache
                           /\ (IF c.inm # None THEN \E t \in c.inm : t.of = version
                               ELSE c.ims >= SecondOf(version))
      /\ a.status = 416 => a.body = Message /\ (c.range.kind = "bad" \/ c.range.first > last)

Fits(r) ==
  /\ answer[r].body.kind \in {"none", "message", "buffer", "file"}
  /\ Validates(answer[r]) \/ AnsweredByError(r)
  /\ answer[r].status = 500 => AnsweredByError(r)
  /\ IsData(r) => answer[r].body.length \in Nat
  /\ answer[r].body.kind = "file" =>
       /\ FileBody(answer[r].body)
       /\ ~changed[r] => IsNow(answer[r].body.of, answer[r].body.version)
  /\ IsStatic(r) /\ ~changed[r] =>
       SaysOf(client[r], answer[r], FileOf(r), fs[FileOf(r)].version)

(* What was sent is a beginning of the answer's body. *)
Carried(r, n) ==
  /\ sent[r] # <<>> /\ RunsFrom(sent[r], answer[r].body.first, n)
  /\ ~changed[r] => \A i \in DOMAIN sent[r] :
       sent[r][i].of = answer[r].body.of /\ sent[r][i].version = answer[r].body.version

Unsent(r) == sent[r] = <<>> /\ status[r] = 0 /\ declared[r] = None
Begun(r) == status[r] = answer[r].status /\ declared[r] = ContentLength(r)

InChunks(r) ==
  /\ look[r] = NoLook \/ (look[r] = [file |-> look[r].file, at |-> At(r)])
  /\ At(r) \in Nat /\ At(r) < answer[r].body.length
  /\ conn # "closed" => IF At(r) = 0 THEN Unsent(r) ELSE Begun(r) /\ Carried(r, At(r))

IsFileBody(r) == answer[r].body.kind = "file" /\ SendsBody(r) /\ Validates(answer[r])

Refusal(r) == status[r] = 400 /\ sent[r] = <<>> /\ declared[r] = None
WholeAnswer(r) ==
  /\ Fits(r) /\ Begun(r)
  /\ IF SendsBody(r) /\ IsData(r) THEN Carried(r, answer[r].body.length) ELSE sent[r] = <<>>
Failure(r) == conn # "open" /\ (changed[r] \/ AnsweredByError(r))

RequestOK(r) ==
  /\ IsSeq(asked[r]) /\ IsSeq(sent[r])
  /\ phase[r] # "idle" => AskAssumption(client[r])
  /\ phase[r] \notin {"chunks", "done"} => Unsent(r)
  /\ LooksRight(r)
  /\ phase[r] \in WritingPhases => Fits(r)
  /\ phase[r] \in {"read-once", "open", "chunks"} => IsFileBody(r)
  /\ phase[r] = "open" => answer[r].body.length # 0
  /\ phase[r] = "chunks" => InChunks(r)
  /\ phase[r] = "done" /\ conn # "closed" => Refusal(r) \/ WholeAnswer(r) \/ Failure(r)
  /\ status[r] = 500 => changed[r] \/ AnsweredByError(r)

RequestsInvariant ==
  RequestTypes /\ NobodyFirst /\ PageOK /\ \A r \in Requests : RequestOK(r)
-----------------------------------------------------------------------------
(* What adjustFor() makes of a response that has content, or none.         *)
LEMMA ContentParts ==
  ASSUME NEW status0, NEW body0, NEW headers0, NEW tag, NEW date0,
         NEW a, a = ContentResponse(status0, body0, headers0, tag, date0)
  PROVE  a.status = status0 /\ a.body = body0 /\ a.headers = headers0 /\ a.etag = tag /\ a.date = date0
BY DEF ContentResponse

LEMMA BodyParts ==
  ASSUME NEW kind, NEW of, NEW version, NEW first, NEW length,
         NEW b, b = DataBody(kind, of, version, first, length)
  PROVE  b.kind = kind /\ b.of = of /\ b.version = version /\ b.first = first /\ b.length = length
BY DEF DataBody

LEMMA SliceParts ==
  ASSUME NEW kind, NEW of, NEW version, NEW length, NEW first, NEW end,
         NEW b, b = DataBody(kind, of, version, 0, length)
  PROVE  SliceBody(b, first, end) = DataBody(kind, of, version, 0 + first, end - first)
<1>1. b.kind = kind /\ b.of = of /\ b.version = version /\ b.first = 0 /\ b.length = length
  BY BodyParts
<1>2. SliceBody(b, first, end) = DataBody(b.kind, b.of, b.version, b.first + first, end - first)
  BY DEF SliceBody
<1>. QED  BY <1>1, <1>2

LEMMA AdjustedData ==
  ASSUME NEW c, NEW kind \in {"buffer", "file"}, NEW of, NEW version, NEW length, NEW tag, NEW date,
         NEW made,
         made = ContentResponse(200, DataBody(kind, of, version, 0, length), {"content-type"}, tag, date),
         NEW a, a = AdjustFor(made, c),
         NEW info, info = RangeInfo(c, tag, date, length)
  PROVE  \/ /\ IsContentFresh(c, tag, date)
            /\ a.status = 304 /\ a.body = NoBody /\ a.headers = {}
         \/ /\ ~IsContentFresh(c, tag, date) /\ info.kind = "whole"
            /\ a.status = 200 /\ a.body = DataBody(kind, of, version, 0, length)
            /\ "content-type" \in a.headers /\ a.etag = tag
         \/ /\ ~IsContentFresh(c, tag, date) /\ info.kind = "unsatisfiable"
            /\ a.status = 416 /\ a.body = Message /\ a.headers = {"content-range"}
         \/ /\ ~IsContentFresh(c, tag, date) /\ info.kind = "part"
            /\ a.status = 206 /\ "content-type" \in a.headers
            /\ a.body = SliceBody(DataBody(kind, of, version, 0, length), info.first, info.last + 1)
<1>. DEFINE b == DataBody(kind, of, version, 0, length)
            part == SliceBody(b, info.first, info.last + 1)
<1>1. made.status = 200 /\ made.body = b /\ made.headers = {"content-type"} /\ made.etag = tag
      /\ made.date = date
  BY ContentParts
<1>2. b.kind = kind /\ b.of = of /\ b.version = version /\ b.first = 0 /\ b.length = length
  BY BodyParts
<1>. HIDE DEF b, part
<1>4. info.kind \in {"whole", "unsatisfiable", "part"}
  BY DEF RangeInfo
<1>5. a = IF IsContentFresh(c, tag, date) THEN ContentResponse(304, NoBody, {}, tag, date)
          ELSE IF info.kind = "whole" THEN made
          ELSE IF info.kind = "unsatisfiable"
          THEN ContentResponse(416, Message, {"content-range"}, None, 0)
          ELSE ContentResponse(206, part, {"content-type"} \union {"content-range"}, tag, date)
  <2>1. made.body.kind \in {"buffer", "file"} /\ made.body.length = length
    BY <1>1, <1>2
  <2>. DEFINE isData == made.body.kind \in {"buffer", "file"}
              size == IF isData THEN made.body.length ELSE 0
  <2>2. isData /\ size = length
    BY <2>1
  <2>3. RangeInfo(c, made.etag, made.date, size) = info
    BY <1>1, <2>2, Zenon
  <2>4. SliceBody(made.body, info.first, info.last + 1) = part
    BY <1>1, Zenon DEF part
  <2>5. made.status \in {200, 204} /\ made.status # 204
    BY <1>1
  <2>6. AdjustFor(made, c) =
          IF made.status \notin {200, 204} THEN made
          ELSE IF IsContentFresh(c, made.etag, made.date)
               THEN ContentResponse(304, NoBody, {}, made.etag, made.date)
          ELSE IF made.status = 204 \/ ~isData \/ RangeInfo(c, made.etag, made.date, size).kind = "whole"
               THEN made
          ELSE IF RangeInfo(c, made.etag, made.date, size).kind = "unsatisfiable"
               THEN ContentResponse(416, Message, {"content-range"}, None, 0)
          ELSE ContentResponse(206, SliceBody(made.body, RangeInfo(c, made.etag, made.date, size).first,
                                              RangeInfo(c, made.etag, made.date, size).last + 1),
                               made.headers \union {"content-range"}, made.etag, made.date)
    BY Zenon DEF AdjustFor
  <2>. HIDE DEF isData, size
  <2>. QED  BY <1>1, <2>2, <2>3, <2>4, <2>5, <2>6
<1>6. CASE IsContentFresh(c, tag, date)
  <2>1. a = ContentResponse(304, NoBody, {}, tag, date)
    BY <1>5, <1>6
  <2>. QED  BY <1>6, <2>1, ContentParts
<1>7. CASE ~IsContentFresh(c, tag, date) /\ info.kind = "whole"
  <2>1. a = made
    BY <1>5, <1>7
  <2>. QED  BY <1>1, <1>7, <2>1 DEF b
<1>8. CASE ~IsContentFresh(c, tag, date) /\ info.kind = "unsatisfiable"
  <2>1. a = ContentResponse(416, Message, {"content-range"}, None, 0)
    BY <1>5, <1>8
  <2>. QED  BY <1>8, <2>1, ContentParts
<1>9. CASE ~IsContentFresh(c, tag, date) /\ info.kind = "part"
  <2>1. a = ContentResponse(206, part, {"content-type"} \union {"content-range"}, tag, date)
    BY <1>5, <1>9
  <2>2. a.status = 206 /\ a.body = part /\ a.headers = {"content-type"} \union {"content-range"}
    BY <2>1, ContentParts
  <2>. QED  BY <1>9, <2>2 DEF part, b
<1>. QED  BY <1>4, <1>6, <1>7, <1>8, <1>9

(* Which statuses let a response validate. *)
LEMMA ValidData ==
  ASSUME NEW a, a.body.kind \in {"buffer", "file"}, "content-type" \in a.headers,
         BodyAllowed("get", a.status)
  PROVE  Validates(a)
<1>1. a.body.kind # "none" /\ a.body.kind # "message"
  OBVIOUS
<1>. QED  BY <1>1 DEF Validates

LEMMA ValidWithout ==
  ASSUME NEW a, a.body = NoBody, a.headers = {}, a.status \notin {200, 206}
  PROVE  Validates(a)
<1>1. a.body.kind = "none"
  BY DEF NoBody
<1>2. ~BodyRequired(a.status)
  BY DEF BodyRequired
<1>. QED  BY <1>1, <1>2 DEF Validates

LEMMA ValidMessage ==
  ASSUME NEW a, a.body = Message, a.headers \subseteq HeaderExceptions(a.status),
         ~IsApplicationContent(a.status), BodyAllowed("get", a.status)
  PROVE  Validates(a)
<1>1. a.body.kind = "message" /\ a.body.kind # "none"
  BY DEF Message
<1>. QED  BY <1>1 DEF Validates

LEMMA PartLength ==
  ASSUME NEW c, AskAssumption(c), NEW tag, NEW date, NEW length \in Nat,
         NEW info, info = RangeInfo(c, tag, date, length), info.kind = "part"
  PROVE  info.first \in Nat /\ (info.last + 1) - info.first \in Nat
<1>1. /\ c.range.kind = "one"
      /\ ~(c.range.first >= length \/ c.range.first > c.range.last)
      /\ info.first = c.range.first
      /\ info.last = IF c.range.last >= length THEN length - 1 ELSE c.range.last
  BY DEF RangeInfo, AskAssumption
<1>2. c.range.first \in Nat /\ c.range.last \in Nat
  BY <1>1 DEF AskAssumption
<1>3. PICK first \in Nat, last \in Nat : first = c.range.first /\ last = c.range.last
  BY <1>2
<1>4. PICK end \in Int : end = info.last /\ first <= end
  BY <1>1, <1>3
<1>. QED  BY <1>1, <1>3, <1>4

LEMMA AdjustedIsValid ==
  ASSUME NEW c, AskAssumption(c), NEW kind \in {"buffer", "file"},
         NEW of, NEW version, NEW length \in Nat, NEW tag, NEW date,
         NEW made,
         made = ContentResponse(200, DataBody(kind, of, version, 0, length), {"content-type"}, tag, date),
         NEW a, a = AdjustFor(made, c)
  PROVE  /\ Validates(a) /\ a.status # 500
         /\ a.body.kind \in {"none", "message", kind}
         /\ a.body.kind = kind => a.body.length \in Nat
<1>. DEFINE info == RangeInfo(c, tag, date, length)
            b == DataBody(kind, of, version, 0, length)
            part == SliceBody(b, info.first, info.last + 1)
<1>1. b.kind = kind /\ part.kind = kind /\ NoBody.kind = "none" /\ Message.kind = "message"
  BY DEF DataBody, SliceBody, NoBody, Message
<1>2. BodyAllowed("get", 200) /\ BodyAllowed("get", 206) /\ BodyAllowed("get", 416)
      /\ ~IsApplicationContent(416) /\ HeaderExceptions(416) = {"content-range"}
  BY DEF BodyAllowed, IsApplicationContent, HeaderExceptions
<1>3. \/ a.status = 304 /\ a.body = NoBody /\ a.headers = {}
      \/ a.status \in {200, 206} /\ "content-type" \in a.headers
         /\ (a.body = b \/ (info.kind = "part" /\ a.body = part))
      \/ a.status = 416 /\ a.body = Message /\ a.headers = {"content-range"}
  <2>1. \/ a.status = 304 /\ a.body = NoBody /\ a.headers = {}
        \/ a.status = 200 /\ a.body = b /\ "content-type" \in a.headers
        \/ a.status = 416 /\ a.body = Message /\ a.headers = {"content-range"}
        \/ info.kind = "part" /\ a.status = 206 /\ "content-type" \in a.headers /\ a.body = part
    <3>. HIDE DEF info
    <3>. QED  BY AdjustedData DEF info
  <2>. HIDE DEF info, b, part
  <2>. QED  BY <2>1
<1>0. b.length = length /\ part.length = (info.last + 1) - info.first
  <2>. DEFINE first == info.first
              end == info.last + 1
  <2>1. b.length = length
    BY BodyParts
  <2>2. PICK d : d = b
    OBVIOUS
  <2>3. d = DataBody(kind, of, version, 0, length)
    BY <2>2
  <2>. HIDE DEF first, end
  <2>4. SliceBody(d, first, end) = DataBody(kind, of, version, 0 + first, end - first)
    BY <2>3, SliceParts
  <2>5. PICK p : p = SliceBody(d, first, end)
    OBVIOUS
  <2>6. p.length = end - first
    BY <2>4, <2>5, BodyParts
  <2>. QED  BY <2>1, <2>2, <2>5, <2>6 DEF first, end
<1>7. info.kind = "part" => part.length \in Nat
  <2>. HIDE DEF info, part
  <2>. QED  BY <1>0, PartLength DEF info
<1>. HIDE DEF b, part, info
<1>4. CASE a.status = 304 /\ a.body = NoBody /\ a.headers = {}
  <2>1. a.status \notin {200, 206}
    BY <1>4
  <2>. QED  BY <1>1, <1>4, <2>1, ValidWithout
<1>5. CASE /\ a.status \in {200, 206} /\ "content-type" \in a.headers
           /\ a.body = b \/ (info.kind = "part" /\ a.body = part)
  <2>1. a.body.kind = kind /\ a.body.length \in Nat
    BY <1>0, <1>1, <1>5, <1>7
  <2>2. BodyAllowed("get", a.status)
    BY <1>2, <1>5
  <2>3. Validates(a)
    BY <1>5, <2>1, <2>2, ValidData
  <2>. QED  BY <1>5, <2>1, <2>3
<1>6. CASE a.status = 416 /\ a.body = Message /\ a.headers = {"content-range"}
  <2>1. a.headers \subseteq HeaderExceptions(a.status) /\ ~IsApplicationContent(a.status)
        /\ BodyAllowed("get", a.status)
    BY <1>2, <1>6
  <2>2. Validates(a)
    BY <1>6, <2>1, ValidMessage
  <2>. QED  BY <1>1, <1>6, <2>2
<1>. QED  BY <1>3, <1>4, <1>5, <1>6
-----------------------------------------------------------------------------
(* The answers that carry nothing of a file that could be wrong.           *)
IsPlain(a) ==
  /\ a.body.kind \in {"none", "message", "buffer"}
  /\ Validates(a)
  /\ a.status \notin {200, 206, 304, 416, 500}
  /\ a.body.kind = "buffer" => a.body.length \in Nat

LEMMA MetaFits ==
  ASSUME NEW code, code \notin {200, 206}, NEW a, a = MetaResponse(code)
  PROVE  /\ a.status = code /\ a.body.kind \in {"none", "message"}
         /\ a.headers = {} /\ Validates(a)
<1>. DEFINE wanted == BodyAllowed("get", code) /\ ~IsApplicationContent(code)
<1>1. a = ContentResponse(code, IF wanted THEN Message ELSE NoBody, {}, None, 0)
  BY DEF MetaResponse, Response
<1>2. a.status = code /\ a.headers = {}
  BY <1>1, ContentParts
<1>3. CASE wanted
  <2>1. a.body = Message
    BY <1>1, <1>3, ContentParts
  <2>2. a.headers \subseteq HeaderExceptions(a.status)
    BY <1>2
  <2>3. Validates(a)
    BY <1>2, <1>3, <2>1, <2>2, ValidMessage
  <2>. QED  BY <1>2, <2>1, <2>3 DEF Message
<1>4. CASE ~wanted
  <2>1. a.body = NoBody
    BY <1>1, <1>4, ContentParts
  <2>2. Validates(a)
    BY <1>2, <2>1, ValidWithout
  <2>. QED  BY <1>2, <2>1, <2>2 DEF NoBody
<1>. QED  BY <1>3, <1>4

LEMMA MetaIsPlain ==
  ASSUME NEW code, code \notin {200, 206, 304, 416, 500}
  PROVE  IsPlain(MetaResponse(code))
BY MetaFits DEF IsPlain

LEMMA RedirectFits ==
  ASSUME NEW code, code \notin {200, 206}, NEW target, NEW a, a = Redirect(target, code)
  PROVE  a.status = code /\ a.body.kind \in {"none", "message"} /\ Validates(a)
<1>. DEFINE m == MetaResponse(code)
<1>1. m.status = code /\ m.body.kind \in {"none", "message"} /\ m.headers = {} /\ Validates(m)
  BY MetaFits
<1>2. DOMAIN m = {"status", "body", "headers", "etag", "date", "location"}
  BY DEF MetaResponse, Response, ContentResponse
<1>3. a = [m EXCEPT !.location = target]
  BY DEF Redirect
<1>. HIDE DEF m
<1>4. a.status = m.status /\ a.body = m.body /\ a.headers = m.headers
  BY <1>2, <1>3
<1>5. Validates(a) <=> Validates(m)
  BY <1>4 DEF Validates
<1>. QED  BY <1>1, <1>4, <1>5

LEMMA NotFoundIsPlain ==
  ASSUME NEW file, NEW version \in 1 .. MaxVersion
  PROVE  IsPlain(NotFoundResponse(file, version))
<1>. DEFINE a == NotFoundResponse(file, version)
            b == DataBody("buffer", file, version, 0, Lengths[version])
<1>1. a = ContentResponse(404, b, {"content-type"}, None, 0)
  BY DEF NotFoundResponse
<1>2. b.kind = "buffer" /\ b.length \in Nat
  BY FilesAssumption DEF DataBody
<1>. HIDE DEF a, b
<1>3. a.status = 404 /\ a.body = b /\ a.headers = {"content-type"}
  BY <1>1, ContentParts
<1>4. BodyAllowed("get", a.status)
  BY <1>3 DEF BodyAllowed
<1>5. Validates(a)
  BY <1>2, <1>3, <1>4, ValidData
<1>. QED  BY <1>2, <1>3, <1>5 DEF IsPlain, a

-----------------------------------------------------------------------------
(* What StaticFiles answers with of a file: the whole, a part of it, or    *)
(* that there is nothing new; and all of that is so.                       *)
TagOf(tag, version) == tag = None \/ (tag # None /\ tag.of = version)

LEMMA FileAdjusted ==
  ASSUME NEW c, AskAssumption(c), GetOrHead(c.method),
         NEW file \in Files, NEW version \in 1 .. MaxVersion, NEW tag,
         NEW a, a = AdjustFor(FileResponse(file, version, tag), c)
  PROVE  /\ Validates(a) /\ a.status # 500
         /\ a.body.kind \in {"none", "message", "file"}
         /\ a.body.kind = "file" => FileBody(a.body) /\ a.body.of = file /\ a.body.version = version
         /\ TagOf(tag, version) => SaysOf(c, a, file, version)
<1>. DEFINE length == Lengths[version]
            date == SecondOf(version)
            made == FileResponse(file, version, tag)
            b == DataBody("file", file, version, 0, length)
            info == RangeInfo(c, tag, date, length)
            last == Min2(c.range.last, length - 1)
<1>0. length \in Nat
  BY FilesAssumption
<1>1. made = ContentResponse(200, b, {"content-type"}, tag, date)
  BY DEF FileResponse
<1>2. b.kind = "file" /\ b.of = file /\ b.version = version /\ b.first = 0 /\ b.length = length
  BY DEF DataBody
<1>3. Validates(a) /\ a.status # 500 /\ a.body.kind \in {"none", "message", "file"}
  <2>. HIDE DEF length, date, made
  <2>. QED  BY <1>0, <1>1, AdjustedIsValid DEF made
<1>4. \/ /\ IsContentFresh(c, tag, date)
         /\ a.status = 304 /\ a.body = NoBody
      \/ /\ ~IsContentFresh(c, tag, date) /\ info.kind = "whole"
         /\ a.status = 200 /\ a.body = b /\ a.etag = tag
      \/ /\ ~IsContentFresh(c, tag, date) /\ info.kind = "unsatisfiable"
         /\ a.status = 416 /\ a.body = Message
      \/ /\ ~IsContentFresh(c, tag, date) /\ info.kind = "part"
         /\ a.status = 206 /\ a.body = SliceBody(b, info.first, info.last + 1)
  <2>1. a = AdjustFor(made, c)
    OBVIOUS
  <2>. HIDE DEF length, date, made, info
  <2>. QED  BY <1>1, <2>1, AdjustedData DEF info
<1>5. NoBody.kind = "none" /\ Message.kind = "message"
  BY DEF NoBody, Message
<1>6. CASE /\ IsContentFresh(c, tag, date)
           /\ a.status = 304 /\ a.body = NoBody
  <2>1. ~c.noCache
    BY <1>6 DEF IsContentFresh
  <2>2. c.inm # None => tag # None /\ tag \in c.inm
    BY <1>6 DEF IsContentFresh
  <2>3. c.inm = None => c.ims >= date
    <3>1. date \in Int /\ c.ims \in Int
      BY PerSecondAssumption, FilesAssumption DEF SecondOf, AskAssumption
    <3>2. c.inm = None => date <= c.ims
      BY <1>6 DEF IsContentFresh
    <3>. HIDE DEF date
    <3>. QED  BY <3>1, <3>2
  <2>4. TagOf(tag, version) => SaysOf(c, a, file, version)
    <3>1. SUFFICES ASSUME TagOf(tag, version) PROVE SaysOf(c, a, file, version)
      OBVIOUS
    <3>2. c.inm # None => \E t \in c.inm : t.of = version
      BY <2>2, <3>1 DEF TagOf
    <3>. QED  BY <1>6, <2>1, <2>3, <3>2 DEF SaysOf
  <2>. QED  BY <1>3, <1>5, <1>6, <2>4
<1>7. CASE /\ ~IsContentFresh(c, tag, date) /\ info.kind = "whole"
           /\ a.status = 200 /\ a.body = b /\ a.etag = tag
  <2>1. c.noCache \/ c.inm = None \/ a.etag \notin c.inm
    <3>1. c.inm # None => None \notin c.inm
      BY DEF AskAssumption
    <3>2. c.noCache \/ c.inm = None \/ tag = None \/ tag \notin c.inm
      BY <1>7 DEF IsContentFresh
    <3>. QED  BY <1>7, <3>1, <3>2
  <2>2. SaysOf(c, a, file, version)
    BY <1>7, <2>1 DEF SaysOf
  <2>3. FileBody(a.body) /\ a.body.of = file /\ a.body.version = version
    <3>. HIDE DEF b
    <3>. QED  BY <1>0, <1>2, <1>7 DEF FileBody
  <2>. QED  BY <1>3, <2>2, <2>3
<1>8. CASE /\ ~IsContentFresh(c, tag, date) /\ info.kind = "unsatisfiable"
           /\ a.status = 416 /\ a.body = Message
  <2>1. c.range.kind = "bad" \/ (c.range.kind = "one" /\ (c.range.first >= length \/ c.range.first > c.range.last))
    BY <1>8 DEF RangeInfo, AskAssumption
  <2>2. c.range.kind = "bad" \/ c.range.first > last
    <3>1. c.range.kind = "one" => c.range.first \in Nat /\ c.range.last \in Nat
      BY DEF AskAssumption
    <3>. QED  BY <1>0, <2>1, <3>1 DEF Min2
  <2>3. SaysOf(c, a, file, version)
    BY <1>8, <2>2 DEF SaysOf
  <2>. QED  BY <1>3, <1>5, <1>8, <2>3
<1>9. CASE /\ ~IsContentFresh(c, tag, date) /\ info.kind = "part"
           /\ a.status = 206 /\ a.body = SliceBody(b, info.first, info.last + 1)
  <2>1. /\ c.range.kind = "one"
        /\ ~(c.range.first >= length \/ c.range.first > c.range.last)
        /\ info.first = c.range.first
        /\ info.last = IF c.range.last >= length THEN length - 1 ELSE c.range.last
    BY <1>9 DEF RangeInfo, AskAssumption
  <2>2. c.range.first \in Nat /\ c.range.last \in Nat
    BY <2>1 DEF AskAssumption
  <2>3. info.last = last /\ last \in Int /\ c.range.first <= last /\ last < length
    BY <1>0, <2>1, <2>2 DEF Min2
  <2>. DEFINE first == c.range.first
              size == last - first + 1
              end == last + 1
  <2>5. 0 + first = first /\ end - first = size /\ first \in Nat /\ size \in Nat /\ first + size <= length
    BY <1>0, <2>2, <2>3
  <2>6. a.body = DataBody("file", file, version, first, size)
    <3>1. info.first = first /\ info.last + 1 = end
      BY <2>1, <2>3
    <3>2. b = DataBody("file", file, version, 0, length)
      OBVIOUS
    <3>3. a.body = SliceBody(b, first, end)
      BY <1>9, <3>1
    <3>. HIDE DEF first, b, length, info, end, size
    <3>4. SliceBody(b, first, end) = DataBody("file", file, version, 0 + first, end - first)
      BY <3>2, SliceParts
    <3>. QED  BY <2>5, <3>3, <3>4
  <2>. HIDE DEF first, size, last
  <2>7. SaysOf(c, a, file, version)
    BY <1>9, <2>1, <2>6 DEF SaysOf, first, size, last
  <2>8. FileBody(a.body) /\ a.body.of = file /\ a.body.version = version
    <3>1. first \in Nat /\ size \in Nat /\ first + size <= length
      BY <2>5
    <3>2. a.body.of = file /\ a.body.version = version /\ a.body.first = first /\ a.body.length = size
      BY <2>6, BodyParts
    <3>. QED  BY <3>1, <3>2 DEF FileBody
  <2>. QED  BY <1>3, <2>7, <2>8
<1>. HIDE DEF info, b, date, made, length, last
<1>. QED  BY <1>4, <1>6, <1>7, <1>8, <1>9
LEMMA SimpleAdjusted ==
  ASSUME NEW c, AskAssumption(c), NEW app, app.length \in Nat \union {None}, app.status = None,
         NEW a, a = AdjustFor(SimpleResponse(app), c)
  PROVE  /\ Validates(a) /\ a.status # 500 /\ a.body.kind \in {"none", "message", "buffer"}
         /\ a.body.kind = "buffer" => a.body.length \in Nat
<1>. DEFINE tag == IF app.etag THEN TagFromData(1) ELSE None
            date == SecondOf(1)
            made == SimpleResponse(app)
<1>1. CASE app.length = None
  <2>1. made = ContentResponse(204, NoBody, {}, tag, 0)
    BY <1>1 DEF SimpleResponse
  <2>. HIDE DEF made, tag
  <2>2. made.status = 204 /\ made.body = NoBody /\ made.headers = {} /\ made.etag = tag /\ made.date = 0
    BY <2>1, ContentParts
  <2>3. a = made \/ a = ContentResponse(304, NoBody, {}, made.etag, made.date)
    <3>1. made.status = 204 /\ made.status \in {200, 204}
      BY <2>2
    <3>. QED  BY <3>1 DEF AdjustFor, made
  <2>4. a.status \in {204, 304} /\ a.body = NoBody /\ a.headers = {}
    BY <2>2, <2>3, ContentParts
  <2>5. Validates(a)
    <3>1. a.status \notin {200, 206}
      BY <2>4
    <3>. QED  BY <2>4, <3>1, ValidWithout
  <2>. QED  BY <2>4, <2>5 DEF NoBody
<1>2. CASE app.length # None
  <2>1. made = ContentResponse(200, DataBody("buffer", None, 1, 0, app.length), {"content-type"}, tag, date)
    BY <1>2 DEF SimpleResponse
  <2>2. a = AdjustFor(made, c)
    OBVIOUS
  <2>. HIDE DEF made, tag, date
  <2>3. PICK kind \in {"buffer", "file"} : kind = "buffer"
    OBVIOUS
  <2>4. PICK length \in Nat : length = app.length
    BY <1>2
  <2>5. made = ContentResponse(200, DataBody(kind, None, 1, 0, length), {"content-type"}, tag, date)
    BY <2>1, <2>3, <2>4
  <2>6. /\ Validates(a) /\ a.status # 500
        /\ a.body.kind \in {"none", "message", kind}
        /\ a.body.kind = kind => a.body.length \in Nat
    BY <2>2, <2>5, AdjustedIsValid
  <2>. QED  BY <2>3, <2>6
<1>. QED  BY <1>1, <1>2

LEMMA SimpleConfigured ==
  ASSUME NEW app, app.type = "SimpleResponse", app.status # None,
         app.length \in Nat \union {None}, NEW a, a = SimpleResponse(app)
  PROVE  /\ a.body.kind \in {"none", "buffer"}
         /\ Validates(a) \/ AsksForAnError(app)
         /\ a.status = 500 => AsksForAnError(app)
         /\ a.body.kind = "buffer" => a.body.length \in Nat
<1>. DEFINE tag == IF app.etag THEN TagFromData(1) ELSE None
            b == DataBody("buffer", None, 1, 0, app.length)
<1>1. a = IF app.length = None THEN ContentResponse(app.status, NoBody, {}, tag, 0)
          ELSE ContentResponse(app.status, b, {"content-type"}, tag, SecondOf(1))
  BY DEF SimpleResponse
<1>2. NoBody.kind = "none" /\ b.kind = "buffer" /\ b.length = app.length
  BY DEF NoBody, DataBody
<1>. HIDE DEF tag, b
<1>3. a.status = app.status /\ (a.body = NoBody \/ (app.length # None /\ a.body = b))
  BY <1>1, ContentParts
<1>. QED  BY <1>2, <1>3 DEF AsksForAnError

-----------------------------------------------------------------------------
(* A step of one request leaves what is known of the others as it is.      *)
LEMMA SamePlace ==
  ASSUME NEW r \in Requests, site' = site, fs' = fs, asked'[r] = asked[r]
  PROVE  /\ FileOf(r)' = FileOf(r) /\ AppOf(r)' = AppOf(r) /\ NamesOf(r)' = NamesOf(r)
         /\ IsStatic(r)' <=> IsStatic(r)
         /\ AnsweredByError(r)' <=> AnsweredByError(r)
<1>1. Site' = Site
  BY DEF Site
<1>2. FileOf(r)' = FileOf(r)
  BY DEF FileOf, HasIndex, IsThere, Site
<1>3. AppOf(r)' = AppOf(r) /\ NamesOf(r)' = NamesOf(r)
  BY DEF AppOf, NamesOf, Site
<1>4. IsStatic(r)' <=> IsStatic(r)
  BY DEF IsStatic, OfType, Site
<1>5. AnsweredByError(r)' <=> AnsweredByError(r)
  BY DEF AnsweredByError, Site
<1>. QED  BY <1>2, <1>3, <1>4, <1>5
LEMMA SameAnswer ==
  ASSUME NEW r \in Requests, site' = site, fs' = fs, asked'[r] = asked[r],
         answer'[r] = answer[r], client'[r] = client[r], changed'[r] = changed[r]
  PROVE  /\ Fits(r)' <=> Fits(r)
         /\ IsFileBody(r)' <=> IsFileBody(r)
         /\ SendsBody(r)' <=> SendsBody(r)
         /\ IsData(r)' <=> IsData(r)
         /\ ContentLength(r)' = ContentLength(r)
<1>1. /\ FileOf(r)' = FileOf(r)
      /\ IsStatic(r)' <=> IsStatic(r)
      /\ AnsweredByError(r)' <=> AnsweredByError(r)
  BY SamePlace
<1>2. SendsBody(r)' <=> SendsBody(r)
  BY DEF SendsBody
<1>3. IsData(r)' <=> IsData(r)
  BY DEF IsData
<1>4. ContentLength(r)' = ContentLength(r)
  BY <1>3 DEF ContentLength
<1>5. IsFileBody(r)' <=> IsFileBody(r)
  BY <1>2 DEF IsFileBody
<1>6. Fits(r)' <=> Fits(r)
  <2>. DEFINE version == fs[FileOf(r)].version
  <2>1. version' = version
    BY <1>1
  <2>. DEFINE says == SaysOf(client[r], answer[r], FileOf(r), version)
  <2>. HIDE DEF version
  <2>2. says' <=> says
    BY <1>1, <2>1
  <2>3. IsNow(answer[r].body.of, answer[r].body.version)'
        <=> IsNow(answer[r].body.of, answer[r].body.version)
    BY DEF IsNow
  <2>. HIDE DEF says
  <2>. QED  BY <1>1, <1>3, <2>2, <2>3 DEF Fits, says, version
<1>. QED  BY <1>2, <1>3, <1>4, <1>5, <1>6

LEMMA SameLook ==
  ASSUME NEW r \in Requests, site' = site, fs' = fs, asked'[r] = asked[r], look'[r] = look[r],
         changed'[r] = changed[r]
  PROVE  /\ IndexLeft(r)' <=> IndexLeft(r)
         /\ FileIsRight(r, look[r].file, look[r].version)'
            <=> FileIsRight(r, look[r].file, look[r].version)
         /\ At(r)' = At(r)
<1>1. FileOf(r)' = FileOf(r) /\ AppOf(r)' = AppOf(r) /\ NamesOf(r)' = NamesOf(r)
  BY SamePlace
<1>2. \A j : HasIndex(AppOf(r), NamesOf(r), j)' <=> HasIndex(AppOf(r), NamesOf(r), j)
  BY <1>1 DEF HasIndex, IsThere
<1>3. IndexLeft(r)' <=> IndexLeft(r)
  BY <1>1, <1>2 DEF IndexLeft
<1>4. FileIsRight(r, look[r].file, look[r].version)' <=> FileIsRight(r, look[r].file, look[r].version)
  BY <1>1 DEF FileIsRight, IsNow
<1>. QED  BY <1>3, <1>4 DEF At

SameFor(r) ==
  /\ client'[r] = client[r] /\ phase'[r] = phase[r] /\ todo'[r] = todo[r] /\ asked'[r] = asked[r]
  /\ look'[r] = look[r] /\ answer'[r] = answer[r] /\ sent'[r] = sent[r] /\ status'[r] = status[r]
  /\ declared'[r] = declared[r] /\ changed'[r] = changed[r]

LEMMA SameSending ==
  ASSUME NEW r \in Requests, site' = site, fs' = fs, SameFor(r),
         conn = "closed" => conn' = "closed", conn # "open" => conn' # "open"
  PROVE  /\ InChunks(r) => InChunks(r)'
         /\ Refusal(r) => Refusal(r)'
         /\ WholeAnswer(r) => WholeAnswer(r)'
         /\ Failure(r) => Failure(r)'
<1>1. /\ Fits(r)' <=> Fits(r)
      /\ SendsBody(r)' <=> SendsBody(r)
      /\ IsData(r)' <=> IsData(r)
      /\ ContentLength(r)' = ContentLength(r)
  BY SameAnswer DEF SameFor
<1>2. At(r)' = At(r)
  BY DEF SameFor, At
<1>3. (Unsent(r)' <=> Unsent(r)) /\ (Begun(r)' <=> Begun(r))
  BY <1>1 DEF SameFor, Unsent, Begun
<1>4. /\ Carried(r, At(r))' <=> Carried(r, At(r))
      /\ Carried(r, answer[r].body.length)' <=> Carried(r, answer[r].body.length)
  BY <1>2 DEF SameFor, Carried
<1>5. AnsweredByError(r)' <=> AnsweredByError(r)
  BY SamePlace DEF SameFor
<1>6. InChunks(r) => InChunks(r)'
  BY <1>2, <1>3, <1>4 DEF SameFor, InChunks
<1>7. Refusal(r) => Refusal(r)'
  BY DEF SameFor, Refusal
<1>8. WholeAnswer(r) => WholeAnswer(r)'
  BY <1>1, <1>3, <1>4 DEF SameFor, WholeAnswer
<1>9. Failure(r) => Failure(r)'
  BY <1>5 DEF SameFor, Failure
<1>. QED  BY <1>6, <1>7, <1>8, <1>9

LEMMA Untouched ==
  ASSUME NEW r \in Requests, RequestOK(r), site' = site, fs' = fs, SameFor(r),
         conn = "closed" => conn' = "closed", conn # "open" => conn' # "open"
  PROVE  RequestOK(r)'
<1>1. /\ Fits(r)' <=> Fits(r)
      /\ IsFileBody(r)' <=> IsFileBody(r)
  BY SameAnswer DEF SameFor
<1>2. /\ IndexLeft(r)' <=> IndexLeft(r)
      /\ FileIsRight(r, look[r].file, look[r].version)'
         <=> FileIsRight(r, look[r].file, look[r].version)
  BY SameLook DEF SameFor
<1>3. /\ IsStatic(r)' <=> IsStatic(r)
      /\ AnsweredByError(r)' <=> AnsweredByError(r)
  BY SamePlace DEF SameFor
<1>4. LooksRight(r)'
  BY <1>2, <1>3 DEF RequestOK, LooksRight, SameFor
<1>5. Unsent(r)' <=> Unsent(r)
  BY DEF SameFor, Unsent
<1>6. IsSeq(asked[r])' /\ IsSeq(sent[r])'
  BY DEF RequestOK, SameFor
<1>7. phase'[r] # "idle" => AskAssumption(client'[r])
  BY DEF RequestOK, SameFor
<1>8. /\ InChunks(r) => InChunks(r)'
      /\ Refusal(r) => Refusal(r)'
      /\ WholeAnswer(r) => WholeAnswer(r)'
      /\ Failure(r) => Failure(r)'
  BY SameSending
<1>9. phase'[r] = phase[r] /\ status'[r] = status[r] /\ changed'[r] = changed[r]
  BY DEF SameFor
<1>10. (phase[r] = "done" /\ conn # "closed" => Refusal(r) \/ WholeAnswer(r) \/ Failure(r))
       /\ (phase[r] = "chunks" => InChunks(r))
  BY DEF RequestOK
<1>11. /\ phase'[r] = "done" /\ conn' # "closed" => Refusal(r)' \/ WholeAnswer(r)' \/ Failure(r)'
       /\ phase'[r] = "chunks" => InChunks(r)'
  BY <1>8, <1>9, <1>10
<1>12. /\ phase'[r] \notin {"chunks", "done"} => Unsent(r)'
       /\ phase'[r] \in WritingPhases => Fits(r)'
       /\ phase'[r] \in {"read-once", "open", "chunks"} => IsFileBody(r)'
       /\ phase'[r] = "open" => answer'[r].body.length # 0
  BY <1>1, <1>5, <1>9 DEF RequestOK, SameFor
<1>13. status'[r] = 500 => changed'[r] \/ AnsweredByError(r)'
  BY <1>3, <1>9 DEF RequestOK
<1>. QED  BY <1>4, <1>6, <1>7, <1>11, <1>12, <1>13 DEF RequestOK
-----------------------------------------------------------------------------
(* The shape of a step of one request.                                     *)
OnlyAt(f, g, r) == g = [q \in Requests |-> IF q = r THEN g[r] ELSE f[q]]

LEMMA ChangedOnlyAt ==
  ASSUME NEW f, IsOn(f), NEW r \in Requests, NEW v, NEW g, g = [f EXCEPT ![r] = v]
  PROVE  OnlyAt(f, g, r) /\ g[r] = v
BY DEF IsOn, OnlyAt

LEMMA SameOnlyAt ==
  ASSUME NEW f, IsOn(f), NEW r \in Requests, NEW g, g = f
  PROVE  OnlyAt(f, g, r)
BY DEF IsOn, OnlyAt

LEMMA OnlyAtKeeps ==
  ASSUME NEW f, NEW r \in Requests, NEW g, OnlyAt(f, g, r)
  PROVE  IsOn(g) /\ \A q \in Requests : q # r => g[q] = f[q]
BY DEF IsOn, OnlyAt

ConnGoesOn ==
  /\ conn # "new" /\ conn' \in {"open", "closing", "closed"}
  /\ conn = "closed" => conn' = "closed"
  /\ conn # "open" => conn' # "open"

Stepped(r) ==
  /\ RequestTypes' /\ PageOK' /\ site' = site /\ fs' = fs /\ ConnGoesOn
  /\ \A q \in Requests : q # r => SameFor(q)

LEMMA OneSteps ==
  ASSUME RequestsInvariant, NEW r \in Requests, Stepped(r), RequestOK(r)'
  PROVE  RequestsInvariant'
<1>1. ASSUME NEW q \in Requests, q # r PROVE RequestOK(q)'
  <2>1. RequestOK(q)
    BY DEF RequestsInvariant
  <2>2. SameFor(q) /\ site' = site /\ fs' = fs
    BY <1>1 DEF Stepped
  <2>3. (conn = "closed" => conn' = "closed") /\ (conn # "open" => conn' # "open")
    BY DEF Stepped, ConnGoesOn
  <2>. QED  BY <2>1, <2>2, <2>3, Untouched
<1>2. \A q \in Requests : RequestOK(q)'
  BY <1>1
<1>3. NobodyFirst'
  BY DEF Stepped, ConnGoesOn, NobodyFirst
<1>4. RequestTypes' /\ PageOK'
  BY DEF Stepped
<1>. QED  BY <1>2, <1>3, <1>4 DEF RequestsInvariant

LEMMA Steps ==
  ASSUME RequestTypes, NEW r \in Requests, site' = site, fs' = fs, ConnGoesOn, PageOK',
         phase'[r] \in RequestPhases, OnlyAt(phase, phase', r),
         OnlyAt(client, client', r), OnlyAt(todo, todo', r), OnlyAt(asked, asked', r),
         OnlyAt(look, look', r), OnlyAt(answer, answer', r), OnlyAt(came, came', r),
         OnlyAt(sent, sent', r), OnlyAt(status, status', r), OnlyAt(declared, declared', r),
         OnlyAt(changed, changed', r)
  PROVE  Stepped(r)
<1>1. /\ IsOn(client') /\ IsOn(todo') /\ IsOn(asked') /\ IsOn(look') /\ IsOn(answer') /\ IsOn(came')
      /\ IsOn(sent') /\ IsOn(status') /\ IsOn(declared') /\ IsOn(changed')
  BY OnlyAtKeeps
<1>2. phase' \in [Requests -> RequestPhases]
  BY DEF OnlyAt, RequestTypes
<1>3. RequestTypes'
  BY <1>1, <1>2 DEF RequestTypes, ConnGoesOn, IsOn
<1>4. ASSUME NEW q \in Requests, q # r PROVE SameFor(q)
  <2>1. client'[q] = client[q] /\ phase'[q] = phase[q] /\ todo'[q] = todo[q] /\ asked'[q] = asked[q]
    BY <1>4, OnlyAtKeeps
  <2>2. look'[q] = look[q] /\ answer'[q] = answer[q] /\ sent'[q] = sent[q] /\ status'[q] = status[q]
    BY <1>4, OnlyAtKeeps
  <2>3. declared'[q] = declared[q] /\ changed'[q] = changed[q]
    BY <1>4, OnlyAtKeeps
  <2>. QED  BY <2>1, <2>2, <2>3 DEF SameFor
<1>. QED  BY <1>3, <1>4 DEF Stepped

(* What a step of an application leaves alone.                             *)
Quiet(r) ==
  /\ site' = site /\ fs' = fs /\ conn' = conn
  /\ client' = client /\ sent' = sent /\ status' = status /\ declared' = declared /\ changed' = changed

Busy(r) == phase[r] \notin {"idle", "chunks", "done"} /\ r \in Requests

LEMMA QuietSteps ==
  ASSUME RequestsInvariant, NEW r \in Requests, Busy(r), Quiet(r), PageOK',
         phase'[r] \in RequestPhases, OnlyAt(phase, phase', r),
         OnlyAt(todo, todo', r), OnlyAt(asked, asked', r),
         OnlyAt(look, look', r), OnlyAt(answer, answer', r), OnlyAt(came, came', r)
  PROVE  Stepped(r)
<1>1. RequestTypes /\ NobodyFirst
  BY DEF RequestsInvariant
<1>2. conn # "new"
  BY <1>1 DEF NobodyFirst, Busy
<1>3. ConnGoesOn
  BY <1>1, <1>2 DEF RequestTypes, ConnGoesOn, Quiet
<1>4. OnlyAt(client, client', r) /\ OnlyAt(sent, sent', r) /\ OnlyAt(status, status', r)
  BY <1>1, SameOnlyAt DEF RequestTypes, Quiet
<1>5. OnlyAt(declared, declared', r) /\ OnlyAt(changed, changed', r)
  BY <1>1, SameOnlyAt DEF RequestTypes, Quiet
<1>6. site' = site /\ fs' = fs
  BY DEF Quiet
<1>. QED  BY <1>1, <1>3, <1>4, <1>5, <1>6, Steps

LEMMA NoneYet ==
  ASSUME NEW code, code = 0
  PROVE  code # 500
OBVIOUS

LEMMA QuietOK ==
  ASSUME NEW r \in Requests, RequestOK(r), Busy(r), Quiet(r), IsSeq(asked'[r]), LooksRight(r)',
         phase'[r] \notin {"idle", "chunks", "done", "read-once", "open"},
         phase'[r] = "answered" => Fits(r)'
  PROVE  RequestOK(r)'
<1>1. Unsent(r) /\ IsSeq(sent[r]) /\ AskAssumption(client[r])
  BY DEF RequestOK, Busy
<1>2. Unsent(r)' /\ IsSeq(sent'[r]) /\ AskAssumption(client'[r])
  BY <1>1 DEF Unsent, Quiet
<1>3. status'[r] # 500
  <2>1. status'[r] = 0
    BY <1>2 DEF Unsent
  <2>. QED  BY <2>1, NoneYet
<1>4. phase'[r] \in WritingPhases => phase'[r] = "answered"
  BY DEF WritingPhases
<1>. QED  BY <1>2, <1>3, <1>4 DEF RequestOK
-----------------------------------------------------------------------------
(* What the steps of applications have in common.                          *)
LEMMA SeqIsSeq ==
  ASSUME NEW S, NEW s \in Seq(S)
  PROVE  IsSeq(s)
<1>1. Len(s) \in Nat /\ DOMAIN s = 1 .. Len(s)
  OBVIOUS
<1>2. s = [i \in 1 .. Len(s) |-> s[i]]
  OBVIOUS
<1>3. \A i \in DOMAIN s : s[i] \in ToSet(s)
  BY DEF ToSet
<1>. QED  BY <1>1, <1>2, <1>3 DEF IsSeq

LEMMA Appended ==
  ASSUME NEW s, IsSeq(s), NEW e, NEW t, t = Append(s, e)
  PROVE  /\ IsSeq(t) /\ t # <<>> /\ Last(t) = e /\ Len(t) = Len(s) + 1
         /\ \A i \in 1 .. Len(s) : t[i] = s[i]
<1>1. s \in Seq(ToSet(s) \union {e})
  <2>1. /\ Len(s) \in Nat /\ s = [i \in 1 .. Len(s) |-> s[i]]
        /\ \A i \in 1 .. Len(s) : s[i] \in ToSet(s) \union {e}
    BY DEF IsSeq, ToSet
  <2>. QED  BY <2>1
<1>2. /\ t \in Seq(ToSet(s) \union {e}) /\ Len(t) = Len(s) + 1
      /\ t[Len(t)] = e /\ \A i \in 1 .. Len(s) : t[i] = s[i]
  BY <1>1
<1>3. t # <<>> /\ Last(t) = e
  BY <1>2 DEF Last
<1>4. IsSeq(t)
  <2>1. t \in Seq(ToSet(s) \union {e})
    BY <1>1
  <2>. QED  BY <2>1, SeqIsSeq
<1>. QED  BY <1>2, <1>3, <1>4

LEMMA PlacesAppended ==
  ASSUME NEW s, IsSeq(s), NEW e, NEW t, t = Append(s, e), NEW i \in DOMAIN t
  PROVE  t[i] = e \/ (i \in DOMAIN s /\ t[i] = s[i])
<1>1. PICK n \in Nat : n = Len(s) /\ DOMAIN s = 1 .. n
  BY DEF IsSeq
<1>2. DOMAIN t = 1 .. Len(t) /\ Last(t) = t[Len(t)]
  BY Appended DEF IsSeq, Last
<1>3. Len(t) = n + 1 /\ Last(t) = e /\ \A k \in 1 .. n : t[k] = s[k]
  BY <1>1, Appended
<1>4. i \in 1 .. n + 1 /\ (i = n + 1 => t[i] = e)
  BY <1>2, <1>3
<1>5. i = n + 1 \/ i \in 1 .. n
  BY <1>4
<1>. QED  BY <1>1, <1>3, <1>4, <1>5

LEMMA Noted ==
  ASSUME RequestsInvariant, NEW r \in Requests, Note(r)
  PROVE  /\ OnlyAt(asked, asked', r) /\ IsSeq(asked'[r])
         /\ asked'[r] # <<>> /\ Last(asked'[r]) = Head(todo[r])
<1>1. IsOn(asked) /\ IsSeq(asked[r])
  BY DEF RequestsInvariant, RequestTypes, RequestOK
<1>2. asked' = [asked EXCEPT ![r] = Append(asked[r], Head(todo[r]))]
  BY DEF Note
<1>3. OnlyAt(asked, asked', r) /\ asked'[r] = Append(asked[r], Head(todo[r]))
  BY <1>1, <1>2 DEF IsOn, OnlyAt
<1>4. \A t : t = Append(asked[r], Head(todo[r])) =>
                IsSeq(t) /\ t # <<>> /\ Last(t) = Head(todo[r])
  BY <1>1, Appended
<1>. QED  BY <1>3, <1>4

LEMMA NotNoted ==
  ASSUME RequestsInvariant, NEW r \in Requests, asked' = asked
  PROVE  OnlyAt(asked, asked', r) /\ IsSeq(asked'[r])
<1>1. IsOn(asked) /\ IsSeq(asked[r])
  BY DEF RequestsInvariant, RequestTypes, RequestOK
<1>. QED  BY <1>1, SameOnlyAt

LEMMA GoingOn ==
  ASSUME RequestsInvariant, NEW r \in Requests, Busy(r), Quiet(r),
         OnlyAt(asked, asked', r), IsSeq(asked'[r]),
         (\E items : GoesOn(r, items)) \/ Throws(r)
  PROVE  RequestsInvariant'
<1>1. RequestTypes /\ RequestOK(r)
  BY DEF RequestsInvariant
<1>2. PICK left : todo' = [todo EXCEPT ![r] = left]
  <2>1. CASE \E items : GoesOn(r, items)
    <3>1. PICK items : GoesOn(r, items)
      BY <2>1
    <3>2. todo' = [todo EXCEPT ![r] = items \o Tail(todo[r])]
      BY <3>1 DEF GoesOn
    <3>. QED  BY <3>2
  <2>2. CASE Throws(r)
    BY <2>2 DEF Throws
  <2>. QED  BY <2>1, <2>2
<1>3. /\ phase' = [phase EXCEPT ![r] = "handling"] /\ look' = [look EXCEPT ![r] = NoLook]
      /\ answer' = answer /\ came' = came /\ notFound' = notFound
  BY DEF GoesOn, Throws, Go
<1>4. phase'[r] = "handling" /\ OnlyAt(phase, phase', r)
  <2>1. IsOn(phase)
    BY <1>1 DEF RequestTypes, IsOn
  <2>. QED  BY <1>3, <2>1 DEF IsOn, OnlyAt
<1>5. OnlyAt(todo, todo', r) /\ OnlyAt(look, look', r)
  BY <1>1, <1>2, <1>3 DEF RequestTypes, IsOn, OnlyAt
<1>6. OnlyAt(answer, answer', r) /\ OnlyAt(came, came', r)
  BY <1>1, <1>3, SameOnlyAt DEF RequestTypes
<1>7. phase'[r] \in RequestPhases /\ PageOK'
  BY <1>3, <1>4 DEF RequestPhases, RequestsInvariant, PageOK
<1>8. Stepped(r)
  BY <1>4, <1>5, <1>6, <1>7, QuietSteps
<1>9. LooksRight(r)'
  BY <1>4 DEF LooksRight, StaticPhases
<1>10. RequestOK(r)'
  BY <1>1, <1>4, <1>9, QuietOK
<1>. QED  BY <1>8, <1>10, OneSteps

LEMMA Answering ==
  ASSUME RequestsInvariant, NEW r \in Requests, Busy(r), Quiet(r), PageOK',
         OnlyAt(asked, asked', r), IsSeq(asked'[r]),
         NEW a, Gives(r, a), OnlyAt(came, came', r),
         answer'[r] = a => Fits(r)'
  PROVE  RequestsInvariant'
<1>1. RequestTypes /\ RequestOK(r)
  BY DEF RequestsInvariant
<1>2. /\ phase' = [phase EXCEPT ![r] = "answered"] /\ look' = [look EXCEPT ![r] = NoLook]
      /\ answer' = [answer EXCEPT ![r] = a] /\ todo' = [todo EXCEPT ![r] = <<>>]
  BY DEF Gives, Go
<1>3. phase'[r] = "answered" /\ OnlyAt(phase, phase', r)
  <2>1. IsOn(phase)
    BY <1>1 DEF RequestTypes, IsOn
  <2>. QED  BY <1>2, <2>1 DEF IsOn, OnlyAt
<1>4. OnlyAt(todo, todo', r) /\ OnlyAt(look, look', r) /\ look'[r] = NoLook
  BY <1>1, <1>2 DEF RequestTypes, IsOn, OnlyAt
<1>5. OnlyAt(answer, answer', r) /\ answer'[r] = a
  BY <1>1, <1>2 DEF RequestTypes, IsOn, OnlyAt
<1>6. phase'[r] \in RequestPhases
  BY <1>3 DEF RequestPhases, WritingPhases
<1>7. Stepped(r)
  BY <1>3, <1>4, <1>5, <1>6, QuietSteps
<1>8. LooksRight(r)'
  BY <1>3, <1>4 DEF LooksRight, StaticPhases, NoLook
<1>9. RequestOK(r)'
  BY <1>1, <1>3, <1>5, <1>8, QuietOK
<1>. QED  BY <1>7, <1>9, OneSteps

LEMMA PlainFits ==
  ASSUME NEW r \in Requests, NEW a, IsPlain(a)
  PROVE  answer'[r] = a => Fits(r)'
BY DEF IsPlain, Fits, SaysOf, IsData

LEMMA OtherFits ==
  ASSUME NEW r \in Requests, ~IsStatic(r)', NEW a, a.body.kind \in {"none", "message", "buffer"},
         Validates(a) \/ AnsweredByError(r)',
         a.status = 500 => AnsweredByError(r)',
         a.body.kind = "buffer" => a.body.length \in Nat
  PROVE  answer'[r] = a => Fits(r)'
BY DEF Fits, IsData

LEMMA AnsweringPlainly ==
  ASSUME RequestsInvariant, NEW r \in Requests, Busy(r), Quiet(r),
         OnlyAt(asked, asked', r), IsSeq(asked'[r]),
         NEW a, IsPlain(a), Answers(r, a)
  PROVE  RequestsInvariant'
<1>1. Gives(r, a) /\ came' = came /\ PageOK'
  BY DEF Answers, RequestsInvariant, PageOK
<1>2. OnlyAt(came, came', r)
  BY <1>1, SameOnlyAt DEF RequestsInvariant, RequestTypes
<1>3. answer'[r] = a => Fits(r)'
  BY PlainFits
<1>. QED  BY <1>1, <1>2, <1>3, Answering
-----------------------------------------------------------------------------
(* The applications that route, filter, delay, redirect, or answer with    *)
(* what they were configured to.                                           *)
Kept == UNCHANGED <<connVars, incoming, writeVars, trail, changed>>

LEMMA IsQuiet ==
  ASSUME NEW r \in Requests, Rest, Kept
  PROVE  Quiet(r)
BY DEF Rest, Kept, connVars, writeVars, Quiet

LEMMA AskedApp ==
  ASSUME RequestsInvariant, NEW r \in Requests, NEW type, Asking(r, type), Note(r), Rest
  PROVE  /\ Busy(r) /\ App(r) = Site.apps[Head(todo[r]).app] /\ App(r).type = type
         /\ Head(todo[r]).app \in DOMAIN Site.apps
         /\ OnlyAt(asked, asked', r) /\ IsSeq(asked'[r])
         /\ IsStatic(r)' <=> type = "StaticFiles"
         /\ AnsweredByError(r)' <=> AsksForAnError(App(r))
<1>1. /\ OnlyAt(asked, asked', r) /\ IsSeq(asked'[r])
      /\ asked'[r] # <<>> /\ Last(asked'[r]) = Head(todo[r])
  BY Noted
<1>2. Busy(r)
  BY DEF Asking, Busy
<1>3. Head(todo[r]).app \in DOMAIN Site.apps /\ App(r).type = type /\ App(r) = Site.apps[Head(todo[r]).app]
  BY DEF Asking, OfType, App
<1>4. Site' = Site
  BY DEF Rest, Site
<1>5. IsStatic(r)' <=> type = "StaticFiles"
  BY <1>1, <1>3, <1>4 DEF IsStatic, OfType
<1>6. AnsweredByError(r)' <=> AsksForAnError(App(r))
  BY <1>1, <1>3, <1>4 DEF AnsweredByError
<1>. QED  BY <1>1, <1>2, <1>3, <1>5, <1>6

LEMMA SiteIsRight ==
  ASSUME site \in DOMAIN Sites, NEW a \in DOMAIN Site.apps
  PROVE  /\ Site.apps[a].type = "Redirector" => Site.apps[a].status \in 300 .. 399
         /\ Site.apps[a].type = "SimpleResponse" => Site.apps[a].length \in Nat \union {None}
<1>1. \A b \in DOMAIN Sites[site].apps :
        /\ Sites[site].apps[b].type = "Redirector" => Sites[site].apps[b].status \in 300 .. 399
        /\ Sites[site].apps[b].type = "SimpleResponse" => Sites[site].apps[b].length \in Nat \union {None}
  BY SitesAssumption
<1>2. Site = Sites[site]
  BY DEF Site
<1>. QED  BY <1>1, <1>2

LEMMA RoutingStep ==
  ASSUME RequestsInvariant, NEW r \in Requests, Kept,
         \/ AskPathRouter(r) \/ AskSerialRouter(r) \/ AskHostRouter(r)
         \/ AskSuffixRouter(r) \/ AskRequestDelay(r)
  PROVE  RequestsInvariant'
<1>1. PICK type : Asking(r, type) /\ Note(r) /\ Rest /\ ((\E items : GoesOn(r, items)) \/ Throws(r))
  <2>1. CASE AskPathRouter(r)
    BY <2>1 DEF AskPathRouter
  <2>2. CASE AskSerialRouter(r)
    BY <2>2 DEF AskSerialRouter
  <2>3. CASE AskHostRouter(r)
    BY <2>3 DEF AskHostRouter
  <2>4. CASE AskSuffixRouter(r)
    BY <2>4 DEF AskSuffixRouter, Passes
  <2>5. CASE AskRequestDelay(r)
    BY <2>5 DEF AskRequestDelay, Passes
  <2>. QED  BY <2>1, <2>2, <2>3, <2>4, <2>5
<1>2. Busy(r) /\ OnlyAt(asked, asked', r) /\ IsSeq(asked'[r])
  BY <1>1, AskedApp
<1>3. Quiet(r)
  BY <1>1, IsQuiet
<1>. QED  BY <1>1, <1>2, <1>3, GoingOn

(* An answer of one of these, which need not be plain. *)
LEMMA AnsweringOtherwise ==
  ASSUME RequestsInvariant, NEW r \in Requests, Kept, NEW type, Asking(r, type), Note(r), Rest,
         type # "StaticFiles",
         NEW a, Answers(r, a), a.body.kind \in {"none", "message", "buffer"},
         Validates(a) \/ AsksForAnError(App(r)),
         a.status = 500 => AsksForAnError(App(r)),
         a.body.kind = "buffer" => a.body.length \in Nat
  PROVE  RequestsInvariant'
<1>1. /\ Busy(r) /\ OnlyAt(asked, asked', r) /\ IsSeq(asked'[r])
      /\ ~IsStatic(r)'
      /\ AnsweredByError(r)' <=> AsksForAnError(App(r))
  BY AskedApp
<1>2. Quiet(r)
  BY IsQuiet
<1>3. answer'[r] = a => Fits(r)'
  BY <1>1, OtherFits
<1>4. Gives(r, a) /\ came' = came /\ PageOK'
  BY DEF Answers, RequestsInvariant, PageOK
<1>5. OnlyAt(came, came', r)
  BY <1>4, SameOnlyAt DEF RequestsInvariant, RequestTypes
<1>. QED  BY <1>1, <1>2, <1>3, <1>4, <1>5, Answering

LEMMA FilterStep ==
  ASSUME RequestsInvariant, NEW r \in Requests, Kept, AskRequestFilter(r)
  PROVE  RequestsInvariant'
<1>. DEFINE type == "RequestFilter"
            redirect == FilterRedirect(App(r), Where(r))
<1>1. Asking(r, type) /\ Note(r) /\ Rest
  BY DEF AskRequestFilter
<1>2. \/ Answers(r, Redirect(Head(redirect), 308))
      \/ Answers(r, MetaResponse(App(r).status))
      \/ GoesOn(r, <<>>)
  BY DEF AskRequestFilter, Passes
<1>3. /\ Busy(r) /\ OnlyAt(asked, asked', r) /\ IsSeq(asked'[r]) /\ App(r).type = type
  BY <1>1, AskedApp
<1>4. Quiet(r)
  BY <1>1, IsQuiet
<1>5. type # "StaticFiles"
  OBVIOUS
<1>. HIDE DEF redirect
<1>6. CASE Answers(r, Redirect(Head(redirect), 308))
  <2>. DEFINE a == Redirect(Head(redirect), 308)
  <2>1. 308 \notin {200, 206}
    OBVIOUS
  <2>2. a.status = 308 /\ a.body.kind \in {"none", "message"} /\ Validates(a)
    BY <2>1, RedirectFits
  <2>3. a.status # 500 /\ a.body.kind # "buffer"
    BY <2>2
  <2>. HIDE DEF a, type
  <2>4. Answers(r, a)
    BY <1>6 DEF a
  <2>. QED  BY <1>1, <1>5, <2>2, <2>3, <2>4, AnsweringOtherwise
<1>7. CASE Answers(r, MetaResponse(App(r).status))
  <2>. DEFINE code == App(r).status
              a == MetaResponse(code)
  <2>1. code \in {200, 206, 500} => AsksForAnError(App(r))
    BY <1>3 DEF AsksForAnError
  <2>2. a.status = code /\ a.body.kind \in {"none", "message"} /\ (code \notin {200, 206} => Validates(a))
    <3>1. a = ContentResponse(code, IF BodyAllowed("get", code) /\ ~IsApplicationContent(code)
                                    THEN Message ELSE NoBody, {}, None, 0)
      BY DEF MetaResponse, Response
    <3>2. a.status = code /\ a.body \in {Message, NoBody}
      <4>. HIDE DEF a, code
      <4>. QED  BY <3>1, ContentParts
    <3>3. Message.kind = "message" /\ NoBody.kind = "none"
      BY DEF Message, NoBody
    <3>4. code \notin {200, 206} => Validates(a)
      BY MetaFits
    <3>. QED  BY <3>2, <3>3, <3>4
  <2>. HIDE DEF a, code, type
  <2>3. Answers(r, a)
    BY <1>7 DEF a, code
  <2>4. Validates(a) \/ AsksForAnError(App(r))
    BY <2>1, <2>2
  <2>5. a.status = 500 => AsksForAnError(App(r))
    BY <2>1, <2>2
  <2>6. a.body.kind \in {"none", "message", "buffer"} /\ a.body.kind # "buffer"
    BY <2>2
  <2>. QED  BY <1>1, <1>5, <2>3, <2>4, <2>5, <2>6, AnsweringOtherwise
<1>8. CASE GoesOn(r, <<>>)
  <2>. HIDE DEF type
  <2>. QED  BY <1>3, <1>4, <1>8, GoingOn
<1>. QED  BY <1>2, <1>6, <1>7, <1>8

LEMMA LimiterStep ==
  ASSUME RequestsInvariant, NEW r \in Requests, Kept, AskRequestRateLimiter(r)
  PROVE  RequestsInvariant'
<1>1. Asking(r, "RequestRateLimiter") /\ Note(r) /\ Rest
  BY DEF AskRequestRateLimiter
<1>2. GoesOn(r, <<>>) \/ Answers(r, MetaResponse(429))
  BY DEF AskRequestRateLimiter, Passes
<1>3. /\ Busy(r) /\ OnlyAt(asked, asked', r) /\ IsSeq(asked'[r])
  BY <1>1, AskedApp
<1>4. Quiet(r)
  BY <1>1, IsQuiet
<1>5. CASE GoesOn(r, <<>>)
  BY <1>3, <1>4, <1>5, GoingOn
<1>6. CASE Answers(r, MetaResponse(429))
  <2>1. 429 \notin {200, 206, 304, 416, 500}
    OBVIOUS
  <2>2. IsPlain(MetaResponse(429))
    BY <2>1, MetaIsPlain
  <2>. QED  BY <1>3, <1>4, <1>6, <2>2, AnsweringPlainly
<1>. QED  BY <1>2, <1>5, <1>6

LEMMA RedirectorStep ==
  ASSUME RequestsInvariant, NEW r \in Requests, Kept, AskRedirector(r)
  PROVE  RequestsInvariant'
<1>. DEFINE type == "Redirector"
            code == App(r).status
            a == Redirect([target |-> App(r).target, path |-> Where(r).extra], code)
<1>1. Asking(r, type) /\ Note(r) /\ Rest /\ Answers(r, a)
  BY DEF AskRedirector
<1>2. App(r) = Site.apps[Head(todo[r]).app] /\ App(r).type = type /\ Head(todo[r]).app \in DOMAIN Site.apps
  <2>. HIDE DEF a
  <2>. QED  BY <1>1, AskedApp
<1>3. code \in 300 .. 399
  <2>1. site \in DOMAIN Sites
    BY DEF RequestsInvariant, RequestTypes
  <2>2. PICK at \in DOMAIN Site.apps : at = Head(todo[r]).app
    BY <1>2
  <2>3. Site.apps[at].type = "Redirector" => Site.apps[at].status \in 300 .. 399
    BY <2>1, SiteIsRight
  <2>4. App(r) = Site.apps[at]
    BY <1>2, <2>2
  <2>. QED  BY <1>2, <2>3, <2>4
<1>4. code \notin {200, 206} /\ code # 500
  BY <1>3
<1>5. a.status = code /\ a.body.kind \in {"none", "message"} /\ a.body.kind # "buffer" /\ Validates(a)
  BY <1>4, RedirectFits
<1>6. type # "StaticFiles"
  OBVIOUS
<1>. HIDE DEF a, code, type
<1>. QED  BY <1>1, <1>4, <1>5, <1>6, AnsweringOtherwise

LEMMA SimpleStep ==
  ASSUME RequestsInvariant, NEW r \in Requests, Kept, AskSimpleResponse(r)
  PROVE  RequestsInvariant'
<1>. DEFINE type == "SimpleResponse"
            plain == AdjustFor(SimpleResponse(App(r)), client[r])
            fixed == SimpleResponse(App(r))
<1>1. Asking(r, type) /\ Note(r) /\ Rest
  BY DEF AskSimpleResponse
<1>2. \/ Answers(r, MetaResponse(403))
      \/ App(r).status = None /\ Answers(r, plain)
      \/ App(r).status # None /\ Answers(r, fixed)
  BY DEF AskSimpleResponse
<1>3. /\ Busy(r) /\ OnlyAt(asked, asked', r) /\ IsSeq(asked'[r]) /\ App(r).type = type
  BY <1>1, AskedApp
<1>4. type # "StaticFiles"
  OBVIOUS
<1>10. AskAssumption(client[r]) /\ App(r).length \in Nat \union {None}
  <2>1. App(r) = Site.apps[Head(todo[r]).app] /\ Head(todo[r]).app \in DOMAIN Site.apps
    <3>. HIDE DEF type
    <3>. QED  BY <1>1, AskedApp
  <2>2. site \in DOMAIN Sites /\ RequestOK(r) /\ phase[r] # "idle"
    BY <1>3 DEF RequestsInvariant, RequestTypes, Busy
  <2>3. AskAssumption(client[r])
    BY <2>2 DEF RequestOK
  <2>4. PICK at \in DOMAIN Site.apps : at = Head(todo[r]).app
    BY <2>1
  <2>5. Site.apps[at].type = "SimpleResponse" => Site.apps[at].length \in Nat \union {None}
    BY <2>2, SiteIsRight
  <2>6. App(r) = Site.apps[at]
    BY <2>1, <2>4
  <2>. QED  BY <1>3, <2>3, <2>5, <2>6
<1>5. App(r).status = None =>
        /\ Validates(plain) /\ plain.status # 500 /\ plain.body.kind \in {"none", "message", "buffer"}
        /\ plain.body.kind = "buffer" => plain.body.length \in Nat
  BY <1>10, SimpleAdjusted
<1>6. App(r).status # None =>
        /\ fixed.body.kind \in {"none", "buffer"}
        /\ Validates(fixed) \/ AsksForAnError(App(r))
        /\ fixed.status = 500 => AsksForAnError(App(r))
        /\ fixed.body.kind = "buffer" => fixed.body.length \in Nat
  BY <1>3, <1>10, SimpleConfigured
<1>. HIDE DEF plain, fixed, type
<1>7. CASE Answers(r, MetaResponse(403))
  <2>1. 403 \notin {200, 206, 304, 416, 500}
    OBVIOUS
  <2>2. IsPlain(MetaResponse(403))
    BY <2>1, MetaIsPlain
  <2>3. Quiet(r)
    BY <1>1, IsQuiet
  <2>. QED  BY <1>3, <1>7, <2>2, <2>3, AnsweringPlainly
<1>8. CASE App(r).status = None /\ Answers(r, plain)
  BY <1>1, <1>4, <1>5, <1>8, AnsweringOtherwise
<1>9. CASE App(r).status # None /\ Answers(r, fixed)
  BY <1>1, <1>4, <1>6, <1>9, AnsweringOtherwise
<1>. QED  BY <1>2, <1>7, <1>8, <1>9

(* The endpoint's own answers: nothing was found, or the target is no path. *)
LEMMA NobodyStep ==
  ASSUME RequestsInvariant, NEW r \in Requests, Kept, NobodyAnswers(r)
  PROVE  RequestsInvariant'
<1>1. Busy(r)
  BY DEF NobodyAnswers, Busy
<1>2. Quiet(r)
  BY IsQuiet DEF NobodyAnswers
<1>3. OnlyAt(asked, asked', r) /\ IsSeq(asked'[r])
  BY NotNoted DEF NobodyAnswers
<1>4. 404 \notin {200, 206, 304, 416, 500}
  OBVIOUS
<1>5. IsPlain(MetaResponse(404)) /\ Answers(r, MetaResponse(404))
  BY <1>4, MetaIsPlain DEF NobodyAnswers
<1>. QED  BY <1>1, <1>2, <1>3, <1>5, AnsweringPlainly

LEMMA HandleStep ==
  ASSUME RequestsInvariant, NEW r \in Requests, HandleRequest(r)
  PROVE  RequestsInvariant'
<1>1. Busy(r)
  BY DEF HandleRequest, Busy
<1>2. Quiet(r) /\ PageOK'
  BY DEF HandleRequest, Answers, Quiet, connVars, writeVars, RequestsInvariant, PageOK
<1>3. OnlyAt(asked, asked', r) /\ IsSeq(asked'[r])
  BY NotNoted DEF HandleRequest
<1>4. CASE client[r].target = "origin"
  <2>1. RequestTypes /\ RequestOK(r)
    BY DEF RequestsInvariant
  <2>2. PICK item : todo' = [todo EXCEPT ![r] = item]
    BY <1>4 DEF HandleRequest
  <2>3. phase' = [phase EXCEPT ![r] = "handling"] /\ look' = look /\ answer' = answer /\ came' = came
    BY <1>4 DEF HandleRequest, Go
  <2>4. IsOn(phase)
    BY <2>1 DEF RequestTypes, IsOn
  <2>5. phase'[r] = "handling" /\ OnlyAt(phase, phase', r) /\ OnlyAt(todo, todo', r)
    BY <2>1, <2>2, <2>3, <2>4 DEF RequestTypes, IsOn, OnlyAt
  <2>6. OnlyAt(look, look', r) /\ OnlyAt(answer, answer', r) /\ OnlyAt(came, came', r)
    BY <2>1, <2>3, SameOnlyAt DEF RequestTypes
  <2>7. Stepped(r)
    <3>1. phase'[r] \in RequestPhases
      BY <2>5 DEF RequestPhases
    <3>. QED  BY <1>1, <1>2, <1>3, <2>5, <2>6, <3>1, QuietSteps
  <2>8. LooksRight(r)'
    BY <2>5 DEF LooksRight, StaticPhases
  <2>9. RequestOK(r)'
    BY <1>1, <1>2, <1>3, <2>1, <2>5, <2>8, QuietOK
  <2>. QED  BY <2>7, <2>9, OneSteps
<1>5. CASE client[r].target # "origin"
  <2>1. 400 \notin {200, 206, 304, 416, 500}
    OBVIOUS
  <2>2. IsPlain(MetaResponse(400)) /\ Answers(r, MetaResponse(400))
    BY <1>5, <2>1, MetaIsPlain DEF HandleRequest
  <2>. QED  BY <1>1, <1>2, <1>3, <2>2, AnsweringPlainly
<1>. QED  BY <1>4, <1>5
-----------------------------------------------------------------------------
(* StaticFiles, from one look at the file system to the next.              *)
LEMMA StaticPlace ==
  ASSUME RequestsInvariant, NEW r \in Requests, phase[r] \in StaticPhases
  PROVE  /\ Busy(r) /\ IsStatic(r) /\ App(r) = AppOf(r)
         /\ DecodedPath(Where(r).extra).names = NamesOf(r)
         /\ GetOrHead(client[r].method) /\ AskAssumption(client[r])
         /\ StaticFilesAssumption(AppOf(r))
<1>1. RequestOK(r) /\ site \in DOMAIN Sites
  BY DEF RequestsInvariant, RequestTypes
<1>2. Busy(r) /\ phase[r] # "idle"
  BY DEF Busy, StaticPhases
<1>3. IsStatic(r) /\ Head(todo[r]) = Last(asked[r]) /\ GetOrHead(client[r].method)
  BY <1>1 DEF RequestOK, LooksRight
<1>4. App(r) = AppOf(r) /\ DecodedPath(Where(r).extra).names = NamesOf(r)
  BY <1>3 DEF App, AppOf, Where, NamesOf
<1>5. AskAssumption(client[r])
  BY <1>1, <1>2 DEF RequestOK
<1>6. Last(asked[r]).app \in DOMAIN Site.apps /\ AppOf(r).type = "StaticFiles"
  BY <1>3 DEF IsStatic, OfType, AppOf
<1>7. StaticFilesAssumption(AppOf(r))
  BY <1>1, <1>6, SitesAssumption DEF Site, AppOf
<1>. QED  BY <1>2, <1>3, <1>4, <1>5, <1>7

LEMMA Waiting ==
  ASSUME RequestsInvariant, NEW r \in Requests, Busy(r), Quiet(r), PageOK',
         OnlyAt(asked, asked', r), IsSeq(asked'[r]), OnlyAt(came, came', r),
         NEW found, look' = [look EXCEPT ![r] = found], NEW to \in StaticPhases, Go(r, to),
         todo' = todo, answer' = answer,
         IsStatic(r)', Head(todo[r]) = Last(asked'[r]), GetOrHead(client[r].method),
         to = "index" /\ look'[r] = found => IndexLeft(r)',
         to = "tag" /\ look'[r] = found =>
           /\ found = [file |-> found.file, version |-> found.version]
           /\ FileIsRight(r, found.file, found.version)',
         to = "nf-stat" => found.file \in Files /\ found.existing \in 1 .. MaxVersion,
         to = "nf-read" => found.file \in Files
  PROVE  RequestsInvariant'
<1>1. RequestTypes /\ RequestOK(r)
  BY DEF RequestsInvariant
<1>2. phase' = [phase EXCEPT ![r] = to] /\ IsOn(phase)
  BY <1>1 DEF Go, RequestTypes, IsOn
<1>3. phase'[r] = to /\ OnlyAt(phase, phase', r)
  BY <1>2 DEF IsOn, OnlyAt
<1>4. look'[r] = found /\ OnlyAt(look, look', r)
  BY <1>1 DEF RequestTypes, IsOn, OnlyAt
<1>5. OnlyAt(todo, todo', r) /\ OnlyAt(answer, answer', r)
  BY <1>1, SameOnlyAt DEF RequestTypes
<1>6. to \in RequestPhases /\ to \notin {"idle", "chunks", "done", "read-once", "open", "answered"}
  BY DEF RequestPhases, StaticPhases
<1>7. Stepped(r)
  BY <1>3, <1>4, <1>5, <1>6, QuietSteps
<1>8. LooksRight(r)'
  <2>1. IsStatic(r)' /\ Head(todo'[r]) = Last(asked'[r]) /\ GetOrHead(client'[r].method)
    BY DEF Quiet
  <2>2. phase'[r] = "index" => IndexLeft(r)'
    BY <1>3, <1>4
  <2>3. phase'[r] = "tag" =>
          /\ look'[r] = [file |-> look'[r].file, version |-> look'[r].version]
          /\ FileIsRight(r, look[r].file, look[r].version)'
    BY <1>3, <1>4
  <2>4. /\ phase'[r] \notin {"answered", "read-once", "open"}
        /\ phase'[r] = "nf-stat" => look'[r].file \in Files /\ look'[r].existing \in 1 .. MaxVersion
        /\ phase'[r] = "nf-read" => look'[r].file \in Files
    BY <1>3, <1>4, <1>6
  <2>. QED  BY <2>1, <2>2, <2>3, <2>4 DEF LooksRight
<1>9. RequestOK(r)'
  BY <1>1, <1>3, <1>6, <1>8, QuietOK
<1>. QED  BY <1>7, <1>9, OneSteps

LEMMA WaitingOn ==
  ASSUME RequestsInvariant, NEW r \in Requests, phase[r] \in StaticPhases, Quiet(r), asked' = asked,
         NEW found, NEW to \in StaticPhases, Waits(r, found, to),
         to = "index" /\ look'[r] = found => IndexLeft(r)',
         to = "tag" /\ look'[r] = found =>
           /\ found = [file |-> found.file, version |-> found.version]
           /\ FileIsRight(r, found.file, found.version)',
         to = "nf-stat" => found.file \in Files /\ found.existing \in 1 .. MaxVersion,
         to = "nf-read" => found.file \in Files
  PROVE  RequestsInvariant'
<1>1. Busy(r) /\ IsStatic(r) /\ GetOrHead(client[r].method)
  BY StaticPlace
<1>2. OnlyAt(asked, asked', r) /\ IsSeq(asked'[r])
  BY NotNoted
<1>3. IsStatic(r)'
  BY <1>1, SamePlace DEF Quiet
<1>4. Head(todo[r]) = Last(asked'[r])
  BY DEF RequestsInvariant, RequestOK, LooksRight
<1>5. OnlyAt(came, came', r)
  BY SameOnlyAt DEF Waits, RequestsInvariant, RequestTypes
<1>6. /\ look' = [look EXCEPT ![r] = found] /\ Go(r, to) /\ todo' = todo /\ answer' = answer
      /\ PageOK'
  BY DEF Waits, RequestsInvariant, PageOK
<1>. QED  BY <1>1, <1>2, <1>3, <1>4, <1>5, <1>6, Waiting

LEMMA AnsweringFile ==
  ASSUME RequestsInvariant, NEW r \in Requests, phase[r] \in StaticPhases, Quiet(r), asked' = asked,
         NEW file, NEW version, FileIsRight(r, file, version),
         NEW tag, ~changed[r] => TagOf(tag, version),
         Answers(r, AdjustFor(FileResponse(file, version, tag), client[r]))
  PROVE  RequestsInvariant'
<1>. DEFINE a == AdjustFor(FileResponse(file, version, tag), client[r])
<1>1. Busy(r) /\ IsStatic(r) /\ GetOrHead(client[r].method) /\ AskAssumption(client[r])
  BY StaticPlace
<1>2. OnlyAt(asked, asked', r) /\ IsSeq(asked'[r])
  BY NotNoted
<1>3. /\ file \in Files /\ version \in 1 .. MaxVersion
      /\ ~changed[r] => IsNow(file, version) /\ file = FileOf(r)
  BY DEF FileIsRight
<1>4. /\ Validates(a) /\ a.status # 500
      /\ a.body.kind \in {"none", "message", "file"}
      /\ a.body.kind = "file" => FileBody(a.body) /\ a.body.of = file /\ a.body.version = version
      /\ TagOf(tag, version) => SaysOf(client[r], a, file, version)
  BY <1>1, <1>3, FileAdjusted
<1>5. Gives(r, a) /\ came' = came /\ PageOK'
  BY DEF Answers, RequestsInvariant, PageOK
<1>6. OnlyAt(came, came', r)
  BY <1>5, SameOnlyAt DEF RequestsInvariant, RequestTypes
<1>. HIDE DEF a
<1>7. ASSUME answer'[r] = a PROVE Fits(r)'
  <2>1. FileOf(r)' = FileOf(r) /\ changed'[r] = changed[r] /\ fs' = fs /\ client'[r] = client[r]
    BY SamePlace DEF Quiet
  <2>2. ~changed[r] => fs[file].version = version
    BY <1>3 DEF IsNow
  <2>3. ~changed'[r] => SaysOf(client'[r], answer'[r], FileOf(r)', fs'[FileOf(r)'].version)
    BY <1>3, <1>4, <1>7, <2>1, <2>2
  <2>4. answer'[r].body.kind = "file" =>
          /\ FileBody(answer'[r].body)
          /\ ~changed'[r] => IsNow(answer[r].body.of, answer[r].body.version)'
    <3>1. CASE answer'[r].body.kind = "file"
      <4>1. FileBody(a.body) /\ a.body.of = file /\ a.body.version = version
        BY <1>4, <1>7, <3>1
      <4>2. FileBody(answer'[r].body) /\ answer'[r].body.of = file /\ answer'[r].body.version = version
        BY <1>7, <4>1
      <4>3. ~changed'[r] => fs'[file] = [version |-> version, there |-> TRUE]
        BY <1>3, <2>1 DEF IsNow
      <4>. QED  BY <4>2, <4>3 DEF IsNow
    <3>. QED  BY <3>1
  <2>5. Validates(answer'[r]) /\ answer'[r].status # 500
        /\ answer'[r].body.kind \in {"none", "message", "buffer", "file"}
    BY <1>4, <1>7
  <2>6. IsData(r)' => answer'[r].body.length \in Nat
    BY <2>4, <1>4, <1>7 DEF IsData, FileBody
  <2>. QED  BY <2>3, <2>4, <2>5, <2>6 DEF Fits
<1>8. answer'[r] = a => Fits(r)'
  BY <1>7
<1>. QED  BY <1>1, <1>2, <1>5, <1>6, <1>8, Answering

LEMMA FoundStep ==
  ASSUME RequestsInvariant, NEW r \in Requests, phase[r] \in StaticPhases, Quiet(r), asked' = asked,
         NEW file \in Files, fs[file].there, ~changed[r] => file = FileOf(r),
         Found(r, file)
  PROVE  RequestsInvariant'
<1>1. fs[file] \in [version : 1 .. MaxVersion, there : BOOLEAN]
  BY DEF RequestsInvariant, RequestTypes
<1>2. PICK version \in 1 .. MaxVersion : version = fs[file].version
  BY <1>1
<1>3. FileIsRight(r, file, version)
  BY <1>1, <1>2 DEF FileIsRight, IsNow
<1>4. CASE Answers(r, AdjustFor(FileResponse(file, version, None), client[r]))
  <2>1. TagOf(None, version)
    BY DEF TagOf
  <2>. QED  BY <1>3, <1>4, <2>1, AnsweringFile
<1>5. CASE Waits(r, [file |-> file, version |-> version], "tag")
  <2>1. PICK found : found = [file |-> file, version |-> version]
    OBVIOUS
  <2>2. found = [file |-> found.file, version |-> found.version] /\ found.file = file /\ found.version = version
    BY <2>1
  <2>3. FileOf(r)' = FileOf(r) /\ changed'[r] = changed[r] /\ fs' = fs
    BY SamePlace DEF Quiet
  <2>4. FileIsRight(r, file, version)'
    BY <1>3, <2>3 DEF FileIsRight, IsNow
  <2>5. FileIsRight(r, found.file, found.version)'
    BY <2>2, <2>4
  <2>6. "tag" \in StaticPhases /\ "tag" \notin {"index", "nf-stat", "nf-read"}
    BY DEF StaticPhases
  <2>7. Waits(r, found, "tag")
    BY <1>5, <2>1
  <2>. QED  BY <2>2, <2>5, <2>6, <2>7, WaitingOn
<1>. QED  BY <1>2, <1>4, <1>5 DEF Found
LEMMA AskStaticStep ==
  ASSUME RequestsInvariant, NEW r \in Requests, Kept, AskStaticFiles(r)
  PROVE  RequestsInvariant'
<1>. DEFINE type == "StaticFiles"
<1>1. Asking(r, type) /\ Note(r) /\ Rest
  BY DEF AskStaticFiles
<1>2. Busy(r) /\ OnlyAt(asked, asked', r) /\ IsSeq(asked'[r]) /\ IsStatic(r)'
  <2>1. /\ Busy(r) /\ OnlyAt(asked, asked', r) /\ IsSeq(asked'[r])
        /\ IsStatic(r)' <=> type = "StaticFiles"
    <3>. HIDE DEF type
    <3>. QED  BY <1>1, AskedApp
  <2>. QED  BY <2>1
<1>3. Quiet(r)
  BY <1>1, IsQuiet
<1>4. CASE Answers(r, MetaResponse(403))
  <2>1. 403 \notin {200, 206, 304, 416, 500}
    OBVIOUS
  <2>2. IsPlain(MetaResponse(403))
    BY <2>1, MetaIsPlain
  <2>. QED  BY <1>2, <1>3, <1>4, <2>2, AnsweringPlainly
<1>5. ASSUME NEW to \in {"stat", "missing"}, GetOrHead(client[r].method), Waits(r, NoLook, to)
      PROVE  RequestsInvariant'
  <2>1. to \in StaticPhases /\ to \notin {"index", "tag", "nf-stat", "nf-read"}
    BY DEF StaticPhases
  <2>2. /\ look' = [look EXCEPT ![r] = NoLook] /\ Go(r, to) /\ todo' = todo /\ answer' = answer /\ came' = came
        /\ PageOK'
    BY <1>5 DEF Waits, RequestsInvariant, PageOK
  <2>3. OnlyAt(came, came', r)
    BY <2>2, SameOnlyAt DEF RequestsInvariant, RequestTypes
  <2>4. Head(todo[r]) = Last(asked'[r])
    BY <1>1, Noted
  <2>. QED  BY <1>2, <1>3, <1>5, <2>1, <2>2, <2>3, <2>4, Waiting
<1>6. CASE ~GetOrHead(client[r].method)
  BY <1>4, <1>6 DEF AskStaticFiles
<1>7. CASE GetOrHead(client[r].method)
  <2>1. PICK to \in {"stat", "missing"} : Waits(r, NoLook, to)
    BY <1>7 DEF AskStaticFiles
  <2>. QED  BY <1>5, <1>7, <2>1
<1>. QED  BY <1>6, <1>7

(* To give up, for what is not there. *)
LEMMA MissingStep ==
  ASSUME RequestsInvariant, NEW r \in Requests, phase[r] \in StaticPhases, Quiet(r), asked' = asked,
         Waits(r, NoLook, "missing")
  PROVE  RequestsInvariant'
<1>1. "missing" \in StaticPhases /\ "missing" \notin {"index", "tag", "nf-stat", "nf-read"}
  BY DEF StaticPhases
<1>. QED  BY <1>1, WaitingOn

LEMMA PlainlyOn ==
  ASSUME RequestsInvariant, NEW r \in Requests, phase[r] \in StaticPhases, Quiet(r), asked' = asked,
         NEW a, IsPlain(a), Answers(r, a)
  PROVE  RequestsInvariant'
<1>1. Busy(r) /\ OnlyAt(asked, asked', r) /\ IsSeq(asked'[r])
  BY StaticPlace, NotNoted
<1>. QED  BY <1>1, AnsweringPlainly

LEMMA StatPathStep ==
  ASSUME RequestsInvariant, NEW r \in Requests, Kept, StatPath(r)
  PROVE  RequestsInvariant'
<1>. DEFINE tree == AppOf(r).tree
            names == NamesOf(r)
            index == AppOf(r).index
<1>1. phase[r] \in StaticPhases
  BY DEF StatPath, StaticPhases
<1>2. Quiet(r) /\ asked' = asked
  BY IsQuiet DEF StatPath
<1>3. /\ App(r) = AppOf(r) /\ DecodedPath(Where(r).extra).names = names
      /\ StaticFilesAssumption(AppOf(r))
  BY <1>1, StaticPlace
<1>4. Entry(r) = IF names \in DOMAIN tree THEN tree[names] ELSE [kind |-> "nothing"]
  BY <1>3 DEF Entry
<1>5. \/ Entry(r).kind = "directory" /\ Waits(r, [file |-> None, names |-> index], "index")
      \/ Answers(r, Redirect(RedirectIntoDirectory(Where(r)), 308))
      \/ Entry(r).kind = "file" /\ IsThere(Entry(r).file) /\ Found(r, Entry(r).file)
      \/ Waits(r, NoLook, "missing")
  BY <1>3 DEF StatPath
<1>6. CASE Entry(r).kind = "directory" /\ Waits(r, [file |-> None, names |-> index], "index")
  <2>1. tree[names].kind # "file"
    BY <1>4, <1>6
  <2>2. PICK found : found = [file |-> None, names |-> index]
    OBVIOUS
  <2>3. Waits(r, found, "index")
    BY <1>6, <2>2
  <2>4. AppOf(r)' = AppOf(r) /\ NamesOf(r)' = NamesOf(r)
    BY <1>2, SamePlace DEF Quiet
  <2>5. ASSUME look'[r] = found PROVE IndexLeft(r)'
    <3>1. AppOf(r)'.tree[NamesOf(r)'].kind # "file"
      BY <2>1, <2>4
    <3>2. look'[r] = [file |-> None, names |-> look'[r].names] /\ look'[r].names = index
      BY <2>2, <2>5
    <3>3. index = SubSeq(index, 0 + 1, Len(index)) /\ 0 \in 0 .. Len(index)
      <4>1. PICK S : index \in Seq(S)
        BY <1>3 DEF StaticFilesAssumption
      <4>. HIDE DEF index
      <4>. QED  BY <4>1
    <3>4. \A j \in 1 .. 0 : ~HasIndex(AppOf(r), NamesOf(r), j)'
      OBVIOUS
    <3>5. AppOf(r)'.index = index
      BY <2>4
    <3>. QED  BY <3>1, <3>2, <3>3, <3>4, <3>5 DEF IndexLeft
  <2>6. "index" \in StaticPhases /\ "index" \notin {"tag", "nf-stat", "nf-read"}
    BY DEF StaticPhases
  <2>. QED  BY <1>1, <1>2, <2>3, <2>5, <2>6, WaitingOn
<1>7. CASE Answers(r, Redirect(RedirectIntoDirectory(Where(r)), 308))
  <2>. DEFINE a == Redirect(RedirectIntoDirectory(Where(r)), 308)
  <2>1. 308 \notin {200, 206} /\ 308 \notin {200, 206, 304, 416, 500}
    OBVIOUS
  <2>2. a.status = 308 /\ a.body.kind \in {"none", "message"} /\ Validates(a)
    BY <2>1, RedirectFits
  <2>3. IsPlain(a)
    BY <2>1, <2>2 DEF IsPlain
  <2>. HIDE DEF a
  <2>. QED  BY <1>1, <1>2, <1>7, <2>3, PlainlyOn DEF a
<1>8. CASE Entry(r).kind = "file" /\ IsThere(Entry(r).file) /\ Found(r, Entry(r).file)
  <2>1. names \in DOMAIN tree /\ Entry(r) = tree[names]
    BY <1>4, <1>8
  <2>2. tree[names].kind = "file" /\ tree[names].file \in Files
    BY <1>3, <1>8, <2>1 DEF StaticFilesAssumption
  <2>3. FileOf(r) = tree[names].file
    BY <2>2 DEF FileOf, AppOf, NamesOf
  <2>4. PICK file \in Files : file = Entry(r).file
    BY <2>1, <2>2
  <2>5. fs[file].there /\ file = FileOf(r) /\ Found(r, file)
    BY <1>8, <2>1, <2>3, <2>4 DEF IsThere
  <2>. QED  BY <1>1, <1>2, <2>5, FoundStep
<1>9. CASE Waits(r, NoLook, "missing")
  BY <1>1, <1>2, <1>9, MissingStep
<1>. QED  BY <1>5, <1>6, <1>7, <1>8, <1>9
(* One index file further: it is there, or it is none. *)
LEMMA StatIndexStep ==
  ASSUME RequestsInvariant, NEW r \in Requests, Kept, StatIndex(r)
  PROVE  RequestsInvariant'
<1>. DEFINE tree == AppOf(r).tree
            names == NamesOf(r)
            index == AppOf(r).index
            left == look[r].names
            at == Append(names, Head(left))
            entry == IF at \in DOMAIN tree THEN tree[at] ELSE [kind |-> "nothing"]
<1>1. phase[r] = "index" /\ phase[r] \in StaticPhases
  BY DEF StatIndex, StaticPhases
<1>2. Quiet(r) /\ asked' = asked
  BY IsQuiet DEF StatIndex
<1>3. /\ App(r) = AppOf(r) /\ DecodedPath(Where(r).extra).names = names
      /\ StaticFilesAssumption(AppOf(r))
  BY <1>1, StaticPlace
<1>4. IndexLeft(r)
  BY <1>1 DEF RequestsInvariant, RequestOK, LooksRight
<1>5. PICK k \in 0 .. Len(index) :
        /\ left = SubSeq(index, k + 1, Len(index))
        /\ ~changed[r] => \A j \in 1 .. k : ~HasIndex(AppOf(r), names, j)
  BY <1>4 DEF IndexLeft
<1>6. PICK S : index \in Seq(S)
  BY <1>3 DEF StaticFilesAssumption
<1>7. left # <<>> => k < Len(index) /\ Head(left) = index[k + 1] /\ Tail(left) = SubSeq(index, k + 2, Len(index))
  <2>. HIDE DEF index, left
  <2>. QED  BY <1>5, <1>6
<1>8. \/ left = <<>> /\ Waits(r, NoLook, "missing")
      \/ left # <<>> /\ entry.kind = "file" /\ IsThere(entry.file) /\ Found(r, entry.file)
      \/ /\ left # <<>> /\ ~(entry.kind = "file" /\ IsThere(entry.file))
         /\ Waits(r, [file |-> None, names |-> Tail(left)], "index")
  BY <1>3 DEF StatIndex
<1>9. left # <<>> => (HasIndex(AppOf(r), names, k + 1) <=> entry.kind = "file" /\ IsThere(entry.file))
  <2>1. left # <<>> => at = Append(names, index[k + 1])
    BY <1>7
  <2>. QED  BY <2>1 DEF HasIndex
<1>10. tree[names].kind # "file"
  BY <1>4 DEF IndexLeft
<1>11. CASE left = <<>> /\ Waits(r, NoLook, "missing")
  BY <1>1, <1>2, <1>11, MissingStep
<1>12. CASE left # <<>> /\ entry.kind = "file" /\ IsThere(entry.file) /\ Found(r, entry.file)
  <2>1. at \in DOMAIN tree /\ entry = tree[at]
    BY <1>12
  <2>2. tree[at].kind = "file" /\ tree[at].file \in Files
    BY <1>3, <1>12, <2>1 DEF StaticFilesAssumption
  <2>3. PICK file \in Files : file = entry.file
    BY <2>1, <2>2
  <2>4. fs[file].there /\ Found(r, file)
    BY <1>12, <2>3 DEF IsThere
  <2>5. ASSUME ~changed[r] PROVE file = FileOf(r)
    <3>. DEFINE IsFirst(i) == HasIndex(AppOf(r), names, i) /\ \A j \in 1 .. i - 1 : ~HasIndex(AppOf(r), names, j)
                first == CHOOSE i \in DOMAIN index : IsFirst(i)
    <3>1. k + 1 \in DOMAIN index /\ DOMAIN index = 1 .. Len(index) /\ Len(index) \in Nat /\ k \in Nat
      <4>. HIDE DEF index, left
      <4>. QED  BY <1>5, <1>6, <1>7, <1>12
    <3>2. \A j \in 1 .. k : ~HasIndex(AppOf(r), names, j)
      BY <1>5, <2>5
    <3>3. HasIndex(AppOf(r), names, k + 1)
      BY <1>9, <1>12
    <3>4. IsFirst(k + 1)
      BY <3>1, <3>2, <3>3
    <3>5. first \in DOMAIN index /\ IsFirst(first)
      <4>. HIDE DEF IsFirst, index
      <4>. QED  BY <3>1, <3>4
    <3>6. first = k + 1
      <4>. HIDE DEF first, index
      <4>1. first \in Int
        BY <3>1, <3>5
      <4>2. ~(first < k + 1)
        BY <3>1, <3>2, <3>5, <4>1
      <4>3. ~(k + 1 < first)
        BY <3>1, <3>3, <3>5, <4>1
      <4>. QED  BY <3>1, <4>1, <4>2, <4>3
    <3>7. FileOf(r) = IF tree[names].kind = "file" THEN tree[names].file
                      ELSE tree[Append(names, index[first])].file
      BY DEF FileOf, AppOf, NamesOf
    <3>8. Append(names, index[k + 1]) = at
      BY <1>7, <1>12
    <3>. HIDE DEF first, tree, names, index, at, entry
    <3>. QED  BY <1>10, <2>1, <2>3, <3>6, <3>7, <3>8
  <2>. QED  BY <1>1, <1>2, <2>4, <2>5, FoundStep
<1>13. CASE /\ left # <<>> /\ ~(entry.kind = "file" /\ IsThere(entry.file))
            /\ Waits(r, [file |-> None, names |-> Tail(left)], "index")
  <2>1. PICK rest : rest = SubSeq(index, k + 2, Len(index))
    OBVIOUS
  <2>2. PICK found : found = [file |-> None, names |-> rest]
    OBVIOUS
  <2>3. Waits(r, found, "index")
    BY <1>7, <1>13, <2>1, <2>2
  <2>4. AppOf(r)' = AppOf(r) /\ NamesOf(r)' = NamesOf(r) /\ changed' = changed /\ fs' = fs
    BY <1>2, SamePlace DEF Quiet
  <2>5. ASSUME look'[r] = found PROVE IndexLeft(r)'
    <3>1. AppOf(r)'.tree[NamesOf(r)'].kind # "file"
      BY <1>10, <2>4
    <3>2. look'[r] = [file |-> None, names |-> look'[r].names] /\ look'[r].names = rest
      BY <2>2, <2>5
    <3>3. /\ k + 1 \in 0 .. Len(AppOf(r)'.index)
          /\ look'[r].names = SubSeq(AppOf(r)'.index, (k + 1) + 1, Len(AppOf(r)'.index))
      <4>1. Len(index) \in Nat
        BY <1>6
      <4>2. k + 1 \in 0 .. Len(index) /\ (k + 1) + 1 = k + 2
        <5>. HIDE DEF index, left
        <5>. QED  BY <1>5, <1>7, <1>13, <4>1
      <4>. QED  BY <2>1, <2>4, <3>2, <4>2
    <3>4. ~changed[r] => \A j \in 1 .. k + 1 : ~HasIndex(AppOf(r), names, j)
      <4>1. ~HasIndex(AppOf(r), names, k + 1)
        BY <1>9, <1>13
      <4>2. \A j \in 1 .. k + 1 : j \in 1 .. k \/ j = k + 1
        BY <1>5
      <4>. HIDE DEF names
      <4>. QED  BY <1>5, <4>1, <4>2
    <3>5. \A j : HasIndex(AppOf(r), NamesOf(r), j)' <=> HasIndex(AppOf(r), names, j)
      BY <2>4 DEF HasIndex, IsThere
    <3>6. ~changed'[r] => \A j \in 1 .. k + 1 : ~HasIndex(AppOf(r), NamesOf(r), j)'
      BY <2>4, <3>4, <3>5
    <3>. QED  BY <3>1, <3>2, <3>3, <3>6 DEF IndexLeft
  <2>6. "index" \in StaticPhases /\ "index" \notin {"tag", "nf-stat", "nf-read"}
    BY DEF StaticPhases
  <2>. QED  BY <1>1, <1>2, <2>3, <2>5, <2>6, WaitingOn
<1>. QED  BY <1>8, <1>11, <1>12, <1>13

LEMMA MakeTagStep ==
  ASSUME RequestsInvariant, NEW r \in Requests, Kept, MakeTag(r)
  PROVE  RequestsInvariant'
<1>. DEFINE file == look[r].file
            version == look[r].version
            now == fs[file]
<1>1. phase[r] = "tag" /\ phase[r] \in StaticPhases
  BY DEF MakeTag, StaticPhases
<1>2. Quiet(r) /\ asked' = asked
  BY IsQuiet DEF MakeTag
<1>3. FileIsRight(r, file, version)
  BY <1>1 DEF RequestsInvariant, RequestOK, LooksRight
<1>4. Busy(r) /\ OnlyAt(asked, asked', r) /\ IsSeq(asked'[r])
  BY <1>1, <1>2, StaticPlace, NotNoted
<1>5. PICK tag \in {None, TagFromStats(now.version), TagFromData(now.version)} :
        Throws(r) \/ Answers(r, AdjustFor(FileResponse(file, version, tag), client[r]))
  BY DEF MakeTag
<1>6. CASE Throws(r)
  BY <1>2, <1>4, <1>6, GoingOn
<1>7. CASE Answers(r, AdjustFor(FileResponse(file, version, tag), client[r]))
  <2>1. ~changed[r] => now.version = version
    BY <1>3 DEF FileIsRight, IsNow
  <2>2. ~changed[r] => TagOf(tag, version)
    BY <1>5, <2>1 DEF TagOf, TagFromStats, TagFromData, Etag
  <2>. HIDE DEF file, version
  <2>. QED  BY <1>1, <1>2, <1>3, <1>7, <2>2, AnsweringFile
<1>. QED  BY <1>5, <1>6, <1>7

(* The page for what is not found: always an answer of its own. *)
LEMMA NotFoundStep ==
  ASSUME RequestsInvariant, NEW r \in Requests, Kept,
         NotFoundBegins(r) \/ NotFoundStat(r) \/ NotFoundRead(r)
  PROVE  RequestsInvariant'
<1>1. phase[r] \in StaticPhases
  BY DEF NotFoundBegins, NotFoundStat, NotFoundRead, StaticPhases
<1>2. Quiet(r) /\ asked' = asked
  BY IsQuiet DEF NotFoundBegins, NotFoundStat, NotFoundRead
<1>3. Busy(r) /\ OnlyAt(asked, asked', r) /\ IsSeq(asked'[r])
  BY <1>1, <1>2, StaticPlace, NotNoted
<1>4. CASE NotFoundBegins(r)
  <2>1. CASE GoesOn(r, <<>>)
    BY <1>2, <1>3, <2>1, GoingOn
  <2>2. CASE ~GoesOn(r, <<>>)
    <3>0. PICK found : found = [file |-> App(r).notFound, existing |-> notFound.version]
      OBVIOUS
    <3>1. PICK mark :
            /\ look' = [look EXCEPT ![r] = found] /\ Go(r, "nf-stat")
            /\ todo' = todo /\ answer' = answer /\ notFound' = notFound
            /\ came' = [came EXCEPT ![r] = mark]
      BY <1>4, <2>2, <3>0 DEF NotFoundBegins, Passes
    <3>6. found.file \in Files /\ found.existing \in 1 .. MaxVersion /\ PageOK'
      <4>1. found.file = App(r).notFound /\ found.existing = notFound.version
        BY <3>0
      <4>2. App(r).notFound # None
        BY <1>4, <2>2 DEF NotFoundBegins, Passes
      <4>3. StaticFilesAssumption(App(r))
        BY <1>1, StaticPlace
      <4>. QED  BY <3>1, <4>1, <4>2, <4>3 DEF StaticFilesAssumption, RequestsInvariant, PageOK
    <3>2. OnlyAt(came, came', r)
      BY <3>1, ChangedOnlyAt DEF RequestsInvariant, RequestTypes, IsOn, OnlyAt
    <3>3. IsStatic(r)'
      BY <1>1, <1>2, StaticPlace, SamePlace DEF Quiet
    <3>4. Head(todo[r]) = Last(asked'[r]) /\ GetOrHead(client[r].method)
      BY <1>1, <1>2 DEF RequestsInvariant, RequestOK, LooksRight
    <3>5. "nf-stat" \in StaticPhases /\ "nf-stat" \notin {"index", "tag", "nf-read"}
      BY DEF StaticPhases
    <3>. QED  BY <1>2, <1>3, <3>1, <3>2, <3>3, <3>4, <3>5, <3>6, Waiting
  <2>. QED  BY <2>1, <2>2
<1>5. CASE NotFoundStat(r)
  <2>3. look[r].file \in Files /\ look[r].existing \in 1 .. MaxVersion
    BY <1>5 DEF NotFoundStat, RequestsInvariant, RequestOK, LooksRight
  <2>1. CASE Answers(r, NotFoundResponse(look[r].file, look[r].existing))
    BY <1>1, <1>2, <2>1, <2>3, NotFoundIsPlain, PlainlyOn
  <2>2. CASE ~Answers(r, NotFoundResponse(look[r].file, look[r].existing))
    <3>1. PICK found : found = [file |-> look[r].file, modTime |-> fs[look[r].file].version]
      OBVIOUS
    <3>2. Waits(r, found, "nf-read")
      BY <1>5, <2>2, <3>1 DEF NotFoundStat
    <3>3. found.file \in Files
      BY <2>3, <3>1
    <3>4. "nf-read" \in StaticPhases /\ "nf-read" \notin {"index", "tag", "nf-stat"}
      BY DEF StaticPhases
    <3>. QED  BY <1>1, <1>2, <3>2, <3>3, <3>4, WaitingOn
  <2>. QED  BY <2>1, <2>2
<1>6. CASE NotFoundRead(r)
  <2>1. CASE Throws(r)
    BY <1>2, <1>3, <2>1, GoingOn
  <2>2. CASE ~Throws(r)
    <3>. DEFINE a == NotFoundResponse(look[r].file, fs[look[r].file].version)
    <3>6. PICK version \in 1 .. MaxVersion : version = fs[look[r].file].version
      <4>1. look[r].file \in Files
        BY <1>6 DEF NotFoundRead, RequestsInvariant, RequestOK, LooksRight
      <4>. QED  BY <4>1 DEF RequestsInvariant, RequestTypes
    <3>7. PageOK'
      <4>1. notFound' = [version |-> version, modTime |-> look[r].modTime]
        BY <1>6, <2>2, <3>6 DEF NotFoundRead
      <4>. QED  BY <4>1 DEF PageOK
    <3>1. Gives(r, a) /\ came' = came
      BY <1>6, <2>2 DEF NotFoundRead
    <3>2. OnlyAt(came, came', r)
      BY <3>1, SameOnlyAt DEF RequestsInvariant, RequestTypes
    <3>3. IsPlain(a)
      BY <3>6, NotFoundIsPlain
    <3>. HIDE DEF a
    <3>4. PICK b : b = a
      OBVIOUS
    <3>5. answer'[r] = b => Fits(r)'
      BY <3>3, <3>4, PlainFits
    <3>. QED  BY <1>2, <1>3, <3>1, <3>2, <3>4, <3>5, <3>7, Answering
  <2>. QED  BY <2>1, <2>2
<1>. QED  BY <1>4, <1>5, <1>6
-----------------------------------------------------------------------------
(* What comes before an answer: the connection, the request, its body.     *)
LEMMA Unmoved ==
  ASSUME RequestsInvariant,
         UNCHANGED <<site, fs, client, phase, todo, asked, look, answer, notFound, came, conn,
                     sent, status, declared, changed>>
  PROVE  RequestsInvariant'
<1>1. ASSUME NEW q \in Requests PROVE RequestOK(q)'
  <2>1. SameFor(q)
    BY DEF SameFor
  <2>2. RequestOK(q)
    BY DEF RequestsInvariant
  <2>. QED  BY <2>1, <2>2, Untouched
<1>2. RequestTypes' /\ NobodyFirst' /\ PageOK'
  BY DEF RequestsInvariant, RequestTypes, NobodyFirst, PageOK, IsOn
<1>. QED  BY <1>1, <1>2 DEF RequestsInvariant

LEMMA ConnectStep ==
  ASSUME RequestsInvariant, NEW name, Connect(name)
  PROVE  RequestsInvariant'
<1>1. /\ conn = "new" /\ conn' \in {"open", "closed"}
      /\ UNCHANGED <<site, fs, client, phase, todo, asked, look, answer, notFound, came,
                     sent, status, declared, changed>>
  BY DEF Connect, appVars, writeVars
<1>2. RequestTypes' /\ NobodyFirst' /\ PageOK'
  BY <1>1 DEF RequestsInvariant, RequestTypes, NobodyFirst, PageOK, IsOn
<1>3. ASSUME NEW q \in Requests PROVE RequestOK(q)'
  <2>1. phase[q] = "idle" /\ RequestOK(q)
    BY <1>1 DEF RequestsInvariant, NobodyFirst
  <2>2. Unsent(q) /\ IsSeq(asked[q]) /\ IsSeq(sent[q])
    BY <2>1 DEF RequestOK
  <2>3. Unsent(q)' /\ IsSeq(asked'[q]) /\ IsSeq(sent'[q]) /\ phase'[q] = "idle"
    BY <1>1, <2>1, <2>2 DEF Unsent
  <2>4. LooksRight(q)'
    BY <2>3 DEF LooksRight, StaticPhases
  <2>5. status'[q] # 500
    <3>1. status'[q] = 0
      BY <2>3 DEF Unsent
    <3>. QED  BY <3>1, NoneYet
  <2>6. "idle" \notin WritingPhases
    BY DEF WritingPhases
  <2>. QED  BY <2>3, <2>4, <2>5, <2>6 DEF RequestOK
<1>. QED  BY <1>2, <1>3 DEF RequestsInvariant

LEMMA DisconnectStep ==
  ASSUME RequestsInvariant, CloseConnection \/ ClientLeaves
  PROVE  RequestsInvariant'
<1>1. /\ conn # "new" /\ conn' = "closed"
      /\ UNCHANGED <<site, fs, client, phase, todo, asked, look, answer, notFound, came,
                     sent, status, declared, changed>>
  BY DEF CloseConnection, ClientLeaves, appVars, writeVars
<1>2. RequestTypes' /\ NobodyFirst' /\ PageOK'
  BY <1>1 DEF RequestsInvariant, RequestTypes, NobodyFirst, PageOK, IsOn
<1>3. ASSUME NEW q \in Requests PROVE RequestOK(q)'
  <2>1. SameFor(q)
    BY <1>1 DEF SameFor
  <2>2. RequestOK(q)
    BY DEF RequestsInvariant
  <2>. QED  BY <1>1, <2>1, <2>2, Untouched
<1>. QED  BY <1>2, <1>3 DEF RequestsInvariant

LEMMA BeginsStep ==
  ASSUME RequestsInvariant, NEW r \in Requests, NEW c, AskAssumption(c), conn = "open", Begins(r, c)
  PROVE  RequestsInvariant'
<1>1. RequestTypes
  BY DEF RequestsInvariant
<1>2. IsOn(phase)
  BY <1>1 DEF RequestTypes, IsOn
<1>3. /\ OnlyAt(client, client', r) /\ client'[r] = c
      /\ OnlyAt(phase, phase', r) /\ phase'[r] = "reading"
      /\ OnlyAt(asked, asked', r) /\ asked'[r] = <<>>
  BY <1>1, <1>2 DEF Begins, RequestTypes, IsOn, OnlyAt
<1>4. /\ OnlyAt(sent, sent', r) /\ sent'[r] = <<>>
      /\ OnlyAt(status, status', r) /\ status'[r] = 0
      /\ OnlyAt(declared, declared', r) /\ declared'[r] = None
      /\ OnlyAt(changed, changed', r)
  BY <1>1, <1>2 DEF Begins, RequestTypes, IsOn, OnlyAt
<1>5. OnlyAt(todo, todo', r) /\ OnlyAt(look, look', r) /\ OnlyAt(answer, answer', r) /\ OnlyAt(came, came', r)
  BY <1>1, SameOnlyAt DEF Begins, RequestTypes
<1>6. site' = site /\ fs' = fs /\ ConnGoesOn /\ PageOK'
  BY DEF Begins, connVars, ConnGoesOn, RequestsInvariant, PageOK
<1>7. phase'[r] \in RequestPhases
  BY <1>3 DEF RequestPhases
<1>8. Stepped(r)
  BY <1>1, <1>3, <1>4, <1>5, <1>6, <1>7, Steps
<1>9. IsSeq(<<>>)
  <2>1. <<>> \in Seq(Requests)
    OBVIOUS
  <2>. QED  BY <2>1, SeqIsSeq
<1>10. Unsent(r)'
  BY <1>4 DEF Unsent
<1>11. LooksRight(r)'
  BY <1>3 DEF LooksRight, StaticPhases
<1>12. "reading" \notin WritingPhases
  BY DEF WritingPhases
<1>13. status'[r] # 500
  BY <1>4, NoneYet
<1>14. RequestOK(r)'
  BY <1>3, <1>4, <1>9, <1>10, <1>11, <1>12, <1>13 DEF RequestOK
<1>. QED  BY <1>8, <1>14, OneSteps

LEMMA ArriveStep ==
  ASSUME RequestsInvariant, NEW r \in Requests, NEW c \in Site.asks, Arrive(r, c)
  PROVE  RequestsInvariant'
<1>1. AskAssumption(c)
  BY SitesAssumption DEF RequestsInvariant, RequestTypes, Site
<1>. QED  BY <1>1, BeginsStep DEF Arrive

LEMMA FollowStep ==
  ASSUME RequestsInvariant, NEW r \in Requests, Follow(r)
  PROVE  RequestsInvariant'
<1>1. PICK path : Begins(r, [client[r] EXCEPT !.path = path])
  BY DEF Follow
<1>2. PICK c : c = [client[r] EXCEPT !.path = path]
  OBVIOUS
<1>3. AskAssumption(client[r])
  BY DEF Follow, RequestsInvariant, RequestOK
<1>4. AskAssumption(c)
  <2>1. {"method", "path", "noCache", "inm", "ims", "range", "ifRange", "follows"} \subseteq DOMAIN client[r]
    BY <1>3 DEF AskAssumption
  <2>2. DOMAIN c = DOMAIN client[r] /\ c.ims = client[r].ims /\ c.inm = client[r].inm /\ c.range = client[r].range
    BY <1>2, <2>1
  <2>. QED  BY <1>3, <2>2 DEF AskAssumption
<1>5. conn = "open" /\ Begins(r, c)
  BY <1>1, <1>2 DEF Follow
<1>. QED  BY <1>4, <1>5, BeginsStep

LEMMA ReadBodyStep ==
  ASSUME RequestsInvariant, NEW r \in Requests, ReadBody(r)
  PROVE  RequestsInvariant'
<1>1. UNCHANGED <<site, fs, client, phase, todo, asked, look, answer, notFound, came, conn,
                  sent, status, declared, changed>>
  BY DEF ReadBody, appVars, connVars, writeVars
<1>. QED  BY <1>1, Unmoved

(* The files change. *)
LEMMA ChangesStep ==
  ASSUME RequestsInvariant, NEW f \in Files, Edit(f) \/ Delete(f)
  PROVE  RequestsInvariant'
<1>1. /\ changed' = [q \in Requests |-> TRUE]
      /\ UNCHANGED <<site, client, phase, todo, asked, look, answer, notFound, came, conn, sent, status, declared>>
  BY DEF Edit, Delete, Changes, appVars, connVars, writeVars
<1>2. RequestTypes
  BY DEF RequestsInvariant
<1>3. fs' \in [Files -> [version : 1 .. MaxVersion, there : BOOLEAN]]
  <2>1. fs \in [Files -> [version : 1 .. MaxVersion, there : BOOLEAN]]
    BY <1>2 DEF RequestTypes
  <2>2. CASE Edit(f)
    <3>1. fs' = [fs EXCEPT ![f] = [version |-> fs[f].version + 1, there |-> TRUE]] /\ fs[f].version < MaxVersion
      BY <2>2 DEF Edit, Changes
    <3>2. [version |-> fs[f].version + 1, there |-> TRUE] \in [version : 1 .. MaxVersion, there : BOOLEAN]
      BY <2>1, <3>1, FilesAssumption
    <3>. QED  BY <2>1, <3>1, <3>2
  <2>3. CASE Delete(f)
    <3>1. fs' = [fs EXCEPT ![f] = [fs[f] EXCEPT !.there = FALSE]]
      BY <2>3 DEF Delete, Changes
    <3>2. [fs[f] EXCEPT !.there = FALSE] \in [version : 1 .. MaxVersion, there : BOOLEAN]
      BY <2>1
    <3>. QED  BY <2>1, <3>1, <3>2
  <2>. QED  BY <2>2, <2>3
<1>4. RequestTypes'
  BY <1>1, <1>2, <1>3 DEF RequestTypes, IsOn
<1>5. NobodyFirst' /\ PageOK'
  BY <1>1 DEF RequestsInvariant, NobodyFirst, PageOK
<1>6. ASSUME NEW q \in Requests PROVE RequestOK(q)'
  <2>1. RequestOK(q) /\ changed'[q]
    BY <1>1 DEF RequestsInvariant
  <2>2. /\ AppOf(q)' = AppOf(q) /\ NamesOf(q)' = NamesOf(q)
        /\ IsStatic(q)' <=> IsStatic(q)
        /\ AnsweredByError(q)' <=> AnsweredByError(q)
    BY <1>1 DEF AppOf, NamesOf, IsStatic, OfType, AnsweredByError, Site
  <2>3. /\ SendsBody(q)' <=> SendsBody(q)
        /\ IsData(q)' <=> IsData(q)
        /\ ContentLength(q)' = ContentLength(q)
        /\ At(q)' = At(q)
        /\ IsFileBody(q)' <=> IsFileBody(q)
        /\ Unsent(q)' <=> Unsent(q)
    BY <1>1 DEF SendsBody, IsData, ContentLength, At, IsFileBody, Unsent
  <2>4. Begun(q)' <=> Begun(q)
    BY <1>1, <2>3 DEF Begun
  <2>5. LooksRight(q)'
    <3>1. IndexLeft(q) => IndexLeft(q)'
      BY <1>1, <2>1, <2>2 DEF IndexLeft
    <3>2. FileIsRight(q, look[q].file, look[q].version) => FileIsRight(q, look[q].file, look[q].version)'
      BY <1>1, <2>1 DEF FileIsRight
    <3>. QED  BY <1>1, <2>1, <2>2, <3>1, <3>2 DEF RequestOK, LooksRight
  <2>6. Fits(q) => Fits(q)'
    BY <1>1, <2>1, <2>2, <2>3 DEF Fits
  <2>7. \A n : Carried(q, n) => Carried(q, n)'
    BY <1>1, <2>1 DEF Carried
  <2>8. InChunks(q) => InChunks(q)'
    BY <1>1, <2>3, <2>4, <2>7 DEF InChunks
  <2>9. /\ Refusal(q) => Refusal(q)'
        /\ WholeAnswer(q) => WholeAnswer(q)'
        /\ Failure(q) => Failure(q)'
    BY <1>1, <2>1, <2>3, <2>4, <2>6, <2>7 DEF Refusal, WholeAnswer, Failure
  <2>10. /\ phase'[q] = "done" /\ conn' # "closed" => Refusal(q)' \/ WholeAnswer(q)' \/ Failure(q)'
         /\ phase'[q] = "chunks" => InChunks(q)'
    BY <1>1, <2>1, <2>8, <2>9 DEF RequestOK
  <2>11. /\ IsSeq(asked[q])' /\ IsSeq(sent[q])'
         /\ phase'[q] # "idle" => AskAssumption(client'[q])
         /\ phase'[q] \notin {"chunks", "done"} => Unsent(q)'
         /\ phase'[q] \in WritingPhases => Fits(q)'
         /\ phase'[q] \in {"read-once", "open", "chunks"} => IsFileBody(q)'
         /\ phase'[q] = "open" => answer'[q].body.length # 0
    BY <1>1, <2>1, <2>3, <2>6 DEF RequestOK
  <2>. QED  BY <2>1, <2>5, <2>10, <2>11 DEF RequestOK
<1>. QED  BY <1>4, <1>5, <1>6 DEF RequestsInvariant
-----------------------------------------------------------------------------
(* What is sent, piece by piece.                                           *)
LEMMA RunsAlone ==
  ASSUME NEW p
  PROVE  /\ RunsFrom(<<p>>, p.first, p.length) /\ <<p>> # <<>> /\ IsSeq(<<p>>)
         /\ \A i \in DOMAIN <<p>> : <<p>>[i] = p
<1>1. <<p>> \in Seq({p}) /\ Len(<<p>>) = 1 /\ <<p>>[1] = p /\ <<p>> # <<>> /\ DOMAIN <<p>> = {1}
  OBVIOUS
<1>2. Last(<<p>>) = p
  BY <1>1 DEF Last
<1>3. IsSeq(<<p>>)
  BY <1>1, SeqIsSeq
<1>. QED  BY <1>1, <1>2, <1>3 DEF RunsFrom

LEMMA RunsOn ==
  ASSUME NEW s, IsSeq(s), s # <<>>, NEW first \in Int, NEW m \in Int, NEW n \in Int, RunsFrom(s, first, m),
         NEW p, p.first = first + m, p.length = n,
         NEW t, t = Append(s, p)
  PROVE  RunsFrom(t, first, m + n)
<1>1. /\ t # <<>> /\ Last(t) = p /\ Len(t) = Len(s) + 1
      /\ \A i \in 1 .. Len(s) : t[i] = s[i]
  BY Appended
<1>2. Len(s) \in Nat /\ Len(s) >= 1
  BY DEF IsSeq
<1>3. t[1] = s[1] /\ t[Len(s)] = s[Len(s)]
  BY <1>1, <1>2
<1>4. s[1].first = first /\ Last(s).first + Last(s).length = first + m
      /\ \A i \in 1 .. Len(s) - 1 : s[i + 1].first = s[i].first + s[i].length
  BY DEF RunsFrom
<1>5. t[Len(s) + 1] = p /\ Last(s) = s[Len(s)]
  BY <1>1, <1>2 DEF Last
<1>6. ASSUME NEW i \in 1 .. Len(t) - 1 PROVE t[i + 1].first = t[i].first + t[i].length
  <2>1. CASE i = Len(s)
    BY <1>1, <1>3, <1>4, <1>5, <2>1
  <2>2. CASE i # Len(s)
    <3>1. i \in 1 .. Len(s) - 1 /\ i \in 1 .. Len(s) /\ i + 1 \in 1 .. Len(s)
      BY <1>1, <1>2, <2>2
    <3>. QED  BY <1>1, <1>4, <3>1
  <2>. QED  BY <2>1, <2>2
<1>7. p.first + p.length = first + (m + n)
  OBVIOUS
<1>. QED  BY <1>1, <1>3, <1>4, <1>6, <1>7 DEF RunsFrom

(* What has been sent after a step. *)
LEMMA SendsWhat ==
  ASSUME RequestsInvariant, NEW r \in Requests, NEW code, NEW length, NEW pieces, Sends(r, code, length, pieces)
  PROVE  /\ OnlyAt(sent, sent', r) /\ OnlyAt(status, status', r) /\ OnlyAt(declared, declared', r)
         /\ conn = "closed" =>
              sent'[r] = sent[r] /\ status'[r] = status[r] /\ declared'[r] = declared[r]
         /\ conn # "closed" =>
              /\ sent'[r] = sent[r] \o pieces
              /\ status'[r] = IF status[r] = 0 THEN code ELSE status[r]
              /\ declared'[r] = IF status[r] = 0 THEN length ELSE declared[r]
<1>1. IsOn(sent) /\ IsOn(status) /\ IsOn(declared)
  BY DEF RequestsInvariant, RequestTypes
<1>2. CASE conn = "closed"
  <2>1. sent' = sent /\ status' = status /\ declared' = declared
    BY <1>2 DEF Sends, writeVars
  <2>. QED  BY <1>1, <1>2, <2>1, SameOnlyAt
<1>3. CASE conn # "closed"
  <2>1. /\ sent' = [sent EXCEPT ![r] = sent[r] \o pieces]
        /\ status' = [status EXCEPT ![r] = IF status[r] = 0 THEN code ELSE status[r]]
        /\ declared' = [declared EXCEPT ![r] = IF status[r] = 0 THEN length ELSE declared[r]]
    BY <1>3 DEF Sends
  <2>2. OnlyAt(sent, sent', r) /\ sent'[r] = sent[r] \o pieces
    BY <1>1, <2>1 DEF IsOn, OnlyAt
  <2>3. OnlyAt(status, status', r) /\ status'[r] = IF status[r] = 0 THEN code ELSE status[r]
    BY <1>1, <2>1 DEF IsOn, OnlyAt
  <2>4. OnlyAt(declared, declared', r) /\ declared'[r] = IF status[r] = 0 THEN length ELSE declared[r]
    BY <1>1, <2>1 DEF IsOn, OnlyAt
  <2>. QED  BY <1>3, <2>2, <2>3, <2>4
<1>. QED  BY <1>2, <1>3

LEMMA SendsNothing ==
  ASSUME RequestsInvariant, NEW r \in Requests, NEW code, NEW length, Sends(r, code, length, <<>>)
  PROVE  sent'[r] = sent[r]
<1>1. PICK none : none = <<>>
  OBVIOUS
<1>2. Sends(r, code, length, none)
  BY <1>1
<1>3. sent'[r] = sent[r] \/ sent'[r] = sent[r] \o none
  BY <1>2, SendsWhat
<1>4. IsSeq(sent[r])
  BY DEF RequestsInvariant, RequestOK
<1>5. sent[r] \o none = sent[r]
  BY <1>1, <1>4 DEF IsSeq
<1>. QED  BY <1>3, <1>5

(* A response in the middle of being written stays what it is. *)
Writes(r) ==
  /\ client' = client /\ todo' = todo /\ asked' = asked /\ answer' = answer /\ came' = came
  /\ site' = site /\ fs' = fs /\ changed' = changed /\ notFound' = notFound

LEMMA WritesSame ==
  ASSUME RequestsInvariant, NEW r \in Requests, Writes(r)
  PROVE  /\ OnlyAt(client, client', r) /\ OnlyAt(todo, todo', r) /\ OnlyAt(asked, asked', r)
         /\ OnlyAt(answer, answer', r) /\ OnlyAt(came, came', r) /\ OnlyAt(changed, changed', r)
         /\ IsSeq(asked'[r])
         /\ Fits(r)' <=> Fits(r)
         /\ IsFileBody(r)' <=> IsFileBody(r)
         /\ SendsBody(r)' <=> SendsBody(r)
         /\ IsData(r)' <=> IsData(r)
         /\ ContentLength(r)' = ContentLength(r)
         /\ AnsweredByError(r)' <=> AnsweredByError(r)
<1>1. RequestTypes /\ RequestOK(r)
  BY DEF RequestsInvariant
<1>2. OnlyAt(client, client', r) /\ OnlyAt(todo, todo', r) /\ OnlyAt(asked, asked', r)
  BY <1>1, SameOnlyAt DEF RequestTypes, Writes
<1>3. OnlyAt(answer, answer', r) /\ OnlyAt(came, came', r) /\ OnlyAt(changed, changed', r)
  BY <1>1, SameOnlyAt DEF RequestTypes, Writes
<1>4. IsSeq(asked'[r])
  BY <1>1 DEF RequestOK, Writes
<1>5. /\ site' = site /\ fs' = fs /\ asked'[r] = asked[r] /\ answer'[r] = answer[r]
      /\ client'[r] = client[r] /\ changed'[r] = changed[r]
  BY DEF Writes
<1>6. /\ Fits(r)' <=> Fits(r)
      /\ IsFileBody(r)' <=> IsFileBody(r)
      /\ SendsBody(r)' <=> SendsBody(r)
      /\ IsData(r)' <=> IsData(r)
      /\ ContentLength(r)' = ContentLength(r)
  BY <1>5, SameAnswer
<1>7. AnsweredByError(r)' <=> AnsweredByError(r)
  BY <1>5, SamePlace
<1>. QED  BY <1>2, <1>3, <1>4, <1>6, <1>7

(* The end of a response. *)
LEMMA Finishing ==
  ASSUME RequestsInvariant, NEW r \in Requests, phase[r] \notin {"idle", "done"},
         NEW code, NEW length, NEW pieces, Sends(r, code, length, pieces),
         NEW end, Finish(r, end), IsSeq(sent'[r]),
         status'[r] = 500 => changed[r] \/ AnsweredByError(r),
         conn # "closed" => Refusal(r)' \/ WholeAnswer(r)' \/ Failure(r)'
  PROVE  RequestsInvariant'
<1>1. RequestTypes /\ NobodyFirst /\ RequestOK(r)
  BY DEF RequestsInvariant
<1>2. Writes(r) /\ look' = look /\ phase' = [phase EXCEPT ![r] = "done"]
  BY DEF Finish, Writes, Go
<1>3. phase'[r] = "done" /\ OnlyAt(phase, phase', r)
  BY <1>1, <1>2 DEF RequestTypes, OnlyAt
<1>4. OnlyAt(look, look', r)
  BY <1>1, <1>2, SameOnlyAt DEF RequestTypes
<1>5. conn # "new"
  BY <1>1 DEF NobodyFirst
<1>6. ConnGoesOn /\ (conn = "closed" <=> conn' = "closed")
  BY <1>1, <1>5 DEF Finish, ConnGoesOn, RequestTypes
<1>7. OnlyAt(sent, sent', r) /\ OnlyAt(status, status', r) /\ OnlyAt(declared, declared', r)
  BY SendsWhat
<1>8. /\ OnlyAt(client, client', r) /\ OnlyAt(todo, todo', r) /\ OnlyAt(asked, asked', r)
      /\ OnlyAt(answer, answer', r) /\ OnlyAt(came, came', r) /\ OnlyAt(changed, changed', r)
      /\ IsSeq(asked'[r])
      /\ AnsweredByError(r)' <=> AnsweredByError(r)
  BY <1>2, WritesSame
<1>9. phase'[r] \in RequestPhases /\ "done" \notin WritingPhases
  BY <1>3 DEF RequestPhases, WritingPhases
<1>10. Stepped(r)
  <2>1. site' = site /\ fs' = fs /\ PageOK'
    BY <1>2 DEF Writes, RequestsInvariant, PageOK
  <2>. QED  BY <1>1, <1>3, <1>4, <1>6, <1>7, <1>8, <1>9, <2>1, Steps
<1>11. LooksRight(r)'
  BY <1>3 DEF LooksRight, StaticPhases
<1>12. AskAssumption(client'[r]) /\ changed'[r] = changed[r]
  BY <1>1, <1>2 DEF RequestOK, Writes
<1>13. RequestOK(r)'
  BY <1>3, <1>6, <1>8, <1>9, <1>11, <1>12 DEF RequestOK
<1>. QED  BY <1>10, <1>13, OneSteps

(* It could not be written: the connection does not stay open. *)
LEMMA FailingStep ==
  ASSUME RequestsInvariant, NEW r \in Requests, phase[r] \notin {"idle", "done"},
         NEW length, Sends(r, 500, length, <<>>), Finish(r, 500),
         changed[r] \/ AnsweredByError(r)
  PROVE  RequestsInvariant'
<1>1. IsSeq(sent[r])
  BY DEF RequestsInvariant, RequestOK
<1>2. sent'[r] = sent[r]
  BY SendsNothing
<1>3. Writes(r) /\ (conn = "open" => conn' = "closing") /\ (conn # "open" => conn' = conn)
  BY DEF Finish, Writes
<1>4. conn' # "open"
  BY <1>3
<1>5. Failure(r)'
  <2>1. AnsweredByError(r)' <=> AnsweredByError(r)
    BY <1>3, WritesSame
  <2>2. changed' = changed
    BY <1>3 DEF Writes
  <2>. QED  BY <1>4, <2>1, <2>2 DEF Failure
<1>6. IsSeq(sent'[r])
  BY <1>1, <1>2
<1>. QED  BY <1>5, <1>6, Finishing

LEMMA RefuseStep ==
  ASSUME RequestsInvariant, NEW r \in Requests, RefuseRequest(r)
  PROVE  RequestsInvariant'
<1>1. phase[r] = "reading" /\ Sends(r, 400, None, <<>>) /\ Finish(r, 400)
  BY DEF RefuseRequest
<1>2. Unsent(r)
  BY <1>1 DEF RequestsInvariant, RequestOK
<1>3. sent[r] = <<>> /\ status[r] = 0 /\ declared[r] = None
  BY <1>2 DEF Unsent
<1>4. sent'[r] = <<>>
  BY <1>1, <1>3, SendsNothing
<1>5. conn # "closed" => status'[r] = 400 /\ declared'[r] = None
  BY <1>1, <1>3, SendsWhat
<1>6. conn = "closed" => status'[r] = 0
  BY <1>1, <1>3, SendsWhat
<1>7. status'[r] # 500
  BY <1>5, <1>6
<1>8. IsSeq(sent'[r])
  <2>1. <<>> \in Seq(Requests)
    OBVIOUS
  <2>. QED  BY <1>4, <2>1, SeqIsSeq
<1>9. conn # "closed" => Refusal(r)'
  BY <1>4, <1>5 DEF Refusal
<1>. QED  BY <1>1, <1>7, <1>8, <1>9, Finishing
(* All that is at hand is written at once. *)
LEMMA WholeAtOnce ==
  ASSUME RequestsInvariant, NEW r \in Requests, Writes(r), Fits(r),
         status'[r] = answer[r].status, declared'[r] = ContentLength(r),
         NEW p, ~(SendsBody(r) /\ IsData(r)) => sent'[r] = <<>>,
         SendsBody(r) /\ IsData(r) =>
           /\ sent'[r] = <<p>> /\ p.of = answer[r].body.of /\ p.first = answer[r].body.first
           /\ p.length = answer[r].body.length
           /\ ~changed[r] => p.version = answer[r].body.version
  PROVE  WholeAnswer(r)'
<1>1. /\ Fits(r)' /\ (SendsBody(r)' <=> SendsBody(r)) /\ (IsData(r)' <=> IsData(r))
      /\ ContentLength(r)' = ContentLength(r)
  BY WritesSame
<1>2. answer' = answer /\ changed' = changed
  BY DEF Writes
<1>3. Begun(r)'
  BY <1>1, <1>2 DEF Begun
<1>4. CASE SendsBody(r) /\ IsData(r)
  <2>1. /\ RunsFrom(<<p>>, p.first, p.length) /\ <<p>> # <<>>
        /\ \A i \in DOMAIN <<p>> : <<p>>[i] = p
    BY RunsAlone
  <2>2. PICK s : s = <<p>>
    OBVIOUS
  <2>3. /\ sent'[r] = s /\ s # <<>> /\ RunsFrom(s, answer'[r].body.first, answer'[r].body.length)
        /\ ~changed'[r] => \A i \in DOMAIN s : s[i].of = answer'[r].body.of /\ s[i].version = answer'[r].body.version
    <3>1. \A i \in DOMAIN s : s[i] = p
      BY <2>1, <2>2
    <3>. QED  BY <1>2, <1>4, <2>1, <2>2, <3>1
  <2>4. Carried(r, answer[r].body.length)'
    BY <2>3 DEF Carried
  <2>. QED  BY <1>1, <1>3, <1>4, <2>4 DEF WholeAnswer
<1>5. CASE ~(SendsBody(r) /\ IsData(r))
  <2>1. sent'[r] = <<>>
    BY <1>5
  <2>. QED  BY <1>1, <1>3, <1>5, <2>1 DEF WholeAnswer
<1>. QED  BY <1>4, <1>5

LEMMA WrittenStep ==
  ASSUME RequestsInvariant, NEW r \in Requests, phase[r] = "answered", Written(r),
         ~(SendsBody(r) /\ answer[r].body.kind = "file")
  PROVE  RequestsInvariant'
<1>. DEFINE b == answer[r].body
            p == Piece(b.of, b.version, b.first, b.length)
            whole == SendsBody(r) /\ b.kind = "buffer"
<1>1. PICK pieces : pieces = IF whole THEN <<p>> ELSE <<>>
  OBVIOUS
<1>2. Sends(r, answer[r].status, ContentLength(r), pieces) /\ Finish(r, answer[r].status)
  BY <1>1 DEF Written
<1>3. Fits(r) /\ Unsent(r)
  BY DEF RequestsInvariant, RequestOK, WritingPhases
<1>4. sent[r] = <<>> /\ status[r] = 0 /\ declared[r] = None
  BY <1>3 DEF Unsent
<1>5. Writes(r)
  BY <1>2 DEF Finish, Writes
<1>6. IsSeq(<<p>>) /\ IsSeq(<<>>)
  <2>1. <<>> \in Seq(Requests)
    OBVIOUS
  <2>2. \A q : IsSeq(<<q>>)
    BY RunsAlone
  <2>. QED  BY <2>1, <2>2, SeqIsSeq
<1>7. sent'[r] \in {<<>>, pieces} /\ (conn # "closed" => sent'[r] = pieces)
  <2>1. \/ conn = "closed" /\ sent'[r] = sent[r]
        \/ conn # "closed" /\ sent'[r] = sent[r] \o pieces
    BY <1>2, SendsWhat
  <2>2. <<>> \o pieces = pieces
    <3>1. PICK S : pieces \in Seq(S)
      <4>1. <<p>> \in Seq({p}) /\ <<>> \in Seq({p})
        OBVIOUS
      <4>. QED  BY <1>1, <4>1
    <3>. QED  BY <3>1
  <2>. QED  BY <1>4, <2>1, <2>2
<1>8. IsSeq(sent'[r])
  BY <1>1, <1>6, <1>7
<1>9. conn # "closed" => status'[r] = answer[r].status /\ declared'[r] = ContentLength(r)
  BY <1>2, <1>4, SendsWhat
<1>10. conn = "closed" => status'[r] = 0
  BY <1>2, <1>4, SendsWhat
<1>11. status'[r] = 500 => changed[r] \/ AnsweredByError(r)
  <2>1. conn = "closed" => status'[r] # 500
    BY <1>10, NoneYet
  <2>. QED  BY <1>3, <1>9, <2>1 DEF Fits
<1>12. conn # "closed" => WholeAnswer(r)'
  <2>1. whole <=> SendsBody(r) /\ IsData(r)
    BY DEF IsData
  <2>2. PICK q : q = p
    OBVIOUS
  <2>3. q.of = b.of /\ q.version = b.version /\ q.first = b.first /\ q.length = b.length
    BY <2>2 DEF Piece
  <2>4. ~(SendsBody(r) /\ IsData(r)) => pieces = <<>>
    BY <1>1, <2>1
  <2>5. SendsBody(r) /\ IsData(r) => pieces = <<q>>
    BY <1>1, <2>1, <2>2
  <2>. QED  BY <1>3, <1>5, <1>7, <1>9, <2>3, <2>4, <2>5, WholeAtOnce
<1>. QED  BY <1>2, <1>8, <1>11, <1>12, Finishing

(* To go on to the file's content. *)
LEMMA OpeningStep ==
  ASSUME RequestsInvariant, NEW r \in Requests, phase[r] \notin {"idle", "done"}, Unsent(r),
         Writes(r), look' = look, look[r] = NoLook, conn' = conn,
         sent' = sent, status' = status, declared' = declared,
         NEW to \in {"read-once", "open", "chunks"}, Go(r, to),
         Fits(r), IsFileBody(r), to # "read-once" => answer[r].body.length # 0
  PROVE  RequestsInvariant'
<1>1. RequestTypes /\ NobodyFirst /\ RequestOK(r)
  BY DEF RequestsInvariant
<1>2. phase'[r] = to /\ OnlyAt(phase, phase', r)
  BY <1>1 DEF RequestTypes, OnlyAt, Go
<1>3. /\ OnlyAt(look, look', r) /\ OnlyAt(sent, sent', r) /\ OnlyAt(status, status', r)
      /\ OnlyAt(declared, declared', r)
  BY <1>1, SameOnlyAt DEF RequestTypes
<1>4. /\ OnlyAt(client, client', r) /\ OnlyAt(todo, todo', r) /\ OnlyAt(asked, asked', r)
      /\ OnlyAt(answer, answer', r) /\ OnlyAt(came, came', r) /\ OnlyAt(changed, changed', r)
      /\ IsSeq(asked'[r]) /\ Fits(r)' /\ IsFileBody(r)'
  BY WritesSame
<1>5. ConnGoesOn
  BY <1>1 DEF RequestTypes, NobodyFirst, ConnGoesOn
<1>6. phase'[r] \in RequestPhases
  BY <1>2 DEF RequestPhases, WritingPhases
<1>7. Stepped(r)
  <2>1. site' = site /\ fs' = fs /\ PageOK'
    BY DEF Writes, RequestsInvariant, PageOK
  <2>. QED  BY <1>1, <1>2, <1>3, <1>4, <1>5, <1>6, <2>1, Steps
<1>8. Unsent(r)' /\ look'[r] = NoLook /\ answer' = answer
  BY DEF Unsent, Writes
<1>9. At(r)' = 0
  BY <1>8 DEF At
<1>10. LooksRight(r)'
  BY <1>2, <1>8 DEF LooksRight, StaticPhases
<1>11. to = "chunks" => InChunks(r)'
  <2>1. PICK size \in Nat : size = answer[r].body.length
    BY DEF Fits, FileBody, IsFileBody
  <2>2. to # "read-once" => 0 < size /\ size = answer'[r].body.length
    BY <1>8, <2>1
  <2>. QED  BY <1>8, <1>9, <2>2 DEF InChunks
<1>12. status'[r] # 500
  <2>1. status'[r] = 0
    BY <1>8 DEF Unsent
  <2>. QED  BY <2>1, NoneYet
<1>13. AskAssumption(client'[r]) /\ IsSeq(sent'[r])
  BY <1>1 DEF RequestOK, Writes
<1>14. phase'[r] = "open" => answer'[r].body.length # 0
  BY <1>2, <1>8
<1>15. phase'[r] # "done"
  BY <1>2
<1>. HIDE DEF RequestsInvariant
<1>16. RequestOK(r)'
  BY <1>2, <1>4, <1>8, <1>10, <1>11, <1>12, <1>13, <1>14, <1>15 DEF RequestOK
<1>. QED  BY <1>7, <1>16, OneSteps

LEMMA WriteToStep ==
  ASSUME RequestsInvariant, NEW r \in Requests, WriteTo(r)
  PROVE  RequestsInvariant'
<1>1. phase[r] = "answered" /\ RequestOK(r)
  BY DEF RequestsInvariant, WriteTo
<1>2. Fits(r) /\ Unsent(r) /\ look[r] = NoLook
  BY <1>1 DEF RequestOK, LooksRight, WritingPhases
<1>3. CASE ~Validates(answer[r])
  <2>1. Sends(r, 500, None, <<>>) /\ Finish(r, 500)
    BY <1>3 DEF WriteTo
  <2>2. AnsweredByError(r)
    BY <1>2, <1>3 DEF Fits
  <2>. QED  BY <1>1, <2>1, <2>2, FailingStep
<1>4. CASE Validates(answer[r]) /\ answer[r].body.kind = "file" /\ SendsBody(r)
  <2>1. IsFileBody(r)
    BY <1>4 DEF IsFileBody
  <2>2. /\ Go(r, IF answer[r].body.length <= Chunk THEN "read-once" ELSE "open")
        /\ Writes(r) /\ look' = look /\ conn' = conn /\ sent' = sent /\ status' = status /\ declared' = declared
    BY <1>4 DEF WriteTo, connVars, writeVars, Writes
  <2>3. PICK to \in {"read-once", "open"} :
          Go(r, to) /\ (to = "open" => ~(answer[r].body.length <= Chunk))
    BY <2>2
  <2>4. answer[r].body.length \in Nat /\ Chunk \in Nat \ {0}
    BY <1>2, <1>4, FilesAssumption DEF Fits, FileBody
  <2>5. to # "read-once" => answer[r].body.length # 0
    <3>1. PICK size \in Nat : size = answer[r].body.length
      BY <2>4
    <3>2. to # "read-once" => ~(size <= Chunk)
      BY <2>3, <3>1
    <3>3. to # "read-once" => size # 0
      BY <2>4, <3>2
    <3>. QED  BY <3>1, <3>3
  <2>6. phase[r] \notin {"idle", "done"} /\ to \in {"read-once", "open", "chunks"}
    BY <1>1
  <2>. QED  BY <1>2, <2>1, <2>2, <2>3, <2>5, <2>6, OpeningStep
<1>5. CASE Validates(answer[r]) /\ ~(answer[r].body.kind = "file" /\ SendsBody(r))
  <2>1. Written(r)
    BY <1>5 DEF WriteTo
  <2>. QED  BY <1>1, <1>5, <2>1, WrittenStep
<1>. QED  BY <1>3, <1>4, <1>5
(* What a read finds: no more than what was wanted; and all of it as long  *)
(* as the file is the one that the answer was made of.                     *)
LEMMA ReadableIsThere ==
  ASSUME RequestTypes, NEW of \in Files, NEW first \in Nat, NEW wanted \in Nat
  PROVE  /\ Readable(of, first, wanted) \in 0 .. wanted
         /\ first + wanted <= Lengths[fs[of].version] => Readable(of, first, wanted) = wanted
<1>1. fs[of].version \in 1 .. MaxVersion
  BY DEF RequestTypes
<1>2. PICK length \in Nat : length = Lengths[fs[of].version]
  BY <1>1, FilesAssumption
<1>3. Readable(of, first, wanted) =
        IF first >= length THEN 0 ELSE IF wanted <= length - first THEN wanted ELSE length - first
  BY <1>2 DEF Readable, Min2
<1>. QED  BY <1>2, <1>3

LEMMA FileAtHand ==
  ASSUME RequestsInvariant, NEW r \in Requests, Fits(r), IsFileBody(r)
  PROVE  /\ answer[r].body.of \in Files /\ answer[r].body.version \in 1 .. MaxVersion
         /\ answer[r].body.first \in Nat /\ answer[r].body.length \in Nat
         /\ ~changed[r] =>
              /\ fs[answer[r].body.of].there
              /\ fs[answer[r].body.of].version = answer[r].body.version
              /\ answer[r].body.first + answer[r].body.length
                   <= Lengths[fs[answer[r].body.of].version]
         /\ IsData(r) /\ SendsBody(r) /\ ContentLength(r) = answer[r].body.length
<1>1. FileBody(answer[r].body) /\ answer[r].body.kind = "file" /\ SendsBody(r)
  BY DEF IsFileBody, Fits
<1>2. ~changed[r] => IsNow(answer[r].body.of, answer[r].body.version)
  BY <1>1 DEF Fits
<1>3. IsData(r) /\ ContentLength(r) = answer[r].body.length
  BY <1>1 DEF IsData, ContentLength
<1>. QED  BY <1>1, <1>2, <1>3 DEF FileBody, IsNow

LEMMA ReadPortionStep ==
  ASSUME RequestsInvariant, NEW r \in Requests, ReadPortion(r)
  PROVE  RequestsInvariant'
<1>. DEFINE b == answer[r].body
            there == fs[b.of].there /\ Readable(b.of, b.first, b.length) = b.length
<1>1. phase[r] = "read-once" /\ phase[r] \notin {"idle", "done"}
  BY DEF ReadPortion
<1>2. Fits(r) /\ IsFileBody(r) /\ Unsent(r) /\ RequestTypes
  BY <1>1 DEF RequestsInvariant, RequestOK, WritingPhases
<1>3. sent[r] = <<>> /\ status[r] = 0 /\ declared[r] = None
  BY <1>2 DEF Unsent
<1>4. /\ b.of \in Files /\ b.first \in Nat /\ b.length \in Nat
      /\ ~changed[r] => fs[b.of].there /\ fs[b.of].version = b.version /\ b.first + b.length <= Lengths[fs[b.of].version]
      /\ IsData(r) /\ SendsBody(r) /\ ContentLength(r) = b.length
  BY <1>2, FileAtHand
<1>5. ~changed[r] => there
  BY <1>2, <1>4, ReadableIsThere
<1>6. CASE ~there
  <2>1. WriteFails(r)
    BY <1>6 DEF ReadPortion
  <2>2. Sends(r, 500, ContentLength(r), <<>>) /\ Finish(r, 500)
    BY <2>1 DEF WriteFails
  <2>3. changed[r] \/ AnsweredByError(r)
    BY <1>5, <1>6
  <2>. QED  BY <1>1, <2>2, <2>3, FailingStep
<1>7. CASE there
  <2>1. PICK p : p = Piece(b.of, fs[b.of].version, b.first, b.length)
    OBVIOUS
  <2>2. p.of = b.of /\ p.version = fs[b.of].version /\ p.first = b.first /\ p.length = b.length
    BY <2>1 DEF Piece
  <2>3. PICK pieces : pieces = <<p>>
    OBVIOUS
  <2>4. Sends(r, answer[r].status, ContentLength(r), pieces) /\ Finish(r, answer[r].status)
    BY <1>4, <1>7, <2>1, <2>3 DEF ReadPortion
  <2>5. \/ conn = "closed" /\ sent'[r] = sent[r]
        \/ conn # "closed" /\ sent'[r] = sent[r] \o pieces
    BY <2>4, SendsWhat
  <2>6. <<>> \o pieces = pieces
    <3>1. pieces \in Seq({p})
      BY <2>3
    <3>. QED  BY <3>1
  <2>7. sent'[r] \in {<<>>, pieces} /\ (conn # "closed" => sent'[r] = pieces)
    BY <1>3, <2>5, <2>6
  <2>8. IsSeq(sent'[r])
    <3>1. IsSeq(pieces)
      BY <2>3, RunsAlone
    <3>2. IsSeq(<<>>)
      <4>1. <<>> \in Seq(Requests)
        OBVIOUS
      <4>. QED  BY <4>1, SeqIsSeq
    <3>. QED  BY <2>7, <3>1, <3>2
  <2>9. conn # "closed" => status'[r] = answer[r].status /\ declared'[r] = ContentLength(r)
    BY <1>3, <2>4, SendsWhat
  <2>10. conn = "closed" => status'[r] = 0
    BY <1>3, <2>4, SendsWhat
  <2>11. status'[r] = 500 => changed[r] \/ AnsweredByError(r)
    <3>1. conn = "closed" => status'[r] # 500
      BY <2>10, NoneYet
    <3>. QED  BY <1>2, <2>9, <3>1 DEF Fits
  <2>12. conn # "closed" => WholeAnswer(r)'
    <3>1. Writes(r)
      BY <2>4 DEF Finish, Writes
    <3>. HIDE DEF b
    <3>2. ~changed[r] => p.version = b.version
      BY <1>4, <2>2
    <3>. QED  BY <1>2, <1>4, <2>2, <2>3, <2>7, <2>9, <3>1, <3>2, WholeAtOnce DEF b
  <2>. QED  BY <1>1, <2>4, <2>8, <2>11, <2>12, Finishing
<1>. QED  BY <1>6, <1>7

LEMMA OpenFileStep ==
  ASSUME RequestsInvariant, NEW r \in Requests, OpenFile(r)
  PROVE  RequestsInvariant'
<1>1. phase[r] = "open" /\ phase[r] \notin {"idle", "done"}
  BY DEF OpenFile
<1>2. /\ Fits(r) /\ IsFileBody(r) /\ Unsent(r) /\ look[r] = NoLook
      /\ answer[r].body.length # 0
  BY <1>1 DEF RequestsInvariant, RequestOK, LooksRight, WritingPhases
<1>3. CASE ~fs[answer[r].body.of].there
  <2>1. Sends(r, 500, ContentLength(r), <<>>) /\ Finish(r, 500)
    BY <1>3 DEF OpenFile, WriteFails
  <2>2. changed[r] \/ AnsweredByError(r)
    BY <1>2, <1>3, FileAtHand
  <2>. QED  BY <1>1, <2>1, <2>2, FailingStep
<1>4. CASE fs[answer[r].body.of].there
  <2>1. /\ Go(r, "chunks") /\ Writes(r) /\ look' = look /\ conn' = conn
        /\ sent' = sent /\ status' = status /\ declared' = declared
    BY <1>4 DEF OpenFile, connVars, writeVars, Writes
  <2>. QED  BY <1>1, <1>2, <2>1, OpeningStep
<1>. QED  BY <1>3, <1>4
(* A chunk more: what was sent goes on to be a beginning of the body.      *)
LEMMA CarriedOn ==
  ASSUME RequestsInvariant, NEW r \in Requests, InChunks(r), Fits(r), IsFileBody(r), Writes(r),
         NEW n \in Nat, NEW at \in Nat, at = At(r), NEW p,
         p.of = answer[r].body.of, p.first = answer[r].body.first + at, p.length = n,
         ~changed[r] => p.version = answer[r].body.version,
         NEW pieces, pieces = <<p>>,
         Sends(r, answer[r].status, answer[r].body.length, pieces)
  PROVE  /\ IsSeq(sent'[r])
         /\ conn # "closed" => Begun(r)' /\ Carried(r, at + n)'
         /\ status'[r] = 500 => changed[r] \/ AnsweredByError(r)
<1>. DEFINE s == sent[r]
            b == answer[r].body
<1>1. RequestOK(r) /\ IsSeq(s)
  BY DEF RequestsInvariant, RequestOK
<1>2. /\ b.first \in Nat /\ b.length \in Nat /\ ContentLength(r) = b.length
  BY FileAtHand
<1>3. /\ conn = "closed" => sent'[r] = s /\ status'[r] = status[r]
      /\ conn # "closed" =>
           /\ sent'[r] = s \o pieces
           /\ status'[r] = IF status[r] = 0 THEN answer[r].status ELSE status[r]
           /\ declared'[r] = IF status[r] = 0 THEN b.length ELSE declared[r]
  <2>1. PICK code, length : code = answer[r].status /\ length = b.length
    OBVIOUS
  <2>2. Sends(r, code, length, pieces)
    BY <2>1
  <2>. HIDE DEF b, s
  <2>3. /\ conn = "closed" => sent'[r] = sent[r] /\ status'[r] = status[r]
        /\ conn # "closed" =>
             /\ sent'[r] = sent[r] \o pieces
             /\ status'[r] = IF status[r] = 0 THEN code ELSE status[r]
             /\ declared'[r] = IF status[r] = 0 THEN length ELSE declared[r]
    BY <2>2, SendsWhat
  <2>. QED  BY <2>1, <2>3 DEF s
<1>4. PICK t : t = Append(s, p)
  OBVIOUS
<1>5. s \o pieces = t
  <2>. HIDE DEF s
  <2>1. PICK S : s \in Seq(S) /\ p \in S
    <3>1. s \in Seq(ToSet(s) \union {p})
      <4>1. /\ Len(s) \in Nat /\ s = [i \in 1 .. Len(s) |-> s[i]]
            /\ \A i \in 1 .. Len(s) : s[i] \in ToSet(s) \union {p}
        BY <1>1 DEF IsSeq, ToSet
      <4>. QED  BY <4>1
    <3>. QED  BY <3>1
  <2>. QED  BY <1>4, <2>1
<1>6. IsSeq(t) /\ t # <<>> /\ Last(t) = p /\ Len(t) = Len(s) + 1 /\ \A i \in 1 .. Len(s) : t[i] = s[i]
  <2>1. PICK before : before = s
    OBVIOUS
  <2>2. IsSeq(before) /\ t = Append(before, p)
    BY <1>1, <1>4, <2>1
  <2>3. /\ IsSeq(t) /\ t # <<>> /\ Last(t) = p /\ Len(t) = Len(before) + 1
        /\ \A i \in 1 .. Len(before) : t[i] = before[i]
    BY <2>2, Appended, ZenonT(40)
  <2>. QED  BY <2>1, <2>3
<1>7. IsSeq(sent'[r])
  BY <1>1, <1>3, <1>5, <1>6
<1>8. conn # "closed" => IF at = 0 THEN Unsent(r) ELSE Begun(r) /\ Carried(r, at)
  BY DEF InChunks
<1>9. conn # "closed" => status'[r] = answer[r].status /\ declared'[r] = b.length
  BY <1>2, <1>3, <1>8 DEF Unsent, Begun
<1>10. /\ ContentLength(r)' = ContentLength(r) /\ answer' = answer /\ changed' = changed
  BY WritesSame DEF Writes
<1>11. conn # "closed" => Begun(r)'
  BY <1>2, <1>9, <1>10 DEF Begun
<1>12. ASSUME conn # "closed" PROVE Carried(r, at + n)'
  <2>1. sent'[r] = t
    BY <1>3, <1>5, <1>12
  <2>2. RunsFrom(t, b.first, at + n)
    <3>1. CASE at = 0
      <4>1. s = <<>>
        BY <1>8, <1>12, <3>1 DEF Unsent
      <4>2. t = <<p>>
        BY <1>4, <4>1
      <4>3. RunsFrom(t, p.first, p.length)
        BY <4>2, RunsAlone
      <4>4. p.first = b.first /\ p.length = at + n
        BY <1>2, <3>1
      <4>. HIDE DEF b
      <4>. QED  BY <4>3, <4>4
    <3>2. CASE at # 0
      <4>1. s # <<>> /\ RunsFrom(s, b.first, at)
        BY <1>8, <1>12, <3>2 DEF Carried
      <4>2. PICK first \in Int : first = b.first
        BY <1>2
      <4>3. p.first = first + at /\ RunsFrom(s, first, at)
        BY <4>1, <4>2
      <4>4. at \in Int /\ n \in Int
        OBVIOUS
      <4>5. RunsFrom(t, first, at + n)
        <5>. HIDE DEF s, b
        <5>. QED  BY <1>1, <1>4, <4>1, <4>3, <4>4, RunsOn
      <4>. QED  BY <4>2, <4>5
    <3>. QED  BY <3>1, <3>2
  <2>3. ASSUME ~changed[r], NEW i \in DOMAIN t PROVE t[i].of = b.of /\ t[i].version = b.version
    <3>1. PICK before : before = s
      OBVIOUS
    <3>2. IsSeq(before) /\ t = Append(before, p)
      BY <1>1, <1>4, <3>1
    <3>3. t[i] = p \/ (i \in DOMAIN before /\ t[i] = before[i])
      <4>. HIDE DEF b, s
      <4>1. IsSeq(before)
        BY <3>2
      <4>2. t = Append(before, p)
        BY <3>2
      <4>. QED  BY <4>1, <4>2, <2>3, PlacesAppended, SMTT(30)
    <3>4. CASE t[i] = p
      BY <2>3, <3>4
    <3>5. CASE i \in DOMAIN s /\ t[i] = s[i]
      <4>1. at # 0
        BY <1>8, <1>12, <3>5 DEF Unsent
      <4>2. Carried(r, at)
        BY <1>8, <1>12, <4>1
      <4>. QED  BY <2>3, <3>5, <4>2 DEF Carried
    <3>. QED  BY <3>1, <3>3, <3>4, <3>5
  <2>4. PICK m : m = at + n
    OBVIOUS
  <2>5. Carried(r, m)'
    BY <1>6, <1>10, <2>1, <2>2, <2>3, <2>4 DEF Carried
  <2>. QED  BY <2>4, <2>5
<1>13. status'[r] = 500 => changed[r] \/ AnsweredByError(r)
  <2>1. conn = "closed" /\ status'[r] = 500 => changed[r] \/ AnsweredByError(r)
    BY <1>1, <1>3 DEF RequestOK
  <2>2. conn # "closed" /\ status'[r] = 500 => changed[r] \/ AnsweredByError(r)
    BY <1>9 DEF Fits
  <2>. QED  BY <2>1, <2>2
<1>. QED  BY <1>7, <1>11, <1>12, <1>13

LEMMA WriteChunkStep ==
  ASSUME RequestsInvariant, NEW r \in Requests, WriteChunk(r)
  PROVE  RequestsInvariant'
<1>. DEFINE b == answer[r].body
<1>1. phase[r] = "chunks" /\ phase[r] \notin {"idle", "done"}
  BY DEF WriteChunk
<1>2. /\ RequestTypes /\ NobodyFirst /\ RequestOK(r) /\ Fits(r) /\ IsFileBody(r) /\ InChunks(r)
  BY <1>1 DEF RequestsInvariant, RequestOK, WritingPhases
<1>3. /\ b.of \in Files /\ b.first \in Nat /\ b.length \in Nat
      /\ ~changed[r] => fs[b.of].there /\ fs[b.of].version = b.version /\ b.first + b.length <= Lengths[fs[b.of].version]
      /\ IsData(r) /\ SendsBody(r) /\ ContentLength(r) = b.length
  BY <1>2, FileAtHand
<1>4. PICK at \in Nat : at = At(r) /\ at < b.length
  BY <1>2 DEF InChunks
<1>5. PICK wanted \in Nat : wanted = Min2(Chunk, b.length - at) /\ wanted # 0 /\ wanted <= b.length - at
  <2>1. PICK left \in Nat \ {0} : left = b.length - at
    BY <1>3, <1>4
  <2>2. Chunk \in Nat \ {0}
    BY FilesAssumption
  <2>3. Min2(Chunk, left) \in Nat \ {0} /\ Min2(Chunk, left) <= left
    BY <2>1, <2>2 DEF Min2
  <2>. HIDE DEF b
  <2>. QED  BY <2>1, <2>3
<1>6. PICK first \in Nat : first = b.first + at
  BY <1>3
<1>7. PICK n \in 0 .. wanted : n = Readable(b.of, first, wanted)
  BY <1>2, <1>3, ReadableIsThere
<1>8. ~changed[r] => n # 0
  <2>1. ~changed[r] => first + wanted <= Lengths[fs[b.of].version]
    <3>1. fs[b.of].version \in 1 .. MaxVersion
      BY <1>2, <1>3 DEF RequestTypes
    <3>2. PICK length \in Nat : length = Lengths[fs[b.of].version]
      BY <3>1, FilesAssumption
    <3>3. ~changed[r] => b.first + b.length <= length
      BY <1>3, <3>2
    <3>4. ~changed[r] => first + wanted <= length
      BY <1>3, <1>4, <1>5, <1>6, <3>3
    <3>. QED  BY <3>2, <3>4
  <2>2. ~changed[r] => Readable(b.of, first, wanted) = wanted
    BY <1>2, <1>3, <2>1, ReadableIsThere
  <2>. QED  BY <1>5, <1>7, <2>2
<1>9. CASE n = 0
  <2>1. Sends(r, 500, ContentLength(r), <<>>) /\ Finish(r, 500)
    BY <1>4, <1>5, <1>6, <1>7, <1>9 DEF WriteChunk, WriteFails
  <2>2. changed[r] \/ AnsweredByError(r)
    BY <1>8, <1>9
  <2>. QED  BY <1>1, <2>1, <2>2, FailingStep
<1>10. CASE n # 0
  <2>1. PICK p : p = Piece(b.of, fs[b.of].version, first, n)
    OBVIOUS
  <2>2. p.of = b.of /\ p.version = fs[b.of].version /\ p.first = first /\ p.length = n
    BY <2>1 DEF Piece
  <2>3. PICK pieces : pieces = <<p>>
    OBVIOUS
  <2>4. /\ Sends(r, answer[r].status, b.length, pieces)
        /\ IF at + n = b.length
           THEN Finish(r, answer[r].status)
           ELSE /\ look' = [look EXCEPT ![r] = [file |-> b.of, at |-> at + n]]
                /\ UNCHANGED <<site, fs, client, phase, todo, asked, answer, notFound,
                               came, connVars, incoming, trail, changed>>
    BY <1>4, <1>5, <1>6, <1>7, <1>10, <2>1, <2>3 DEF WriteChunk
  <2>5. Writes(r)
    BY <2>4 DEF Finish, Writes
  <2>6. n \in Nat
    BY <1>7
  <2>7. /\ IsSeq(sent'[r])
        /\ conn # "closed" => Begun(r)' /\ Carried(r, at + n)'
        /\ status'[r] = 500 => changed[r] \/ AnsweredByError(r)
    <3>1. ~changed[r] => p.version = b.version
      BY <1>3, <2>2
    <3>2. p.first = b.first + at
      BY <1>6, <2>2
    <3>3. Sends(r, answer[r].status, b.length, pieces)
      BY <2>4
    <3>. QED  BY <1>2, <1>4, <2>2, <2>3, <2>5, <2>6, <3>1, <3>2, <3>3, CarriedOn
  <2>8. PICK m : m = at + n
    OBVIOUS
  <2>9. conn # "closed" => Carried(r, m)'
    BY <2>7, <2>8
  <2>10. /\ OnlyAt(client, client', r) /\ OnlyAt(todo, todo', r) /\ OnlyAt(asked, asked', r)
         /\ OnlyAt(answer, answer', r) /\ OnlyAt(came, came', r) /\ OnlyAt(changed, changed', r)
         /\ IsSeq(asked'[r]) /\ Fits(r)' /\ IsFileBody(r)' /\ SendsBody(r)' /\ IsData(r)'
         /\ AnsweredByError(r)' <=> AnsweredByError(r)
    BY <1>2, <1>3, <2>5, WritesSame
  <2>11. CASE m = b.length
    <3>1. Finish(r, answer[r].status)
      BY <2>4, <2>8, <2>11
    <3>2. conn # "closed" => WholeAnswer(r)'
      <4>1. answer' = answer
        BY <2>5 DEF Writes
      <4>2. conn # "closed" => Carried(r, answer[r].body.length)'
        <5>1. answer'[r].body.length = m
          BY <2>11, <4>1
        <5>. QED  BY <2>9, <5>1
      <4>. QED  BY <2>7, <2>10, <4>2 DEF WholeAnswer
    <3>. QED  BY <1>1, <2>4, <2>7, <3>1, <3>2, Finishing
  <2>12. CASE m # b.length
    <3>1. /\ look' = [look EXCEPT ![r] = [file |-> b.of, at |-> m]]
          /\ phase' = phase /\ conn' = conn /\ site' = site /\ fs' = fs /\ PageOK'
      BY <2>4, <2>8, <2>12 DEF connVars, RequestsInvariant, PageOK
    <3>2. PICK found : found = [file |-> b.of, at |-> m]
      OBVIOUS
    <3>3. OnlyAt(look, look', r) /\ look'[r] = found
      BY <1>2, <3>1, <3>2 DEF RequestTypes, IsOn, OnlyAt
    <3>4. OnlyAt(phase, phase', r) /\ phase'[r] = "chunks" /\ phase'[r] \in RequestPhases
      BY <1>1, <1>2, <3>1 DEF RequestTypes, OnlyAt
    <3>5. OnlyAt(sent, sent', r) /\ OnlyAt(status, status', r) /\ OnlyAt(declared, declared', r)
      <4>1. Sends(r, answer[r].status, b.length, pieces)
        BY <2>4
      <4>. QED  BY <4>1, SendsWhat
    <3>6. ConnGoesOn
      BY <1>1, <1>2, <3>1 DEF RequestTypes, NobodyFirst, ConnGoesOn
    <3>7. Stepped(r)
      BY <1>2, <2>10, <3>1, <3>3, <3>4, <3>5, <3>6, Steps
    <3>8. found.file = b.of /\ found.at = m /\ found = [file |-> found.file, at |-> found.at] /\ found # NoLook
      <4>1. found.file = b.of /\ found.at = m
        BY <3>2
      <4>2. NoLook.file = None
        BY DEF NoLook
      <4>3. b.of # None
        BY <1>3, FilesAssumption
      <4>4. found # NoLook
        BY <4>1, <4>2, <4>3
      <4>. QED  BY <3>2, <4>1, <4>4
    <3>9. At(r)' = m
      BY <3>3, <3>8 DEF At
    <3>10. m \in Nat /\ m # 0 /\ m < b.length
      BY <1>3, <1>4, <1>5, <1>7, <1>10, <2>8, <2>12
    <3>11. InChunks(r)'
      <4>1. /\ look'[r] = [file |-> look'[r].file, at |-> m]
        BY <3>3, <3>8
      <4>2. answer' = answer
        BY <2>5 DEF Writes
      <4>3. conn' # "closed" => Begun(r)' /\ Carried(r, m)'
        BY <2>7, <2>9, <3>1
      <4>. HIDE DEF b
      <4>4. m < answer'[r].body.length
        BY <3>10, <4>2 DEF b
      <4>. QED  BY <3>9, <3>10, <4>1, <4>3, <4>4 DEF InChunks
    <3>12. LooksRight(r)'
      BY <3>4 DEF LooksRight, StaticPhases
    <3>13. AskAssumption(client'[r]) /\ changed' = changed
      BY <1>1, <1>2, <2>5 DEF RequestOK, Writes
    <3>14. RequestOK(r)'
      BY <2>7, <2>10, <3>4, <3>11, <3>12, <3>13 DEF RequestOK
    <3>. QED  BY <3>7, <3>14, OneSteps
  <2>. QED  BY <2>11, <2>12
<1>. QED  BY <1>9, <1>10
-----------------------------------------------------------------------------
(* The invariant of all requests, and what follows from it.                *)
LEMMA InitRequests ==
  ASSUME Init
  PROVE  RequestsInvariant
<1>1. /\ site \in DOMAIN Sites /\ conn = "new"
      /\ fs = [f \in Files |-> [version |-> 1, there |-> TRUE]]
      /\ notFound = [version |-> 1, modTime |-> 1]
      /\ phase = [r \in Requests |-> "idle"]
  BY DEF Init
<1>2. IsOn(client) /\ IsOn(todo) /\ IsOn(asked) /\ IsOn(look) /\ IsOn(answer) /\ IsOn(came)
  BY DEF Init, IsOn
<1>3. IsOn(sent) /\ IsOn(status) /\ IsOn(declared) /\ IsOn(changed)
  BY DEF Init, IsOn
<1>4. 1 \in 1 .. MaxVersion
  BY FilesAssumption
<1>5. fs \in [Files -> [version : 1 .. MaxVersion, there : BOOLEAN]]
  BY <1>1, <1>4
<1>6. RequestTypes
  <2>1. phase \in [Requests -> RequestPhases]
    BY <1>1 DEF RequestPhases
  <2>. QED  BY <1>1, <1>2, <1>3, <1>5, <2>1 DEF RequestTypes
<1>7. NobodyFirst /\ PageOK
  BY <1>1, <1>4 DEF NobodyFirst, PageOK
<1>8. ASSUME NEW r \in Requests PROVE RequestOK(r)
  <2>1. phase[r] = "idle" /\ asked[r] = <<>> /\ sent[r] = <<>> /\ status[r] = 0 /\ declared[r] = None
    BY DEF Init
  <2>2. IsSeq(<<>>)
    <3>1. <<>> \in Seq(Requests)
      OBVIOUS
    <3>. QED  BY <3>1, SeqIsSeq
  <2>3. Unsent(r)
    BY <2>1 DEF Unsent
  <2>4. LooksRight(r)
    BY <2>1 DEF LooksRight, StaticPhases
  <2>5. "idle" \notin WritingPhases /\ status[r] # 500
    BY <2>1, NoneYet DEF WritingPhases
  <2>. QED  BY <2>1, <2>2, <2>3, <2>4, <2>5 DEF RequestOK
<1>. QED  BY <1>6, <1>7, <1>8 DEF RequestsInvariant

LEMMA AppStep ==
  ASSUME RequestsInvariant, NEW r \in Requests, Kept,
         \/ AskPathRouter(r) \/ AskSerialRouter(r) \/ AskHostRouter(r) \/ AskSuffixRouter(r)
         \/ AskRequestFilter(r) \/ AskRequestRateLimiter(r) \/ AskRequestDelay(r)
         \/ AskRedirector(r) \/ AskSimpleResponse(r) \/ NobodyAnswers(r)
         \/ AskStaticFiles(r) \/ StatPath(r) \/ StatIndex(r) \/ MakeTag(r)
         \/ NotFoundBegins(r) \/ NotFoundStat(r) \/ NotFoundRead(r)
  PROVE  RequestsInvariant'
<1>1. CASE \/ AskPathRouter(r) \/ AskSerialRouter(r) \/ AskHostRouter(r)
           \/ AskSuffixRouter(r) \/ AskRequestDelay(r)
  BY <1>1, RoutingStep
<1>2. CASE AskRequestFilter(r)
  BY <1>2, FilterStep
<1>3. CASE AskRequestRateLimiter(r)
  BY <1>3, LimiterStep
<1>4. CASE AskRedirector(r)
  BY <1>4, RedirectorStep
<1>5. CASE AskSimpleResponse(r)
  BY <1>5, SimpleStep
<1>6. CASE NobodyAnswers(r)
  BY <1>6, NobodyStep
<1>7. CASE AskStaticFiles(r)
  BY <1>7, AskStaticStep
<1>8. CASE StatPath(r)
  BY <1>8, StatPathStep
<1>9. CASE StatIndex(r)
  BY <1>9, StatIndexStep
<1>10. CASE MakeTag(r)
  BY <1>10, MakeTagStep
<1>11. CASE NotFoundBegins(r) \/ NotFoundStat(r) \/ NotFoundRead(r)
  BY <1>11, NotFoundStep
<1>. QED  BY <1>1, <1>2, <1>3, <1>4, <1>5, <1>6, <1>7, <1>8, <1>9, <1>10, <1>11

LEMMA NextRequests ==
  ASSUME RequestsInvariant, [Next]_vars
  PROVE  RequestsInvariant'
<1>1. CASE UNCHANGED vars
  <2>1. UNCHANGED <<site, fs, client, phase, todo, asked, look, answer, notFound, came, conn,
                    sent, status, declared, changed>>
    BY <1>1 DEF vars, appVars, connVars, writeVars
  <2>. QED  BY <2>1, Unmoved
<1>2. CASE \E name \in Site.offered : Connect(name)
  BY <1>2, ConnectStep
<1>3. ASSUME NEW r \in Requests, \E c \in Site.asks : Arrive(r, c)
      PROVE  RequestsInvariant'
  BY <1>3, ArriveStep
<1>4. ASSUME NEW r \in Requests, Step(r)
      PROVE  RequestsInvariant'
  <2>1. CASE ReadBody(r)
    BY <2>1, ReadBodyStep
  <2>2. CASE RefuseRequest(r)
    BY <2>2, RefuseStep
  <2>3. CASE HandleRequest(r)
    BY <2>3, HandleStep
  <2>4. CASE WriteTo(r)
    BY <2>4, WriteToStep
  <2>5. CASE ReadPortion(r)
    BY <2>5, ReadPortionStep
  <2>6. CASE OpenFile(r)
    BY <2>6, OpenFileStep
  <2>7. CASE WriteChunk(r)
    BY <2>7, WriteChunkStep
  <2>8. CASE /\ \/ AskPathRouter(r) \/ AskSerialRouter(r) \/ AskHostRouter(r) \/ AskSuffixRouter(r)
                \/ AskRequestFilter(r) \/ AskRequestRateLimiter(r) \/ AskRequestDelay(r)
                \/ AskRedirector(r) \/ AskSimpleResponse(r) \/ NobodyAnswers(r)
                \/ AskStaticFiles(r) \/ StatPath(r) \/ StatIndex(r) \/ MakeTag(r)
                \/ NotFoundBegins(r) \/ NotFoundStat(r) \/ NotFoundRead(r)
             /\ UNCHANGED <<connVars, incoming, writeVars, trail, changed>>
    <3>1. Kept
      BY <2>8 DEF Kept
    <3>. QED  BY <2>8, <3>1, AppStep
  <2>. QED  BY <1>4, <2>1, <2>2, <2>3, <2>4, <2>5, <2>6, <2>7, <2>8 DEF Step
<1>5. ASSUME NEW r \in Requests, Follow(r) PROVE RequestsInvariant'
  BY <1>5, FollowStep
<1>6. CASE CloseConnection \/ ClientLeaves
  BY <1>6, DisconnectStep
<1>7. CASE \E f \in Files : Edit(f) \/ Delete(f)
  BY <1>7, ChangesStep
<1>8. CASE Over
  BY <1>1, <1>8 DEF Over
<1>. QED  BY <1>1, <1>2, <1>3, <1>4, <1>5, <1>6, <1>7, <1>8 DEF Next

(* Theorem: at all times each request is where it may be, and what it has  *)
(* found, is going to answer and has sent fits together.                   *)
THEOREM RequestsFit == Spec => []RequestsInvariant
<1>1. Init => RequestsInvariant
  BY InitRequests
<1>2. RequestsInvariant /\ [Next]_vars => RequestsInvariant'
  BY NextRequests
<1>. QED  BY <1>1, <1>2, PTL DEF Spec

(* How a request can have ended while there is a connection. *)
LEMMA Ended ==
  ASSUME RequestsInvariant, NEW r \in Requests, phase[r] = "done", conn # "closed"
  PROVE  Refusal(r) \/ WholeAnswer(r) \/ Failure(r)
BY DEF RequestsInvariant, RequestOK

LEMMA WholeIsKept ==
  ASSUME NEW r \in Requests, WholeAnswer(r)
  PROVE  /\ status[r] = answer[r].status /\ declared[r] = ContentLength(r)
         /\ declared[r] # None <=> IsData(r)
         /\ IF declared[r] # None /\ BodyAllowed(client[r].method, status[r])
            THEN Carried(r, declared[r])
            ELSE sent[r] = <<>>
<1>1. Fits(r) /\ status[r] = answer[r].status /\ declared[r] = ContentLength(r)
  BY DEF WholeAnswer, Begun
<1>2. IsData(r) => declared[r] = answer[r].body.length /\ answer[r].body.length \in Nat
  BY <1>1 DEF Fits, ContentLength
<1>3. declared[r] # None <=> IsData(r)
  BY <1>1, <1>2, FilesAssumption DEF ContentLength
<1>4. SendsBody(r) /\ IsData(r) <=> declared[r] # None /\ BodyAllowed(client[r].method, status[r])
  BY <1>1, <1>3 DEF SendsBody, IsData
<1>5. IF SendsBody(r) /\ IsData(r) THEN Carried(r, answer[r].body.length) ELSE sent[r] = <<>>
  BY DEF WholeAnswer
<1>6. IF declared[r] # None /\ BodyAllowed(client[r].method, status[r])
      THEN Carried(r, declared[r])
      ELSE sent[r] = <<>>
  BY <1>2, <1>4, <1>5
<1>. QED  BY <1>1, <1>3, <1>6

LEMMA WholeFollows ==
  ASSUME RequestsInvariant
  PROVE  AnswersAreWhole
<1>1. NoServerError
  BY DEF RequestsInvariant, RequestOK, NoServerError
<1>2. ASSUME NEW r \in Requests, phase[r] = "done", conn = "open", status[r] # 0
      PROVE  IF declared[r] # None /\ BodyAllowed(client[r].method, status[r])
             THEN sent[r] # <<>> /\ RunsFrom(sent[r], answer[r].body.first, declared[r])
             ELSE sent[r] = <<>>
  <2>1. Refusal(r) \/ WholeAnswer(r) \/ Failure(r)
    BY <1>2, Ended
  <2>2. CASE Refusal(r)
    BY <2>2 DEF Refusal
  <2>3. CASE WholeAnswer(r)
    <3>1. IF declared[r] # None /\ BodyAllowed(client[r].method, status[r])
          THEN Carried(r, declared[r])
          ELSE sent[r] = <<>>
      BY <2>3, WholeIsKept
    <3>. QED  BY <3>1 DEF Carried
  <2>4. CASE Failure(r)
    BY <1>2, <2>4 DEF Failure
  <2>. QED  BY <2>1, <2>2, <2>3, <2>4
<1>3. LengthIsKept
  BY <1>2 DEF LengthIsKept
<1>. QED  BY <1>1, <1>3 DEF AnswersAreWhole

(* Theorem: as long as no file changes under it and nothing is configured  *)
(* to be an error, no request ends as an error of the server; and a client *)
(* whose connection stays open has received, without a gap, as much as the *)
(* content-length said (FullResponse, ProtocolWrangler).                   *)
THEOREM WholeAnswers == Spec => []AnswersAreWhole
<1>1. RequestsInvariant => AnswersAreWhole
  BY WholeFollows
<1>. QED  BY <1>1, RequestsFit, PTL

(* An answer of StaticFiles that ended while no file changed is all there. *)
LEMMA StaticIsWhole ==
  ASSUME RequestsInvariant, NEW r \in Requests, phase[r] = "done", conn # "closed",
         ~changed[r], status[r] # 400, IsStatic(r)
  PROVE  WholeAnswer(r) /\ SaysOf(client[r], answer[r], FileOf(r), fs[FileOf(r)].version)
<1>1. Refusal(r) \/ WholeAnswer(r) \/ Failure(r)
  BY Ended
<1>2. ~Refusal(r)
  BY DEF Refusal
<1>3. AppOf(r).type = "StaticFiles"
  BY DEF IsStatic, OfType, AppOf
<1>4. ~AnsweredByError(r)
  BY <1>3 DEF AnsweredByError, AsksForAnError, AppOf
<1>5. ~Failure(r)
  BY <1>4 DEF Failure
<1>6. WholeAnswer(r)
  BY <1>1, <1>2, <1>5
<1>. QED  BY <1>6 DEF WholeAnswer, Fits

LEMMA TrueFollows ==
  ASSUME RequestsInvariant
  PROVE  AnswersAreTrue
<1>. DEFINE Told(r) ==
       LET c == client[r]
           of == FileOf(r)
           version == fs[of].version
           length == Lengths[version]
           last == Min2(c.range.last, length - 1)
       IN  CASE status[r] = 200 ->
                  /\ c.method = "get" => Contiguous(r, of, 0, length)
                  /\ declared[r] = length
                  /\ c.noCache \/ c.inm = None \/ answer[r].etag \notin c.inm
             [] status[r] = 206 ->
                  /\ c.range.kind = "one"
                  /\ c.method = "get" => Contiguous(r, of, c.range.first, last - c.range.first + 1)
             [] status[r] = 304 -> sent[r] = <<>> /\ ~c.noCache /\ HasCurrent(r, version)
             [] status[r] = 416 -> c.range.kind = "bad" \/ c.range.first > last
<1>1. ASSUME NEW r \in Requests, phase[r] = "done", ~changed[r], conn # "closed",
             status[r] \in {200, 206, 304, 416}, IsStatic(r)
      PROVE  Told(r)
  <2>. DEFINE c == client[r]
              a == answer[r]
              of == FileOf(r)
              version == fs[of].version
              length == Lengths[version]
              last == Min2(c.range.last, length - 1)
              size == last - c.range.first + 1
  <2>1. status[r] # 400
    BY <1>1
  <2>2. WholeAnswer(r) /\ SaysOf(c, a, of, version)
    BY <1>1, <2>1, StaticIsWhole
  <2>3. /\ status[r] = a.status /\ declared[r] = ContentLength(r)
        /\ declared[r] # None <=> IsData(r)
        /\ IF declared[r] # None /\ BodyAllowed(c.method, status[r])
           THEN Carried(r, declared[r])
           ELSE sent[r] = <<>>
    BY <2>2, WholeIsKept
  <2>4. /\ status[r] = 200 =>
             /\ a.body = DataBody("file", of, version, 0, length)
             /\ c.noCache \/ c.inm = None \/ a.etag \notin c.inm
        /\ status[r] = 206 =>
             /\ c.range.kind = "one"
             /\ a.body = DataBody("file", of, version, c.range.first, size)
        /\ status[r] = 304 => a.body = NoBody /\ ~c.noCache
                              /\ (IF c.inm # None THEN \E t \in c.inm : t.of = version
                                  ELSE c.ims >= SecondOf(version))
        /\ status[r] = 416 => a.body = Message /\ (c.range.kind = "bad" \/ c.range.first > last)
    BY <2>2, <2>3 DEF SaysOf
  <2>. HIDE DEF version, length, last, size
  <2>5. ASSUME NEW first, NEW wanted, a.body = DataBody("file", of, version, first, wanted),
               status[r] \in {200, 206}
        PROVE  /\ declared[r] = wanted
               /\ c.method = "get" => Contiguous(r, of, first, wanted)
    <3>1. a.body.kind = "file" /\ a.body.of = of /\ a.body.version = version
          /\ a.body.first = first /\ a.body.length = wanted
      <4>. HIDE DEF a, of
      <4>. QED  BY <2>5, BodyParts
    <3>2. IsData(r) /\ declared[r] = wanted
      BY <2>3, <3>1 DEF IsData, ContentLength
    <3>3. ASSUME c.method = "get" PROVE Contiguous(r, of, first, wanted)
      <4>1. BodyAllowed(c.method, status[r])
        BY <2>5, <3>3 DEF BodyAllowed
      <4>2. Carried(r, wanted)
        BY <2>3, <3>2, <4>1
      <4>. QED  BY <1>1, <3>1, <4>2 DEF Carried, Contiguous, version
    <3>. QED  BY <3>2, <3>3
  <2>6. CASE status[r] = 200
    <3>1. declared[r] = length /\ (c.method = "get" => Contiguous(r, of, 0, length))
      BY <2>4, <2>5, <2>6
    <3>. QED  BY <2>4, <2>6, <3>1 DEF version, length
  <2>7. CASE status[r] = 206
    <3>1. c.method = "get" => Contiguous(r, of, c.range.first, size)
      BY <2>4, <2>5, <2>7
    <3>. QED  BY <2>4, <2>7, <3>1 DEF version, length, last, size
  <2>8. CASE status[r] = 304
    <3>1. a.body.kind = "none"
      BY <2>4, <2>8 DEF NoBody
    <3>2. ~IsData(r)
      BY <3>1 DEF IsData
    <3>3. sent[r] = <<>>
      BY <2>3, <3>2
    <3>4. HasCurrent(r, version)
      BY <2>4, <2>8 DEF HasCurrent
    <3>. QED  BY <2>4, <2>8, <3>3, <3>4 DEF version
  <2>9. CASE status[r] = 416
    BY <2>4, <2>9 DEF version, length, last
  <2>. QED  BY <1>1, <2>6, <2>7, <2>8, <2>9
<1>2. \A r \in Requests :
        (/\ phase[r] = "done" /\ ~changed[r] /\ conn # "closed" /\ status[r] \in {200, 206, 304, 416}
         /\ asked[r] # <<>> /\ Last(asked[r]).app \in OfType("StaticFiles")) => Told(r)
  <2>. HIDE DEF Told
  <2>. QED  BY <1>1 DEF IsStatic
<1>. QED  BY <1>2, Zenon DEF AnswersAreTrue

(* Theorem: while the files stay as they are, an answer of StaticFiles is  *)
(* what was asked for: all of the file that the path names, or the part of *)
(* it that was asked for, or, only to a client that has the current one,   *)
(* that it is not modified (FullResponse.adjustFor(), StaticFiles).        *)
THEOREM TrueAnswers == Spec => []AnswersAreTrue
<1>1. RequestsInvariant => AnswersAreTrue
  BY TrueFollows
<1>. QED  BY <1>1, RequestsFit, PTL

-----------------------------------------------------------------------------
(* The page for what is not found (StaticFiles.js).  What is known of it: the
   modification time kept with it is no later than the content kept with it,
   because the time is looked up before the content is read, and between the
   two, and until the answer comes to be kept, the file only gets newer. *)

PageLooks == {"nf-stat", "nf-read"}

PageFits(r) ==
  /\ phase[r] \in PageLooks =>
       came[r].version \in Nat /\ came[r].version <= fs[look[r].file].version
  /\ phase[r] = "nf-stat" => came[r].modTime \in Nat /\ came[r].modTime <= look[r].existing
  /\ phase[r] = "nf-read" => look[r].modTime \in Nat /\ look[r].modTime <= fs[look[r].file].version

PagesFit ==
  /\ notFound.modTime \in Nat /\ notFound.modTime <= notFound.version
  /\ \A r \in Requests : PageFits(r)

(* A step of a request that is not about the page. *)
Aside(r) ==
  /\ notFound' = notFound /\ fs' = fs
  /\ phase[r] \notin PageLooks /\ phase'[r] \notin PageLooks
  /\ \A q \in Requests : q # r =>
       phase'[q] = phase[q] /\ look'[q] = look[q] /\ came'[q] = came[q]

LEMMA AsideKeeps ==
  ASSUME PagesFit, NEW r \in Requests, Aside(r)
  PROVE  PagesFit'
<1>1. ASSUME NEW q \in Requests PROVE PageFits(q)'
  <2>1. CASE q = r
    BY <2>1 DEF Aside, PageFits, PageLooks
  <2>2. CASE q # r
    <3>1. PageFits(q)
      BY DEF PagesFit
    <3>2. phase'[q] = phase[q] /\ look'[q] = look[q] /\ came'[q] = came[q] /\ fs' = fs
      BY <2>2 DEF Aside
    <3>. QED  BY <3>1, <3>2 DEF PageFits
  <2>. QED  BY <2>1, <2>2
<1>. QED  BY <1>1 DEF PagesFit, Aside

LEMMA GoesAside ==
  ASSUME RequestTypes, NEW r \in Requests, phase[r] \notin PageLooks,
         NEW to, to \notin PageLooks, Go(r, to),
         look' = look \/ \E found : look' = [look EXCEPT ![r] = found],
         UNCHANGED <<notFound, fs, came>>
  PROVE  Aside(r)
<1>1. phase' = [phase EXCEPT ![r] = to]
  BY DEF Go
<1>2. phase'[r] = to /\ \A q \in Requests : q # r => phase'[q] = phase[q]
  BY <1>1 DEF RequestTypes
<1>3. \A q \in Requests : q # r => look'[q] = look[q]
  BY DEF RequestTypes, IsOn
<1>. QED  BY <1>2, <1>3 DEF Aside

LEMMA HandlerAside ==
  ASSUME RequestTypes, NEW r \in Requests, phase[r] \notin PageLooks, fs' = fs,
         \/ \E items : GoesOn(r, items)
         \/ Throws(r)
         \/ \E a : Answers(r, a)
  PROVE  Aside(r)
<1>1. CASE (\E items : GoesOn(r, items)) \/ Throws(r)
  <2>1. /\ Go(r, "handling") /\ look' = [look EXCEPT ![r] = NoLook]
        /\ UNCHANGED <<notFound, came>>
    BY <1>1 DEF GoesOn, Throws
  <2>. QED  BY <2>1, GoesAside DEF PageLooks
<1>2. CASE \E a : Answers(r, a)
  <2>1. /\ Go(r, "answered") /\ look' = [look EXCEPT ![r] = NoLook]
        /\ UNCHANGED <<notFound, came>>
    BY <1>2 DEF Answers, Gives
  <2>. QED  BY <2>1, GoesAside DEF PageLooks
<1>. QED  BY <1>1, <1>2

LEMMA WaitsAside ==
  ASSUME RequestTypes, NEW r \in Requests, phase[r] \notin PageLooks, fs' = fs,
         NEW found, NEW to, Waits(r, found, to), to \notin PageLooks
  PROVE  Aside(r)
BY GoesAside DEF Waits

LEMMA FoundAside ==
  ASSUME RequestTypes, NEW r \in Requests, phase[r] \notin PageLooks, fs' = fs,
         NEW file, Found(r, file)
  PROVE  Aside(r)
<1>1. CASE \E a : Answers(r, a)
  BY <1>1, HandlerAside
<1>2. CASE \E found : Waits(r, found, "tag")
  BY <1>2, WaitsAside DEF PageLooks
<1>. QED  BY <1>1, <1>2 DEF Found

LEMMA AskingAside ==
  ASSUME NEW r, NEW type, Asking(r, type), Rest
  PROVE  phase[r] \notin PageLooks /\ fs' = fs
BY DEF Asking, Rest, PageLooks

LEMMA RoutersAside ==
  ASSUME RequestTypes, NEW r \in Requests,
         \/ AskPathRouter(r) \/ AskSerialRouter(r) \/ AskHostRouter(r) \/ AskSuffixRouter(r)
         \/ AskRequestFilter(r) \/ AskRequestRateLimiter(r) \/ AskRequestDelay(r)
         \/ AskRedirector(r) \/ AskSimpleResponse(r) \/ AskStaticFiles(r)
  PROVE  Aside(r)
<1>1. phase[r] \notin PageLooks /\ fs' = fs
  BY AskingAside DEF AskPathRouter, AskSerialRouter, AskHostRouter, AskSuffixRouter,
     AskRequestFilter, AskRequestRateLimiter, AskRequestDelay, AskRedirector,
     AskSimpleResponse, AskStaticFiles
<1>2. CASE (\E items : GoesOn(r, items)) \/ Throws(r) \/ \E a : Answers(r, a)
  BY <1>1, <1>2, HandlerAside
<1>3. CASE \E to \in {"stat", "missing"} : Waits(r, NoLook, to)
  BY <1>1, <1>3, WaitsAside DEF PageLooks
<1>4. CASE AskPathRouter(r)
  BY <1>2, <1>4 DEF AskPathRouter
<1>5. CASE AskSerialRouter(r)
  BY <1>2, <1>5 DEF AskSerialRouter
<1>6. CASE AskHostRouter(r)
  BY <1>2, <1>6 DEF AskHostRouter
<1>7. CASE AskSuffixRouter(r)
  BY <1>2, <1>7 DEF AskSuffixRouter, Passes
<1>8. CASE AskRequestFilter(r)
  BY <1>2, <1>8 DEF AskRequestFilter, Passes
<1>9. CASE AskRequestRateLimiter(r)
  BY <1>2, <1>9 DEF AskRequestRateLimiter, Passes
<1>10. CASE AskRequestDelay(r)
  BY <1>2, <1>10 DEF AskRequestDelay, Passes
<1>11. CASE AskRedirector(r)
  BY <1>2, <1>11 DEF AskRedirector
<1>12. CASE AskSimpleResponse(r)
  BY <1>2, <1>12 DEF AskSimpleResponse
<1>13. CASE AskStaticFiles(r)
  <2>1. Answers(r, MetaResponse(403)) \/ Waits(r, NoLook, "stat") \/ Waits(r, NoLook, "missing")
    BY <1>13 DEF AskStaticFiles
  <2>. QED  BY <1>2, <1>3, <2>1
<1>. QED  BY <1>4, <1>5, <1>6, <1>7, <1>8, <1>9, <1>10, <1>11, <1>12, <1>13

LEMMA LooksAside ==
  ASSUME RequestTypes, NEW r \in Requests,
         StatPath(r) \/ StatIndex(r) \/ MakeTag(r) \/ NobodyAnswers(r)
  PROVE  Aside(r)
<1>1. phase[r] \notin PageLooks /\ fs' = fs
  BY DEF StatPath, StatIndex, MakeTag, NobodyAnswers, Rest, PageLooks
<1>2. CASE Throws(r) \/ \E a : Answers(r, a)
  BY <1>1, <1>2, HandlerAside
<1>3. CASE \E file : Found(r, file)
  BY <1>1, <1>3, FoundAside
<1>4. CASE \E found : Waits(r, found, "index") \/ Waits(r, found, "missing")
  BY <1>1, <1>4, WaitsAside DEF PageLooks
<1>5. CASE StatPath(r)
  BY <1>2, <1>3, <1>4, <1>5 DEF StatPath
<1>6. CASE StatIndex(r)
  BY <1>2, <1>3, <1>4, <1>6 DEF StatIndex
<1>7. CASE MakeTag(r)
  BY <1>2, <1>7 DEF MakeTag
<1>8. CASE NobodyAnswers(r)
  BY <1>2, <1>8 DEF NobodyAnswers
<1>. QED  BY <1>5, <1>6, <1>7, <1>8

(* What comes before an answer and what writes it. *)
LEMMA WritesAside ==
  ASSUME RequestTypes, NEW r \in Requests,
         \/ ReadBody(r) \/ RefuseRequest(r) \/ HandleRequest(r)
         \/ WriteTo(r) \/ ReadPortion(r) \/ OpenFile(r) \/ WriteChunk(r)
  PROVE  Aside(r)
<1>1. phase[r] \notin PageLooks
  BY DEF ReadBody, RefuseRequest, HandleRequest, WriteTo, ReadPortion, OpenFile, WriteChunk,
         PageLooks
<1>2. ASSUME NEW code, Finish(r, code) PROVE Aside(r)
  BY <1>1, <1>2, GoesAside DEF Finish, PageLooks
<1>3. ASSUME NEW to, Go(r, to), to \notin PageLooks, UNCHANGED <<look, notFound, fs, came>>
      PROVE  Aside(r)
  BY <1>1, <1>3, GoesAside
<1>4. CASE ReadBody(r)
  BY <1>1, <1>4 DEF ReadBody, Aside, appVars
<1>5. CASE RefuseRequest(r)
  BY <1>2, <1>5 DEF RefuseRequest
<1>6. CASE HandleRequest(r)
  <2>1. CASE Go(r, "handling") /\ UNCHANGED <<look, notFound, came>>
    BY <1>3, <1>6, <2>1 DEF HandleRequest, PageLooks
  <2>2. CASE \E a : Answers(r, a)
    BY <1>1, <1>6, <2>2, HandlerAside DEF HandleRequest
  <2>. QED  BY <1>6, <2>1, <2>2 DEF HandleRequest
<1>7. CASE WriteTo(r)
  <2>1. CASE \E code : Finish(r, code)
    BY <1>2, <2>1
  <2>2. CASE \E to \in {"read-once", "open"} : Go(r, to) /\ UNCHANGED <<look, notFound, fs, came>>
    BY <1>3, <2>2 DEF PageLooks
  <2>. QED  BY <1>7, <2>1, <2>2 DEF WriteTo, Written
<1>8. CASE ReadPortion(r)
  <2>1. \E code : Finish(r, code)
    BY <1>8 DEF ReadPortion, WriteFails
  <2>. QED  BY <1>2, <2>1
<1>9. CASE OpenFile(r)
  <2>1. CASE \E code : Finish(r, code)
    BY <1>2, <2>1
  <2>2. CASE Go(r, "chunks") /\ UNCHANGED <<look, notFound, fs, came>>
    BY <1>3, <2>2 DEF PageLooks
  <2>. QED  BY <1>9, <2>1, <2>2 DEF OpenFile, WriteFails
<1>10. CASE WriteChunk(r)
  <2>1. CASE \E code : Finish(r, code)
    BY <1>2, <2>1
  <2>2. CASE /\ \E found : look' = [look EXCEPT ![r] = found]
             /\ UNCHANGED <<phase, notFound, fs, came>>
    <3>1. \A q \in Requests : q # r => look'[q] = look[q]
      BY <2>2 DEF RequestTypes, IsOn
    <3>. QED  BY <1>1, <2>2, <3>1 DEF Aside
  <2>. QED  BY <1>10, <2>1, <2>2 DEF WriteChunk, WriteFails
<1>. QED  BY <1>4, <1>5, <1>6, <1>7, <1>8, <1>9, <1>10

LEMMA BeginsAside ==
  ASSUME RequestTypes, NEW r \in Requests, (\E c : Arrive(r, c)) \/ Follow(r)
  PROVE  Aside(r)
<1>1. phase[r] \notin PageLooks
  BY DEF Arrive, Follow, PageLooks
<1>2. Go(r, "reading") /\ UNCHANGED <<look, notFound, fs, came>>
  BY DEF Arrive, Follow, Begins, Go
<1>. QED  BY <1>1, <1>2, GoesAside DEF PageLooks

(* Files change, but none gets any older; or nothing here changes at all. *)
LEMMA ChangesKeepPages ==
  ASSUME RequestsInvariant, PagesFit, UNCHANGED <<phase, look, notFound, came>>,
         \A f \in Files : fs[f].version \in Nat /\ fs'[f].version \in Nat
                          /\ fs[f].version <= fs'[f].version
  PROVE  PagesFit'
<1>1. ASSUME NEW r \in Requests PROVE PageFits(r)'
  <2>1. PageFits(r) /\ (phase[r] \in PageLooks => look[r].file \in Files)
    BY DEF PagesFit, RequestsInvariant, RequestOK, LooksRight, PageLooks
  <2>. QED  BY <2>1 DEF PageFits, PageLooks
<1>. QED  BY <1>1 DEF PagesFit

LEMMA FileVersions ==
  ASSUME RequestTypes, NEW f \in Files
  PROVE  fs[f].version \in 1 .. MaxVersion /\ fs[f].version \in Nat /\ MaxVersion \in Nat
BY FilesAssumption DEF RequestTypes

LEMMA OtherKeepPages ==
  ASSUME RequestsInvariant, PagesFit,
         \/ \E name \in Site.offered : Connect(name)
         \/ CloseConnection \/ ClientLeaves
         \/ \E f \in Files : Edit(f) \/ Delete(f)
         \/ UNCHANGED vars
  PROVE  PagesFit'
<1>1. RequestTypes
  BY DEF RequestsInvariant
<1>2. UNCHANGED <<phase, look, notFound, came>>
  BY DEF Connect, CloseConnection, ClientLeaves, Edit, Delete, Changes, vars, appVars
<1>3. CASE fs' = fs
  BY <1>1, <1>2, <1>3, FileVersions, ChangesKeepPages
<1>4. ASSUME NEW f \in Files, Edit(f) \/ Delete(f) PROVE PagesFit'
  <2>1. PICK now :
          /\ fs' = [fs EXCEPT ![f] = now]
          /\ now.version = fs[f].version \/ now.version = fs[f].version + 1
    <3>1. fs[f] \in [version : 1 .. MaxVersion, there : BOOLEAN]
      BY <1>1 DEF RequestTypes
    <3>2. CASE Edit(f)
      <4>1. PICK now : now = [version |-> fs[f].version + 1, there |-> TRUE]
        OBVIOUS
      <4>2. now.version = fs[f].version + 1
        BY <4>1
      <4>3. fs' = [fs EXCEPT ![f] = now]
        BY <3>2, <4>1 DEF Edit, Changes
      <4>. QED  BY <4>2, <4>3
    <3>3. CASE Delete(f)
      <4>1. PICK now : now = [fs[f] EXCEPT !.there = FALSE]
        OBVIOUS
      <4>2. now.version = fs[f].version
        BY <3>1, <4>1
      <4>3. fs' = [fs EXCEPT ![f] = now]
        BY <3>3, <4>1 DEF Delete, Changes
      <4>. QED  BY <4>2, <4>3
    <3>. QED  BY <1>4, <3>2, <3>3
  <2>2. ASSUME NEW g \in Files
        PROVE  fs[g].version \in Nat /\ fs'[g].version \in Nat /\ fs[g].version <= fs'[g].version
    BY <1>1, <2>1, FileVersions DEF RequestTypes
  <2>. QED  BY <1>2, <2>2, ChangesKeepPages
<1>. QED  BY <1>3, <1>4 DEF Connect, CloseConnection, ClientLeaves, vars

(* The page that is at hand, and what is there of the file when the request  *)
(* comes to it.                                                              *)
LEMMA PageStep ==
  ASSUME RequestsInvariant, PagesFit, NEW r \in Requests,
         NotFoundBegins(r) \/ NotFoundStat(r) \/ NotFoundRead(r)
  PROVE  PagesFit'
<1>. DEFINE file == IF phase[r] = "missing" THEN App(r).notFound ELSE look[r].file
            now == fs[file].version
<1>0. RequestTypes /\ PageFits(r) /\ PageOK /\ fs' = fs
  BY DEF RequestsInvariant, PagesFit, NotFoundBegins, NotFoundStat, NotFoundRead, Rest
<1>1. ASSUME notFound'.modTime \in Nat, notFound'.modTime <= notFound'.version, PageFits(r)',
             \E found : look' = [look EXCEPT ![r] = found],
             \E to : Go(r, to),
             came' = came \/ \E mark : came' = [came EXCEPT ![r] = mark]
      PROVE  PagesFit'
  <2>1. ASSUME NEW q \in Requests, q # r PROVE PageFits(q)'
    <3>1. phase'[q] = phase[q]
      BY <1>0, <1>1, <2>1 DEF RequestTypes, Go
    <3>2. look'[q] = look[q]
      BY <1>0, <1>1, <2>1 DEF RequestTypes, IsOn
    <3>3. came'[q] = came[q]
      BY <1>0, <1>1, <2>1 DEF RequestTypes, IsOn
    <3>4. PageFits(q)
      BY DEF PagesFit
    <3>. QED  BY <1>0, <3>1, <3>2, <3>3, <3>4 DEF PageFits
  <2>. QED  BY <1>1, <2>1 DEF PagesFit
<1>2. CASE NotFoundBegins(r)
  <2>1. CASE GoesOn(r, <<>>)
    <3>1. phase[r] \notin PageLooks
      BY <1>2 DEF NotFoundBegins, PageLooks
    <3>2. Aside(r)
      BY <1>0, <2>1, <3>1, HandlerAside
    <3>. QED  BY <3>2, AsideKeeps
  <2>2. CASE ~GoesOn(r, <<>>)
    <3>1. PICK at, found, mark :
            /\ at = App(r).notFound /\ at # None
            /\ found = [file |-> at, existing |-> notFound.version]
            /\ mark = [version |-> fs[at].version, modTime |-> notFound.modTime]
            /\ look' = [look EXCEPT ![r] = found] /\ Go(r, "nf-stat")
            /\ came' = [came EXCEPT ![r] = mark] /\ notFound' = notFound
      BY <1>2, <2>2 DEF NotFoundBegins, Passes
    <3>2. look'[r] = found /\ came'[r] = mark /\ phase'[r] = "nf-stat"
      BY <1>0, <3>1 DEF RequestTypes, IsOn, Go
    <3>3. at \in Files
      <4>1. phase[r] \in StaticPhases
        BY <1>2 DEF NotFoundBegins, StaticPhases
      <4>. QED  BY <3>1, <4>1, StaticPlace DEF StaticFilesAssumption
    <3>4. fs[at].version \in Nat
      BY <1>0, <3>3, FileVersions
    <3>5. PageFits(r)'
      <4>1. mark.version = fs[at].version /\ mark.modTime = notFound.modTime
        BY <3>1
      <4>2. found.file = at /\ found.existing = notFound.version
        BY <3>1
      <4>. QED  BY <1>0, <3>2, <3>4, <4>1, <4>2 DEF PageFits, PagesFit, PageLooks
    <3>. QED  BY <1>1, <3>1, <3>5 DEF PagesFit
  <2>. QED  BY <2>1, <2>2
<1>3. CASE NotFoundStat(r)
  <2>1. look[r].file \in Files /\ fs[look[r].file].version \in Nat
    BY <1>0, <1>3, FileVersions DEF NotFoundStat, RequestsInvariant, RequestOK, LooksRight
  <2>2. CASE Answers(r, NotFoundResponse(look[r].file, look[r].existing))
    <3>1. /\ Go(r, "answered") /\ look' = [look EXCEPT ![r] = NoLook]
          /\ came' = came /\ notFound' = notFound
      BY <2>2 DEF Answers, Gives
    <3>2. phase'[r] = "answered"
      BY <1>0, <3>1 DEF RequestTypes, Go
    <3>. QED  BY <1>1, <3>1, <3>2 DEF PageFits, PagesFit, PageLooks
  <2>3. CASE ~Answers(r, NotFoundResponse(look[r].file, look[r].existing))
    <3>1. PICK found :
            /\ found = [file |-> look[r].file, modTime |-> fs[look[r].file].version]
            /\ Waits(r, found, "nf-read")
      BY <1>3, <2>3 DEF NotFoundStat
    <3>2. /\ look' = [look EXCEPT ![r] = found] /\ Go(r, "nf-read")
          /\ came' = came /\ notFound' = notFound
      BY <3>1 DEF Waits
    <3>3. look'[r] = found /\ phase'[r] = "nf-read" /\ phase[r] = "nf-stat"
      BY <1>0, <1>3, <3>2 DEF RequestTypes, IsOn, Go, NotFoundStat
    <3>4. found.file = look[r].file /\ found.modTime = fs[look[r].file].version
      BY <3>1
    <3>5. PageFits(r)'
      BY <1>0, <2>1, <3>2, <3>3, <3>4 DEF PageFits, PageLooks
    <3>. QED  BY <1>1, <3>2, <3>5 DEF PagesFit
  <2>. QED  BY <2>2, <2>3
<1>4. CASE NotFoundRead(r)
  <2>1. /\ look[r].modTime \in Nat /\ look[r].modTime <= fs[look[r].file].version
    BY <1>0, <1>4 DEF NotFoundRead, PageFits
  <2>2. CASE Throws(r)
    <3>1. /\ Go(r, "handling") /\ look' = [look EXCEPT ![r] = NoLook]
          /\ came' = came /\ notFound' = notFound
      BY <2>2 DEF Throws
    <3>2. phase'[r] = "handling"
      BY <1>0, <3>1 DEF RequestTypes, Go
    <3>. QED  BY <1>1, <3>1, <3>2 DEF PageFits, PagesFit, PageLooks
  <2>3. CASE ~Throws(r)
    <3>1. PICK version : version = fs[look[r].file].version
      OBVIOUS
    <3>2. /\ notFound' = [version |-> version, modTime |-> look[r].modTime] /\ came' = came
          /\ Go(r, "answered") /\ look' = [look EXCEPT ![r] = NoLook]
      BY <1>4, <2>3, <3>1 DEF NotFoundRead, Gives
    <3>3. phase'[r] = "answered"
      BY <1>0, <3>2 DEF RequestTypes, Go
    <3>4. notFound'.modTime \in Nat /\ notFound'.modTime <= notFound'.version
      BY <2>1, <3>1, <3>2
    <3>5. PageFits(r)'
      BY <3>3 DEF PageFits, PageLooks
    <3>. QED  BY <1>1, <3>2, <3>4, <3>5
  <2>. QED  BY <2>2, <2>3
<1>. QED  BY <1>2, <1>3, <1>4

LEMMA StepKeepsPages ==
  ASSUME RequestsInvariant, PagesFit, NEW r \in Requests, Step(r)
  PROVE  PagesFit'
<1>1. RequestTypes
  BY DEF RequestsInvariant
<1>2. CASE Aside(r)
  BY <1>2, AsideKeeps
<1>. QED  BY <1>1, <1>2, RoutersAside, LooksAside, WritesAside, PageStep DEF Step

LEMMA NextKeepsPages ==
  ASSUME RequestsInvariant, PagesFit, [Next]_vars
  PROVE  PagesFit'
<1>1. RequestTypes
  BY DEF RequestsInvariant
<1>2. ASSUME NEW r \in Requests, (\E c \in Site.asks : Arrive(r, c)) \/ Follow(r) \/ Step(r)
      PROVE  PagesFit'
  <2>1. CASE Step(r)
    BY <2>1, StepKeepsPages
  <2>2. CASE (\E c : Arrive(r, c)) \/ Follow(r)
    BY <1>1, <2>2, BeginsAside, AsideKeeps
  <2>. QED  BY <1>2, <2>1, <2>2
<1>. QED  BY <1>2, OtherKeepPages DEF Next, Over

(* Who sends the page has looked at the file in this step. *)
LEMMA PageIsSent ==
  ASSUME RequestsInvariant, PagesFit, [Next]_vars, NEW r \in Requests, SendsPage(r)
  PROVE  \/ answer'[r].body.version >= came[r].version
         \/ notFound.modTime # came[r].modTime
<1>1. RequestTypes /\ PageFits(r) /\ phase[r] \in PageLooks /\ phase'[r] = "answered"
  BY DEF RequestsInvariant, PagesFit, SendsPage, PageLooks
<1>2. NotFoundStat(r) \/ NotFoundRead(r)
  <2>1. phase' # phase
    BY <1>1 DEF PageLooks
  <2>2. \E q \in Requests : (\E c : Arrive(q, c)) \/ Follow(q) \/ Step(q)
    BY <2>1 DEF Next, Over, vars, appVars, Connect, CloseConnection, ClientLeaves, Edit, Delete,
                Changes
  <2>3. PICK q \in Requests : (\E c : Arrive(q, c)) \/ Follow(q) \/ Step(q)
    BY <2>2
  <2>4. CASE Aside(q)
    BY <1>1, <2>4 DEF Aside, PageLooks
  <2>5. CASE NotFoundBegins(q) \/ NotFoundStat(q) \/ NotFoundRead(q)
    <3>1. \E to : Go(q, to)
      BY <2>5 DEF NotFoundBegins, NotFoundStat, NotFoundRead, Passes, GoesOn, Throws, Answers,
                  Gives, Waits
    <3>2. q = r
      BY <1>1, <3>1 DEF Go, RequestTypes, PageLooks
    <3>3. ~NotFoundBegins(q)
      BY <1>1, <3>2 DEF NotFoundBegins, PageLooks
    <3>. QED  BY <2>5, <3>2, <3>3
  <2>. QED  BY <1>1, <2>3, <2>4, <2>5, BeginsAside, RoutersAside, LooksAside, WritesAside DEF Step
<1>3. look[r].file \in Files /\ fs[look[r].file].version \in Nat
  BY <1>1, FileVersions DEF PageLooks, RequestsInvariant, RequestOK, LooksRight
<1>4. \A b : Gives(r, b) => answer'[r] = b
  BY <1>1 DEF Gives, RequestTypes, IsOn
<1>5. CASE NotFoundStat(r)
  <2>1. PICK version : version = look[r].existing
    OBVIOUS
  <2>2. PICK a : a = NotFoundResponse(look[r].file, version)
    OBVIOUS
  <2>3. phase[r] = "nf-stat" /\ version \in Nat
    <3>1. phase[r] = "nf-stat"
      BY <1>5 DEF NotFoundStat
    <3>2. look[r].existing \in 1 .. MaxVersion
      BY <3>1 DEF RequestsInvariant, RequestOK, LooksRight
    <3>. QED  BY <2>1, <3>1, <3>2, FilesAssumption
  <2>4. ~Waits(r, [file |-> look[r].file, modTime |-> fs[look[r].file].version], "nf-read")
    BY <1>1 DEF Waits, Go, RequestTypes
  <2>5. fs[look[r].file].version = notFound.modTime /\ Gives(r, a)
    BY <1>5, <2>1, <2>2, <2>4 DEF NotFoundStat, Answers, SendsPage
  <2>6. answer'[r].body.version = version
    BY <1>4, <2>2, <2>5 DEF NotFoundResponse, ContentResponse, DataBody
  <2>. QED  BY <1>1, <1>3, <2>1, <2>3, <2>5, <2>6 DEF PageFits, PageLooks
<1>6. CASE NotFoundRead(r)
  <2>1. PICK version : version = fs[look[r].file].version
    OBVIOUS
  <2>2. PICK a : a = NotFoundResponse(look[r].file, version)
    OBVIOUS
  <2>3. Gives(r, a)
    BY <1>6, <2>1, <2>2 DEF NotFoundRead, SendsPage
  <2>4. answer'[r].body.version = version
    BY <1>4, <2>2, <2>3 DEF NotFoundResponse, ContentResponse, DataBody
  <2>. QED  BY <1>1, <1>3, <2>1, <2>4 DEF PageFits, PageLooks
<1>. QED  BY <1>2, <1>5, <1>6

(* A page that is older than the file was when the request began is sent only if *)
(* another request has brought the page up to date in the meantime.              *)
THEOREM OldPagesComeOfRaces == Spec => OldPageOnlyInARace
<1>1. Init => PagesFit
  BY FilesAssumption DEF Init, PagesFit, PageFits, PageLooks
<1>2. RequestsInvariant /\ PagesFit /\ [Next]_vars => PagesFit'
  BY NextKeepsPages
<1>3. RequestsInvariant /\ PagesFit /\ [Next]_vars
        => [\A r \in Requests :
              SendsPage(r) => \/ answer'[r].body.version >= came[r].version
                              \/ notFound.modTime # came[r].modTime]_vars
  BY PageIsSent
<1>. QED  BY <1>1, <1>2, <1>3, RequestsFit, PTL DEF Spec, OldPageOnlyInARace

=============================================================================
