------------------------------- MODULE System -------------------------------
(***************************************************************************)
(* The life of the system: main() of src/main-lactoserv, BaseSystem of     *)
(* src/host with the TemplWrappedHierarchy and TemplThreadComponent of     *)
(* src/compy that it is made of, on top of the process (Host.tla) and the  *)
(* component hierarchies (WebappRoot.tla).                                 *)
(*                                                                         *)
(* A step is what runs between two events of the outside world: a signal,  *)
(* a timer, a file that was read, a component that is done.  The component *)
(* `keepRunning` is left out: it starts and stops at once.                 *)
(***************************************************************************)
EXTENDS WebappRoot, Host

VARIABLES
  sys,               \* the state of the system component itself
  main,              \* where main() is
  thread,            \* where the system thread is
  reloadRequested,   \* #reloadRequested.value
  rootComponent,     \* #rootComponent: a root, or 0
  nextRootComponent, \* #nextRootComponent: likewise
  made,              \* how many hierarchies _impl_makeHierarchy() has made
  registered,        \* #callbacks: are they registered?
  stopCall           \* where the shutdown callback, stop(), is

system == <<sys, main, thread, reloadRequested, rootComponent, nextRootComponent,
            made, registered, stopCall>>
vars == <<system, process, webapp>>

(***************************************************************************)
(* main():   "loading" the configuration, "starting" the system, waiting   *)
(*           for it to have stopped ("running"), "exiting", or it "threw". *)
(* thread:   "none"; "waiting" for a request to reload or to stop; then    *)
(*           "loading", "stoppingOld" and "startingNew"; "done".           *)
(* stopCall: "none"; "nobody" if no callback was registered; "thread" and  *)
(*           "root" while it awaits these; "returned" or "threw".          *)
(***************************************************************************)
TypeOK ==
  /\ WebappTypeOK /\ ProcessTypeOK
  /\ sys \in States
  /\ main \in {"loading", "starting", "running", "exiting", "threw"}
  /\ thread \in {"none", "waiting", "loading", "stoppingOld", "startingNew", "done"}
  /\ reloadRequested \in BOOLEAN
  /\ rootComponent \in {0} \union Roots
  /\ nextRootComponent \in {0} \union Roots
  /\ made \in {0} \union Roots
  /\ registered \in BOOLEAN
  /\ stopCall \in {"none", "nobody", "thread", "root", "returned", "threw"}

Init ==
  /\ WebappInit /\ ProcessInit
  /\ sys = "initializing"
  /\ main = "loading"
  /\ thread = "none"
  /\ reloadRequested = FALSE
  /\ rootComponent = 0
  /\ nextRootComponent = 0
  /\ made = 0
  /\ registered = FALSE
  /\ stopCall = "none"

-----------------------------------------------------------------------------
(* The caller of a root's start() or stop() has seen what became of it. *)
Seen(g) == at' = [at EXCEPT ![g] = NotCalled] /\ UNCHANGED <<state, rejected>>

(* init() has its hierarchy; start() registers the callbacks, starts the thread,
   and then starts the hierarchy, all without waiting for anything. *)
LoadSucceeds ==
  /\ main = "loading"
  /\ main' = "starting"
  /\ made' = 1
  /\ rootComponent' = 1
  /\ StartRoot(1)
  /\ sys' = "starting"
  /\ registered' = TRUE
  /\ thread' = "waiting"
  /\ UNCHANGED <<process, reloadRequested, nextRootComponent, stopCall>>

(* main() throws, and nobody catches it. *)
LoadFails ==
  /\ main = "loading"
  /\ main' = "threw"
  /\ HandleProblem
  /\ UNCHANGED <<webapp, sys, thread, reloadRequested, rootComponent, nextRootComponent,
                 made, registered, stopCall>>

SystemStarts ==
  /\ main = "starting"
  /\ at[rootComponent] = Returned
  /\ Seen(rootComponent)
  /\ sys' = "running"
  /\ main' = "running"
  /\ UNCHANGED <<process, thread, reloadRequested, rootComponent, nextRootComponent,
                 made, registered, stopCall>>
SystemStartThrows ==
  /\ main = "starting"
  /\ at[rootComponent] = Threw
  /\ Seen(rootComponent)
  /\ main' = "threw"
  /\ HandleProblem
  /\ UNCHANGED <<sys, thread, reloadRequested, rootComponent, nextRootComponent,
                 made, registered, stopCall>>

(* run() returns once the system has stopped; main() calls Host.exit(). *)
MainExits ==
  /\ main = "running"
  /\ sys = "stopped"
  /\ main' = "exiting"
  /\ CallExit(0)
  /\ UNCHANGED <<webapp, exited, signals, problems, shuttingDown, timers, sys, thread,
                 reloadRequested, rootComponent, nextRootComponent, made, registered,
                 stopCall>>

-----------------------------------------------------------------------------
(* SIGHUP: #handleReloadSignal() and the callback #requestReload(), which look
   at two different things to tell whether the system is on its way out.  There is
   no bound on them: a request that is pending already is not counted. *)
ReloadSignal ==
  /\ reloadRequested' =
       (reloadRequested \/ (shutdown = "idle" /\ registered /\ sys = "running"))
  /\ UNCHANGED <<webapp, process, sys, main, thread, rootComponent, nextRootComponent,
                 made, registered, stopCall>>

ShouldStop == stopCall = "thread"

(* The system thread finds a request to reload and loads the configuration. *)
ThreadReloads ==
  /\ thread = "waiting"
  /\ ~ShouldStop
  /\ reloadRequested
  /\ thread' = "loading"
  /\ UNCHANGED <<webapp, process, sys, main, reloadRequested, rootComponent,
                 nextRootComponent, made, registered, stopCall>>

(* #reload() is done, one way or the other. *)
ReloadEnds ==
  /\ thread' = "waiting"
  /\ reloadRequested' = FALSE
ReloadLoadFails ==
  /\ thread = "loading"
  /\ ReloadEnds
  /\ UNCHANGED <<webapp, process, sys, main, rootComponent, nextRootComponent, made,
                 registered, stopCall>>
ReloadLoads ==
  /\ thread = "loading"
  /\ made < MaxRoots
  /\ made' = made + 1
  /\ nextRootComponent' = made + 1
  /\ StopRoot(rootComponent)
  /\ thread' = "stoppingOld"
  /\ UNCHANGED <<process, sys, main, reloadRequested, rootComponent, registered, stopCall>>
(* Mutant of OldStops: does not wait for the old hierarchy. *)
OldStopsInBackground ==
  /\ thread = "stoppingOld"
  /\ rootComponent' = nextRootComponent
  /\ nextRootComponent' = 0
  /\ StartRoot(nextRootComponent)
  /\ thread' = "startingNew"
  /\ UNCHANGED <<process, sys, main, reloadRequested, made, registered, stopCall>>

OldStops ==
  /\ thread = "stoppingOld"
  /\ at[rootComponent] = Returned
  /\ rootComponent' = nextRootComponent
  /\ nextRootComponent' = 0
  /\ StartRoot(nextRootComponent)
  /\ thread' = "startingNew"
  /\ UNCHANGED <<process, sys, main, reloadRequested, made, registered, stopCall>>
OldStopThrows ==
  /\ thread = "stoppingOld"
  /\ at[rootComponent] = Threw
  /\ Seen(rootComponent)
  /\ ReloadEnds
  /\ UNCHANGED <<process, sys, main, rootComponent, nextRootComponent, made, registered,
                 stopCall>>
NewStartSettles ==
  /\ thread = "startingNew"
  /\ Settled(rootComponent)
  /\ Seen(rootComponent)
  /\ ReloadEnds
  /\ UNCHANGED <<process, sys, main, rootComponent, nextRootComponent, made, registered,
                 stopCall>>

(* The thread is told to stop: it unregisters the callbacks and is done. *)
ThreadEnds ==
  /\ thread = "waiting"
  /\ ShouldStop
  /\ thread' = "done"
  /\ registered' = FALSE
  /\ UNCHANGED <<webapp, process, sys, main, reloadRequested, rootComponent,
                 nextRootComponent, made, stopCall>>

-----------------------------------------------------------------------------
(* The shutdown thread calls the callbacks: stop() of the system, if it got so
   far as to register it, which throws unless the system is running. *)
RunCallbacks ==
  /\ shutdown = "begun"
  /\ shutdown' = "callbacks"
  /\ IF ~registered
     THEN stopCall' = "nobody" /\ UNCHANGED sys
     ELSE IF sys = "running"
          THEN stopCall' = "thread" /\ sys' = "stopping"
          ELSE stopCall' = "threw" /\ UNCHANGED sys
  /\ UNCHANGED <<webapp, exited, exitCode, signals, problems, shuttingDown, timers, main,
                 thread, reloadRequested, rootComponent, nextRootComponent, made,
                 registered>>
StopGetsToRoot ==
  /\ stopCall = "thread"
  /\ thread = "done"
  /\ stopCall' = "root"
  /\ StopRoot(rootComponent)
  /\ UNCHANGED <<process, sys, main, thread, reloadRequested, rootComponent,
                 nextRootComponent, made, registered>>
SystemStops ==
  /\ stopCall = "root"
  /\ at[rootComponent] = Returned
  /\ Seen(rootComponent)
  /\ stopCall' = "returned"
  /\ sys' = "stopped"
  /\ rootComponent' = 0
  /\ UNCHANGED <<process, main, thread, reloadRequested, nextRootComponent, made,
                 registered>>
(* Mutant of SystemStopThrows: the error is swallowed. *)
SystemStopSwallows ==
  /\ stopCall = "root"
  /\ at[rootComponent] = Threw
  /\ Seen(rootComponent)
  /\ stopCall' = "returned"
  /\ UNCHANGED <<process, sys, main, thread, reloadRequested, rootComponent,
                 nextRootComponent, made, registered>>

SystemStopThrows ==
  /\ stopCall = "root"
  /\ at[rootComponent] = Threw
  /\ Seen(rootComponent)
  /\ stopCall' = "threw"
  /\ UNCHANGED <<process, sys, main, thread, reloadRequested, rootComponent,
                 nextRootComponent, made, registered>>

(* CallbackList.run(): the callback is done or threw, or took too long. *)
CallbacksSettle ==
  /\ stopCall \in {"nobody", "returned", "threw"}
  /\ CallbacksEnd(stopCall = "threw")
  /\ UNCHANGED <<webapp, system>>
(* Mutant of CallbacksTimeOut: there is no timeout. *)
CallbacksTakeForever == FALSE /\ UNCHANGED vars

CallbacksTimeOut ==
  /\ stopCall \in {"thread", "root"}
  /\ CallbacksEnd(TRUE)
  /\ UNCHANGED <<webapp, system>>

-----------------------------------------------------------------------------
StartUp == LoadSucceeds \/ LoadFails \/ SystemStarts \/ SystemStartThrows \/ MainExits
Reload ==
  \/ ThreadReloads \/ ReloadLoadFails \/ ReloadLoads \/ OldStops \/ OldStopThrows
  \/ NewStartSettles \/ ThreadEnds
Shutdown ==
  \/ RunCallbacks \/ StopGetsToRoot \/ SystemStops \/ SystemStopThrows
  \/ CallbacksSettle \/ CallbacksTimeOut
FromOutside ==
  \/ ReloadSignal
  \/ ExitSignal /\ UNCHANGED <<webapp, system>>
  \/ StrayProblem /\ UNCHANGED <<webapp, system>>
  \/ TimerFires /\ UNCHANGED <<webapp, system>>
  \/ WebappStep /\ UNCHANGED <<process, system>>

(* Nothing happens in a process that is gone. *)
Next == ~exited /\ (StartUp \/ Reload \/ Shutdown \/ FromOutside)

(* Timers fire, and what they lead to runs.  No component owes anything. *)
Fairness ==
  /\ WF_vars(~exited /\ TimerFires /\ UNCHANGED <<webapp, system>>)
  /\ WF_vars(~exited /\ RunCallbacks)
  /\ WF_vars(~exited /\ (CallbacksSettle \/ CallbacksTimeOut))

Spec == Init /\ [][Next]_vars
FairSpec == Spec /\ Fairness

-----------------------------------------------------------------------------
(* Reloading never has two hierarchies up at once, whatever fails: the new one
   is started only after every part of the old one has stopped, since they
   claim the same ports and files. *)
OneRootAtATime == \A g, h \in Roots : Up(g) /\ Up(h) => g = h

(* A process that exits with code 0 after it told the system to stop leaves no
   component behind that is not properly stopped, of any hierarchy, and no problem
   unreported that came up before its last moments. *)
CleanExit ==
  /\ exited /\ exitCode = 0 /\ stopCall # "nobody" => \A g \in Roots : ~Up(g)
  /\ TroubleIsReported

(* A request to exit, and a problem nobody handles, end the process, whatever
   the components do or fail to do. *)
ExitsInTheEnd == signals > 0 \/ problems > 0 ~> exited
=============================================================================
