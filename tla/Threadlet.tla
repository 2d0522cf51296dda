----------------------------- MODULE Threadlet -----------------------------
(***************************************************************************)
(* The thread-like object of src/async/export/Threadlet.js: an             *)
(* asynchronous function that clients run, start and stop from outside.    *)
(*                                                                         *)
(* One action is one synchronous stretch of JavaScript.  A call of #run0   *)
(* is an activation with a phase of its own, so that nothing in the model  *)
(* itself keeps two activations from being alive at once: the guard in     *)
(* #run does.  The thread functions are the users': they may return or     *)
(* throw at any point, and the only thing they owe is to look at           *)
(* shouldStop() now and then.                                              *)
(***************************************************************************)
EXTENDS Integers

CONSTANTS
  Callers,        \* who calls the public methods
  HasStart,       \* was the instance made with a start function?
  MaxRuns         \* bound: activations of #run0

ASSUME ThreadAssumption ==
  /\ HasStart \in BOOLEAN
  /\ MaxRuns \in Nat

VARIABLES
  runCond,        \* #runningCondition.value: should it be running?
  runResult,      \* #runResult: the activation whose promise it is, or 0
  startResult,    \* #startResult: likewise
  exposed,        \* #runResultExposed
  lastRun,        \* how many activations there have been
  phase,          \* where each activation is
  outcome,        \* how each activation ends
  stopAsked,      \* activations that stop() was called on
  unhandled,      \* activations that forced an unhandled rejection
  call            \* the promise each client awaits: its method and activation

shared == <<runCond, runResult, startResult, exposed, lastRun>>
runner == <<phase, outcome>>
threadVars == <<shared, runner, stopAsked, unhandled, call>>

Runs == 1 .. MaxRuns
NoCall == [op |-> "none", run |-> 0]

(***************************************************************************)
(* "none"         not yet                                                  *)
(* "startAwait"   #start() is at its `await null`                          *)
(* "starting"     the start function is running                            *)
(* "startSettled" the start promise is settled, #run0 is yet to go on      *)
(* "main"         the main function is running                             *)
(* "waiting"      the main function awaits raceWhenStopRequested()         *)
(* "mainSettled"  its promise is settled, #run0 is yet to go on            *)
(* "done"         #run0 has returned or thrown                             *)
(***************************************************************************)
Phases == {"none", "startAwait", "starting", "startSettled", "main",
           "waiting", "mainSettled", "done"}
Alive(r) == phase[r] \notin {"none", "done"}
Outcomes == {"none", "value", "startError", "mainError"}
Ops == {"none", "run", "start", "stop", "whenStarted"}

ThreadTypeOK ==
  /\ runCond \in BOOLEAN
  /\ runResult \in 0 .. lastRun
  /\ startResult \in {0, runResult}
  /\ exposed \in BOOLEAN
  /\ lastRun \in 0 .. MaxRuns
  /\ phase \in [Runs -> Phases]
  /\ outcome \in [Runs -> Outcomes]
  /\ stopAsked \subseteq 1 .. lastRun
  /\ unhandled \subseteq 1 .. lastRun
  /\ call \in [Callers -> [op : Ops, run : 0 .. lastRun]]

ThreadInit ==
  /\ runCond = FALSE
  /\ runResult = 0
  /\ startResult = 0
  /\ exposed = FALSE
  /\ lastRun = 0
  /\ phase = [r \in Runs |-> "none"]
  /\ outcome = [r \in Runs |-> "none"]
  /\ stopAsked = {}
  /\ unhandled = {}
  /\ call = [c \in Callers |-> NoCall]

-----------------------------------------------------------------------------
(* Mutant of IsRunning: a thread that should stop counts as stopped. *)
ShouldRun == runCond

(* isRunning() *)
IsRunning == runResult # 0

(* Mutant of PrivateRun: run() takes back a stop request. *)
PrivateRunAgain(expose) ==
  IF IsRunning
  THEN /\ exposed' = (exposed \/ expose)
       /\ runCond' = TRUE
       /\ UNCHANGED <<runResult, startResult, lastRun, phase>>
  ELSE /\ lastRun < MaxRuns
       /\ runCond' = TRUE
       /\ lastRun' = lastRun + 1
       /\ runResult' = lastRun + 1
       /\ startResult' = lastRun + 1
       /\ phase' = [phase EXCEPT ![lastRun + 1] = "startAwait"]
       /\ exposed' = (exposed \/ expose)

(* #run(): start an activation unless one is there, and expose it or not.
   #run0 runs up to its await, which calls #start() up to its own. *)
PrivateRun(expose) ==
  IF IsRunning
  THEN /\ exposed' = (exposed \/ expose)
       /\ UNCHANGED <<runCond, runResult, startResult, lastRun, phase>>
  ELSE /\ lastRun < MaxRuns
       /\ runCond' = TRUE
       /\ lastRun' = lastRun + 1
       /\ runResult' = lastRun + 1
       /\ startResult' = lastRun + 1
       /\ phase' = [phase EXCEPT ![lastRun + 1] =
                      IF HasStart THEN "startAwait" ELSE "startSettled"]
       /\ exposed' = (exposed \/ expose)

Awaits(c, op, r) == call' = [call EXCEPT ![c] = [op |-> op, run |-> r]]

(* run() *)
Run(c) ==
  /\ call[c] = NoCall
  /\ PrivateRun(TRUE)
  /\ Awaits(c, "run", runResult')
  /\ UNCHANGED <<outcome, stopAsked, unhandled>>

(* start(): #run() with its rejection squelched, then whenStarted(). *)
Start(c) ==
  /\ call[c] = NoCall
  /\ PrivateRun(FALSE)
  /\ Awaits(c, "start", startResult')
  /\ UNCHANGED <<outcome, stopAsked, unhandled>>

(* Mutant of Stop: the promise is returned, the request is not made. *)
StopWithoutRequest(c) ==
  /\ call[c] = NoCall
  /\ IsRunning
  /\ exposed' = TRUE
  /\ stopAsked' = stopAsked \union {runResult}
  /\ Awaits(c, "stop", runResult)
  /\ UNCHANGED <<runCond, runResult, startResult, lastRun, runner, unhandled>>

(* stop(); when the instance is not running it returns null and does nothing. *)
Stop(c) ==
  /\ call[c] = NoCall
  /\ IsRunning
  /\ runCond' = FALSE
  /\ exposed' = TRUE
  /\ stopAsked' = stopAsked \union {runResult}
  /\ Awaits(c, "stop", runResult)
  /\ UNCHANGED <<runResult, startResult, lastRun, runner, unhandled>>

(* whenStarted(); likewise. *)
WhenStarted(c) ==
  /\ call[c] = NoCall
  /\ IsRunning
  /\ Awaits(c, "whenStarted", startResult)
  /\ UNCHANGED <<shared, runner, stopAsked, unhandled>>

(* Is the promise that a client awaits settled? *)
StartIsSettled(r) == phase[r] \notin {"none", "startAwait", "starting"}
CallIsSettled(c) ==
  LET r == call[c].run
  IN  IF call[c].op \in {"run", "stop"} THEN phase[r] = "done" ELSE StartIsSettled(r)

(* The microtask in which the client's await goes on. *)
ClientResumes(c) ==
  /\ call[c] # NoCall
  /\ CallIsSettled(c)
  /\ call' = [call EXCEPT ![c] = NoCall]
  /\ UNCHANGED <<shared, runner, stopAsked, unhandled>>

-----------------------------------------------------------------------------
Moves(r, from, to) == phase[r] = from /\ phase' = [phase EXCEPT ![r] = to]

(* #start() calls the start function. *)
StartBegins(r) ==
  /\ Moves(r, "startAwait", "starting")
  /\ UNCHANGED <<shared, outcome, stopAsked, unhandled, call>>

(* The start function returns or throws. *)
StartEnds(r) ==
  /\ Moves(r, "starting", "startSettled")
  /\ \E o \in {"none", "startError"} : outcome' = [outcome EXCEPT ![r] = o]
  /\ UNCHANGED <<shared, stopAsked, unhandled, call>>

(* #run0 goes on after `await this.#startResult` and calls the main function. *)
MainBegins(r) ==
  /\ outcome[r] # "startError"
  /\ Moves(r, "startSettled", "main")
  /\ UNCHANGED <<shared, outcome, stopAsked, unhandled, call>>

(* The main function finds shouldStop() false and awaits
   raceWhenStopRequested(). *)
MainWaits(r) ==
  /\ runCond
  /\ Moves(r, "main", "waiting")
  /\ UNCHANGED <<shared, outcome, stopAsked, unhandled, call>>

(* The race is won: by the stop request, or by what else it waits for. *)
MainWakes(r) ==
  /\ Moves(r, "waiting", "main")
  /\ UNCHANGED <<shared, outcome, stopAsked, unhandled, call>>

(* The main function returns or throws, asked to or not. *)
MainEnds(r) ==
  /\ Moves(r, "main", "mainSettled")
  /\ \E o \in {"value", "mainError"} : outcome' = [outcome EXCEPT ![r] = o]
  /\ UNCHANGED <<shared, stopAsked, unhandled, call>>

(* Mutant of RunEnds: whether the result was handed out is not reset. *)
RunEndsExposed(r) ==
  /\ \/ Moves(r, "startSettled", "done") /\ outcome[r] = "startError"
     \/ Moves(r, "mainSettled", "done")
  /\ unhandled' = IF outcome[r] = "mainError" /\ ~exposed
                  THEN unhandled \union {r} ELSE unhandled
  /\ startResult' = 0 /\ runResult' = 0 /\ runCond' = FALSE
  /\ UNCHANGED <<exposed, lastRun, outcome, stopAsked, call>>

(* The catch and finally clauses of #run0, which run in one go. *)
RunEnds(r) ==
  /\ \/ Moves(r, "startSettled", "done") /\ outcome[r] = "startError"
     \/ Moves(r, "mainSettled", "done")
  /\ unhandled' = IF outcome[r] = "mainError" /\ ~exposed
                  THEN unhandled \union {r} ELSE unhandled
  /\ startResult' = 0
  /\ exposed' = FALSE
  /\ runResult' = 0
  /\ runCond' = FALSE
  /\ UNCHANGED <<lastRun, outcome, stopAsked, call>>

-----------------------------------------------------------------------------
ClientStep(c) == Run(c) \/ Start(c) \/ Stop(c) \/ WhenStarted(c) \/ ClientResumes(c)
RunnerStep(r) ==
  \/ StartBegins(r) \/ StartEnds(r) \/ MainBegins(r)
  \/ MainWaits(r) \/ MainWakes(r) \/ MainEnds(r) \/ RunEnds(r)

ThreadNext == (\E c \in Callers : ClientStep(c)) \/ (\E r \in Runs : RunnerStep(r))

(***************************************************************************)
(* Microtasks run.  The start function settles.  The main function goes on *)
(* when it is woken, and returns once it sees that it should stop ("the    *)
(* function is responsible for proactively figuring out when to stop").    *)
(***************************************************************************)
ThreadFairness ==
  /\ \A r \in Runs :
       /\ WF_threadVars(StartBegins(r) \/ StartEnds(r) \/ MainBegins(r) \/ RunEnds(r))
       /\ WF_threadVars(~runCond /\ MainWakes(r))
       /\ WF_threadVars(~runCond /\ MainEnds(r))
  /\ \A c \in Callers : WF_threadVars(ClientResumes(c))

ThreadSpec == ThreadInit /\ [][ThreadNext]_threadVars
FairThreadSpec == ThreadSpec /\ ThreadFairness

-----------------------------------------------------------------------------
(* No two activations of #run0 are alive at once: the thread functions never
   run concurrently with themselves, whatever the clients call and when. *)
SingleRun == \A r, s \in Runs : Alive(r) /\ Alive(s) => r = s

(* isRunning() tells the truth, and an instance that is not running carries
   nothing over into its next run: neither an exposure nor a stop request. *)
IdleIsClean ==
  /\ \A r \in Runs : Alive(r) <=> runResult = r
  /\ startResult = runResult
  /\ ~IsRunning => ~exposed /\ ~runCond

(* A stop request sticks: from stop() on, shouldStop() is true in the run that
   was asked to stop, until it ends, also when somebody calls run() or start()
   meanwhile. *)
StopSticks == \A r \in stopAsked : Alive(r) => ~runCond

(* #runResultExposed is exactly "some client awaits the promise of this run". *)
Awaited(r) == \E c \in Callers : call[c].op \in {"run", "stop"} /\ call[c].run = r
ExposedIffAwaited == IsRunning => (exposed <=> Awaited(runResult))

(* An error of the main function is never swallowed and never reported twice:
   the run ends in an unhandled rejection exactly when no client awaits it. *)
SurfacesError(r) ==
  Alive(r) /\ phase'[r] = "done" /\ outcome[r] = "mainError"
    => (r \in unhandled' <=> ~Awaited(r))
ErrorsSurface == [][\A r \in Runs : SurfacesError(r)]_threadVars

(* A thread that is asked to stop does, and so stop() returns. *)
StopEndsTheRun == \A r \in Runs : r \in stopAsked ~> phase[r] = "done"

=============================================================================
