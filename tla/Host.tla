-------------------------------- MODULE Host --------------------------------
(***************************************************************************)
(* The process around the system: ShutdownHandler, SignalHandler,          *)
(* TopErrorHandler and the CallbackList of src/host.                       *)
(*                                                                         *)
(* There is one shutdown callback, the system's; the module that composes  *)
(* says when it is registered and what becomes of it.  The shutdown thread *)
(* is a Threadlet that nobody stops.                                       *)
(***************************************************************************)
EXTENDS Integers, Sequences

CONSTANTS
  MaxExitSignals,    \* bound: SIGINT and SIGTERM received
  MaxProblems        \* bound: uncaught errors and unhandled rejections

ASSUME ProcessAssumption == MaxExitSignals \in Nat /\ MaxProblems \in Nat

VARIABLES
  exited,            \* has process.exit() been called?
  exitCode,          \* ShutdownHandler.#exitCode, and then the process's
  shutdown,          \* where the shutdown thread is
  signals,           \* SignalHandler.#exitSignalCount
  problems,          \* how many TopErrorHandler.#problems there are
  shuttingDown,      \* TopErrorHandler.#shuttingDown
  timers             \* the 250-msec timers that are running, oldest first

process == <<exited, exitCode, shutdown, signals, problems, shuttingDown, timers>>

(***************************************************************************)
(* "idle"       the thread is not running                                  *)
(* "begun"      run() was called                                           *)
(* "callbacks"  it awaits the callbacks, for at most #MAX_SHUTDOWN_MSEC    *)
(* "bye"        it waits for #PRE_EXIT_DELAY_MSEC                          *)
(***************************************************************************)
ShutdownPhases == {"idle", "begun", "callbacks", "bye"}

ProcessTypeOK ==
  /\ exited \in BOOLEAN
  /\ exitCode \in {0, 1}
  /\ shutdown \in ShutdownPhases
  /\ signals \in 0 .. MaxExitSignals
  /\ problems \in Nat
  /\ shuttingDown \in BOOLEAN
  /\ timers \in Seq({"problem", "bye"})

ProcessInit ==
  /\ exited = FALSE
  /\ exitCode = 0
  /\ shutdown = "idle"
  /\ signals = 0
  /\ problems = 0
  /\ shuttingDown = FALSE
  /\ timers = <<>>

-----------------------------------------------------------------------------
(* ShutdownHandler.exit(): the first code other than 0 counts, and the thread
   runs if it does not yet. *)
CallExit(code) ==
  /\ exitCode' = IF exitCode = 0 THEN code ELSE exitCode
  /\ shutdown' = IF shutdown = "idle" THEN "begun" ELSE shutdown

(* #callbacks.run() returns or throws, and #run goes on to its delay. *)
CallbacksEnd(threw) ==
  /\ shutdown = "callbacks"
  /\ shutdown' = "bye"
  /\ exitCode' = IF threw /\ exitCode = 0 THEN 1 ELSE exitCode
  /\ timers' = Append(timers, "bye")
  /\ UNCHANGED <<exited, signals, problems, shuttingDown>>

(* #handleExitSignal(): the first asks, the fourth insists. *)
ExitSignal ==
  /\ signals < MaxExitSignals
  /\ signals' = signals + 1
  /\ IF signals + 1 = 1
     THEN CallExit(0) /\ UNCHANGED exited
     ELSE IF signals + 1 > 3
          THEN exited' = TRUE /\ exitCode' = 1 /\ UNCHANGED shutdown
          ELSE UNCHANGED <<exited, exitCode, shutdown>>
  /\ UNCHANGED <<problems, shuttingDown, timers>>

(* #handleProblem(): only the first problem leads to exit(1), a moment later. *)
HandleProblem ==
  /\ problems' = problems + 1
  /\ shuttingDown' = TRUE
  /\ timers' = IF shuttingDown THEN timers ELSE Append(timers, "problem")
  /\ UNCHANGED <<exited, exitCode, shutdown, signals>>

(* Some other part of the program throws, with nobody to catch it. *)
StrayProblem ==
  /\ problems < MaxProblems
  /\ HandleProblem

(* Timers with the same delay fire in the order in which they were set. *)
TimerFires ==
  /\ timers # <<>>
  /\ timers' = Tail(timers)
  /\ IF Head(timers) = "problem"
     THEN CallExit(1) /\ UNCHANGED exited
     ELSE exited' = TRUE /\ UNCHANGED <<exitCode, shutdown>>
  /\ UNCHANGED <<signals, problems, shuttingDown>>

-----------------------------------------------------------------------------
(* Whatever went wrong before the last moments of the process is reported: it
   exits with code 0 only if no problem had come up when it began to wait for
   its end. *)
TroubleIsReported ==
  exited /\ exitCode = 0 /\ problems > 0 => \E i \in DOMAIN timers : timers[i] = "problem"
=============================================================================
