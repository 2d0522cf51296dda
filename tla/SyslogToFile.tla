---------------------------- MODULE SyslogToFile ----------------------------
(***************************************************************************)
(* The system log, src/webapp-builtins/export/SyslogToFile.js: a service   *)
(* with a sink (src/loggy/export/TextFileSink.js, an EventSink) that takes *)
(* every event of the system's one source and puts it into the buffer of   *)
(* its FileAppender.                                                       *)
(*                                                                         *)
(* On a reload of the system the service is stopped, another one is made   *)
(* from the new configuration and started: a new sink with a new appender, *)
(* which has to find out from the chain of events where the last one left  *)
(* off.  The last thing a service logs is an event of a type of its own.   *)
(*                                                                         *)
(* Everybody emits events, at any time.  All of the sink's work is done in *)
(* microtasks; timers and files are not.                                   *)
(***************************************************************************)
EXTENDS EventSink, FileAppender, FiniteSetsExt

CONSTANT MaxServices    \* bound: services made, one per load of the system

ASSUME ServicesAssumption == MaxServices \in Nat

VARIABLES
  service,        \* where the service is
  number,         \* which service it is: 0 before the first
  first           \* history: the event that the sink began with

vars == <<source, sink, appender, service, number, first>>

(***************************************************************************)
(* "off"       not started, or stopped                                     *)
(* "starting"  in _impl_start(), before the sink is made                   *)
(* "running"   _impl_start() has returned                                  *)
(* "pausing"   in _impl_stop(), in its 100 msec                            *)
(* "draining"  in drainAndStop(), awaiting the sink's thread               *)
(* "flushing"  in drainAndStop(), awaiting flush()                         *)
(* "failed"    _impl_stop() has thrown                                     *)
(***************************************************************************)
Phases == {"off", "starting", "running", "pausing", "draining", "flushing",
           "failed"}

(* What the sink writes of an event: a line, which names the service. *)
Line(i) == [by |-> number, event |-> i]
Lines == [by : 1 .. MaxServices, event : Nat \ {0}]

TypeOK ==
  /\ SourceTypeOK
  /\ SinkTypeOK
  /\ AppenderTypeOK(Lines, 1 .. MaxServices)
  /\ service \in Phases
  /\ number \in 0 .. MaxServices
  /\ first \in Nat \ {0}

Init ==
  /\ SourceInit
  /\ SinkInit
  /\ AppenderInit
  /\ service = "off"
  /\ number = 0
  /\ first = 1

-----------------------------------------------------------------------------
(* Somebody logs something. *)
SomebodyLogs ==
  /\ current < MaxEvents
  /\ Emit("other")
  /\ HeadHears
  /\ UNCHANGED <<appender, service, number, first>>

(* _impl_start(), up to the awaits for the directory and the file *)
StartService ==
  /\ service = "off"
  /\ number < MaxServices
  /\ service' = "starting"
  /\ number' = number + 1
  /\ UNCHANGED <<source, sink, appender, first>>

(* The events still kept that end a predecessor's log. *)
FinalEvents == {i \in EarliestEvent .. current : chain[i] = "final"}

(* #findEarliestEventToLog(): EventTracker.advanceSync() stops at the first
   event that matches. *)
FirstToLog ==
  IF FinalEvents = {} THEN EarliestEvent ELSE Min(FinalEvents) + 1

(* What it returns is a promise (nextPromise, or earliestEvent before the
   first emission), except when no end is found. *)
MakeSink ==
  /\ service = "starting"
  /\ NewAppender
  /\ MakeAndStart(FirstToLog, FinalEvents # {})
  /\ service' = "running"
  /\ first' = FirstToLog
  /\ UNCHANGED <<source, number>>

(* The sink's thread hands the event to TextFileSink.#process(). *)
LogEvent ==
  /\ HasEvent
  /\ AppendText(number, Line(head))
  /\ Processed
  /\ UNCHANGED <<source, service, number, first>>

(* Likewise; appendText() throws the error of an earlier write. *)
LogEventFails ==
  /\ HasEvent
  /\ writeError
  /\ ProcessorThrew
  /\ UNCHANGED <<source, appender, service, number, first>>

SinkSteps ==
  /\ HeadSettles \/ FindNothing \/ EndRun
  /\ UNCHANGED <<source, appender, service, number, first>>

-----------------------------------------------------------------------------
(* _impl_stop(), up to its await for 100 msec *)
StopService ==
  /\ service = "running"
  /\ service' = "pausing"
  /\ UNCHANGED <<source, sink, appender, number, first>>

(* All of the sink's microtasks have been run, as they are before a timer. *)
Quiet ==
  /\ thread # "looking"
  /\ headNow \notin {"settling", "late"}
  /\ ~HasEvent

(* Mutant of PauseOver: the sink is stopped first, and then the end of the
   log is logged. *)
PauseOverStopFirst ==
  /\ service = "pausing"
  /\ Quiet
  /\ Emit("final")
  /\ headNow' = IF head # current + 1 THEN headNow
                ELSE IF Running THEN "late" ELSE "settling"
  /\ DrainAndStop
  /\ service' = "draining"
  /\ UNCHANGED <<appender, number, first>>

(* _impl_stop() goes on: it logs the end of the log, and calls
   drainAndStop(). *)
PauseOver ==
  /\ service = "pausing"
  /\ Quiet
  /\ Emit("final")
  /\ headNow' = IF head = current + 1 THEN "settling" ELSE headNow
  /\ DrainAndStop
  /\ service' = "draining"
  /\ UNCHANGED <<appender, number, first>>

(* drainAndStop() of TextFileSink, after the thread has returned *)
DrainEnds ==
  /\ service = "draining"
  /\ thread = "ended"
  /\ ~writeError
  /\ Flush(number)
  /\ service' = "flushing"
  /\ UNCHANGED <<source, sink, number, first>>

(* The thread has thrown, or flush() throws the error of an earlier write. *)
DrainFails ==
  /\ service = "draining"
  /\ ~Running
  /\ thread = "failed" \/ writeError
  /\ service' = "failed"
  /\ UNCHANGED <<source, sink, appender, number, first>>

(* flush() returns, and so does _impl_stop(); or flush() throws, for its own
   write or the one of the loop. *)
FlushEnds(w, ok) ==
  /\ service = "flushing"
  /\ FlushWriteEnds(number, w, ok)
  /\ service' = IF writeError' THEN "failed" ELSE "off"
  /\ UNCHANGED <<source, sink, number, first>>

BufferTimeOver ==
  /\ TimerFires(number)
  /\ UNCHANGED <<source, sink, service, number, first>>

WriteEnds(w, ok) ==
  /\ LoopWriteEnds(number, w, ok) \/ OldLoopWriteEnds(number, w, ok)
  /\ UNCHANGED <<source, sink, service, number, first>>

SomeWriteEnds == \E w \in inTheAir, ok \in BOOLEAN : WriteEnds(w, ok)
SomeFlushEnds == \E w \in inTheAir, ok \in BOOLEAN : FlushEnds(w, ok)

SinkWorks == LogEvent \/ LogEventFails \/ SinkSteps

(* The system ends when nothing is left to do and no service is to come. *)
Next ==
  \/ SomebodyLogs
  \/ StartService \/ MakeSink
  \/ SinkWorks
  \/ StopService \/ PauseOver \/ DrainEnds \/ DrainFails
  \/ BufferTimeOver \/ SomeWriteEnds \/ SomeFlushEnds

(* JavaScript runs every microtask and every timer that is due, and the
   file system answers.  Nobody has to log anything or to stop the service. *)
Fairness ==
  /\ WF_vars(SinkWorks)
  /\ WF_vars(MakeSink)
  /\ WF_vars(PauseOver)
  /\ WF_vars(DrainEnds \/ DrainFails)
  /\ WF_vars(BufferTimeOver)
  /\ \A n \in 1 .. MaxServices :
       /\ WF_vars(\E w \in inTheAir, ok \in BOOLEAN : w.owner = n /\ WriteEnds(w, ok))
       /\ WF_vars(\E w \in inTheAir, ok \in BOOLEAN : w.owner = n /\ FlushEnds(w, ok))

Spec == Init /\ [][Next]_vars /\ Fairness

-----------------------------------------------------------------------------
TimesLogged(line) == Cardinality(Copies(line))

(* Whatever way the sink is woken, the buffer is handed on and a stop comes  *)
(* between: until a write fails, each event from the one that the current    *)
(* sink began with to the last it has moved past is exactly once in the      *)
(* file, in the air or in the buffer, and no other is.                       *)
(* (FileAppender.js:97-165, EventSink.js:123-190)                            *)
EveryEventOnce ==
  (service # "starting" /\ number > 0 /\ ~writeError) =>
    \A i \in 1 .. current :
      TimesLogged(Line(i)) = IF i \in first .. head - 1 THEN 1 ELSE 0

(* Until a service flushes its log, the file has its lines in the order of   *)
(* the events, though there are a timer, a loop and a buffer between: one    *)
(* write is in the air at a time.  (FileAppender.js:112-115, 150-165)        *)
InOrder ==
  service \in {"running", "pausing", "draining"} =>
    \A i, j \in DOMAIN file :
      (i < j /\ file[i].by = number /\ file[j].by = number)
        => file[i].event < file[j].event

(* The log has every event once, and in order: both of the above.            *)
LoggedOnceInOrder == EveryEventOnce /\ InOrder

(* When the sink has been drained and stopped, everything that had been      *)
(* logged by then, the end of the log with it, has been taken by the sink:   *)
(* neither the stop request nor the microtasks that an event takes to be     *)
(* known makes it leave one behind.  (EventSink.js:77-80, 123-144)           *)
DrainTakesAll ==
  (service = "flushing" \/ (service = "off" /\ number > 0)) =>
    \A i \in 1 .. current : chain[i] = "final" => i < head

(* Between a service and its successor no event is lost that the source      *)
(* still has: the successor begins no later than where the predecessor's     *)
(* sink has ended, or with the earliest event there is.                      *)
(* (SyslogToFile.js:86-105, EventSource.js:173-207)                          *)
NoGap ==
  [][service' = "running" /\ service # "running" =>
       first' <= IF head > EarliestEvent THEN head ELSE EarliestEvent]_vars

(* A service that is told to stop does, or fails to because a write has      *)
(* failed, whatever is logged meanwhile.  (SyslogToFile.js:58-73)            *)
StopEnds == (service = "pausing") ~> (service \in {"off", "failed"})

=============================================================================
