----------------------------- MODULE EventSink -----------------------------
(***************************************************************************)
(* The consumer of a chain of events, src/async/export/EventSink.js: a     *)
(* thread that hands one event after the other to a processor, until it is *)
(* asked to stop, or to stop once everything known has been handed over.   *)
(*                                                                         *)
(* The thread is a Threadlet (Threadlet.tla) without a start function.     *)
(* #head is an EventOrPromise (src/async/private/EventOrPromise.js), whose *)
(* event is known at once when the next event was there as #head moved     *)
(* on, and else a microtask after it was emitted.                          *)
(***************************************************************************)
EXTENDS EventSource

VARIABLES
  thread,         \* where the thread is
  stopRequested,  \* RunnerAccess.shouldStop()
  draining,       \* #draining
  head,           \* #head: the first event that has not been processed
  headNow         \* what #head.eventNow says of it

sink == <<thread, stopRequested, draining, head, headNow>>

(***************************************************************************)
(* "off"      not started yet                                              *)
(* "looking"  in the first pass of #headEvent                              *)
(* "waiting"  in the second pass, at raceWhenStopRequested()               *)
(* "ended"    #run has returned                                            *)
(* "failed"   the processor has thrown                                     *)
(***************************************************************************)
ThreadPhases == {"off", "looking", "waiting", "ended", "failed"}
Running == thread \in {"looking", "waiting"}

(***************************************************************************)
(* "no"        the event has not been emitted                              *)
(* "settling"  it has, the microtask that will tell is queued              *)
(* "late"      likewise, but the stop request was queued first             *)
(* "yes"       eventNow is the event                                       *)
(***************************************************************************)
HeadStates == {"no", "settling", "late", "yes"}

SinkTypeOK ==
  /\ thread \in ThreadPhases
  /\ stopRequested \in BOOLEAN
  /\ draining \in BOOLEAN
  /\ head \in Nat \ {0}
  /\ headNow \in HeadStates

SinkInit ==
  /\ thread = "off"
  /\ stopRequested = FALSE
  /\ draining = FALSE
  /\ head = 1
  /\ headNow = "no"

-----------------------------------------------------------------------------
(* new EventSink(processor, firstEvent), and start(), which returns when
   #run has begun.  firstEvent may be the event or a promise for it. *)
MakeAndStart(firstEvent, isPromise) ==
  /\ head' = firstEvent
  /\ headNow' = IF firstEvent > current THEN "no"
                ELSE IF isPromise THEN "settling" ELSE "yes"
  /\ thread' = "looking"
  /\ stopRequested' = FALSE
  /\ draining' = FALSE

(* What an emission does to #head, when that is the event emitted. *)
HeadHears ==
  /\ headNow' = IF head # current + 1 THEN headNow
                ELSE IF stopRequested THEN "late" ELSE "settling"
  /\ UNCHANGED <<thread, stopRequested, draining, head>>

(* EventOrPromise, #makePromise(): eventNow is set. *)
HeadSettles ==
  /\ headNow \in {"settling", "late"}
  /\ headNow' = "yes"
  /\ UNCHANGED <<thread, stopRequested, draining, head>>

(* EventOrPromise, next *)
HeadAdvances ==
  /\ head' = head + 1
  /\ headNow' = IF head + 1 <= current THEN "yes" ELSE "no"

(* Mutant of MayGoOn: a stop request ends the thread at once. *)
MayGoOnUndrained == ~stopRequested

(* #headEvent: the test before it looks at the event *)
MayGoOn == draining \/ ~stopRequested

(* #headEvent returns an event. *)
HasEvent ==
  /\ Running
  /\ MayGoOn
  /\ headNow = "yes"

(* The first pass finds nothing, the second begins. *)
FindNothing ==
  /\ thread = "looking"
  /\ MayGoOn
  /\ headNow # "yes"
  /\ thread' = "waiting"
  /\ UNCHANGED <<stopRequested, draining, head, headNow>>

(* Mutant of EndRun: a thread that waits is not woken by a stop request. *)
EndRunUnwoken ==
  /\ Running /\ ~MayGoOn
  /\ thread' = "ended"
  /\ UNCHANGED <<stopRequested, draining, head, headNow>>

(* #headEvent returns null, and #run returns: the thread may not go on, or
   the wait was ended by the stop request and there still is no event. *)
EndRun ==
  /\ \/ Running /\ ~MayGoOn
     \/ thread = "waiting" /\ stopRequested /\ headNow \in {"no", "late"}
  /\ thread' = "ended"
  /\ UNCHANGED <<stopRequested, draining, head, headNow>>

(* The processor has dealt with the event (#runStep's finally clause moves
   #head in either case). *)
Processed == HeadAdvances /\ thread' = "looking" /\ UNCHANGED <<stopRequested, draining>>
ProcessorThrew == HeadAdvances /\ thread' = "failed" /\ UNCHANGED <<stopRequested, draining>>

(* drainAndStop() up to its await: a thread that has ended already is left
   alone by Threadlet.stop(). *)
DrainAndStop ==
  /\ draining' = TRUE
  /\ stopRequested' = (stopRequested \/ Running)
  /\ UNCHANGED <<thread, head>>
=============================================================================
