------------------------- MODULE SyslogToFile_proofs -------------------------
(***************************************************************************)
(* Proofs about the system log, for any number of events kept, of events   *)
(* and of services: what the source keeps, that a drained sink leaves      *)
(* nothing behind, that its successor leaves no gap, and that each event   *)
(* gets into the file once, in order.                                      *)
(***************************************************************************)
EXTENDS SyslogToFile, FiniteSetTheorems, WellFoundedInduction, TLAPS

-----------------------------------------------------------------------------
(* The inductive invariant.  It is about the source, the sink and the      *)
(* phases of the service; files play no part in it.                        *)
SyncTypes ==
  /\ chain \in Seq(Types) /\ earliest \in Nat
  /\ head \in Nat \ {0} /\ headNow \in HeadStates
  /\ thread \in ThreadPhases
  /\ stopRequested \in BOOLEAN /\ draining \in BOOLEAN
  /\ service \in Phases
  /\ number \in Nat

FinalsTaken == \A i \in 1 .. current : chain[i] = "final" => i < head

(* What is said of the head is true; an event that comes too late for the  *)
(* stop request comes after every end of a log.                            *)
HeadKnown ==
  /\ headNow \in {"settling", "late", "yes"} => head <= current
  /\ headNow = "no" /\ thread # "off" => head > current
  /\ headNow = "late" => FinalsTaken

(* A stop request is a request to drain, and it is not there before the    *)
(* end of the log is.                                                      *)
DrainsOnly ==
  /\ stopRequested => draining
  /\ service \in {"running", "pausing"} =>
       ~stopRequested /\ ~draining /\ thread \in {"looking", "waiting", "failed"}
  /\ thread = "off" =>
       /\ service \in {"off", "starting"}
       /\ \A i \in 1 .. current : chain[i] # "final"
       /\ ~stopRequested

EndedMeansTaken ==
  /\ thread = "ended" => FinalsTaken
  /\ service = "flushing" => thread = "ended"
  /\ service \in {"off", "starting"} => thread \in {"off", "ended"}
  /\ service = "off" /\ number > 0 => thread = "ended"

(* Before the first emission, #earliestEvent is the kickoff event.         *)
Window ==
  earliest = IF current > keepCount THEN current - keepCount
             ELSE IF current > 0 THEN 1 ELSE 0

IInv == SyncTypes /\ Window /\ HeadKnown /\ DrainsOnly /\ EndedMeansTaken

-----------------------------------------------------------------------------
(* A set of natural numbers has a smallest one.                            *)
LEMMA Smallest ==
  ASSUME NEW S \in SUBSET Nat, S # {}
  PROVE  Min(S) \in S /\ \A n \in S : Min(S) <= n
<1>. DEFINE LessThan == OpToRel(<, Nat)
<1>1. \A x, y \in Nat : x < y => <<x, y>> \in LessThan
  BY DEF OpToRel
<1>. HIDE DEF LessThan
<1>2. IsWellFoundedOn(LessThan, Nat)
  BY NatLessThanWellFounded DEF LessThan
<1>3. \E m \in S : \A n \in S : ~ (<<n, m>> \in LessThan)
  BY <1>2, WFMin
<1>4. PICK m \in S : \A n \in S : ~ (<<n, m>> \in LessThan)
  BY <1>3, Zenon
<1>5. \A n \in S : ~ (n < m)
  BY <1>1, <1>4, Zenon
<1>6. \A n \in S : m <= n
  <2>. TAKE n \in S
  <2>1. n \in Nat /\ m \in Nat /\ ~ (n < m)
    BY <1>5, Zenon
  <2>. QED  BY ONLY <2>1
<1>. DEFINE smallest(x) == x \in S /\ \A n \in S : x <= n
<1>7. smallest(m)
  BY <1>6, Zenon
<1>8. Min(S) = CHOOSE x \in S : \A n \in S : x <= n
  BY Zenon DEF Min
<1>9. smallest(CHOOSE x : smallest(x))
  BY <1>7, Zenon
<1>. QED  BY <1>8, <1>9, Zenon

(* Where a new sink begins: at an event that is there or the next to be,   *)
(* and no later than behind the end of some log.                           *)
LEMMA FirstToLogFact ==
  ASSUME IInv
  PROVE  /\ FirstToLog \in Nat \ {0}
         /\ FinalEvents = {} => FirstToLog = EarliestEvent /\ FirstToLog <= current + 1
         /\ FinalEvents # {} => \E i \in FinalEvents : FirstToLog = i + 1
         /\ FinalEvents \in SUBSET (1 .. current)
<1>1. EarliestEvent \in Nat \ {0} /\ EarliestEvent <= current + 1
  BY SourceAssumption
  DEF IInv, SyncTypes, Window, EarliestEvent, emittedCount, current
<1>2. FinalEvents \in SUBSET (1 .. current) /\ FinalEvents \in SUBSET Nat
  BY <1>1 DEF FinalEvents, current, IInv, SyncTypes
<1>3. CASE FinalEvents = {}
  <2>1. FirstToLog = EarliestEvent
    BY <1>3 DEF FirstToLog
  <2>. QED  BY ONLY <1>1, <1>2, <1>3, <2>1
<1>4. CASE FinalEvents # {}
  <2>1. Min(FinalEvents) \in FinalEvents
    BY <1>2, <1>4, Smallest
  <2>2. Min(FinalEvents) \in Nat
    BY <1>2, <2>1
  <2>3. FirstToLog = Min(FinalEvents) + 1
    BY <1>4 DEF FirstToLog
  <2>. QED  BY ONLY <1>2, <1>4, <2>1, <2>2, <2>3
<1>. QED  BY <1>3, <1>4

-----------------------------------------------------------------------------
syncState == <<source, sink, service, number>>
sync == <<source, sink>>

LEMMA InitIInv == Init => IInv
<1>. SUFFICES ASSUME Init PROVE IInv
  OBVIOUS
<1>. USE DEF Init, SourceInit, SinkInit
<1>1. current = 0 /\ chain \in Seq(Types)
  BY DEF current
<1>2. /\ head \in Nat \ {0} /\ headNow \in HeadStates
      /\ thread \in ThreadPhases /\ service \in Phases
      /\ earliest \in Nat /\ number \in Nat
  BY DEF HeadStates, ThreadPhases, Phases
<1>5. stopRequested \in BOOLEAN /\ draining \in BOOLEAN
  BY Zenon
<1>6. SyncTypes
  BY <1>1, <1>2, <1>5 DEF SyncTypes
<1>3. Window
  BY <1>1, SourceAssumption DEF Window
<1>4. HeadKnown /\ DrainsOnly /\ EndedMeansTaken
  BY <1>1 DEF HeadKnown, DrainsOnly, EndedMeansTaken, FinalsTaken
<1>. QED  BY <1>3, <1>4, <1>6 DEF IInv

LEMMA Untouched == ASSUME IInv, UNCHANGED syncState PROVE IInv'
  BY DEF syncState, source, sink, IInv, SyncTypes, Window, HeadKnown, DrainsOnly,
         EndedMeansTaken, FinalsTaken, current

(* Only the phase of the service moves, and not to where it matters.       *)
LEMMA PhaseMoves ==
  ASSUME IInv, UNCHANGED sync, service' \in Phases, number' \in Nat,
         \/ service = "off" /\ service' = "starting"
         \/ service = "running" /\ service' = "pausing" /\ UNCHANGED number
         \/ service' = "failed" /\ thread # "off"
         \/ service = "draining" /\ service' = "flushing" /\ thread = "ended"
         \/ service = "flushing" /\ service' = "off"
  PROVE  IInv'
  BY DEF sync, source, sink, IInv, SyncTypes, Window, HeadKnown, DrainsOnly,
         EndedMeansTaken, FinalsTaken, current, Phases

(* What an emission does to the window, and to the events there are.       *)
LEMMA EmitFact ==
  ASSUME IInv, NEW type \in Types, Emit(type)
  PROVE  /\ chain' \in Seq(Types) /\ current' = current + 1 /\ earliest' \in Nat
         /\ Window'
         /\ \A i \in 1 .. current : chain'[i] = chain[i]
         /\ chain'[current + 1] = type
<1>1. chain' \in Seq(Types) /\ Len(chain') = Len(chain) + 1
  BY DEF IInv, SyncTypes, Emit
<1>2. /\ \A i \in 1 .. Len(chain) : chain'[i] = chain[i]
      /\ chain'[Len(chain) + 1] = type
  BY DEF IInv, SyncTypes, Emit
<1>3. earliest' \in Nat /\ Window'
  BY <1>1, SourceAssumption
  DEF IInv, SyncTypes, Window, Emit, EmitMoves, emittedCount, current
<1>. QED  BY <1>1, <1>2, <1>3 DEF current

LEMMA SomebodyLogsKeeps == ASSUME IInv, SomebodyLogs PROVE IInv'
<1>1. /\ chain' \in Seq(Types) /\ current' = current + 1 /\ earliest' \in Nat
      /\ Window'
      /\ \A i \in 1 .. current : chain'[i] = chain[i]
      /\ chain'[current + 1] = "other"
  BY EmitFact DEF SomebodyLogs, Types
<1>2. current \in Nat
  BY DEF current, IInv, SyncTypes
<1>3. UNCHANGED <<thread, stopRequested, draining, head, service, number>>
  BY DEF SomebodyLogs, HeadHears
<1>4. FinalsTaken => FinalsTaken'
  BY <1>1, <1>2, <1>3 DEF FinalsTaken
<1>5. head = current + 1 => FinalsTaken'
  BY <1>1, <1>2, <1>3 DEF FinalsTaken
<1>6. headNow' = IF head # current + 1 THEN headNow
                 ELSE IF stopRequested THEN "late" ELSE "settling"
  BY DEF SomebodyLogs, HeadHears
<1>7. SyncTypes'
  BY <1>1, <1>3, <1>6 DEF IInv, SyncTypes, HeadStates
<1>8. HeadKnown'
  BY <1>1, <1>2, <1>3, <1>4, <1>5, <1>6 DEF IInv, SyncTypes, HeadKnown, HeadStates
<1>9. DrainsOnly'
  BY <1>1, <1>2, <1>3 DEF IInv, DrainsOnly
<1>10. EndedMeansTaken'
  BY <1>3, <1>4 DEF IInv, EndedMeansTaken
<1>. QED  BY <1>1, <1>7, <1>8, <1>9, <1>10 DEF IInv

(* The sink moves past an event.                                           *)
LEMMA HeadMoves ==
  ASSUME IInv, Running, HeadAdvances, thread' \in {"looking", "failed"},
         UNCHANGED <<source, stopRequested, draining, service, number>>
  PROVE  IInv'
<1>1. /\ chain' = chain /\ earliest' = earliest /\ current' = current
      /\ current \in Nat
      /\ UNCHANGED <<stopRequested, draining, service, number>>
  BY DEF source, current, IInv, SyncTypes
<1>2. /\ head' = head + 1
      /\ headNow' = IF head + 1 <= current THEN "yes" ELSE "no"
  BY DEF HeadAdvances
<1>3. thread \in {"looking", "waiting"}
  BY DEF Running
<1>4. SyncTypes'
  BY <1>1, <1>2 DEF IInv, SyncTypes, HeadStates, ThreadPhases
<1>5. Window' /\ HeadKnown'
  BY <1>1, <1>2 DEF IInv, SyncTypes, Window, HeadKnown
<1>6. DrainsOnly'
  BY <1>1, <1>3 DEF IInv, DrainsOnly
<1>7. EndedMeansTaken'
  BY <1>1, <1>3 DEF IInv, EndedMeansTaken
<1>. QED  BY <1>4, <1>5, <1>6, <1>7 DEF IInv

LEMMA SinkWorksKeeps == ASSUME IInv, SinkWorks PROVE IInv'
<1>1. CASE LogEvent
  BY <1>1, HeadMoves DEF LogEvent, HasEvent, Processed
<1>2. CASE LogEventFails
  BY <1>2, HeadMoves DEF LogEventFails, HasEvent, ProcessorThrew
<1>3. CASE SinkSteps
  <2>1. UNCHANGED <<chain, earliest, service, number>> /\ current' = current
    BY <1>3 DEF SinkSteps, source, current
  <2>2. Window'
    BY <2>1 DEF IInv, Window
  <2>3. CASE HeadSettles
    <3>1. /\ headNow \in {"settling", "late"} /\ headNow' = "yes"
          /\ UNCHANGED <<thread, stopRequested, draining, head>>
      BY <2>3 DEF HeadSettles
    <3>2. HeadKnown' /\ SyncTypes'
      BY <2>1, <3>1 DEF IInv, SyncTypes, HeadKnown, HeadStates
    <3>3. DrainsOnly' /\ EndedMeansTaken'
      BY <2>1, <3>1 DEF IInv, DrainsOnly, EndedMeansTaken, FinalsTaken
    <3>. QED  BY <2>2, <3>2, <3>3 DEF IInv
  <2>4. CASE FindNothing
    <3>1. /\ thread = "looking" /\ thread' = "waiting"
          /\ UNCHANGED <<stopRequested, draining, head, headNow>>
      BY <2>4 DEF FindNothing
    <3>2. HeadKnown' /\ SyncTypes'
      BY <2>1, <3>1 DEF IInv, SyncTypes, HeadKnown, FinalsTaken, ThreadPhases
    <3>3. DrainsOnly' /\ EndedMeansTaken'
      BY <2>1, <3>1 DEF IInv, DrainsOnly, EndedMeansTaken, FinalsTaken
    <3>. QED  BY <2>2, <3>2, <3>3 DEF IInv
  <2>5. CASE EndRun
    <3>1. /\ thread \in {"looking", "waiting"} /\ thread' = "ended"
          /\ UNCHANGED <<stopRequested, draining, head, headNow>>
      BY <2>5 DEF EndRun, Running
    <3>2. stopRequested /\ headNow \in {"no", "late"}
      BY <2>5 DEF EndRun, MayGoOn, IInv, SyncTypes, DrainsOnly
    <3>3. FinalsTaken
      BY <3>1, <3>2 DEF IInv, SyncTypes, HeadKnown, FinalsTaken, current
    <3>4. HeadKnown' /\ SyncTypes'
      BY <2>1, <3>1 DEF IInv, SyncTypes, HeadKnown, FinalsTaken, ThreadPhases
    <3>5. FinalsTaken'
      BY <2>1, <3>1, <3>3 DEF FinalsTaken
    <3>6. DrainsOnly' /\ EndedMeansTaken'
      BY <2>1, <3>1, <3>2, <3>5 DEF IInv, DrainsOnly, EndedMeansTaken
    <3>. QED  BY <2>2, <3>4, <3>6 DEF IInv
  <2>. QED  BY <1>3, <2>3, <2>4, <2>5 DEF SinkSteps
<1>. QED  BY <1>1, <1>2, <1>3 DEF SinkWorks

LEMMA MakeSinkKeeps == ASSUME IInv, MakeSink PROVE IInv'
<1>. DEFINE f == FirstToLog
<1>1. f \in Nat \ {0}
  BY FirstToLogFact
<1>2. /\ UNCHANGED <<chain, earliest, number>> /\ current' = current
      /\ current \in Nat
      /\ service' = "running" /\ head' = f /\ thread' = "looking"
      /\ ~stopRequested' /\ ~draining'
  BY DEF MakeSink, MakeAndStart, source, current, IInv, SyncTypes
<1>3. \/ headNow' = "no" /\ f > current
      \/ headNow' \in {"settling", "yes"} /\ ~ (f > current)
  BY DEF MakeSink, MakeAndStart
<1>4. stopRequested' \in BOOLEAN /\ draining' \in BOOLEAN
  BY Zenon DEF MakeSink, MakeAndStart
<1>. HIDE DEF f
<1>5. SyncTypes'
  BY <1>1, <1>2, <1>3, <1>4
  DEF IInv, SyncTypes, HeadStates, ThreadPhases, Phases
<1>6. Window' /\ HeadKnown'
  BY <1>1, <1>2, <1>3 DEF IInv, Window, HeadKnown
<1>7. DrainsOnly' /\ EndedMeansTaken'
  BY <1>2 DEF DrainsOnly, EndedMeansTaken
<1>. QED  BY <1>5, <1>6, <1>7 DEF IInv

LEMMA PauseOverKeeps == ASSUME IInv, PauseOver PROVE IInv'
<1>1. /\ chain' \in Seq(Types) /\ current' = current + 1 /\ earliest' \in Nat
      /\ Window'
  BY EmitFact DEF PauseOver, Types
<1>2. current \in Nat
  BY DEF current, IInv, SyncTypes
<1>3. /\ service = "pausing" /\ service' = "draining" /\ draining'
      /\ UNCHANGED <<thread, head, number>>
      /\ headNow' = IF head = current + 1 THEN "settling" ELSE headNow
  BY DEF PauseOver, DrainAndStop
<1>4. thread \in {"waiting", "failed"} /\ headNow \notin {"settling", "late"}
  BY <1>3 DEF PauseOver, Quiet, IInv, DrainsOnly
<1>5. stopRequested' \in BOOLEAN /\ draining' \in BOOLEAN
  BY Zenon DEF PauseOver, DrainAndStop
<1>6. SyncTypes'
  BY <1>1, <1>3, <1>5 DEF IInv, SyncTypes, HeadStates, Phases
<1>7. HeadKnown'
  BY <1>1, <1>2, <1>3, <1>4 DEF IInv, SyncTypes, HeadKnown
<1>8. DrainsOnly' /\ EndedMeansTaken'
  BY <1>3, <1>4 DEF DrainsOnly, EndedMeansTaken
<1>. QED  BY <1>1, <1>6, <1>7, <1>8 DEF IInv

LEMMA ServiceKeeps ==
  ASSUME IInv, StartService \/ StopService \/ DrainEnds \/ DrainFails \/ SomeFlushEnds
  PROVE  IInv'
<1>1. CASE StartService
  BY <1>1, PhaseMoves DEF StartService, sync, Phases, IInv, SyncTypes
<1>2. CASE StopService
  BY <1>2, PhaseMoves DEF StopService, sync, Phases, IInv, SyncTypes
<1>3. CASE DrainEnds
  BY <1>3, PhaseMoves DEF DrainEnds, sync, Phases, IInv, SyncTypes
<1>4. CASE DrainFails
  <2>1. thread # "off"
    BY <1>4 DEF DrainFails, IInv, DrainsOnly
  <2>. QED  BY <1>4, <2>1, PhaseMoves DEF DrainFails, sync, Phases, IInv, SyncTypes
<1>5. CASE SomeFlushEnds
  <2>1. thread # "off"
    BY <1>5 DEF SomeFlushEnds, FlushEnds, IInv, EndedMeansTaken
  <2>2. /\ service = "flushing" /\ service' \in {"off", "failed"}
        /\ UNCHANGED sync /\ number' = number
    BY <1>5 DEF SomeFlushEnds, FlushEnds, sync
  <2>. QED  BY <2>1, <2>2, PhaseMoves DEF Phases, IInv, SyncTypes
<1>. QED  BY <1>1, <1>2, <1>3, <1>4, <1>5

-----------------------------------------------------------------------------
LEMMA NextKeeps == ASSUME IInv, [Next]_vars PROVE IInv'
<1>1. CASE BufferTimeOver \/ SomeWriteEnds \/ UNCHANGED vars
  <2>1. UNCHANGED syncState
    BY <1>1 DEF BufferTimeOver, SomeWriteEnds, WriteEnds, vars, syncState
  <2>. QED  BY <2>1, Untouched
<1>. QED
  BY <1>1, SomebodyLogsKeeps, SinkWorksKeeps, MakeSinkKeeps, PauseOverKeeps,
     ServiceKeeps, Zenon DEF Next

THEOREM Invariance == Spec => []IInv
<1>. QED  BY InitIInv, NextKeeps, PTL DEF Spec

(* The source holds on to the current event and exactly the keepCount      *)
(* before it, or all there were: EventSource.emit().                       *)
THEOREM Keeps == Spec => []KeptWindow
<1>1. IInv => KeptWindow
  BY DEF IInv, Window, KeptWindow
<1>. QED  BY <1>1, Invariance, PTL

(* A sink that has been drained and stopped has taken every end of a log   *)
(* that was emitted: EventSink.drainAndStop().                             *)
THEOREM Drained == Spec => []DrainTakesAll
<1>1. IInv => DrainTakesAll
  BY DEF IInv, EndedMeansTaken, FinalsTaken, DrainTakesAll
<1>. QED  BY <1>1, Invariance, PTL

(* Only _impl_start() makes a service run, and the sink that it makes does *)
(* not begin behind where the one before has ended, unless the source no   *)
(* longer has what is between.                                             *)
THEOREM Successive == Spec => NoGap
<1>. DEFINE Gapless ==
       service' = "running" /\ service # "running" =>
         first' <= IF head > EarliestEvent THEN head ELSE EarliestEvent
<1>1. ASSUME IInv, [Next]_vars PROVE [Gapless]_vars
  <2>. SUFFICES ASSUME service' = "running", service # "running" PROVE Gapless
    OBVIOUS
  <2>1. MakeSink
    BY <1>1 DEF Next, vars, SomebodyLogs, StartService, SinkWorks, LogEvent,
      LogEventFails, SinkSteps, StopService, PauseOver, DrainEnds, DrainFails,
      BufferTimeOver, SomeWriteEnds, WriteEnds, SomeFlushEnds, FlushEnds
  <2>2. first' = FirstToLog /\ service = "starting"
    BY <2>1 DEF MakeSink
  <2>3. head \in Nat /\ EarliestEvent \in Nat
    BY <1>1, SourceAssumption
    DEF IInv, SyncTypes, Window, EarliestEvent, emittedCount, current
  <2>4. CASE FinalEvents = {}
    BY <1>1, <2>2, <2>3, <2>4, FirstToLogFact
  <2>5. CASE FinalEvents # {}
    <3>1. PICK i \in FinalEvents : FirstToLog = i + 1
      BY <1>1, <2>5, FirstToLogFact
    <3>2. i \in 1 .. current /\ chain[i] = "final"
      BY <1>1, FirstToLogFact DEF FinalEvents
    <3>3. FinalsTaken
      BY <1>1, <2>2, <3>2 DEF IInv, DrainsOnly, EndedMeansTaken
    <3>4. i < head /\ i \in Nat
      BY <3>2, <3>3 DEF FinalsTaken
    <3>. QED  BY ONLY <2>2, <2>3, <3>1, <3>4
  <2>. QED  BY <2>4, <2>5
<1>. QED  BY <1>1, Invariance, PTL DEF Spec, NoGap

-----------------------------------------------------------------------------
(* The files.  A line is what an event of a service became.                *)
LogLines == [by : Nat, event : Nat]

Writes == [owner : Nat, by : Writers, texts : Seq(LogLines)]

AppenderTypes ==
  /\ buffered \in Seq(LogLines) /\ file \in Seq(LogLines)
  /\ inTheAir \subseteq Writes
  /\ first \in Nat \ {0}

(* Whose lines are where.  The buffer is empty from the last flush() on.   *)
ByOwners ==
  /\ \A k \in DOMAIN buffered : buffered[k].by = number
  /\ \A w \in inTheAir : w.owner <= number /\ \A k \in DOMAIN w.texts : w.texts[k].by = w.owner
  /\ \A k \in DOMAIN file : file[k].by <= number
  /\ service # "off" => number > 0
  /\ service \in {"flushing", "off", "starting"} => buffered = <<>>
  /\ service = "starting" =>
       /\ \A w \in inTheAir : w.owner < number
       /\ \A k \in DOMAIN file : file[k].by < number

(* No line is twice in a piece of text, or in two of them: the contents of *)
(* the file and of the buffer, and those of the writes in the air.         *)
IsIn(line, texts) == \E k \in DOMAIN texts : texts[k] = line
Single(texts) == \A j, k \in DOMAIN texts : texts[j] = texts[k] => j = k
Apart(some, others) == \A j \in DOMAIN some, k \in DOMAIN others : some[j] # others[k]
AllApart(f, b, air) ==
  /\ Single(f) /\ Single(b) /\ Apart(f, b)
  /\ \A w \in air : Single(w.texts) /\ Apart(f, w.texts) /\ Apart(b, w.texts)
  /\ \A v, w \in air : v # w => Apart(v.texts, w.texts)
NoLineTwice == AllApart(file, buffered, inTheAir)

IsHeld(line, f, b, air) ==
  IsIn(line, f) \/ IsIn(line, b) \/ \E w \in air : IsIn(line, w.texts)
IsHeldNow(line) == IsHeld(line, file, buffered, inTheAir)

(* The lines of the current service are those of the events its sink has   *)
(* moved past: all of them until a write fails, and no others.             *)
Taken ==
  /\ first <= head
  /\ service # "starting" =>
       \A line \in LogLines :
         IsHeldNow(line) /\ line.by = number => line.event \in first .. head - 1
Whole ==
  service # "starting" /\ number > 0 /\ ~writeError =>
    \A i \in first .. head - 1 : IsHeldNow(Line(i))

OnceEach == AppenderTypes /\ ByOwners /\ NoLineTwice /\ Taken /\ Whole

-----------------------------------------------------------------------------
(* Pieces of text, one behind the other.                                   *)
LEMMA Behind ==
  ASSUME NEW L, NEW s \in Seq(L), NEW t \in Seq(L)
  PROVE  /\ s \o t \in Seq(L)
         /\ DOMAIN s = 1 .. Len(s) /\ DOMAIN t = 1 .. Len(t)
         /\ DOMAIN (s \o t) = 1 .. Len(s) + Len(t) /\ Len(s) \in Nat /\ Len(t) \in Nat
         /\ \A k \in 1 .. Len(s) : (s \o t)[k] = s[k]
         /\ \A k \in 1 .. Len(t) : (s \o t)[Len(s) + k] = t[k]
         /\ \A k \in DOMAIN (s \o t) :
              \/ k \in 1 .. Len(s) /\ (s \o t)[k] = s[k]
              \/ k - Len(s) \in 1 .. Len(t) /\ (s \o t)[k] = t[k - Len(s)]
  OBVIOUS

LEMMA InBehind ==
  ASSUME NEW L, NEW s \in Seq(L), NEW t \in Seq(L), NEW line
  PROVE  IsIn(line, s \o t) <=> IsIn(line, s) \/ IsIn(line, t)
<1>1. ASSUME IsIn(line, s) PROVE IsIn(line, s \o t)
  <2>1. PICK k \in DOMAIN s : s[k] = line
    BY <1>1 DEF IsIn
  <2>2. k \in DOMAIN (s \o t) /\ (s \o t)[k] = line
    BY <2>1, Behind
  <2>. QED  BY <2>2 DEF IsIn
<1>2. ASSUME IsIn(line, t) PROVE IsIn(line, s \o t)
  <2>1. PICK k \in DOMAIN t : t[k] = line
    BY <1>2 DEF IsIn
  <2>2. Len(s) + k \in DOMAIN (s \o t) /\ (s \o t)[Len(s) + k] = line
    BY <2>1, Behind
  <2>. QED  BY <2>2 DEF IsIn
<1>3. ASSUME IsIn(line, s \o t) PROVE IsIn(line, s) \/ IsIn(line, t)
  <2>1. PICK k \in DOMAIN (s \o t) : (s \o t)[k] = line
    BY <1>3 DEF IsIn
  <2>2. CASE k \in DOMAIN s /\ s[k] = line
    BY <2>2 DEF IsIn
  <2>3. CASE k - Len(s) \in DOMAIN t /\ t[k - Len(s)] = line
    BY <2>3 DEF IsIn
  <2>. QED  BY <2>1, <2>2, <2>3, Behind
<1>. QED  BY <1>1, <1>2, <1>3

LEMMA AppendIsBehind ==
  ASSUME NEW L, NEW s \in Seq(L), NEW x \in L
  PROVE  Append(s, x) = s \o <<x>> /\ <<x>> \in Seq(L)
  OBVIOUS

LEMMA ApartIn ==
  ASSUME NEW s, NEW t
  PROVE  Apart(s, t) <=> \A line : ~ (IsIn(line, s) /\ IsIn(line, t))
<1>1. ASSUME Apart(s, t), NEW line, IsIn(line, s), IsIn(line, t) PROVE FALSE
  BY <1>1 DEF Apart, IsIn
<1>2. ASSUME \A line : ~ (IsIn(line, s) /\ IsIn(line, t)) PROVE Apart(s, t)
  <2>. SUFFICES ASSUME NEW j \in DOMAIN s, NEW k \in DOMAIN t, s[j] = t[k] PROVE FALSE
    BY DEF Apart
  <2>1. IsIn(s[j], s) /\ IsIn(s[j], t)
    BY DEF IsIn
  <2>. QED  BY <1>2, <2>1
<1>. QED  BY <1>1, <1>2

LEMMA SingleBehind ==
  ASSUME NEW L, NEW s \in Seq(L), NEW t \in Seq(L), Single(s), Single(t), Apart(s, t)
  PROVE  Single(s \o t)
<1>. SUFFICES ASSUME NEW j \in DOMAIN (s \o t), NEW k \in DOMAIN (s \o t),
                     (s \o t)[j] = (s \o t)[k]
              PROVE  j = k
  BY DEF Single
<1>1. j \in Nat /\ k \in Nat /\ Len(s) \in Nat
  BY Behind
<1>2. CASE j \in DOMAIN s /\ (s \o t)[j] = s[j]
  <2>1. CASE k \in DOMAIN s /\ (s \o t)[k] = s[k]
    BY <1>2, <2>1 DEF Single
  <2>2. CASE k - Len(s) \in DOMAIN t /\ (s \o t)[k] = t[k - Len(s)]
    BY <1>2, <2>2 DEF Apart
  <2>. QED  BY <2>1, <2>2, Behind
<1>3. CASE j - Len(s) \in DOMAIN t /\ (s \o t)[j] = t[j - Len(s)]
  <2>1. CASE k \in DOMAIN s /\ (s \o t)[k] = s[k]
    BY <1>3, <2>1 DEF Apart
  <2>2. CASE k - Len(s) \in DOMAIN t /\ (s \o t)[k] = t[k - Len(s)]
    <3>1. j - Len(s) = k - Len(s)
      BY <1>3, <2>2 DEF Single
    <3>. QED  BY <1>1, <3>1
  <2>. QED  BY <2>1, <2>2, Behind
<1>. QED  BY <1>2, <1>3, Behind

(* A line that is nowhere is appended to the buffer.                       *)
LEMMA LineAppended ==
  ASSUME NEW L, NEW f \in Seq(L), NEW b \in Seq(L), NEW air, NEW x \in L,
         AllApart(f, b, air), ~ IsHeld(x, f, b, air)
  PROVE  /\ Append(b, x) \in Seq(L)
         /\ AllApart(f, Append(b, x), air)
         /\ \A line : IsHeld(line, f, Append(b, x), air) <=> IsHeld(line, f, b, air) \/ line = x
<1>1. Append(b, x) = b \o <<x>> /\ <<x>> \in Seq(L)
  BY AppendIsBehind
<1>2. \A line : IsIn(line, <<x>>) <=> line = x
  BY DEF IsIn
<1>3. \A line : IsIn(line, Append(b, x)) <=> IsIn(line, b) \/ line = x
  <2>. TAKE line
  <2>1. IsIn(line, b \o <<x>>) <=> IsIn(line, b) \/ IsIn(line, <<x>>)
    BY <1>1, InBehind
  <2>. QED  BY <1>1, <1>2, <2>1
<1>4. Single(<<x>>) /\ Apart(b, <<x>>)
  BY DEF Single, Apart, IsHeld, IsIn
<1>5. Single(Append(b, x))
  BY <1>1, <1>4, SingleBehind DEF AllApart
<1>6. Apart(f, Append(b, x)) /\ \A w \in air : Apart(Append(b, x), w.texts)
  BY <1>3, ApartIn DEF AllApart, IsHeld
<1>7. Append(b, x) \in Seq(L)
  OBVIOUS
<1>. QED  BY <1>3, <1>5, <1>6, <1>7 DEF AllApart, IsHeld

(* What was in the buffer goes into the air.                               *)
LEMMA BufferHandedOn ==
  ASSUME NEW f, NEW b, NEW air, NEW w, w.texts = b, AllApart(f, b, air)
  PROVE  /\ AllApart(f, <<>>, air \union {w})
         /\ \A line : IsHeld(line, f, <<>>, air \union {w}) <=> IsHeld(line, f, b, air)
<1>1. \A line : ~ IsIn(line, <<>>)
  BY DEF IsIn
<1>2. Single(<<>>) /\ \A t : Apart(<<>>, t) /\ Apart(t, <<>>)
  BY DEF Single, Apart
<1>3. \A v \in air : Apart(v.texts, w.texts) /\ Apart(w.texts, v.texts)
  BY ApartIn DEF AllApart
<1>. QED  BY <1>1, <1>2, <1>3 DEF AllApart, IsHeld

(* A write ends: its text is in the file, or lost.                         *)
LEMMA WriteLanded ==
  ASSUME NEW L, NEW f \in Seq(L), NEW b, NEW air, NEW w \in air, w.texts \in Seq(L),
         AllApart(f, b, air)
  PROVE  /\ f \o w.texts \in Seq(L)
         /\ AllApart(f \o w.texts, b, air \ {w})
         /\ AllApart(f, b, air \ {w})
         /\ \A line : IsHeld(line, f \o w.texts, b, air \ {w}) <=> IsHeld(line, f, b, air)
         /\ \A line : IsHeld(line, f, b, air \ {w}) => IsHeld(line, f, b, air)
         /\ \A line : IsHeld(line, f, b, air) =>
                        IsHeld(line, f, b, air \ {w}) \/ IsIn(line, w.texts)
<1>1. \A line : IsIn(line, f \o w.texts) <=> IsIn(line, f) \/ IsIn(line, w.texts)
  BY InBehind
<1>2. Single(f \o w.texts)
  BY SingleBehind DEF AllApart
<1>3. Apart(f \o w.texts, b) /\ \A v \in air \ {w} : Apart(f \o w.texts, v.texts)
  BY <1>1, ApartIn DEF AllApart
<1>4. f \o w.texts \in Seq(L)
  OBVIOUS
<1>5. AllApart(f \o w.texts, b, air \ {w}) /\ AllApart(f, b, air \ {w})
  BY <1>2, <1>3 DEF AllApart
<1>6. \A line : IsHeld(line, f \o w.texts, b, air \ {w}) <=> IsHeld(line, f, b, air)
  BY <1>1 DEF IsHeld
<1>. QED  BY <1>4, <1>5, <1>6 DEF IsHeld

-----------------------------------------------------------------------------
(* The steps keep every line where it was, or move it.                     *)
LEMMA InitOnceEach == Init => OnceEach
<1>. SUFFICES ASSUME Init PROVE OnceEach
  OBVIOUS
<1>. USE DEF Init, AppenderInit, SinkInit
<1>1. AppenderTypes
  BY DEF AppenderTypes
<1>2. ByOwners
  BY DEF ByOwners
<1>3. NoLineTwice
  BY DEF NoLineTwice, AllApart, Single, Apart
<1>4. Taken /\ Whole
  BY DEF Taken, Whole, IsHeldNow, IsHeld, IsIn
<1>. QED  BY <1>1, <1>2, <1>3, <1>4 DEF OnceEach

(* The appender rests; the sink may only move past an event if a write has *)
(* failed before.                                                          *)
LEMMA AppenderRests ==
  ASSUME IInv, OnceEach, UNCHANGED <<appender, number, first>>,
         head' = head \/ (head' = head + 1 /\ writeError),
         \/ service' = service
         \/ service \notin {"off", "starting"} /\ service' \notin {"flushing", "off", "starting"}
  PROVE  OnceEach'
<1>1. /\ UNCHANGED <<buffered, file, inTheAir, loop, writeError, first, number>>
      /\ head \in Nat /\ first \in Nat
  BY DEF appender, IInv, SyncTypes, OnceEach, AppenderTypes
<1>2. AppenderTypes'
  BY <1>1 DEF OnceEach, AppenderTypes
<1>3. ByOwners'
  BY <1>1 DEF OnceEach, ByOwners
<1>4. NoLineTwice'
  BY <1>1 DEF OnceEach, NoLineTwice
<1>5. \A line : IsHeldNow(line)' <=> IsHeldNow(line)
  BY <1>1 DEF IsHeldNow
<1>6. Taken'
  BY <1>1, <1>5 DEF OnceEach, Taken
<1>7. Whole'
  BY <1>1, <1>5 DEF OnceEach, Whole, Line
<1>. QED  BY <1>2, <1>3, <1>4, <1>6, <1>7 DEF OnceEach

(* The sink's thread hands over an event: its line is new, and is in the   *)
(* buffer or in the air then.                                              *)
LEMMA LogEventOnce == ASSUME IInv, OnceEach, LogEvent PROVE OnceEach'
<1>. DEFINE line == [by |-> number, event |-> head]
            b    == Append(buffered, line)
            w    == [owner |-> number, by |-> "loop", texts |-> b]
<1>1. /\ number \in Nat /\ head \in Nat \ {0} /\ first \in Nat \ {0}
      /\ service \notin {"flushing", "off", "starting"}
      /\ UNCHANGED <<service, number, first, file, writeError>> /\ head' = head + 1
  BY DEF LogEvent, HasEvent, Running, Processed, HeadAdvances, AppendText, IInv, SyncTypes,
         EndedMeansTaken, OnceEach, AppenderTypes
<1>2. number > 0 => Line(head) = line
  BY DEF Line
<1>3. \/ buffered' = b /\ UNCHANGED inTheAir
      \/ buffered' = <<>> /\ inTheAir' = inTheAir \union {w}
  BY DEF LogEvent, AppendText, WriteNow, Line
<1>a. line \in LogLines /\ line.by = number /\ line.event = head
  BY <1>1 DEF LogLines
<1>. HIDE DEF line
<1>4. /\ buffered \in Seq(LogLines) /\ file \in Seq(LogLines)
      /\ ~ IsHeld(line, file, buffered, inTheAir)
  <2>1. head \notin first .. head - 1
    BY <1>1
  <2>. QED  BY <1>1, <1>a, <2>1 DEF OnceEach, AppenderTypes, Taken, IsHeldNow
<1>5. /\ b \in Seq(LogLines)
      /\ AllApart(file, b, inTheAir)
      /\ \A l : IsHeld(l, file, b, inTheAir) <=> IsHeld(l, file, buffered, inTheAir) \/ l = line
  BY <1>a, <1>4, LineAppended DEF OnceEach, NoLineTwice
<1>6. /\ AllApart(file, <<>>, inTheAir \union {w})
      /\ \A l : IsHeld(l, file, <<>>, inTheAir \union {w}) <=> IsHeld(l, file, b, inTheAir)
  <2>1. w.texts = b
    OBVIOUS
  <2>. HIDE DEF w, b
  <2>. QED  BY <1>5, <2>1, BufferHandedOn
<1>7. NoLineTwice'
  BY <1>1, <1>3, <1>5, <1>6 DEF NoLineTwice
<1>8. \A l : IsHeldNow(l)' <=> IsHeldNow(l) \/ l = line
  BY <1>1, <1>3, <1>5, <1>6 DEF IsHeldNow
<1>9. \A k \in DOMAIN b : b[k].by = number
  BY <1>a, <1>4 DEF OnceEach, ByOwners
<1>. HIDE DEF b
<1>10. AppenderTypes'
  <2>1. w \in Writes
    BY <1>1, <1>5 DEF Writers, Writes
  <2>. HIDE DEF w
  <2>2. inTheAir' \subseteq Writes
    BY <1>3, <2>1 DEF OnceEach, AppenderTypes
  <2>3. <<>> \in Seq(LogLines)
    OBVIOUS
  <2>4. buffered' \in Seq(LogLines)
    BY <1>3, <1>5, <2>3
  <2>. QED  BY <1>1, <2>2, <2>4 DEF OnceEach, AppenderTypes
<1>11. ByOwners'
  <2>1. w.owner = number /\ w.texts = b
    OBVIOUS
  <2>. HIDE DEF w
  <2>. QED  BY <1>1, <1>3, <1>9, <2>1 DEF OnceEach, ByOwners
<1>12. Taken'
  <2>. SUFFICES ASSUME NEW l \in LogLines, IsHeldNow(l)', l.by = number
                PROVE  l.event \in first .. head
    BY <1>1 DEF OnceEach, Taken
  <2>1. CASE l = line
    BY <1>1, <1>a, <2>1 DEF OnceEach, Taken
  <2>2. CASE IsHeldNow(l)
    BY <1>1, <2>2 DEF OnceEach, Taken
  <2>. QED  BY <1>8, <2>1, <2>2
<1>13. Whole'
  <2>. SUFFICES ASSUME ~writeError, NEW i \in first .. head PROVE IsHeldNow(Line(i))'
    BY <1>1 DEF Whole
  <2>0. PICK l : l = Line(i)
    OBVIOUS
  <2>1. Line(i)' = l
    BY <1>1, <2>0 DEF Line
  <2>2. CASE i = head
    BY <1>8, <2>0, <2>1, <2>2 DEF line, Line, IsHeldNow
  <2>3. CASE i # head
    <3>1. number > 0 /\ i \in first .. head - 1
      BY <1>1, <2>3 DEF OnceEach, ByOwners
    <3>2. IsHeldNow(Line(i))
      BY <1>1, <3>1 DEF OnceEach, Whole
    <3>. QED  BY <1>8, <2>0, <2>1, <3>2 DEF IsHeldNow
  <2>. QED  BY <2>2, <2>3
<1>. QED  BY <1>7, <1>10, <1>11, <1>12, <1>13 DEF OnceEach

(* Lines that only move stay the lines of the events that were taken.      *)
LEMMA LinesMove ==
  ASSUME IInv, OnceEach, UNCHANGED <<number, first, head>>,
         service' # "starting" => service # "starting",
         ~writeError' => ~writeError,
         \A line : IsHeldNow(line)' => IsHeldNow(line),
         ~writeError' => \A line : line.by = number /\ IsHeldNow(line) => IsHeldNow(line)'
  PROVE  Taken' /\ Whole'
<1>1. Taken'
  BY DEF OnceEach, Taken
<1>2. Whole'
  <2>. SUFFICES ASSUME service' # "starting", number > 0, ~writeError',
                       NEW i \in first .. head - 1
                PROVE  IsHeldNow(Line(i))'
    BY DEF Whole
  <2>1. PICK line : line = Line(i)
    OBVIOUS
  <2>2. Line(i)' = line /\ line.by = number
    BY <2>1 DEF Line
  <2>3. IsHeldNow(line)
    BY <2>1 DEF OnceEach, Whole
  <2>4. IsHeldNow(line)'
    BY <2>2, <2>3
  <2>. QED  BY <2>2, <2>4 DEF IsHeldNow
<1>. QED  BY <1>1, <1>2

(* #writeNow() begins, from the timer or from flush().                     *)
LEMMA HandedOn ==
  ASSUME IInv, OnceEach, NEW by \in Writers, WriteNow(number, by, buffered, inTheAir),
         UNCHANGED <<file, number, first, head, writeError>>,
         service # "starting", number > 0,
         service' = service \/ service' = "flushing"
  PROVE  OnceEach'
<1>1. PICK w : w = [owner |-> number, by |-> by, texts |-> buffered]
  OBVIOUS
<1>2. w.owner = number /\ w.texts = buffered /\ w \in Writes
  BY <1>1 DEF Writes, IInv, SyncTypes, OnceEach, AppenderTypes
<1>3. inTheAir' = inTheAir \union {w} /\ buffered' = <<>>
  BY <1>1 DEF WriteNow
<1>4. /\ AllApart(file, <<>>, inTheAir \union {w})
      /\ \A l : IsHeld(l, file, <<>>, inTheAir \union {w}) <=> IsHeld(l, file, buffered, inTheAir)
  BY <1>2, BufferHandedOn DEF OnceEach, NoLineTwice
<1>5. NoLineTwice' /\ \A l : IsHeldNow(l)' <=> IsHeldNow(l)
  BY <1>3, <1>4 DEF NoLineTwice, IsHeldNow
<1>6. AppenderTypes'
  <2>1. <<>> \in Seq(LogLines)
    OBVIOUS
  <2>. QED  BY <1>2, <1>3, <2>1 DEF OnceEach, AppenderTypes
<1>7. ByOwners'
  <2>1. number \in Nat /\ \A k \in DOMAIN w.texts : w.texts[k].by = w.owner
    BY <1>2 DEF OnceEach, ByOwners, IInv, SyncTypes
  <2>. QED  BY <1>2, <1>3, <2>1 DEF OnceEach, ByOwners
<1>8. Taken' /\ Whole'
  BY <1>5, LinesMove
<1>. QED  BY <1>5, <1>6, <1>7, <1>8 DEF OnceEach

(* #writeNow() goes on after its await, and may begin again at once.       *)
LEMMA Landed ==
  ASSUME IInv, OnceEach, NEW w \in inTheAir, NEW ok \in BOOLEAN,
         file' = IF ok THEN file \o w.texts ELSE file,
         \/ inTheAir' = inTheAir \ {w} /\ buffered' = buffered
         \/ WriteNow(number, "loop", buffered, inTheAir \ {w}) /\ service # "starting",
         UNCHANGED <<number, first, head>>,
         \/ writeError' = (writeError \/ ~ok)
         \/ w.owner # number /\ UNCHANGED writeError,
         service' = service \/ (service = "flushing" /\ service' \in {"off", "failed"})
  PROVE  OnceEach'
<1>. DEFINE a == inTheAir \ {w}
<1>1. /\ w \in Writes /\ w.texts \in Seq(LogLines) /\ file \in Seq(LogLines)
      /\ buffered \in Seq(LogLines) /\ number \in Nat
  BY DEF OnceEach, AppenderTypes, Writes, IInv, SyncTypes
<1>2. /\ file' \in Seq(LogLines)
      /\ AllApart(file', buffered, a)
      /\ \A l : IsHeld(l, file', buffered, a) => IsHeld(l, file, buffered, inTheAir)
      /\ \A l : IsHeld(l, file, buffered, inTheAir) =>
                  IsHeld(l, file', buffered, a) \/ (~ok /\ IsIn(l, w.texts))
  <2>1. CASE ok
    BY <1>1, <2>1, WriteLanded DEF OnceEach, NoLineTwice
  <2>2. CASE ~ok
    BY <1>1, <2>2, WriteLanded DEF OnceEach, NoLineTwice
  <2>. QED  BY <2>1, <2>2
<1>3. PICK v : v = [owner |-> number, by |-> "loop", texts |-> buffered]
  OBVIOUS
<1>4. v.owner = number /\ v.texts = buffered /\ v \in Writes
  BY <1>1, <1>3 DEF Writes, Writers
<1>5. \/ inTheAir' = a /\ buffered' = buffered
      \/ inTheAir' = a \union {v} /\ buffered' = <<>> /\ service # "starting"
  BY <1>3 DEF WriteNow
<1>6. /\ AllApart(file', <<>>, a \union {v})
      /\ \A l : IsHeld(l, file', <<>>, a \union {v}) <=> IsHeld(l, file', buffered, a)
  BY <1>2, <1>4, BufferHandedOn
<1>7. NoLineTwice'
  BY <1>2, <1>5, <1>6 DEF NoLineTwice
<1>8. \A l : IsHeldNow(l)' <=> IsHeld(l, file', buffered, a)
  BY <1>5, <1>6 DEF IsHeldNow
<1>9. AppenderTypes'
  <2>1. <<>> \in Seq(LogLines)
    OBVIOUS
  <2>2. buffered' \in Seq(LogLines) /\ inTheAir' \subseteq Writes
    BY <1>1, <1>4, <1>5, <2>1 DEF OnceEach, AppenderTypes
  <2>. QED  BY <1>2, <2>2 DEF OnceEach, AppenderTypes
<1>10. ByOwners'
  <2>1. \A k \in DOMAIN v.texts : v.texts[k].by = v.owner
    BY <1>4 DEF OnceEach, ByOwners
  <2>2. w.owner <= number /\ \A k \in DOMAIN w.texts : w.texts[k].by = w.owner
    BY DEF OnceEach, ByOwners
  <2>3. \A k \in DOMAIN file' : file'[k].by <= number /\ (service = "starting" => file'[k].by < number)
    <3>1. CASE ok
      <4>. SUFFICES ASSUME NEW k \in DOMAIN (file \o w.texts)
                    PROVE  /\ (file \o w.texts)[k].by <= number
                           /\ service = "starting" => (file \o w.texts)[k].by < number
        BY <3>1
      <4>1. CASE k \in DOMAIN file /\ (file \o w.texts)[k] = file[k]
        BY <4>1 DEF OnceEach, ByOwners
      <4>2. CASE k - Len(file) \in DOMAIN w.texts /\ (file \o w.texts)[k] = w.texts[k - Len(file)]
        <5>1. (file \o w.texts)[k].by = w.owner
          BY <2>2, <4>2
        <5>2. service = "starting" => w.owner < number
          BY DEF OnceEach, ByOwners
        <5>. QED  BY <2>2, <5>1, <5>2
      <4>. QED  BY <1>1, <4>1, <4>2, Behind
    <3>2. CASE ~ok
      BY <3>2 DEF OnceEach, ByOwners
    <3>. QED  BY <3>1, <3>2
  <2>4. \A u \in inTheAir' :
          /\ u.owner <= number /\ \A k \in DOMAIN u.texts : u.texts[k].by = u.owner
          /\ service = "starting" => u.owner < number
    BY <1>1, <1>4, <1>5, <2>1 DEF OnceEach, ByOwners
  <2>5. \A k \in DOMAIN buffered' : buffered'[k].by = number
    BY <1>5 DEF OnceEach, ByOwners
  <2>6. buffered = <<>> => buffered' = <<>>
    BY <1>5
  <2>7. /\ service' # "off" => service # "off"
        /\ service' \in {"flushing", "off", "starting"} =>
             service \in {"flushing", "off", "starting"}
        /\ service' = "starting" => service = "starting"
    OBVIOUS
  <2>. QED  BY <2>3, <2>4, <2>5, <2>6, <2>7 DEF OnceEach, ByOwners
<1>11. ~writeError' => \A l : l.by = number /\ IsHeldNow(l) => IsHeldNow(l)'
  <2>. SUFFICES ASSUME ~writeError', NEW l, l.by = number, IsHeldNow(l) PROVE IsHeldNow(l)'
    OBVIOUS
  <2>1. IsHeld(l, file', buffered, a) \/ (~ok /\ IsIn(l, w.texts))
    BY <1>2 DEF IsHeldNow
  <2>2. CASE ~ok /\ IsIn(l, w.texts)
    <3>1. w.owner # number
      BY <2>2
    <3>2. l.by = w.owner
      BY <2>2 DEF IsIn, OnceEach, ByOwners
    <3>. QED  BY <3>1, <3>2
  <2>. QED  BY <1>8, <2>1, <2>2
<1>12. ~writeError' => ~writeError
  OBVIOUS
<1>13. \A l : IsHeldNow(l)' => IsHeldNow(l)
  BY <1>2, <1>8 DEF IsHeldNow
<1>14. Taken' /\ Whole'
  BY <1>11, <1>12, <1>13, LinesMove
<1>. QED  BY <1>7, <1>9, <1>10, <1>14 DEF OnceEach

LEMMA StartOnce == ASSUME IInv, OnceEach, StartService PROVE OnceEach'
<1>1. /\ number \in Nat /\ number' = number + 1 /\ service = "off" /\ service' = "starting"
      /\ UNCHANGED <<buffered, file, inTheAir, first, head>>
  BY DEF StartService, appender, sink, IInv, SyncTypes
<1>2. AppenderTypes' /\ NoLineTwice'
  BY <1>1 DEF OnceEach, AppenderTypes, NoLineTwice
<1>3. ByOwners'
  <2>1. buffered' = <<>>
    BY <1>1 DEF OnceEach, ByOwners
  <2>2. \A w \in inTheAir : w.owner \in Nat
    BY DEF OnceEach, AppenderTypes, Writes
  <2>3. \A k \in DOMAIN file : file[k].by \in Nat
    <3>1. \A k \in DOMAIN file : file[k] \in LogLines
      BY DEF OnceEach, AppenderTypes
    <3>. QED  BY <3>1 DEF LogLines
  <2>. QED  BY <1>1, <2>1, <2>2, <2>3 DEF OnceEach, ByOwners
<1>4. Taken' /\ Whole'
  BY <1>1 DEF OnceEach, Taken, Whole
<1>. QED  BY <1>2, <1>3, <1>4 DEF OnceEach

LEMMA MakeSinkOnce == ASSUME IInv, OnceEach, MakeSink PROVE OnceEach'
<1>1. /\ number' = number /\ service = "starting" /\ service' = "running"
      /\ buffered' = <<>> /\ UNCHANGED <<file, inTheAir>>
      /\ first' = FirstToLog /\ head' = FirstToLog /\ FirstToLog \in Nat \ {0}
  BY FirstToLogFact DEF MakeSink, NewAppender, MakeAndStart
<1>2. buffered = <<>>
  BY <1>1 DEF OnceEach, ByOwners
<1>3. AppenderTypes' /\ NoLineTwice'
  BY <1>1, <1>2 DEF OnceEach, AppenderTypes, NoLineTwice
<1>4. ByOwners'
  BY <1>1, <1>2 DEF OnceEach, ByOwners
<1>5. \A line : line.by = number => ~ IsHeldNow(line)'
  <2>. SUFFICES ASSUME NEW line, line.by = number, IsHeldNow(line)' PROVE FALSE
    OBVIOUS
  <2>1. IsIn(line, file) \/ \E w \in inTheAir : IsIn(line, w.texts)
    BY <1>1 DEF IsHeldNow, IsHeld, IsIn
  <2>2. \A w \in inTheAir : w.owner \in Nat
    BY DEF OnceEach, AppenderTypes, Writes
  <2>3. number \in Nat
    BY DEF IInv, SyncTypes
  <2>. QED  BY <1>1, <2>1, <2>2, <2>3 DEF OnceEach, ByOwners, IsIn
<1>6. Taken' /\ Whole'
  BY <1>1, <1>5 DEF Taken, Whole
<1>. QED  BY <1>3, <1>4, <1>6 DEF OnceEach

LEMMA WritesOnce ==
  ASSUME IInv, OnceEach, DrainEnds \/ BufferTimeOver \/ SomeWriteEnds \/ SomeFlushEnds
  PROVE  OnceEach'
<1>1. CASE DrainEnds
  <2>1. service = "draining" /\ number > 0
    BY <1>1 DEF DrainEnds, OnceEach, ByOwners
  <2>2. /\ WriteNow(number, "flush", buffered, inTheAir) /\ service' = "flushing"
        /\ UNCHANGED <<file, number, first, head, writeError>>
    BY <1>1 DEF DrainEnds, Flush, sink
  <2>. QED  BY <2>1, <2>2, HandedOn DEF Writers
<1>2. CASE BufferTimeOver
  <2>1. UNCHANGED <<file, number, first, head, writeError, service>>
    BY <1>2 DEF BufferTimeOver, TimerFires, sink
  <2>2. CASE UNCHANGED <<inTheAir, buffered>>
    <3>1. Taken' /\ Whole'
      BY <2>1, <2>2, LinesMove DEF IsHeldNow
    <3>. QED  BY <2>1, <2>2, <3>1 DEF OnceEach, AppenderTypes, ByOwners, NoLineTwice
  <2>3. CASE buffered # <<>> /\ WriteNow(number, "loop", buffered, inTheAir)
    <3>1. service # "starting" /\ number > 0
      BY <2>3 DEF OnceEach, ByOwners
    <3>. QED  BY <2>1, <2>3, <3>1, HandedOn DEF Writers
  <2>. QED  BY <1>2, <2>2, <2>3 DEF BufferTimeOver, TimerFires, LoopGoesOn
<1>3. ASSUME NEW w \in inTheAir, NEW ok \in BOOLEAN, WriteEnds(w, ok) PROVE OnceEach'
  <2>1. UNCHANGED <<number, first, head, service>>
    BY <1>3 DEF WriteEnds, sink
  <2>2. CASE LoopWriteEnds(number, w, ok)
    <3>1. buffered # <<>> => service # "starting"
      BY DEF OnceEach, ByOwners
    <3>2. /\ file' = IF ok THEN file \o w.texts ELSE file
          /\ writeError' = (writeError \/ ~ok)
          /\ \/ inTheAir' = inTheAir \ {w} /\ buffered' = buffered
             \/ WriteNow(number, "loop", buffered, inTheAir \ {w}) /\ service # "starting"
      BY <2>2, <3>1 DEF LoopWriteEnds, LoopWriteReturns, LoopGoesOn
    <3>. QED  BY <2>1, <3>2, Landed
  <2>3. CASE OldLoopWriteEnds(number, w, ok)
    <3>1. /\ file' = IF ok THEN file \o w.texts ELSE file
          /\ w.owner # number /\ UNCHANGED writeError
          /\ inTheAir' = inTheAir \ {w} /\ buffered' = buffered
      BY <2>3 DEF OldLoopWriteEnds
    <3>. QED  BY <2>1, <3>1, Landed
  <2>. QED  BY <1>3, <2>2, <2>3 DEF WriteEnds
<1>4. ASSUME NEW w \in inTheAir, NEW ok \in BOOLEAN, FlushEnds(w, ok) PROVE OnceEach'
  <2>1. /\ UNCHANGED <<number, first, head>>
        /\ service = "flushing" /\ service' \in {"off", "failed"}
        /\ file' = IF ok THEN file \o w.texts ELSE file
        /\ writeError' = (writeError \/ ~ok)
        /\ inTheAir' = inTheAir \ {w} /\ buffered' = buffered
    BY <1>4 DEF FlushEnds, FlushWriteEnds, sink
  <2>. QED  BY <2>1, Landed
<1>. QED  BY <1>1, <1>2, <1>3, <1>4 DEF SomeWriteEnds, SomeFlushEnds

LEMMA RestOnce ==
  ASSUME IInv, OnceEach,
         \/ SomebodyLogs \/ LogEventFails \/ SinkSteps \/ StopService \/ PauseOver
         \/ DrainFails \/ UNCHANGED vars
  PROVE  OnceEach'
<1>1. CASE SomebodyLogs \/ SinkSteps \/ UNCHANGED vars
  BY <1>1, AppenderRests DEF SomebodyLogs, HeadHears, SinkSteps, HeadSettles, FindNothing,
     EndRun, vars, sink
<1>2. CASE LogEventFails
  BY <1>2, AppenderRests DEF LogEventFails, ProcessorThrew, HeadAdvances
<1>3. CASE StopService \/ PauseOver \/ DrainFails
  BY <1>3, AppenderRests DEF StopService, PauseOver, DrainFails, DrainAndStop, sink
<1>. QED  BY <1>1, <1>2, <1>3

LEMMA NextOnce == ASSUME IInv, OnceEach, [Next]_vars PROVE OnceEach'
  BY StartOnce, MakeSinkOnce, WritesOnce, RestOnce, LogEventOnce, Zenon DEF Next, SinkWorks

-----------------------------------------------------------------------------
(* What the invariant says of the places a line is at.                     *)
LEMMA OnePlace ==
  ASSUME OnceEach, NEW line, IsHeldNow(line)
  PROVE  \E x : Copies(line) = {x}
<1>1. /\ Single(file) /\ Single(buffered) /\ Apart(file, buffered)
      /\ \A w \in inTheAir : Single(w.texts) /\ Apart(file, w.texts) /\ Apart(buffered, w.texts)
      /\ \A v, w \in inTheAir : v # w => Apart(v.texts, w.texts)
  BY DEF OnceEach, NoLineTwice, AllApart
<1>2. CASE IsIn(line, file)
  <2>1. PICK k \in DOMAIN file : file[k] = line
    BY <1>2 DEF IsIn
  <2>2. Where(line, file) = {k}
    BY <1>1, <2>1 DEF Where, Single
  <2>3. Where(line, buffered) = {} /\ \A w \in inTheAir : Where(line, w.texts) = {}
    BY <1>1, <2>1 DEF Where, Apart
  <2>4. Copies(line) = {<<"file", k>>}
    BY <2>2, <2>3 DEF Copies
  <2>. QED  BY <2>4
<1>3. CASE IsIn(line, buffered)
  <2>1. PICK k \in DOMAIN buffered : buffered[k] = line
    BY <1>3 DEF IsIn
  <2>2. Where(line, buffered) = {k}
    BY <1>1, <2>1 DEF Where, Single
  <2>3. Where(line, file) = {} /\ \A w \in inTheAir : Where(line, w.texts) = {}
    BY <1>1, <2>1 DEF Where, Apart
  <2>4. Copies(line) = {<<"buffer", k>>}
    BY <2>2, <2>3 DEF Copies
  <2>. QED  BY <2>4
<1>4. ASSUME NEW w \in inTheAir, IsIn(line, w.texts) PROVE \E x : Copies(line) = {x}
  <2>1. PICK k \in DOMAIN w.texts : w.texts[k] = line
    BY <1>4 DEF IsIn
  <2>2. Where(line, w.texts) = {k}
    BY <1>1, <2>1 DEF Where, Single
  <2>3. /\ Where(line, file) = {} /\ Where(line, buffered) = {}
        /\ \A v \in inTheAir : v # w => Where(line, v.texts) = {}
    BY <1>1, <2>1 DEF Where, Apart
  <2>4. Copies(line) = {<<"air", w, k>>}
    BY <2>2, <2>3 DEF Copies
  <2>. QED  BY <2>4
<1>. QED  BY <1>2, <1>3, <1>4 DEF IsHeldNow, IsHeld

LEMMA NoPlace ==
  ASSUME NEW line, ~ IsHeldNow(line)
  PROVE  Copies(line) = {}
<1>1. /\ Where(line, file) = {} /\ Where(line, buffered) = {}
      /\ \A w \in inTheAir : Where(line, w.texts) = {}
  BY DEF IsHeldNow, IsHeld, IsIn, Where
<1>. QED  BY <1>1 DEF Copies

LEMMA OnceEachMeansOnce == ASSUME IInv, OnceEach PROVE EveryEventOnce
<1>. SUFFICES ASSUME service # "starting", number > 0, ~writeError, NEW i \in 1 .. current
              PROVE  TimesLogged(Line(i)) = IF i \in first .. head - 1 THEN 1 ELSE 0
  BY DEF EveryEventOnce
<1>1. CASE i \in first .. head - 1
  <2>1. IsHeldNow(Line(i))
    BY <1>1 DEF OnceEach, Whole
  <2>2. PICK x : Copies(Line(i)) = {x}
    BY <2>1, OnePlace
  <2>. QED  BY <1>1, <2>2, FS_Singleton DEF TimesLogged
<1>2. CASE i \notin first .. head - 1
  <2>1. Line(i) \in LogLines /\ Line(i).by = number /\ Line(i).event = i
    BY DEF Line, LogLines, current, IInv, SyncTypes
  <2>2. ~ IsHeldNow(Line(i))
    BY <1>2, <2>1 DEF OnceEach, Taken
  <2>. QED  BY <1>2, <2>2, NoPlace, FS_EmptySet DEF TimesLogged
<1>. QED  BY <1>1, <1>2

-----------------------------------------------------------------------------
(* Until the last flush(), the lines of the current service are in order in *)
(* the file, the one write in the air and the buffer.                      *)
InOrderIn(n, texts) ==
  \A j, k \in DOMAIN texts :
    j < k /\ texts[j].by = n /\ texts[k].by = n => texts[j].event < texts[k].event
Before(n, some, others) ==
  \A j \in DOMAIN some, k \in DOMAIN others :
    some[j].by = n /\ others[k].by = n => some[j].event < others[k].event
InRows(n, f, b, air) ==
  /\ InOrderIn(n, f) /\ InOrderIn(n, b) /\ Before(n, f, b)
  /\ \A w \in air : InOrderIn(n, w.texts) /\ Before(n, f, w.texts) /\ Before(n, w.texts, b)
OwnAir == {w \in inTheAir : w.owner = number}
Ordered ==
  service \in {"running", "pausing", "draining"} =>
    /\ InRows(number, file, buffered, OwnAir)
    /\ \A w \in OwnAir : loop = "writing" /\ w.by = "loop"
    /\ \A v, w \in OwnAir : v = w

LEMMA OrderBehind ==
  ASSUME NEW L, NEW s \in Seq(L), NEW t \in Seq(L), NEW n,
         InOrderIn(n, s), InOrderIn(n, t), Before(n, s, t)
  PROVE  InOrderIn(n, s \o t)
<1>. SUFFICES ASSUME NEW j \in DOMAIN (s \o t), NEW k \in DOMAIN (s \o t), j < k,
                     (s \o t)[j].by = n, (s \o t)[k].by = n
              PROVE  (s \o t)[j].event < (s \o t)[k].event
  BY DEF InOrderIn
<1>1. j \in Nat /\ k \in Nat /\ Len(s) \in Nat /\ DOMAIN s = 1 .. Len(s)
  BY Behind
<1>2. CASE j \in DOMAIN s /\ (s \o t)[j] = s[j]
  <2>1. CASE k \in DOMAIN s /\ (s \o t)[k] = s[k]
    BY <1>2, <2>1 DEF InOrderIn
  <2>2. CASE k - Len(s) \in DOMAIN t /\ (s \o t)[k] = t[k - Len(s)]
    BY <1>2, <2>2 DEF Before
  <2>. QED  BY <2>1, <2>2, Behind
<1>3. CASE j - Len(s) \in DOMAIN t /\ (s \o t)[j] = t[j - Len(s)]
  <2>1. CASE k \in DOMAIN s /\ (s \o t)[k] = s[k]
    <3>1. j > Len(s)
      BY <1>1, <1>3, Behind
    <3>. QED  BY <1>1, <2>1, <3>1
  <2>2. CASE k - Len(s) \in DOMAIN t /\ (s \o t)[k] = t[k - Len(s)]
    <3>1. j - Len(s) < k - Len(s)
      BY <1>1
    <3>. QED  BY <1>3, <2>2, <3>1 DEF InOrderIn
  <2>. QED  BY <2>1, <2>2, Behind
<1>. QED  BY <1>2, <1>3, Behind

LEMMA BeforeBehind ==
  ASSUME NEW L, NEW s \in Seq(L), NEW t \in Seq(L), NEW n, NEW u
  PROVE  /\ Before(n, s, u) /\ Before(n, t, u) => Before(n, s \o t, u)
         /\ Before(n, u, s) /\ Before(n, u, t) => Before(n, u, s \o t)
<1>1. \A k \in DOMAIN (s \o t) :
        \/ k \in DOMAIN s /\ (s \o t)[k] = s[k]
        \/ k - Len(s) \in DOMAIN t /\ (s \o t)[k] = t[k - Len(s)]
  BY Behind
<1>2. ASSUME Before(n, s, u), Before(n, t, u) PROVE Before(n, s \o t, u)
  BY <1>1, <1>2 DEF Before
<1>3. ASSUME Before(n, u, s), Before(n, u, t) PROVE Before(n, u, s \o t)
  BY <1>1, <1>3 DEF Before
<1>. QED  BY <1>2, <1>3

(* A line is appended that comes after everything there is.                *)
LEMMA RowsGrow ==
  ASSUME NEW L, NEW f \in Seq(L), NEW b \in Seq(L), NEW air, NEW x \in L, NEW n,
         InRows(n, f, b, air),
         Before(n, f, <<x>>), Before(n, b, <<x>>), \A w \in air : Before(n, w.texts, <<x>>)
  PROVE  InRows(n, f, Append(b, x), air)
<1>1. Append(b, x) = b \o <<x>> /\ <<x>> \in Seq(L)
  BY AppendIsBehind
<1>2. InOrderIn(n, <<x>>)
  BY DEF InOrderIn
<1>3. InOrderIn(n, Append(b, x))
  BY <1>1, <1>2, OrderBehind DEF InRows
<1>4. Before(n, f, Append(b, x)) /\ \A w \in air : Before(n, w.texts, Append(b, x))
  BY <1>1, BeforeBehind DEF InRows
<1>. QED  BY <1>3, <1>4 DEF InRows

(* The buffer is handed on when nothing is in the air.                     *)
LEMMA RowsHandedOn ==
  ASSUME NEW n, NEW f, NEW b, NEW w, w.texts = b, InRows(n, f, b, {})
  PROVE  InRows(n, f, <<>>, {w})
<1>1. InOrderIn(n, <<>>) /\ \A t : Before(n, t, <<>>)
  BY DEF InOrderIn, Before
<1>. QED  BY <1>1 DEF InRows

(* The one write in the air ends.                                          *)
LEMMA RowsLanded ==
  ASSUME NEW L, NEW n, NEW f \in Seq(L), NEW b, NEW w, w.texts \in Seq(L),
         InRows(n, f, b, {w})
  PROVE  InRows(n, f \o w.texts, b, {}) /\ InRows(n, f, b, {})
<1>1. /\ InOrderIn(n, w.texts) /\ Before(n, f, w.texts) /\ Before(n, w.texts, b)
      /\ InOrderIn(n, f) /\ InOrderIn(n, b) /\ Before(n, f, b)
  BY DEF InRows
<1>2. InOrderIn(n, f \o w.texts)
  BY <1>1, OrderBehind
<1>3. Before(n, f \o w.texts, b)
  BY <1>1, BeforeBehind
<1>. QED  BY <1>1, <1>2, <1>3 DEF InRows

(* A write of another owner ends.                                          *)
LEMMA RowsOthers ==
  ASSUME NEW L, NEW n, NEW f \in Seq(L), NEW b, NEW air, NEW t \in Seq(L),
         \A k \in DOMAIN t : t[k].by # n, InRows(n, f, b, air)
  PROVE  InRows(n, f \o t, b, air)
<1>1. InOrderIn(n, t) /\ Before(n, f, t) /\ \A u : Before(n, t, u)
  BY DEF InOrderIn, Before
<1>2. InOrderIn(n, f \o t)
  BY <1>1, OrderBehind DEF InRows
<1>3. Before(n, f \o t, b) /\ \A w \in air : Before(n, f \o t, w.texts)
  BY <1>1, BeforeBehind DEF InRows
<1>. QED  BY <1>2, <1>3 DEF InRows

(* A new service has no line anywhere yet.                                 *)
LEMMA MakeSinkOrders == ASSUME IInv, OnceEach, MakeSink PROVE Ordered'
<1>1. /\ number' = number /\ number \in Nat /\ service = "starting"
      /\ buffered' = <<>> /\ UNCHANGED <<file, inTheAir>>
  BY DEF MakeSink, NewAppender, IInv, SyncTypes
<1>2. \A w \in inTheAir : w.owner \in Nat /\ w.owner < number
  BY <1>1 DEF OnceEach, AppenderTypes, Writes, ByOwners
<1>3. OwnAir' = {}
  BY <1>1, <1>2 DEF OwnAir
<1>4. \A k \in DOMAIN file : file[k].by # number
  <2>1. \A k \in DOMAIN file : file[k] \in LogLines /\ file[k].by < number
    BY <1>1 DEF OnceEach, AppenderTypes, ByOwners
  <2>2. \A k \in DOMAIN file : file[k].by \in Nat
    BY <2>1 DEF LogLines
  <2>. QED  BY <1>1, <2>1, <2>2
<1>5. InRows(number, file, <<>>, {})
  BY <1>4 DEF InRows, InOrderIn, Before
<1>. QED  BY <1>1, <1>3, <1>5 DEF Ordered

(* Everything that is held comes before the event that is taken now.       *)
LEMMA LogEventOrders == ASSUME IInv, OnceEach, Ordered, LogEvent PROVE Ordered'
<1>. DEFINE line == [by |-> number, event |-> head]
            b    == Append(buffered, line)
            w    == [owner |-> number, by |-> "loop", texts |-> b]
<1>1. /\ number \in Nat /\ head \in Nat \ {0} /\ first \in Nat \ {0}
      /\ service # "starting" /\ number > 0
      /\ UNCHANGED <<service, number, file>>
  BY DEF LogEvent, HasEvent, Running, Processed, HeadAdvances, AppendText, IInv, SyncTypes,
         EndedMeansTaken, OnceEach, AppenderTypes, ByOwners
<1>2. /\ loop # "idle" \/ loop' \in {"timer", "writing"}
      /\ \/ buffered' = b /\ UNCHANGED inTheAir /\ (loop # "idle" => loop' = loop)
         \/ /\ buffered' = <<>> /\ inTheAir' = inTheAir \union {w}
            /\ loop = "idle" /\ loop' = "writing"
  BY <1>1 DEF LogEvent, AppendText, WriteNow, Line
<1>3. line \in LogLines /\ line.by = number /\ line.event = head
  BY <1>1 DEF LogLines
<1>. HIDE DEF line
<1>. SUFFICES ASSUME service \in {"running", "pausing", "draining"}
              PROVE  Ordered'
  BY <1>1 DEF Ordered
<1>4. /\ buffered \in Seq(LogLines) /\ file \in Seq(LogLines)
      /\ \A v \in inTheAir : v.texts \in Seq(LogLines)
  BY DEF OnceEach, AppenderTypes, Writes
<1>5. \A l \in LogLines : IsHeldNow(l) /\ l.by = number => l.event < head
  BY <1>1 DEF OnceEach, Taken
<1>6. ASSUME NEW t \in Seq(LogLines), \A l : IsIn(l, t) => IsHeldNow(l)
      PROVE  Before(number, t, <<line>>)
  <2>. SUFFICES ASSUME NEW k \in DOMAIN t, t[k].by = number PROVE t[k].event < head
    BY <1>3 DEF Before
  <2>1. t[k] \in LogLines /\ IsIn(t[k], t)
    BY DEF IsIn
  <2>. QED  BY <1>5, <1>6, <2>1
<1>7. /\ Before(number, file, <<line>>) /\ Before(number, buffered, <<line>>)
      /\ \A v \in OwnAir : Before(number, v.texts, <<line>>)
  BY <1>4, <1>6 DEF IsHeldNow, IsHeld, OwnAir
<1>8. InRows(number, file, b, OwnAir)
  BY <1>3, <1>4, <1>7, RowsGrow DEF Ordered
<1>9. CASE buffered' = b /\ UNCHANGED inTheAir /\ (loop # "idle" => loop' = loop)
  <2>1. OwnAir' = OwnAir
    BY <1>1, <1>9 DEF OwnAir
  <2>. HIDE DEF b
  <2>. QED  BY <1>1, <1>8, <1>9, <2>1 DEF Ordered
<1>10. CASE /\ buffered' = <<>> /\ inTheAir' = inTheAir \union {w}
            /\ loop = "idle" /\ loop' = "writing"
  <2>1. OwnAir = {}
    BY <1>10 DEF Ordered
  <2>2. w.owner = number /\ w.by = "loop" /\ w.texts = b
    OBVIOUS
  <2>. HIDE DEF w, b
  <2>3. OwnAir' = {w}
    BY <1>1, <1>10, <2>1, <2>2 DEF OwnAir
  <2>4. InRows(number, file, <<>>, {w})
    BY <1>8, <2>1, <2>2, RowsHandedOn
  <2>. QED  BY <1>1, <1>10, <2>2, <2>3, <2>4 DEF Ordered
<1>. QED  BY <1>2, <1>9, <1>10

LEMMA TimerOrders == ASSUME IInv, OnceEach, Ordered, BufferTimeOver PROVE Ordered'
<1>1. UNCHANGED <<file, number, service>> /\ loop = "timer"
  BY DEF BufferTimeOver, TimerFires
<1>. SUFFICES ASSUME service \in {"running", "pausing", "draining"} PROVE Ordered'
  BY <1>1 DEF Ordered
<1>2. OwnAir = {} /\ InRows(number, file, buffered, {})
  BY <1>1 DEF Ordered
<1>3. CASE UNCHANGED <<inTheAir, buffered>>
  <2>1. OwnAir' = {}
    BY <1>1, <1>2, <1>3 DEF OwnAir
  <2>. QED  BY <1>1, <1>2, <1>3, <2>1 DEF Ordered
<1>4. CASE WriteNow(number, "loop", buffered, inTheAir) /\ loop' = "writing"
  <2>1. PICK w : w = [owner |-> number, by |-> "loop", texts |-> buffered]
    OBVIOUS
  <2>2. w.owner = number /\ w.by = "loop" /\ w.texts = buffered
    BY <2>1
  <2>3. inTheAir' = inTheAir \union {w} /\ buffered' = <<>>
    BY <1>4, <2>1 DEF WriteNow
  <2>4. OwnAir' = {w}
    BY <1>1, <1>2, <2>2, <2>3 DEF OwnAir
  <2>5. InRows(number, file, <<>>, {w})
    BY <1>2, <2>2, RowsHandedOn
  <2>. QED  BY <1>1, <1>4, <2>2, <2>3, <2>4, <2>5 DEF Ordered
<1>. QED  BY <1>3, <1>4 DEF BufferTimeOver, TimerFires, LoopGoesOn

LEMMA WriteOrders ==
  ASSUME IInv, OnceEach, Ordered, NEW w \in inTheAir, NEW ok \in BOOLEAN, WriteEnds(w, ok)
  PROVE  Ordered'
<1>1. UNCHANGED <<number, service>> /\ file' = IF ok THEN file \o w.texts ELSE file
  BY DEF WriteEnds, LoopWriteEnds, OldLoopWriteEnds
<1>2. /\ w.texts \in Seq(LogLines) /\ file \in Seq(LogLines)
      /\ \A k \in DOMAIN w.texts : w.texts[k].by = w.owner
  BY DEF OnceEach, AppenderTypes, Writes, ByOwners
<1>. SUFFICES ASSUME service \in {"running", "pausing", "draining"} PROVE Ordered'
  BY <1>1 DEF Ordered
<1>3. CASE LoopWriteEnds(number, w, ok)
  <2>1. w \in OwnAir
    BY <1>3 DEF LoopWriteEnds, LoopWriteReturns, OwnAir
  <2>2. OwnAir = {w}
    BY <2>1 DEF Ordered
  <2>3. InRows(number, file', buffered, {})
    BY <1>1, <1>2, <2>2, RowsLanded DEF Ordered
  <2>4. CASE inTheAir' = inTheAir \ {w} /\ UNCHANGED buffered
    <3>1. OwnAir' = {}
      BY <1>1, <2>2, <2>4 DEF OwnAir
    <3>. QED  BY <1>1, <2>3, <2>4, <3>1 DEF Ordered
  <2>5. CASE WriteNow(number, "loop", buffered, inTheAir \ {w}) /\ loop' = "writing"
    <3>1. PICK v : v = [owner |-> number, by |-> "loop", texts |-> buffered]
      OBVIOUS
    <3>2. v.owner = number /\ v.by = "loop" /\ v.texts = buffered
      BY <3>1
    <3>3. inTheAir' = (inTheAir \ {w}) \union {v} /\ buffered' = <<>>
      BY <2>5, <3>1 DEF WriteNow
    <3>4. OwnAir' = {v}
      BY <1>1, <2>2, <3>2, <3>3 DEF OwnAir
    <3>5. InRows(number, file', <<>>, {v})
      BY <2>3, <3>2, RowsHandedOn
    <3>. QED  BY <1>1, <2>5, <3>2, <3>3, <3>4, <3>5 DEF Ordered
  <2>. QED  BY <1>3, <2>4, <2>5 DEF LoopWriteEnds, LoopWriteReturns, LoopGoesOn
<1>4. CASE OldLoopWriteEnds(number, w, ok)
  <2>1. w.owner # number /\ inTheAir' = inTheAir \ {w} /\ UNCHANGED <<buffered, loop>>
    BY <1>4 DEF OldLoopWriteEnds
  <2>2. OwnAir' = OwnAir
    BY <1>1, <2>1 DEF OwnAir
  <2>3. InRows(number, file', buffered, OwnAir)
    BY <1>1, <1>2, <2>1, RowsOthers DEF Ordered
  <2>. QED  BY <1>1, <2>1, <2>2, <2>3 DEF Ordered
<1>. QED  BY <1>3, <1>4 DEF WriteEnds

LEMMA NextOrders == ASSUME IInv, OnceEach, Ordered, [Next]_vars PROVE Ordered'
<1>1. CASE \/ SomebodyLogs \/ LogEventFails \/ SinkSteps \/ StopService \/ PauseOver
           \/ DrainFails \/ UNCHANGED vars
  <2>1. UNCHANGED appender /\ UNCHANGED number
    BY <1>1 DEF SomebodyLogs, LogEventFails, SinkSteps, StopService, PauseOver, DrainFails, vars
  <2>2. service' \in {"running", "pausing", "draining"} =>
          service \in {"running", "pausing", "draining"}
    BY <1>1 DEF SomebodyLogs, LogEventFails, SinkSteps, StopService, PauseOver, DrainFails, vars
  <2>3. OwnAir' = OwnAir
    BY <2>1 DEF OwnAir, appender
  <2>. QED  BY <2>1, <2>2, <2>3 DEF Ordered, appender
<1>2. CASE StartService \/ DrainEnds \/ SomeFlushEnds
  <2>1. service' \in {"starting", "flushing", "off", "failed"}
    BY <1>2 DEF StartService, DrainEnds, SomeFlushEnds, FlushEnds
  <2>. QED  BY <2>1 DEF Ordered
<1>3. CASE SomeWriteEnds
  BY <1>3, WriteOrders DEF SomeWriteEnds
<1>. QED
  BY <1>1, <1>2, <1>3, MakeSinkOrders, LogEventOrders, TimerOrders, Zenon DEF Next, SinkWorks

(* Every event that the sink has moved past is logged exactly once until a *)
(* write fails, and the lines of the service are in the file in the order  *)
(* of the events until it flushes: FileAppender's loop, timer and buffer,  *)
(* and the hand-over from the sink of TextFileSink.                        *)
THEOREM OnceInOrder == Spec => []LoggedOnceInOrder
<1>1. Init => Ordered
  BY DEF Init, Ordered
<1>2. IInv /\ OnceEach /\ Ordered => LoggedOnceInOrder
  <2>1. ASSUME Ordered PROVE InOrder
    BY <2>1 DEF Ordered, InRows, InOrderIn, InOrder
  <2>. QED  BY <2>1, OnceEachMeansOnce DEF LoggedOnceInOrder
<1>. QED
  BY <1>1, <1>2, InitIInv, NextKeeps, InitOnceEach, NextOnce, NextOrders, PTL DEF Spec
=============================================================================
