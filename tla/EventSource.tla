---------------------------- MODULE EventSource ----------------------------
(***************************************************************************)
(* A chain of events and the source that emits on it:                      *)
(* src/async/export/LinkedEvent.js and EventSource.js.                     *)
(*                                                                         *)
(* The chain is the sequence of what was emitted; event i is chain[i] and  *)
(* the event after it is event i + 1, once that is there.  Event 0 is the  *)
(* kickoff event, which only exists to have a next one.  An event that     *)
(* nobody can reach any more is garbage; the source itself holds on to     *)
(* `earliest`, from where the last keepCount events before the current one *)
(* can be walked.                                                          *)
(***************************************************************************)
EXTENDS Integers, Sequences

CONSTANTS
  keepCount,      \* #keepCount: how many past events to keep
  MaxEvents       \* bound: events emitted

ASSUME SourceAssumption ==
  /\ keepCount \in Nat
  /\ MaxEvents \in Nat

VARIABLES
  chain,          \* the events emitted so far: the type of each
  earliest        \* #earliestEvent

source == <<chain, earliest>>

(* An event is either one of this service's own end-of-log markers or     *)
(* anything else.                                                          *)
Types == {"final", "other"}

SourceTypeOK ==
  /\ chain \in Seq(Types)
  /\ earliest \in Nat

SourceInit ==
  /\ chain = <<>>
  /\ earliest = 0

-----------------------------------------------------------------------------
(* #currentEvent, and #emittedCount *)
current == Len(chain)
emittedCount == Len(chain)

(* Mutant of EmitMoves: the window is moved one event too early. *)
EmitMovesEarly ==
  earliest' = IF emittedCount >= keepCount /\ emittedCount > 0
              THEN earliest + 1
              ELSE IF emittedCount = 0 THEN current + 1 ELSE earliest

(* What emit() does to #earliestEvent. *)
EmitMoves ==
  earliest' = IF emittedCount > keepCount
              THEN earliest + 1
              ELSE IF emittedCount = 0 THEN current + 1 ELSE earliest

(* emit() *)
Emit(type) ==
  /\ chain' = Append(chain, type)
  /\ EmitMoves

(* The event that earliestEventNow, or else the promise earliestEvent,
   stands for: before anything was emitted, the first that will be. *)
EarliestEvent == IF emittedCount > 0 THEN earliest ELSE 1

-----------------------------------------------------------------------------
(* The source holds on to the current event and exactly the keepCount     *)
(* events before it, or all there were: emit() moves #earliestEvent by one *)
(* at the right emissions, though it never counts the window.              *)
KeptWindow ==
  current > 0 =>
    earliest = IF current > keepCount THEN current - keepCount ELSE 1
=============================================================================
