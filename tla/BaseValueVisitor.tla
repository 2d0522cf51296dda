-------------------------- MODULE BaseValueVisitor --------------------------
(***************************************************************************)
(* The visit of a value by src/valvis/export/BaseValueVisitor.js: a depth  *)
(* first walk over a graph of values that may share parts and may be       *)
(* cyclic, that runs synchronously as long as it can, and in which a value *)
(* seen again may be replaced by a "ref" to the "def" of its first visit.  *)
(*                                                                         *)
(* An object is visited by _prot_visitProperties(), as the visitors of the *)
(* program do: first what is under its names, then what is under its       *)
(* symbols.  Every other value is a leaf, whose visit yields a result at   *)
(* once or through a promise, or throws, at once or later.  A step is one  *)
(* call of #visitNode() or one return to whoever called or awaits it.      *)
(***************************************************************************)
EXTENDS Integers, Sequences, SequencesExt

CONSTANTS
  Nodes,   \* the values there are
  Root,    \* the value that is visited
  Graphs,  \* the graphs they may form: [kind, names, symbols, refs] of each
  None     \* no node

ASSUME NodesAssumption == Root \in Nodes /\ None \notin Nodes

Kinds == {"object", "value", "fail", "slow", "slowFail"}

(* What _impl_shouldRef() says of a node: "never", or "always" when it is seen
   again, or only if that makes a "cycle". *)
RefPolicies == {"never", "cycle", "always"}

ASSUME GraphsAssumption ==
  Graphs \subseteq
    [Nodes -> [kind : Kinds, names : Seq(Nodes), symbols : Seq(Nodes), refs : RefPolicies]]

VARIABLES
  graph,      \* the one visited
  sync,       \* is it visitSync(), or visitAsyncWrap() or visitWrap()?
  entry,      \* the #visitEntries: not there, unfinished, or how it finished
  shouldRef,  \* #shouldRef of each of them
  def,        \* #def of each of them, once it has one: finished or not
  allRefs,    \* #allRefs
  frame,      \* the call of _prot_visitProperties() for each object
  stack,      \* the objects whose call is running, the innermost last
  returned,   \* the node whose #visitNode() is just returning
  answer,     \* what the caller got
  impossible, \* was a "Shouldn't happen" thrown?
  unhandled   \* did a promise fail that nobody listens to?

value == <<graph, sync>>
entries == <<entry, shouldRef, def, allRefs>>
outcome == <<answer, impossible, unhandled>>
vars == <<value, entries, frame, stack, returned, outcome>>

(***************************************************************************)
(* names and symbols are the children it has yet to visit, in isAsync and  *)
(* failed its variables isAsync and error, on the child it awaits, and got *)
(* the results it has, each a node or a ref to it.                         *)
(***************************************************************************)
Results == [node : Nodes, isRef : BOOLEAN]
Frames ==
  [names : Seq(Nodes), symbols : Seq(Nodes), isAsync : BOOLEAN, failed : BOOLEAN,
   on : Nodes \union {None}, got : Seq(Results)]
Idle ==
  [names |-> <<>>, symbols |-> <<>>, isAsync |-> FALSE, failed |-> FALSE,
   on |-> None, got |-> <<>>]

TypeOK ==
  /\ graph \in Graphs /\ sync \in BOOLEAN
  /\ entry \in [Nodes -> {"none", "visiting", "ok", "error"}]
  /\ shouldRef \in [Nodes -> {"unset", "yes", "no"}]
  /\ def \in [Nodes -> {"none", "open", "finished"}]
  /\ allRefs \in Seq(Nodes)
  /\ frame \in [Nodes -> Frames]
  /\ stack \in Seq(Nodes)
  /\ returned \in Nodes \union {None}
  /\ answer \in {"none", "ok", "error", "unfinished"}
  /\ impossible \in BOOLEAN /\ unhandled \in BOOLEAN

Finished(n) == entry[n] \in {"ok", "error"}
Top == Last(stack)
Running == stack # <<>> /\ returned = None

(* The child that the running call is at, if it has any left. *)
AtEnd(f) == f.names = <<>> /\ f.symbols = <<>>
Child(f) == IF f.names # <<>> THEN Head(f.names) ELSE Head(f.symbols)

(* It moves on to the next child; or to the next list, as `break` does. *)
Advanced(f) ==
  IF f.names # <<>> THEN [f EXCEPT !.names = Tail(@)] ELSE [f EXCEPT !.symbols = Tail(@)]
BrokenOff(f) ==
  IF f.names # <<>> THEN [f EXCEPT !.names = <<>>] ELSE [f EXCEPT !.symbols = <<>>]

-----------------------------------------------------------------------------
(* startVisit() of a new entry, up to its first wait: what a leaf comes to. *)
LeafEntry(kind) ==
  CASE kind = "value" -> "ok"
    [] kind = "fail" -> "error"
    [] kind \in {"object", "slow", "slowFail"} -> "visiting"

(* An object starts a call of _prot_visitProperties(); a leaf returns. *)
StartVisit(n) ==
  /\ entry' = [entry EXCEPT ![n] = LeafEntry(graph[n].kind)]
  /\ IF graph[n].kind = "object"
     THEN /\ frame' = [frame EXCEPT ![n] =
                         [Idle EXCEPT !.names = graph[n].names, !.symbols = graph[n].symbols]]
          /\ stack' = Append(stack, n)
          /\ returned' = None
     ELSE UNCHANGED <<frame, stack>> /\ returned' = n
  /\ UNCHANGED <<value, shouldRef, def, allRefs, outcome>>

Init ==
  /\ graph \in Graphs /\ sync \in BOOLEAN
  /\ entry = [n \in Nodes |-> "none"]
  /\ shouldRef = [n \in Nodes |-> "unset"]
  /\ def = [n \in Nodes |-> "none"]
  /\ allRefs = <<>>
  /\ frame = [n \in Nodes |-> Idle]
  /\ stack = <<>> /\ returned = None
  /\ answer = "none" /\ impossible = FALSE /\ unhandled = FALSE

(* #visitRoot(). *)
VisitRoot == entry[Root] = "none" /\ StartVisit(Root)

(* #visitNode() of a child that was not visited before. *)
VisitNew ==
  /\ Running /\ ~AtEnd(frame[Top])
  /\ LET n == Child(frame[Top]) IN entry[n] = "none" /\ StartVisit(n)

(* A def is made finished if what it stands for is; otherwise it will be, by
   whatever comes of the visit. *)
NewDef(n) == IF Finished(n) THEN "finished" ELSE "open"
FinishDef(d) == IF d = "open" THEN "finished" ELSE d

(* Mutant of Finish: the def of a node whose visit fails is not finished. *)
FinishGoodOnly(p, how) ==
  /\ entry' = [entry EXCEPT ![p] = how]
  /\ def' = [def EXCEPT ![p] = IF @ = "open" /\ how = "ok" THEN "finished" ELSE @]
  /\ stack' = Front(stack)
  /\ returned' = p
  /\ UNCHANGED <<shouldRef, allRefs>>

(* The call for p is over: #finishWithValue() or #finishWithError(), both of which
   finish its def, and whoever called it or awaits it is next. *)
Finish(p, how) ==
  /\ entry' = [entry EXCEPT ![p] = how]
  /\ def' = [def EXCEPT ![p] = FinishDef(@)]
  /\ stack' = Front(stack)
  /\ returned' = p
  /\ UNCHANGED <<shouldRef, allRefs>>

(* Mutant of TakeError: the error is dropped. *)
IgnoreError(p) ==
  /\ frame' = [frame EXCEPT ![p] = Advanced(@)]
  /\ returned' = None
  /\ UNCHANGED <<entries, stack, unhandled>>

(***************************************************************************)
(* A child came to an error.  Once the call is asynchronous it fails;      *)
(* before that it notes the error and breaks out of its inner loop, which  *)
(* leaves the symbols if it was at the names.                              *)
(***************************************************************************)
TakeError(p) ==
  IF frame[p].isAsync
  THEN Finish(p, "error") /\ UNCHANGED <<frame, unhandled>>
  ELSE /\ frame' = [frame EXCEPT ![p] = [BrokenOff(@) EXCEPT !.failed = TRUE]]
       /\ returned' = None
       /\ UNCHANGED <<entries, stack, unhandled>>

(* #visitNode() itself threw.  Before the call is asynchronous that fails a promise
   which nobody looks at, and what there is so far becomes the outcome. *)
TakeThrow(p) ==
  /\ Finish(p, IF frame[p].isAsync \/ frame[p].failed THEN "error" ELSE "ok")
  /\ unhandled' = (unhandled \/ ~frame[p].isAsync)
  /\ UNCHANGED frame

TakeResult(p, result) ==
  frame' = [frame EXCEPT ![p] = [Advanced(@) EXCEPT !.got = Append(frame[p].got, result)]]

(* The call for p waits for a child: it becomes asynchronous, and returns a promise
   if it was not before. *)
Await(p, n) ==
  /\ frame' = [frame EXCEPT ![p].isAsync = TRUE, ![p].on = n]
  /\ stack' = Front(stack)
  /\ returned' = IF frame[p].isAsync THEN None ELSE p
  /\ UNCHANGED <<entries, unhandled>>

-----------------------------------------------------------------------------
(* shouldRef(): _impl_shouldRef() is asked once only. *)
ShouldRef(n, isCycleHead) ==
  IF shouldRef[n] = "unset"
  THEN graph[n].refs \in (IF isCycleHead THEN {"always", "cycle"} ELSE {"always"})
  ELSE shouldRef[n] = "yes"

(* It has a ref, or is to get one: setDefRef() and #allRefs. *)
MakeRef(n) ==
  /\ IF def[n] = "none"
     THEN /\ def' = [def EXCEPT ![n] = NewDef(n)]
          /\ allRefs' = Append(allRefs, n)
          /\ shouldRef' = [shouldRef EXCEPT ![n] = "yes"]
     ELSE UNCHANGED <<def, allRefs, shouldRef>>

(* A node is seen again and a ref stands for it; if its visit failed, the result
   that #visitNode() is to report to _impl_revisit() is not there. *)
Reref(p, n) ==
  IF entry[n] = "error"
  THEN TakeThrow(p)
  ELSE /\ MakeRef(n)
       /\ TakeResult(p, [node |-> n, isRef |-> TRUE])
       /\ UNCHANGED <<entry, stack, returned, unhandled>>

(* becomeCircular(): the visit in progress of the head of a cycle has failed. *)
BecomeCircular(p, n) ==
  /\ shouldRef' = [shouldRef EXCEPT ![n] = "no"]
  /\ entry' = [entry EXCEPT ![n] = "error"]
  /\ returned' = n
  /\ UNCHANGED <<def, allRefs, frame, stack, unhandled>>

(* It is seen again and shared: _impl_revisit(), and the result it has. *)
Reuse(p, n) ==
  IF entry[n] = "error"
  THEN TakeThrow(p)
  ELSE /\ shouldRef' = [shouldRef EXCEPT ![n] = "no"]
       /\ TakeResult(p, [node |-> n, isRef |-> FALSE])
       /\ UNCHANGED <<entry, def, allRefs, stack, returned, unhandled>>

(* #visitNode() of a child that was visited before, or is being visited. *)
VisitAgain ==
  LET p == Top
      n == Child(frame[p])
      isCycleHead == entry[n] = "visiting"
  IN  /\ Running /\ ~AtEnd(frame[p]) /\ entry[n] # "none"
      /\ \/ (def[n] # "none" \/ ShouldRef(n, isCycleHead)) /\ Reref(p, n)
         \/ /\ def[n] = "none" /\ ~ShouldRef(n, isCycleHead)
            /\ IF isCycleHead THEN BecomeCircular(p, n) ELSE Reuse(p, n)
      /\ impossible' =
           (impossible \/ (isCycleHead /\ def[n] = "none" /\ shouldRef[n] # "unset"))
      /\ UNCHANGED <<value, answer>>

(* A call of #visitNode() returns to the call that made it, or one that awaited it
   goes on.  The promise of an entry is not there before its startVisit() returned. *)
Take ==
  LET p == Top
      n == returned
  IN  /\ stack # <<>> /\ n # None
      /\ \/ entry[n] = "ok" /\ TakeResult(p, [node |-> n, isRef |-> FALSE])
            /\ returned' = None /\ UNCHANGED <<entries, stack, unhandled>>
         \/ entry[n] = "error" /\ TakeError(p)
         \/ entry[n] = "visiting" /\ Await(p, n)
      /\ impossible' = (impossible \/ (entry[n] = "visiting" /\ n \in ToSet(stack)))
      /\ UNCHANGED <<value, answer>>

(* All children are done: a note of an error counts only if the call has remained
   synchronous. *)
EndOfProperties ==
  LET f == frame[Top]
  IN  /\ Running /\ AtEnd(f)
      /\ Finish(Top, IF f.failed /\ ~f.isAsync THEN "error" ELSE "ok")
      /\ UNCHANGED <<value, frame, outcome>>

-----------------------------------------------------------------------------
(* Mutant of Waiting: a call that was about to fail is not gone on with. *)
WaitingForGood(n) == {p \in Nodes : frame[p].on = n /\ entry[n] = "ok"}

(* The call that awaits a node, if there is one. *)
Waiting(n) == {p \in Nodes : frame[p].on = n}

(* The promise of an entry has resolved: who awaits it goes on. *)
Resume ==
  /\ stack = <<>> /\ returned # None /\ Finished(returned)
  /\ \E p \in Waiting(returned) :
       /\ stack' = <<p>>
       /\ frame' = [frame EXCEPT ![p].on = None]
  /\ UNCHANGED <<value, entries, returned, outcome>>

(* Nobody awaits it but the caller of the visit, if it is the root. *)
ReturnToCaller ==
  /\ stack = <<>> /\ returned # None
  /\ ~Finished(returned) \/ Waiting(returned) = {}
  /\ returned' = None
  /\ answer' = IF returned # Root \/ answer # "none" THEN answer
               ELSE IF Finished(Root) THEN entry[Root]
               ELSE IF sync THEN "unfinished" ELSE "none"
  /\ UNCHANGED <<value, entries, frame, stack, impossible, unhandled>>

(* The promise of a slow leaf settles, and its entry finishes with it: for the
   second time, if the leaf was taken for the head of a cycle meanwhile. *)
Pending(n) ==
  graph[n].kind \in {"slow", "slowFail"} /\ (entry[n] = "visiting" \/ Waiting(n) # {})

Settle(n) ==
  /\ stack = <<>> /\ returned = None
  /\ Pending(n)
  /\ entry' = [entry EXCEPT ![n] = IF graph[n].kind = "slow" THEN "ok" ELSE "error"]
  /\ def' = [def EXCEPT ![n] = FinishDef(@)]
  /\ returned' = n
  /\ UNCHANGED <<value, shouldRef, allRefs, frame, stack, outcome>>

Step == VisitRoot \/ VisitNew \/ VisitAgain \/ Take \/ EndOfProperties \/ Resume \/ ReturnToCaller
Next == Step \/ \E n \in Nodes : Settle(n)

(* The code runs to its next wait, and the promises of leaves settle. *)
Fairness == WF_vars(Step) /\ \A n \in Nodes : WF_vars(Settle(n))

Spec == Init /\ [][Next]_vars
FairSpec == Spec /\ Fairness
-----------------------------------------------------------------------------
(* What is under the names and the symbols of a node. *)
Children(n) ==
  IF graph[n].kind = "object" THEN ToSet(graph[n].names \o graph[n].symbols) ELSE {}

(* The nodes that a path within S leads to from n, by one step or more. *)
Closed(U, S) == \A n \in U : Children(n) \intersect S \subseteq U
Spread(T, S) ==
  {n \in Nodes : \A U \in SUBSET Nodes : T \subseteq U /\ Closed(U, S) => n \in U}
Beyond(n, S) == Spread(Children(n) \intersect S, S)

Reachable == Spread({Root}, Nodes)
Failing == {n \in Reachable : graph[n].kind \in {"fail", "slowFail"}}
Slow == {n \in Reachable : graph[n].kind \in {"slow", "slowFail"}}

(* Nodes for which no ref is made to the head of a cycle. *)
Unreffed == {n \in Reachable : graph[n].refs = "never"}

(* An error was noted by a call that then became asynchronous, or met a throw. *)
Swallowed == unhandled \/ \E p \in Nodes : frame[p].failed /\ frame[p].isAsync

(* The visit of the root ends well only if nothing it reaches fails and no cycle
   consists of nodes without refs, and badly only if something fails or a node
   without refs is on a cycle; except that a call which notes an error among its
   names and then finds a promise among its symbols swallows the error. *)
VerdictIsRight ==
  /\ answer = "ok" =>
       Swallowed \/ (Failing = {} /\ \A n \in Unreffed : n \notin Beyond(n, Unreffed))
  /\ answer = "error" =>
       Failing # {} \/ \E n \in Unreffed : n \in Beyond(n, Reachable)
  /\ answer = "unfinished" => Slow # {}

(* What the code says should not happen does not: the promise of an entry is never
   asked for before it is there, and a node is never found to be the head of a
   cycle after it was decided without that that no ref is made to it. *)
NothingImpossible == ~impossible

(* And nothing is left half done: when the visit has come to rest every node with a
   ref has its def finished, once, in the order in which the refs were made, and no
   call is left waiting. *)
AtRest == answer # "none" /\ stack = <<>> /\ returned = None /\ \A n \in Nodes : ~Pending(n)
NothingHalfDone ==
  /\ NothingImpossible
  /\ AtRest =>
    /\ \A n \in Nodes : def[n] # "open" /\ entry[n] # "visiting" /\ frame[n].on = None
    /\ IsInjective(allRefs)
    /\ \A n \in Nodes : n \in ToSet(allRefs) <=> def[n] # "none"

(* Every visit ends, unless a promise it waits for never settles. *)
EveryVisitEnds == <>(answer # "none")
=============================================================================
