------------------------- MODULE LoggedValueEncoder -------------------------
(***************************************************************************)
(* What src/loggy-intf/export/LoggedValueEncoder.js makes of the outcome   *)
(* of a visit when a value is logged: encode() visits the value, in which  *)
(* every object that is large or an instance has a ref for each further    *)
(* place, and the small ones only where they are on a cycle; and then it   *)
(* visits what came out of that, to put a def in the place of each object  *)
(* with refs.                                                              *)
(***************************************************************************)
EXTENDS BaseValueVisitor

(* _impl_shouldRef() never says no to an object both times. *)
IsLogged == sync /\ \A n \in Nodes : graph[n].kind = "object" => graph[n].refs # "never"

(* What the result of an object holds: objects, and refs to objects. *)
Held(n) == {r.node : r \in {q \in ToSet(frame[n].got) : ~q.isRef}}
RefsHeld(n) == {r.node : r \in {q \in ToSet(frame[n].got) : q.isRef}}

(* refFromResultValue(): those with refs. *)
WithRef == ToSet(allRefs)

(* The objects within the results of those in T, not looking into those in Shut. *)
Within(T, Shut) ==
  {n \in Nodes : \A U \in SUBSET Nodes :
                   T \subseteq U /\ (\A m \in U \ Shut : Held(m) \subseteq U) => n \in U}

(* Mutant of DefsWritten: the root is not looked at itself. *)
DefsBelowRoot == (Within({Root}, WithRef) \ {Root}) \intersect WithRef

(* #makeDefIfAppropriate() puts a def there with the result of the first visit as
   its value: the second visit does not show within it. *)
DefsWritten == Within({Root}, WithRef) \intersect WithRef

(* The refs that show, within the values of defs or not. *)
RefsWritten == UNION {RefsHeld(n) : n \in Within({Root}, {})}

(* Each ref that is logged has its def logged, which tells what it stands for,
   unless the place where its object was first met is within the value of another
   def. *)
RefsAreDefined ==
  answer = "ok" /\ IsLogged =>
    \A n \in RefsWritten :
      n \in DefsWritten \/ \E d \in DefsWritten : d # n /\ n \in Within({d}, {})

=============================================================================
