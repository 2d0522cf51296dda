------------------------ MODULE ComponentTree_proofs ------------------------
(***************************************************************************)
(* Proofs about ComponentTree, for any leaves with any given names and any *)
(* hostnames, any calls of addAll() and any faults.                        *)
(*                                                                         *)
(* TheTreeIsTrue: TreeInvariant says what addAll() is about to do          *)
(* (CallTypes), what contexts and the tree hold (TreeTypes), where         *)
(* everything is placed (Placed), and that whatever is nascent belongs to  *)
(* somebody (Parentage).                                                   *)
(*                                                                         *)
(* TheHostMapIsTrue: HostInvariant adds what the map of hosts holds, and   *)
(* who has put it there (HostsKept), as long as the map is kept.           *)
(*                                                                         *)
(* ItRunsAndStopsAsAWhole: RunInvariant says, of init(), start() and       *)
(* stop(), who awaits whom (AwaitedAreBelow, InitIsAwaited, ManagerFirst), *)
(* that the state of a component is that of the call at work on it         *)
(* (WorkShows), that the root no longer awaits a manager that is done      *)
(* (ManagerIsDone, InStep), and why a leaf whose state differs from the    *)
(* manager's has its reason (StoppingBelow, NoneLeftActive,                *)
(* NoneForgotten).                                                         *)
(***************************************************************************)
EXTENDS ComponentTree, FiniteSetTheorems, WellFoundedInduction, TLAPS

-----------------------------------------------------------------------------
(* The calls of addAll(), and what the root's _impl_init() adds: the       *)
(* manager, before anything else, and leaves to the manager.               *)
Pairs == {<<Root, Manager>>} \union {<<Manager, c>> : c \in Leaves}
Parent(k) == call[k].todo[1][1]
Child(k) == call[k].todo[1][2]
Active(k) == call[k].at \notin {"none", "done", "threw"}

CallPlaces == {"none", "maps", "adds", "init", "inited", "start", "done", "threw"}

CallTypes ==
  /\ call \in [AllCalls -> [at : CallPlaces, todo : Seq(Pairs)]]
  /\ \A k \in AllCalls :
       /\ call[k].todo = <<>> <=> ~Active(k)
       /\ call[k].at = "maps" => Parent(k) = Manager
       /\ \A i \in DOMAIN call[k].todo :
            call[k].todo[i] = <<Root, Manager>> => k = "init" /\ i = 1

(* A step of a call: another child, the same one with another call that is *)
(* awaited, or the end.                                                    *)
CallMoves(k) ==
  \/ call'[k] = call[k]
  \/ Active(k) /\ call'[k] = Thrown
  \/ Active(k) /\ call'[k] = NextChild(call[k].todo)
  \/ /\ Active(k)
     /\ call'[k].todo = call[k].todo
     /\ call'[k] \in [at : CallPlaces, todo : Seq(Pairs)]
     /\ call'[k].at \in {"adds", "init", "inited", "start"}

LEMMA Roles ==
  /\ Root # Manager /\ Root \notin Leaves /\ Manager \notin Leaves
  /\ Root \in Components /\ Manager \in Components /\ Leaves \subseteq Components
  /\ "init" \notin Callers /\ "init" \in AllCalls /\ Callers \subseteq AllCalls
BY TreeAssumption DEF Components, AllCalls

LEMMA PairFact ==
  ASSUME CallTypes, NEW k \in AllCalls, Active(k)
  PROVE  /\ call[k].todo \in Seq(Pairs) /\ Len(call[k].todo) \in Nat \ {0}
         /\ 1 \in DOMAIN call[k].todo
         /\ \/ k = "init" /\ Parent(k) = Root /\ Child(k) = Manager
            \/ Parent(k) = Manager /\ Child(k) \in Leaves
<1>1. call[k].todo \in Seq(Pairs) /\ call[k].todo # <<>>
  BY DEF CallTypes
<1>2. Len(call[k].todo) \in Nat \ {0} /\ 1 \in DOMAIN call[k].todo
  BY <1>1
<1>3. call[k].todo[1] \in Pairs
  BY <1>1, <1>2
<1>4. CASE call[k].todo[1] = <<Root, Manager>>
  <2>1. k = "init"
    BY <1>2, <1>4 DEF CallTypes
  <2>2. Parent(k) = Root /\ Child(k) = Manager
    BY <1>4 DEF Parent, Child
  <2>. QED  BY <1>1, <1>2, <2>1, <2>2
<1>5. CASE call[k].todo[1] # <<Root, Manager>>
  <2>1. PICK c \in Leaves : call[k].todo[1] = <<Manager, c>>
    BY <1>3, <1>5 DEF Pairs
  <2>2. Parent(k) = Manager /\ Child(k) = c
    BY <2>1 DEF Parent, Child
  <2>. QED  BY <1>1, <1>2, <2>2
<1>. QED  BY <1>4, <1>5

LEMMA NextChildFact ==
  ASSUME NEW todo \in Seq(Pairs), todo # <<>>
  PROVE  /\ NextChild(todo) \in [at : CallPlaces, todo : Seq(Pairs)]
         /\ NextChild(todo).todo = Tail(todo)
         /\ NextChild(todo).at = IF Tail(todo) = <<>> THEN "done" ELSE "maps"
         /\ \A i \in DOMAIN Tail(todo) : i + 1 \in DOMAIN todo /\ Tail(todo)[i] = todo[i + 1]
<1>1. Len(todo) \in Nat \ {0} /\ Tail(todo) \in Seq(Pairs) /\ Len(Tail(todo)) = Len(todo) - 1
  OBVIOUS
<1>2. \A i \in DOMAIN Tail(todo) : i + 1 \in DOMAIN todo /\ Tail(todo)[i] = todo[i + 1]
  BY <1>1
<1>3. CASE Len(todo) = 1
  <2>1. \A s \in Seq(Pairs) : Len(s) = 0 => s = <<>>
    OBVIOUS
  <2>2. NextChild(todo) = Done
    BY <1>3 DEF NextChild
  <2>3. Len(Tail(todo)) = 0
    BY <1>1, <1>3
  <2>4. Tail(todo) = <<>>
    BY <1>1, <2>1, <2>3
  <2>5. <<>> \in Seq(Pairs)
    OBVIOUS
  <2>6. Done \in [at : CallPlaces, todo : Seq(Pairs)] /\ Done.todo = <<>> /\ Done.at = "done"
    BY <2>5 DEF Done, CallPlaces
  <2>. QED  BY <1>2, <2>2, <2>4, <2>6
<1>4. CASE Len(todo) # 1
  <2>1. NextChild(todo) = [at |-> "maps", todo |-> Tail(todo)] /\ Tail(todo) # <<>>
    BY <1>1, <1>4 DEF NextChild
  <2>. QED  BY <1>1, <1>2, <2>1 DEF CallPlaces
<1>. QED  BY <1>3, <1>4

LEMMA CallsMove ==
  ASSUME CallTypes, DOMAIN call' = AllCalls, call' = [k \in AllCalls |-> call'[k]],
         \A k \in AllCalls : CallMoves(k)
  PROVE  CallTypes'
<1>. DEFINE CallOK(x, k) ==
       /\ x \in [at : CallPlaces, todo : Seq(Pairs)]
       /\ x.todo = <<>> <=> x.at \in {"none", "done", "threw"}
       /\ x.at = "maps" => x.todo[1][1] = Manager
       /\ \A i \in DOMAIN x.todo : x.todo[i] = <<Root, Manager>> => k = "init" /\ i = 1
<1>1. \A k \in AllCalls : CallOK(call[k], k)
  BY DEF CallTypes, Active, Parent
<1>2. ASSUME NEW k \in AllCalls PROVE CallOK(call'[k], k)
  <2>1. CASE call'[k] = call[k]
    BY <1>1, <2>1
  <2>2. CASE Active(k) /\ call'[k] = Thrown
    <3>1. <<>> \in Seq(Pairs)
      OBVIOUS
    <3>. QED  BY <2>2, <3>1 DEF Thrown, CallPlaces
  <2>3. CASE Active(k) /\ call'[k] = NextChild(call[k].todo)
    <3>1. call[k].todo \in Seq(Pairs) /\ call[k].todo # <<>>
      BY <1>1, <2>3 DEF Active
    <3>2. /\ call'[k] \in [at : CallPlaces, todo : Seq(Pairs)]
          /\ call'[k].todo = Tail(call[k].todo)
          /\ call'[k].at = IF Tail(call[k].todo) = <<>> THEN "done" ELSE "maps"
          /\ \A i \in DOMAIN Tail(call[k].todo) :
               i + 1 \in DOMAIN call[k].todo /\ Tail(call[k].todo)[i] = call[k].todo[i + 1]
      BY <2>3, <3>1, NextChildFact
    <3>3. ASSUME NEW i \in DOMAIN call'[k].todo
          PROVE  call'[k].todo[i] # <<Root, Manager>>
      <4>1. i \in DOMAIN Tail(call[k].todo) /\ call'[k].todo[i] = Tail(call[k].todo)[i]
        BY <3>2
      <4>2. i \in Nat \ {0}
        BY <3>1, <4>1
      <4>3. i + 1 \in DOMAIN call[k].todo /\ call'[k].todo[i] = call[k].todo[i + 1]
        BY <3>2, <4>1
      <4>4. i + 1 # 1
        BY <4>2
      <4>. QED  BY <1>1, <4>3, <4>4
    <3>4. call'[k].at = "maps" => call'[k].todo[1][1] = Manager
      <4>. SUFFICES ASSUME call'[k].at = "maps" PROVE call'[k].todo[1][1] = Manager
        OBVIOUS
      <4>1. Tail(call[k].todo) # <<>> /\ Tail(call[k].todo) \in Seq(Pairs)
        BY <3>1, <3>2
      <4>2. 1 \in DOMAIN Tail(call[k].todo)
        BY <4>1
      <4>3. call'[k].todo[1] \in Pairs /\ call'[k].todo[1] # <<Root, Manager>>
        BY <3>2, <3>3, <4>1, <4>2
      <4>. QED  BY <4>3 DEF Pairs
    <3>. QED  BY <3>2, <3>3, <3>4
  <2>4. CASE /\ Active(k)
             /\ call'[k].todo = call[k].todo
             /\ call'[k] \in [at : CallPlaces, todo : Seq(Pairs)]
             /\ call'[k].at \in {"adds", "init", "inited", "start"}
            BY <1>1, <2>4 DEF Active, Parent
  <2>. QED  BY <2>1, <2>2, <2>3, <2>4 DEF CallMoves
<1>. QED  BY <1>2 DEF CallTypes, Active, Parent
-----------------------------------------------------------------------------
(* Paths, and the names that they are made of.                             *)
Names == {GivenName[c] : c \in Components}
         \union {<<ClassName[c], n>> : c \in Components, n \in Nat}

TreeTypes ==
  /\ context \in [Components -> {"none", "nascent", "ready"}]
  /\ hasParent \in [Components -> BOOLEAN]
  /\ path \in [Components -> Seq(Names)]
  /\ DOMAIN tree \subseteq Seq(Names) /\ IsFiniteSet(DOMAIN tree)

(* What is in the tree: the root, the manager one level below it, and      *)
(* leaves that are ready one level below the manager.  Who is ready is in  *)
(* it once, and who is in it without being ready is nascent.               *)
EntryOK(q) ==
  /\ \/ q = <<>> /\ tree[q] = Root
     \/ tree[q] = Manager /\ \E x \in Names : q = Append(path[Root], x)
     \/ /\ tree[q] \in Leaves /\ Ready(tree[q]) /\ Ready(Manager)
        /\ \E x \in Names : q = Append(path[Manager], x)
  /\ IF Ready(tree[q]) THEN q = path[tree[q]] ELSE context[tree[q]] = "nascent"

Placed ==
  /\ path[Root] = <<>> /\ <<>> \in DOMAIN tree
  /\ \A q \in DOMAIN tree : EntryOK(q)
  /\ \A c \in Components : Ready(c) => path[c] \in DOMAIN tree /\ tree[path[c]] = c

(* A nascent leaf has a parent, so that no one else adds it; and while the *)
(* root has no context that is ready, nothing else has.                    *)
Parentage ==
  /\ \A c \in Leaves : context[c] = "nascent" => hasParent[c]
  /\ ~Ready(Root) => context[Root] = "nascent" /\ call["init"] = NoCall /\ ~Ready(Manager)

TreeInvariant == CallTypes /\ TreeTypes /\ Placed /\ Parentage

(* The tree below a path.                                                  *)
LEMMA AppendFact ==
  ASSUME NEW N, NEW s \in Seq(N), NEW x \in N
  PROVE  /\ Append(s, x) \in Seq(N) /\ Append(s, x) # <<>>
         /\ Len(Append(s, x)) = Len(s) + 1 /\ Append(s, x)[Len(s) + 1] = x
         /\ Front(Append(s, x)) = s /\ IsPrefix(s, Append(s, x))
<1>1. /\ Append(s, x) \in Seq(N) /\ Append(s, x) # <<>> /\ Len(s) \in Nat
      /\ Len(Append(s, x)) = Len(s) + 1 /\ Append(s, x)[Len(s) + 1] = x
      /\ \A i \in 1 .. Len(s) : Append(s, x)[i] = s[i]
  OBVIOUS
<1>. DEFINE t == Append(s, x)
<1>. HIDE DEF t
<1>2. t \in Seq(N) /\ Len(t) = Len(s) + 1 /\ \A i \in 1 .. Len(s) : t[i] = s[i]
  BY <1>1 DEF t
<1>3. SubSeq(t, 1, Len(s)) = [i \in 1 .. Len(s) |-> t[i]]
  BY <1>1, <1>2
<1>4. s = [i \in 1 .. Len(s) |-> s[i]]
  OBVIOUS
<1>5. SubSeq(t, 1, Len(s)) = s /\ SubSeq(s, 1, Len(s)) = s
  BY <1>1, <1>2, <1>3, <1>4
<1>6. Front(t) = s
  <2>1. Len(t) - 1 = Len(s)
    BY <1>1, <1>2
  <2>. QED  BY <1>5, <2>1 DEF Front
<1>7. IsPrefix(s, t)
  BY <1>1, <1>2, <1>5 DEF IsPrefix
<1>. QED  BY <1>1, <1>6, <1>7 DEF t

LEMMA PrefixByOne ==
  ASSUME NEW N, NEW s \in Seq(N), NEW q \in Seq(N),
         Len(q) = Len(s) + 1, IsPrefix(s, q)
  PROVE  q = Append(s, q[Len(q)]) /\ q[Len(q)] \in N
<1>1. Len(s) \in Nat /\ Len(q) \in Nat /\ q[Len(q)] \in N
  OBVIOUS
<1>2. SubSeq(s, 1, Len(s)) = SubSeq(q, 1, Len(s))
  BY DEF IsPrefix
<1>3. ASSUME NEW i \in 1 .. Len(s) PROVE q[i] = s[i]
  <2>1. SubSeq(s, 1, Len(s))[i] = s[i]
    BY <1>1, <1>3
  <2>2. SubSeq(q, 1, Len(s))[i] = q[i]
    BY <1>1, <1>3
  <2>. QED  BY <1>2, <2>1, <2>2
<1>4. Append(s, q[Len(q)]) \in Seq(N) /\ Len(Append(s, q[Len(q)])) = Len(q)
  BY <1>1
<1>5. ASSUME NEW i \in 1 .. Len(q) PROVE Append(s, q[Len(q)])[i] = q[i]
  BY <1>1, <1>3, <1>5
<1>. DEFINE t == Append(s, q[Len(q)])
<1>. HIDE DEF t
<1>6. q = t
  <2>1. t \in Seq(N) /\ Len(t) = Len(q) /\ \A i \in 1 .. Len(q) : t[i] = q[i]
    BY <1>4, <1>5 DEF t
  <2>2. q = [i \in 1 .. Len(q) |-> q[i]] /\ t = [i \in 1 .. Len(t) |-> t[i]]
    BY <2>1
  <2>. QED  BY <2>1, <2>2
<1>. QED  BY <1>1, <1>6 DEF t

LEMMA AppendInjective ==
  ASSUME NEW N, NEW s \in Seq(N), NEW x \in N, NEW t \in Seq(N), NEW y \in N,
         Append(s, x) = Append(t, y)
  PROVE  s = t /\ x = y
<1>1. Front(Append(s, x)) = s /\ Front(Append(t, y)) = t
  BY AppendFact
<1>2. Len(Append(s, x)) = Len(s) + 1 /\ Append(s, x)[Len(s) + 1] = x
  BY AppendFact
<1>3. Len(Append(t, y)) = Len(t) + 1 /\ Append(t, y)[Len(t) + 1] = y
  BY AppendFact
<1>. QED  BY <1>1, <1>2, <1>3

-----------------------------------------------------------------------------
(* A set of natural numbers has a smallest one.                            *)
LEMMA Smallest ==
  ASSUME NEW S \in SUBSET Nat, S # {}
  PROVE  \E m \in S : \A n \in S : m <= n
<1>. DEFINE LessThan == OpToRel(<, Nat)
<1>1. \A x, y \in Nat : x < y => <<x, y>> \in LessThan
  BY DEF OpToRel
<1>. HIDE DEF LessThan
<1>2. IsWellFoundedOn(LessThan, Nat)
  BY NatLessThanWellFounded DEF LessThan
<1>3. \E m \in S : \A n \in S : ~ (<<n, m>> \in LessThan)
  BY <1>2, WFMin
<1>4. PICK m \in S : \A n \in S : ~ (<<n, m>> \in LessThan)
  BY <1>3, Zenon
<1>5. \A n \in S : ~ (n < m)
  BY <1>1, <1>4, Zenon
<1>6. \A n \in S : m <= n
  BY <1>5
<1>. QED  BY <1>6

(* Of one more number than there are names one makes a name that is not    *)
(* among them (#pathKeyForChild()).                                        *)
LEMMA NumberIsFree ==
  ASSUME NEW taken, IsFiniteSet(taken), NEW name
  PROVE  \E n \in 1 .. Cardinality(taken) + 1 : <<name, n>> \notin taken
<1>. SUFFICES ASSUME \A n \in 1 .. Cardinality(taken) + 1 : <<name, n>> \in taken
              PROVE  FALSE
  OBVIOUS
<1>. DEFINE numbers == 1 .. Cardinality(taken) + 1
            f == [n \in numbers |-> <<name, n>>]
<1>1. Cardinality(taken) \in Nat
  BY FS_CardinalityType
<1>2. f \in Injection(numbers, taken)
  <2>1. f \in [numbers -> taken]
    OBVIOUS
  <2>2. \A m, n \in numbers : f[m] = f[n] => m = n
    OBVIOUS
  <2>. HIDE DEF f, numbers
  <2>. QED  BY <2>1, <2>2 DEF Injection, IsInjective
<1>3. Cardinality(numbers) = Cardinality(taken) + 1
  BY <1>1, FS_Interval
<1>4. Cardinality(numbers) <= Cardinality(taken)
  <2>. HIDE DEF f, numbers
  <2>. QED  BY <1>2, FS_Injection
<1>. QED  BY <1>1, <1>3, <1>4

(* The key of a child is one level below its parent, and a child without a *)
(* name of its own gets one that is new.                                   *)
LEMMA KeyFact ==
  ASSUME TreeTypes, NEW p \in Components, NEW c \in Components
  PROVE  /\ \E x \in Names : PathKeyForChild(p, c) = Append(path[p], x)
         /\ GivenName[c] = NoName => PathKeyForChild(p, c) \notin DOMAIN tree
         /\ GivenName[c] # NoName => PathKeyForChild(p, c) = Append(path[p], GivenName[c])
<1>. DEFINE below == {r \in DOMAIN tree : Len(r) = Len(path[p]) + 1 /\ IsPrefix(path[p], r)}
            taken == {q[Len(q)] : q \in below}
            free == {n \in 1 .. Cardinality(taken) + 1 : <<ClassName[c], n>> \notin taken}
            m == CHOOSE n \in free : \A k \in free : n <= k
<1>1. PathKeyForChild(p, c) = Append(path[p], IF GivenName[c] # NoName THEN GivenName[c]
                                              ELSE <<ClassName[c], m>>)
  BY DEF PathKeyForChild
<1>2. IsFiniteSet(taken)
  <2>. DEFINE f == [q \in below |-> q[Len(q)]]
  <2>1. IsFiniteSet(below)
    BY FS_Subset DEF TreeTypes
  <2>2. f \in Surjection(below, taken)
    BY DEF Surjection
  <2>. HIDE DEF f, below, taken
  <2>. QED  BY <2>1, <2>2, FS_Surjection
<1>3. Cardinality(taken) \in Nat
  BY <1>2, FS_CardinalityType
<1>4. m \in free
  <2>1. free # {}
    <3>. HIDE DEF taken
    <3>. QED  BY <1>2, NumberIsFree
  <2>2. free \in SUBSET Nat
    BY <1>3
  <2>. HIDE DEF free
  <2>3. \E n \in free : \A k \in free : n <= k
    BY <2>1, <2>2, Smallest
  <2>. QED  BY <2>3
<1>5. m \in Nat /\ <<ClassName[c], m>> \notin taken
  <2>. HIDE DEF m, taken
  <2>. QED  BY <1>3, <1>4
<1>. HIDE DEF m
<1>6. CASE GivenName[c] # NoName
  BY <1>1, <1>6 DEF Names
<1>7. CASE GivenName[c] = NoName
  <2>. DEFINE x == <<ClassName[c], m>>
  <2>1. x \in Names /\ PathKeyForChild(p, c) = Append(path[p], x)
    BY <1>1, <1>5, <1>7 DEF Names
  <2>. HIDE DEF x
  <2>2. path[p] \in Seq(Names)
    BY DEF TreeTypes
  <2>3. /\ Len(Append(path[p], x)) = Len(path[p]) + 1
        /\ Append(path[p], x)[Len(path[p]) + 1] = x
        /\ IsPrefix(path[p], Append(path[p], x))
    BY <2>1, <2>2, AppendFact
  <2>4. Append(path[p], x) \in DOMAIN tree => x \in taken
    BY <2>3
  <2>. QED  BY <1>5, <1>7, <2>1, <2>4 DEF x
<1>. QED  BY <1>6, <1>7

-----------------------------------------------------------------------------
\* The calls, from the beginning and in every step.

LEMMA FirstCalls == Init => CallTypes
<1>. SUFFICES ASSUME Init PROVE CallTypes
  OBVIOUS
<1>1. call = [k \in AllCalls |-> NoCall]
  BY DEF Init
<1>2. <<>> \in Seq(Pairs)
  OBVIOUS
<1>3. NoCall \in [at : CallPlaces, todo : Seq(Pairs)] /\ NoCall.todo = <<>> /\ NoCall.at = "none"
  BY <1>2 DEF NoCall, CallPlaces
<1>4. \A k \in AllCalls : DOMAIN call[k].todo = {}
  BY <1>1, <1>3
<1>. QED  BY <1>1, <1>3, <1>4 DEF CallTypes, Active

LEMMA OneCallMoves ==
  ASSUME CallTypes, NEW k \in AllCalls, Active(k), NEW x, call' = [call EXCEPT ![k] = x],
         \/ x = Thrown
         \/ x = NextChild(call[k].todo)
         \/ \E at \in {"adds", "init", "inited", "start"} : x = [call[k] EXCEPT !.at = at]
  PROVE  CallTypes' /\ \A i \in AllCalls : CallMoves(i)
<1>1. call \in [AllCalls -> [at : CallPlaces, todo : Seq(Pairs)]]
  BY DEF CallTypes
<1>2. DOMAIN call' = AllCalls /\ call' = [i \in AllCalls |-> call'[i]]
  BY <1>1
<1>3. call'[k] = x /\ \A i \in AllCalls \ {k} : call'[i] = call[i]
  BY <1>1
<1>4. CallMoves(k)
  <2>1. CASE x = Thrown \/ x = NextChild(call[k].todo)
    BY <1>3, <2>1 DEF CallMoves
  <2>2. CASE \E at \in {"adds", "init", "inited", "start"} : x = [call[k] EXCEPT !.at = at]
    <3>1. PICK at \in {"adds", "init", "inited", "start"} : x = [call[k] EXCEPT !.at = at]
      BY <2>2
    <3>2. /\ x \in [at : CallPlaces, todo : Seq(Pairs)] /\ x.todo = call[k].todo /\ x.at = at
      BY <1>1, <3>1 DEF CallPlaces
    <3>. QED  BY <1>3, <2>2, <3>2 DEF CallMoves
  <2>. QED  BY <2>1, <2>2
<1>5. \A i \in AllCalls : CallMoves(i)
  BY <1>3, <1>4 DEF CallMoves
<1>. QED  BY <1>2, <1>5, CallsMove

LEMMA SettlingMovesCalls ==
  ASSUME CallTypes, NEW c, NEW kind \in Kinds, NEW ok, Settle(c, kind, ok)
  PROVE  CallTypes' /\ \A k \in AllCalls : CallMoves(k)
<1>1. call \in [AllCalls -> [at : CallPlaces, todo : Seq(Pairs)]]
  BY DEF CallTypes
<1>2. call' = [k \in AllCalls |->
                IF call[k].at = kind /\ call[k].todo[1][2] = c
                THEN IF ~ok THEN Thrown
                     ELSE IF kind = "init" THEN [call[k] EXCEPT !.at = "inited"]
                     ELSE NextChild(call[k].todo)
                ELSE call[k]]
  BY DEF Settle
<1>3. ASSUME NEW k \in AllCalls PROVE CallMoves(k)
  <2>1. CASE ~(call[k].at = kind /\ call[k].todo[1][2] = c)
    BY <1>2, <2>1 DEF CallMoves
  <2>2. CASE call[k].at = kind /\ call[k].todo[1][2] = c /\ ~ok
    <3>1. Active(k)
      BY <2>2 DEF Active, Kinds
    <3>. QED  BY <1>2, <2>2, <3>1 DEF CallMoves
  <2>3. CASE call[k].at = kind /\ call[k].todo[1][2] = c /\ ok
    <3>1. Active(k)
      BY <2>3 DEF Active, Kinds
    <3>2. CASE kind = "init"
      <4>1. call'[k] = [call[k] EXCEPT !.at = "inited"]
        BY <1>2, <2>3, <3>2
      <4>2. /\ call'[k] \in [at : CallPlaces, todo : Seq(Pairs)]
            /\ call'[k].todo = call[k].todo /\ call'[k].at = "inited"
        BY <1>1, <4>1 DEF CallPlaces
      <4>. QED  BY <3>1, <4>2 DEF CallMoves
    <3>3. CASE kind # "init"
      BY <1>2, <2>3, <3>1, <3>3 DEF CallMoves
    <3>. QED  BY <3>2, <3>3
  <2>. QED  BY <2>1, <2>2, <2>3
<1>4. DOMAIN call' = AllCalls /\ call' = [k \in AllCalls |-> call'[k]]
  BY <1>2
<1>. QED  BY <1>3, <1>4, CallsMove

(* A new call: all its children are leaves, and the parent is the manager. *)
LEMMA NewCall ==
  ASSUME CallTypes, NEW k \in Callers, NEW list \in Lists, AddAll(k, list)
  PROVE  CallTypes' /\ call'["init"] = call["init"]
<1>. USE Roles
<1>1. call \in [AllCalls -> [at : CallPlaces, todo : Seq(Pairs)]] /\ k \in AllCalls
  BY DEF CallTypes, AllCalls
<1>. DEFINE todo == [i \in DOMAIN list |-> <<Manager, list[i]>>]
            x == [at |-> "maps", todo |-> todo]
<1>2. list \in Seq(Leaves) /\ list # <<>>
  BY TreeAssumption
<1>3. /\ todo \in Seq(Pairs) /\ todo # <<>> /\ 1 \in DOMAIN todo
      /\ \A i \in DOMAIN todo : todo[i] # <<Root, Manager>> /\ todo[i][1] = Manager
  <2>1. DOMAIN list = 1 .. Len(list) /\ Len(list) \in Nat \ {0}
    BY <1>2
  <2>2. \A i \in DOMAIN list : list[i] \in Leaves
    BY <1>2
  <2>3. todo \in Seq(Pairs)
    BY <2>1, <2>2 DEF Pairs
  <2>4. DOMAIN todo = 1 .. Len(list)
    BY <2>1
  <2>5. todo # <<>> /\ 1 \in DOMAIN todo
    <3>1. 1 \in DOMAIN todo
      BY <2>1, <2>4
    <3>. HIDE DEF todo
    <3>. QED  BY <3>1
  <2>6. ASSUME NEW i \in DOMAIN todo PROVE todo[i] # <<Root, Manager>> /\ todo[i][1] = Manager
    <3>1. todo[i] = <<Manager, list[i]>> /\ Root # Manager
      BY <2>1, <2>4
    <3>. QED  BY ONLY <3>1
  <2>. HIDE DEF todo
  <2>. QED  BY <2>3, <2>5, <2>6
<1>4. call' = [call EXCEPT ![k] = x]
  BY DEF AddAll
<1>. HIDE DEF todo
<1>5. x \in [at : CallPlaces, todo : Seq(Pairs)] /\ x.at = "maps" /\ x.todo = todo
  BY <1>3 DEF CallPlaces
<1>. HIDE DEF x
<1>6. call'[k] = x /\ \A i \in AllCalls \ {k} : call'[i] = call[i]
  BY <1>1, <1>4
<1>7. call' \in [AllCalls -> [at : CallPlaces, todo : Seq(Pairs)]]
  BY <1>1, <1>4, <1>5
<1>8. "init" \in AllCalls \ {k}
  BY DEF AllCalls
<1>9. /\ x.todo = <<>> <=> x.at \in {"none", "done", "threw"}
      /\ x.at = "maps" => x.todo[1][1] = Manager
      /\ \A i \in DOMAIN x.todo : x.todo[i] # <<Root, Manager>>
  BY <1>3, <1>5
<1>10. CallTypes'
  BY <1>6, <1>7, <1>9 DEF CallTypes, Active, Parent
<1>. QED  BY <1>6, <1>8, <1>10

(* The root's _impl_init(): the manager, then what the configuration has.  *)
LEMMA InitCall ==
  ASSUME CallTypes, call["init"].at = "none",
         call' = [call EXCEPT !["init"] =
             [at |-> "adds",
              todo |-> << <<Root, Manager>> >>
                         \o [i \in 1 .. Len(Configured) |-> <<Manager, Configured[i]>>]]]
  PROVE  /\ CallTypes' /\ call'["init"].at = "adds" /\ call'["init"].todo[1] = <<Root, Manager>>
         /\ \A k \in AllCalls \ {"init"} : call'[k] = call[k]
<1>. USE Roles
<1>1. call \in [AllCalls -> [at : CallPlaces, todo : Seq(Pairs)]] /\ "init" \in AllCalls
  BY DEF CallTypes, AllCalls
<1>. DEFINE below == [i \in 1 .. Len(Configured) |-> <<Manager, Configured[i]>>]
            todo == << <<Root, Manager>> >> \o below
            x == [at |-> "adds", todo |-> todo]
<1>2. below \in Seq(Pairs) /\ \A i \in DOMAIN below : below[i] # <<Root, Manager>>
  <2>1. Len(Configured) \in Nat /\ \A i \in 1 .. Len(Configured) : Configured[i] \in Leaves
    <3>1. Configured \in Seq(Leaves)
      BY TreeAssumption
    <3>. QED  BY <3>1
  <2>. QED  BY <2>1 DEF Pairs
<1>. HIDE DEF below
<1>3. /\ todo \in Seq(Pairs) /\ todo # <<>> /\ todo[1] = <<Root, Manager>>
      /\ \A i \in DOMAIN todo : todo[i] = <<Root, Manager>> => i = 1
  <2>1. << <<Root, Manager>> >> \in Seq(Pairs)
    BY DEF Pairs
  <2>2. todo \in Seq(Pairs) /\ Len(todo) = 1 + Len(below) /\ todo[1] = <<Root, Manager>>
    BY <1>2, <2>1
  <2>3. ASSUME NEW i \in DOMAIN todo, i # 1 PROVE todo[i] # <<Root, Manager>>
    <3>1. i \in 2 .. 1 + Len(below) /\ i - 1 \in DOMAIN below
      BY <1>2, <2>2, <2>3
    <3>2. todo[i] = below[i - 1]
      BY <1>2, <2>1, <3>1
    <3>. QED  BY <1>2, <3>1, <3>2
  <2>4. todo # <<>>
    BY <1>2, <2>2
  <2>. QED  BY <2>2, <2>3, <2>4
<1>4. call' = [call EXCEPT !["init"] = x]
  BY DEF below
<1>. HIDE DEF todo
<1>5. x \in [at : CallPlaces, todo : Seq(Pairs)] /\ x.at = "adds" /\ x.todo = todo
  BY <1>3 DEF CallPlaces
<1>. HIDE DEF x
<1>6. call'["init"] = x /\ \A i \in AllCalls \ {"init"} : call'[i] = call[i]
  BY <1>1, <1>4
<1>7. call' \in [AllCalls -> [at : CallPlaces, todo : Seq(Pairs)]]
  BY <1>1, <1>4, <1>5
<1>8. CallTypes'
  BY <1>3, <1>5, <1>6, <1>7 DEF CallTypes, Active, Parent
<1>. QED  BY <1>3, <1>5, <1>6, <1>8

-----------------------------------------------------------------------------
\* The tree: what the invariant says, and that it holds in the beginning.

LEMMA NamesFact ==
  ASSUME TreeInvariant
  PROVE  /\ path[Root] \in Seq(Names) /\ path[Manager] \in Seq(Names)
         /\ Len(path[Root]) = 0
         /\ Ready(Manager) => /\ Ready(Root) /\ Len(path[Manager]) = 1
                              /\ path[Manager] \in DOMAIN tree /\ tree[path[Manager]] = Manager
                              /\ \E x \in Names : path[Manager] = Append(path[Root], x)
<1>. USE Roles
<1>1. path[Root] \in Seq(Names) /\ path[Manager] \in Seq(Names) /\ path[Root] = <<>>
  BY DEF TreeInvariant, TreeTypes, Placed, Components
<1>2. Len(path[Root]) = 0
  BY <1>1
<1>3. ASSUME Ready(Manager)
      PROVE  /\ Ready(Root) /\ Len(path[Manager]) = 1
             /\ path[Manager] \in DOMAIN tree /\ tree[path[Manager]] = Manager
             /\ \E x \in Names : path[Manager] = Append(path[Root], x)
  <2>1. Ready(Root)
    BY <1>3 DEF TreeInvariant, Parentage
  <2>2. path[Manager] \in DOMAIN tree /\ tree[path[Manager]] = Manager
    BY <1>3 DEF TreeInvariant, Placed, Components
  <2>3. EntryOK(path[Manager])
    BY <2>2 DEF TreeInvariant, Placed
  <2>4. \E x \in Names : path[Manager] = Append(path[Root], x)
    BY <2>2, <2>3 DEF EntryOK
  <2>5. PICK x \in Names : path[Manager] = Append(path[Root], x)
    BY <2>4
  <2>6. Len(path[Manager]) = Len(path[Root]) + 1
    BY <1>1, <2>5, AppendFact
  <2>. QED  BY <1>2, <2>1, <2>2, <2>4, <2>6
<1>. QED  BY <1>1, <1>2, <1>3

(* A leaf that is ready is one level below the manager.                    *)
LEMMA LeafFact ==
  ASSUME TreeInvariant, NEW c \in Leaves, Ready(c)
  PROVE  /\ Ready(Manager) /\ path[c] \in DOMAIN tree /\ tree[path[c]] = c
         /\ \E x \in Names : path[c] = Append(path[Manager], x)
<1>. USE Roles
<1>1. path[c] \in DOMAIN tree /\ tree[path[c]] = c
  BY DEF TreeInvariant, Placed, Components
<1>2. EntryOK(path[c])
  BY <1>1 DEF TreeInvariant, Placed
<1>3. c # Root /\ c # Manager
  OBVIOUS
<1>. QED  BY <1>1, <1>2, <1>3 DEF EntryOK

LEMMA TreeIsSafe ==
  ASSUME TreeInvariant
  PROVE  TreeIsTrue
<1>. USE Roles
<1>1. ASSUME NEW c \in Components, Ready(c)
      PROVE  /\ GetComponent(path[c]) = {c}
             /\ c # Root => path[c] # <<>> /\ Ready(tree[Front(path[c])])
  <2>1. path[c] \in DOMAIN tree /\ tree[path[c]] = c
    BY <1>1 DEF TreeInvariant, Placed
  <2>2. GetComponent(path[c]) = {c}
    BY <2>1 DEF GetComponent
  <2>3. CASE c = Manager
    <3>1. PICK x \in Names : path[c] = Append(path[Root], x)
      BY <1>1, <2>3, NamesFact
    <3>2. path[Root] \in Seq(Names)
      BY NamesFact
    <3>3. path[c] # <<>> /\ Front(path[c]) = path[Root]
      BY <3>1, <3>2, AppendFact
    <3>4. path[Root] = <<>> /\ tree[<<>>] = Root
      <4>1. path[Root] = <<>> /\ <<>> \in DOMAIN tree /\ EntryOK(<<>>)
        BY DEF TreeInvariant, Placed
      <4>2. \A y \in Names : Append(path[Root], y) # <<>> /\ Append(path[Manager], y) # <<>>
        BY NamesFact, AppendFact
      <4>. QED  BY <4>1, <4>2 DEF EntryOK
    <3>5. Ready(Root)
      BY <1>1, <2>3, NamesFact
    <3>. QED  BY <2>2, <3>3, <3>4, <3>5
  <2>4. CASE c \in Leaves
    <3>1. PICK x \in Names : path[c] = Append(path[Manager], x)
      BY <1>1, <2>4, LeafFact
    <3>2. path[Manager] \in Seq(Names) /\ Ready(Manager) /\ tree[path[Manager]] = Manager
      BY <1>1, <2>4, LeafFact, NamesFact
    <3>3. path[c] # <<>> /\ Front(path[c]) = path[Manager]
      BY <3>1, <3>2, AppendFact
    <3>. QED  BY <2>2, <3>2, <3>3
  <2>. QED  BY <2>2, <2>3, <2>4 DEF Components
<1>2. ASSUME NEW q \in DOMAIN tree
      PROVE  IF Ready(tree[q]) THEN q = path[tree[q]]
             ELSE context[tree[q]] = "nascent" /\ tree[q] \in {Root, Manager}
  BY DEF TreeInvariant, Placed, EntryOK
<1>3. ASSUME NEW p \in {Root, Manager}, NEW c \in Components, GivenName[c] = NoName
      PROVE  GetComponent(PathKeyForChild(p, c)) = {}
  <2>1. PathKeyForChild(p, c) \notin DOMAIN tree
    BY <1>3, KeyFact DEF TreeInvariant, Components
  <2>. QED  BY <2>1 DEF GetComponent
<1>. QED  BY <1>1, <1>2, <1>3 DEF TreeIsTrue

LEMMA FirstTree == Init => TreeInvariant
<1>. SUFFICES ASSUME Init PROVE TreeInvariant
  OBVIOUS
<1>. USE Roles
<1>1. /\ context = [c \in Components |-> IF c = Root THEN "nascent" ELSE "none"]
      /\ hasParent = [c \in Components |-> FALSE]
      /\ path = [c \in Components |-> <<>>]
      /\ tree = [q \in {<<>>} |-> Root]
      /\ call = [k \in AllCalls |-> NoCall]
  BY DEF Init
<1>2. Root \in Components /\ Manager \in Components /\ "init" \in AllCalls
  BY DEF Components, AllCalls
<1>3. <<>> \in Seq(Names)
  OBVIOUS
<1>4. TreeTypes
  <2>1. DOMAIN tree = {<<>>} /\ IsFiniteSet({<<>>})
    BY <1>1, FS_Singleton
  <2>2. path \in [Components -> Seq(Names)]
    BY <1>1, <1>3
  <2>3. context \in [Components -> {"none", "nascent", "ready"}]
    BY <1>1
  <2>4. hasParent \in [Components -> BOOLEAN]
    BY <1>1
  <2>. QED  BY <1>3, <2>1, <2>2, <2>3, <2>4 DEF TreeTypes
<1>5. \A c \in Components : ~Ready(c)
  BY <1>1 DEF Ready
<1>6. Placed
  <2>1. context[Root] = "nascent" /\ path[Root] = <<>> /\ DOMAIN tree = {<<>>} /\ tree[<<>>] = Root
    BY <1>1, <1>2
  <2>. QED  BY <1>2, <1>5, <2>1 DEF Placed, EntryOK
<1>7. Parentage
  BY <1>1, <1>2, <1>5 DEF Parentage, Components
<1>. QED  BY <1>4, <1>6, <1>7, FirstCalls DEF TreeInvariant

-----------------------------------------------------------------------------
\* The tree, step by step.

(* What call each action moves, and that the others leave the tree alone.  *)
LEMMA TreeStays ==
  ASSUME TreeInvariant, UNCHANGED hierarchy, CallTypes',
         call["init"] = NoCall => call'["init"] = NoCall
  PROVE  TreeInvariant'
<1>1. context' = context /\ hasParent' = hasParent /\ path' = path /\ tree' = tree
  BY DEF hierarchy
<1>2. TreeTypes'
  BY <1>1 DEF TreeInvariant, TreeTypes
<1>3. Placed'
  BY <1>1 DEF TreeInvariant, Placed, EntryOK, Ready
<1>4. Parentage'
  BY <1>1 DEF TreeInvariant, Parentage, Ready
<1>. QED  BY <1>2, <1>3, <1>4 DEF TreeInvariant

LEMMA IdleStays ==
  ASSUME CallTypes, NEW k \in AllCalls, CallMoves(k), call[k] = NoCall
  PROVE  call'[k] = NoCall
BY DEF CallMoves, Active, NoCall

(* A child of the root is the manager, and then the root is ready.         *)
LEMMA ParentFact ==
  ASSUME TreeInvariant, NEW k \in AllCalls, Active(k)
  PROVE  \/ k = "init" /\ Parent(k) = Root /\ Child(k) = Manager /\ Ready(Root)
         \/ Parent(k) = Manager /\ Child(k) \in Leaves
<1>1. \/ k = "init" /\ Parent(k) = Root /\ Child(k) = Manager
      \/ Parent(k) = Manager /\ Child(k) \in Leaves
  BY PairFact DEF TreeInvariant
<1>2. k = "init" => Ready(Root)
  BY DEF TreeInvariant, Parentage, Active, NoCall
<1>. QED  BY <1>1, <1>2

LEMMA AddNascentKeepsTree ==
  ASSUME TreeInvariant, NEW k \in AllCalls, call[k].at = "adds", CanBeAdded(Child(k)),
         AddNascent(k, Parent(k), Child(k))
  PROVE  TreeInvariant'
<1>. USE Roles
<1>. DEFINE p == Parent(k)
            c == Child(k)
<1>1. /\ ~Ready(p)
      /\ context' = [context EXCEPT ![p] = "nascent", ![c] = "nascent"]
      /\ hasParent' = [hasParent EXCEPT ![c] = TRUE]
      /\ call' = [call EXCEPT ![k] = NextChild(@.todo)]
      /\ path' = path /\ tree' = tree
  BY DEF AddNascent
<1>2. Active(k) /\ ~Ready(c)
  BY DEF Active, CanBeAdded
<1>3. p = Manager /\ c \in Leaves /\ ~Ready(Manager)
  BY <1>1, <1>2, ParentFact
<1>. HIDE DEF p, c
<1>4. /\ context \in [Components -> {"none", "nascent", "ready"}]
      /\ hasParent \in [Components -> BOOLEAN]
      /\ Manager \in Components /\ c \in Components /\ Root \in Components
      /\ c # Manager /\ c # Root /\ Root # Manager
  BY <1>3 DEF TreeInvariant, TreeTypes, Components
<1>5. /\ context'[Manager] = "nascent" /\ context'[c] = "nascent"
      /\ \A d \in Components \ {Manager, c} : context'[d] = context[d]
      /\ \A d \in Components : Ready(d)' <=> Ready(d)
  BY <1>1, <1>2, <1>3, <1>4 DEF Ready
<1>6. CallTypes' /\ CallMoves("init")
  <2>1. call' = [call EXCEPT ![k] = NextChild(call[k].todo)]
    BY <1>1
  <2>2. "init" \in AllCalls
    BY DEF AllCalls
  <2>3. CallTypes
    BY DEF TreeInvariant
  <2>. QED  BY <1>2, <2>1, <2>2, <2>3, OneCallMoves
<1>7. TreeTypes'
  <2>1. context' \in [Components -> {"none", "nascent", "ready"}]
    BY <1>1, <1>4
  <2>2. hasParent' \in [Components -> BOOLEAN]
    BY <1>1, <1>4
  <2>. QED  BY <1>1, <2>1, <2>2 DEF TreeInvariant, TreeTypes
<1>8. Placed'
  <2>1. ASSUME NEW q \in DOMAIN tree PROVE EntryOK(q)'
    <3>1. EntryOK(q)
      BY DEF TreeInvariant, Placed
    <3>2. CASE q = <<>> /\ tree[q] = Root
      BY <1>1, <1>4, <1>5, <3>1, <3>2 DEF EntryOK
    <3>3. CASE tree[q] = Manager /\ \E x \in Names : q = Append(path[Root], x)
      BY <1>1, <1>3, <1>4, <1>5, <3>1, <3>3 DEF EntryOK
    <3>. QED  BY <1>3, <3>1, <3>2, <3>3 DEF EntryOK
  <2>. QED  BY <1>1, <1>5, <2>1 DEF TreeInvariant, Placed
<1>9. Parentage'
  <2>1. \A d \in Leaves : context'[d] = "nascent" => hasParent'[d]
    <3>1. ASSUME NEW d \in Leaves PROVE context'[d] = "nascent" => hasParent'[d]
      <4>1. d \in Components /\ d # Manager
        BY DEF Components
      <4>2. CASE d = c
        BY <1>1, <1>4, <4>2
      <4>3. CASE d # c
        BY <1>1, <1>4, <1>5, <4>1, <4>3 DEF TreeInvariant, Parentage
      <4>. QED  BY <4>2, <4>3
    <3>. QED  BY <3>1
  <2>2. ~Ready(Root)' => context'[Root] = "nascent" /\ call'["init"] = NoCall /\ ~Ready(Manager)'
    <3>1. CallTypes /\ "init" \in AllCalls
      BY DEF TreeInvariant, AllCalls
    <3>. QED  BY <1>4, <1>5, <1>6, <3>1, IdleStays DEF TreeInvariant, Parentage
  <2>. QED  BY <2>1, <2>2 DEF Parentage
<1>. QED  BY <1>6, <1>7, <1>8, <1>9 DEF TreeInvariant

(* The key of a child that is added, one level below its parent.           *)
LEMMA NewKeyFact ==
  ASSUME TreeInvariant, NEW p \in Components, NEW c \in Components, NEW key,
         key = PathKeyForChild(p, c)
  PROVE  /\ key \in Seq(Names) /\ key # <<>>
         /\ \E x \in Names : key = Append(path[p], x)
<1>1. TreeTypes
  BY DEF TreeInvariant
<1>2. PICK x \in Names : key = Append(path[p], x)
  BY <1>1, KeyFact
<1>3. path[p] \in Seq(Names)
  BY <1>1 DEF TreeTypes
<1>. QED  BY <1>2, <1>3, AppendFact

LEMMA AddReadyKeepsTree ==
  ASSUME TreeInvariant, NEW k \in AllCalls, call[k].at = "adds",
         NEW p, p = Parent(k), NEW c, c = Child(k), CanBeAdded(c), AddReady(k, p, c)
  PROVE  TreeInvariant'
<1>. USE Roles
<1>0. PICK key : key = PathKeyForChild(p, c)
  OBVIOUS
<1>1. Active(k) /\ ~Ready(c) /\ (context[c] = "nascent" => ~hasParent[c])
  BY DEF Active, CanBeAdded
<1>2. /\ Ready(p)
      /\ \/ /\ call' = [call EXCEPT ![k] = Thrown]
            /\ UNCHANGED hierarchy
         \/ /\ key \notin DOMAIN tree
            /\ tree' = [q \in DOMAIN tree \union {key} |-> IF q = key THEN c ELSE tree[q]]
            /\ hasParent' = hasParent
            /\ \/ /\ context[c] = "none"
                  /\ context' = [context EXCEPT ![c] = "ready"]
                  /\ path' = [path EXCEPT ![c] = key]
                  /\ call' = [call EXCEPT ![k].at = "init"]
               \/ /\ context[c] # "none"
                  /\ call' = [call EXCEPT ![k] = Thrown]
                  /\ context' = context /\ path' = path
  BY <1>0 DEF AddReady
<1>3. \/ p = Root /\ c = Manager
      \/ p = Manager /\ c \in Leaves
  BY <1>1, ParentFact
<1>4. /\ context \in [Components -> {"none", "nascent", "ready"}]
      /\ path \in [Components -> Seq(Names)]
      /\ Manager \in Components /\ p \in Components /\ c \in Components /\ Root \in Components
      /\ c # Root /\ Root # Manager
  BY <1>3 DEF TreeInvariant, TreeTypes, Components
<1>5. CallTypes' /\ CallMoves("init")
  <2>1. "init" \in AllCalls /\ CallTypes
    BY DEF AllCalls, TreeInvariant
  <2>2. CASE call' = [call EXCEPT ![k] = Thrown]
    BY <1>1, <2>1, <2>2, OneCallMoves
  <2>3. CASE call' = [call EXCEPT ![k].at = "init"]
    <3>1. call' = [call EXCEPT ![k] = [call[k] EXCEPT !.at = "init"]]
      BY <2>3
    <3>. QED  BY <1>1, <2>1, <3>1, OneCallMoves
  <2>. QED  BY <1>2, <2>2, <2>3
<1>6. call["init"] = NoCall => call'["init"] = NoCall
  BY <1>5, IdleStays DEF TreeInvariant, AllCalls
<1>7. CASE UNCHANGED hierarchy
  BY <1>5, <1>6, <1>7, TreeStays
<1>8. ASSUME key \notin DOMAIN tree,
             tree' = [q \in DOMAIN tree \union {key} |-> IF q = key THEN c ELSE tree[q]],
             hasParent' = hasParent,
             \/ /\ context[c] = "none"
                /\ context' = [context EXCEPT ![c] = "ready"]
                /\ path' = [path EXCEPT ![c] = key]
             \/ /\ context[c] # "none"
                /\ context' = context /\ path' = path
      PROVE  TreeInvariant'
  <2>1. key \in Seq(Names) /\ key # <<>> /\ \E x \in Names : key = Append(path[p], x)
    BY <1>0, <1>4, NewKeyFact
  <2>2. /\ DOMAIN tree' = DOMAIN tree \union {key}
        /\ tree'[key] = c /\ \A q \in DOMAIN tree : tree'[q] = tree[q] /\ q # key
    BY <1>8
  <2>3. \A d \in Components \ {c} : context'[d] = context[d] /\ path'[d] = path[d]
    BY <1>4, <1>8
  <2>4. \A d \in Components \ {c} : Ready(d)' <=> Ready(d)
    BY <2>3 DEF Ready
  <2>5. path'[Root] = path[Root] /\ path'[p] = path[p] /\ (Ready(p)' <=> Ready(p)) /\ p # c
    BY <1>3, <1>4, <2>3, <2>4
  <2>6. TreeTypes'
    <3>1. context' \in [Components -> {"none", "nascent", "ready"}]
      BY <1>4, <1>8
    <3>2. path' \in [Components -> Seq(Names)]
      BY <1>4, <1>8, <2>1
    <3>3. IsFiniteSet(DOMAIN tree')
      BY <2>2, FS_AddElement DEF TreeInvariant, TreeTypes
    <3>4. hasParent' \in [Components -> BOOLEAN]
      BY <1>8 DEF TreeInvariant, TreeTypes
    <3>5. DOMAIN tree' \subseteq Seq(Names)
      BY <2>1, <2>2 DEF TreeInvariant, TreeTypes
    <3>. QED  BY <3>1, <3>2, <3>3, <3>4, <3>5 DEF TreeTypes
  <2>7. ASSUME NEW q \in DOMAIN tree
        PROVE  tree[q] # c \/ (context[c] = "nascent" /\ c = Manager)
    <3>1. EntryOK(q)
      BY DEF TreeInvariant, Placed
    <3>. QED  BY <1>1, <1>3, <1>4, <3>1 DEF EntryOK
  <2>8. ASSUME NEW q \in DOMAIN tree PROVE EntryOK(q)'
    <3>1. EntryOK(q) /\ tree'[q] = tree[q]
      BY <2>2 DEF TreeInvariant, Placed
    <3>4. PICK d : d = tree[q]
      OBVIOUS
    <3>2. CASE d = c
      <4>1. context[c] = "nascent" /\ c = Manager
        BY <2>7, <3>2, <3>4
      <4>2. context' = context /\ path' = path
        BY <1>8, <4>1
      <4>. QED  BY <3>1, <4>2 DEF EntryOK, Ready
    <3>3. CASE d # c
      <4>1. d \in Components
        BY <3>1, <3>4 DEF EntryOK, Components
      <4>2. (Ready(d)' <=> Ready(d)) /\ path'[d] = path[d] /\ context'[d] = context[d]
        BY <2>3, <2>4, <3>3, <4>1
      <4>3. Ready(Manager) => path'[Manager] = path[Manager] /\ Ready(Manager)'
        <5>1. CASE c = Manager
          BY <1>1, <5>1
        <5>2. CASE c # Manager
          BY <1>4, <2>3, <2>4, <5>2
        <5>. QED  BY <5>1, <5>2
      <4>4. /\ \/ q = <<>> /\ d = Root
               \/ d = Manager /\ \E x \in Names : q = Append(path[Root], x)
               \/ /\ d \in Leaves /\ Ready(d) /\ Ready(Manager)
                  /\ \E x \in Names : q = Append(path[Manager], x)
            /\ IF Ready(d) THEN q = path[d] ELSE context[d] = "nascent"
        BY <3>1, <3>4 DEF EntryOK
      <4>5. /\ \/ q = <<>> /\ d = Root
               \/ d = Manager /\ \E x \in Names : q = Append(path'[Root], x)
               \/ /\ d \in Leaves /\ context'[d] = "ready" /\ context'[Manager] = "ready"
                  /\ \E x \in Names : q = Append(path'[Manager], x)
            /\ IF context'[d] = "ready" THEN q = path'[d] ELSE context'[d] = "nascent"
        BY <2>5, <4>2, <4>3, <4>4 DEF Ready
      <4>6. tree'[q] = d
        BY <3>1, <3>4
      <4>. QED  BY <4>5, <4>6 DEF EntryOK, Ready
    <3>. QED  BY <3>2, <3>3
  <2>9. EntryOK(key)'
    <3>1. IF context'[c] = "ready" THEN key = path'[c] ELSE context'[c] = "nascent"
      <4>1. CASE context[c] = "none"
        BY <1>4, <1>8, <4>1
      <4>2. CASE context[c] # "none"
        BY <1>1, <1>4, <1>8, <4>2 DEF Ready
      <4>. QED  BY <4>1, <4>2
    <3>2. CASE p = Root /\ c = Manager
      BY <2>1, <2>2, <2>5, <3>1, <3>2 DEF EntryOK, Ready
    <3>3. CASE p = Manager /\ c \in Leaves
      <4>1. context[c] = "none"
        BY <1>1, <1>4, <3>3 DEF TreeInvariant, Parentage, Ready
      <4>2. context'[c] = "ready"
        BY <1>4, <1>8, <4>1
      <4>3. context'[Manager] = "ready" /\ path'[Manager] = path[Manager]
        BY <1>2, <2>5, <3>3 DEF Ready
      <4>4. \E x \in Names : key = Append(path'[Manager], x)
        BY <2>1, <3>3, <4>3
      <4>. QED  BY <2>2, <3>1, <3>3, <4>2, <4>3, <4>4 DEF EntryOK, Ready
    <3>. QED  BY <1>3, <3>2, <3>3
  <2>10. ASSUME NEW d \in Components, Ready(d)'
         PROVE  path'[d] \in DOMAIN tree' /\ tree'[path'[d]] = d
    <3>1. CASE d = c
      <4>1. context[c] = "none"
        BY <1>1, <1>8, <2>10, <3>1 DEF Ready
      <4>2. path'[c] = key
        BY <1>4, <1>8, <4>1
      <4>. QED  BY <2>2, <3>1, <4>2
    <3>2. CASE d # c
      <4>1. Ready(d) /\ path'[d] = path[d]
        BY <2>3, <2>4, <2>10, <3>2
      <4>2. path[d] \in DOMAIN tree /\ tree[path[d]] = d
        BY <4>1 DEF TreeInvariant, Placed
      <4>. QED  BY <2>2, <4>1, <4>2
    <3>. QED  BY <3>1, <3>2
  <2>11. Placed'
    <3>1. path'[Root] = <<>> /\ <<>> \in DOMAIN tree'
      BY <2>2, <2>5 DEF TreeInvariant, Placed
    <3>2. \A q \in DOMAIN tree' : EntryOK(q)'
      BY <2>2, <2>8, <2>9
    <3>. QED  BY <2>10, <3>1, <3>2 DEF Placed
  <2>12. Parentage'
    <3>1. ASSUME NEW d \in Leaves, context'[d] = "nascent" PROVE hasParent'[d]
      <4>1. context[d] = "nascent"
        <5>1. d \in Components
          BY DEF Components
        <5>. QED  BY <1>4, <1>8, <3>1, <5>1
      <4>. QED  BY <1>8, <4>1 DEF TreeInvariant, Parentage
    <3>2. Ready(Root)'
      <4>1. Ready(Root)
        BY <1>2, <1>3, NamesFact
      <4>. QED  BY <1>4, <2>4, <4>1
    <3>. QED  BY <3>1, <3>2 DEF Parentage
  <2>. QED  BY <1>5, <2>6, <2>11, <2>12 DEF TreeInvariant
<1>. QED  BY <1>2, <1>7, <1>8

LEMMA InitRootKeepsTree ==
  ASSUME TreeInvariant, ~Ready(Root), context' = [context EXCEPT ![Root] = "ready"],
         UNCHANGED <<hasParent, path, tree>>, CallTypes'
  PROVE  TreeInvariant'
<1>. USE Roles
<1>1. context \in [Components -> {"none", "nascent", "ready"}] /\ Root \in Components
  BY DEF TreeInvariant, TreeTypes, Components
<1>2. context'[Root] = "ready" /\ \A d \in Components \ {Root} : context'[d] = context[d]
  BY <1>1
<1>3. TreeTypes'
  <2>1. context' \in [Components -> {"none", "nascent", "ready"}]
    BY <1>1
  <2>. QED  BY <2>1 DEF TreeInvariant, TreeTypes
<1>4. Placed'
  <2>1. path[Root] = <<>> /\ <<>> \in DOMAIN tree /\ tree[<<>>] = Root
    <3>1. path[Root] = <<>> /\ <<>> \in DOMAIN tree /\ EntryOK(<<>>)
      BY DEF TreeInvariant, Placed
    <3>2. \A x \in Names : Append(path[Root], x) # <<>> /\ Append(path[Manager], x) # <<>>
      BY NamesFact, AppendFact
    <3>. QED  BY <3>1, <3>2 DEF EntryOK
  <2>2. ASSUME NEW q \in DOMAIN tree PROVE EntryOK(q)'
    <3>1. EntryOK(q)
      BY DEF TreeInvariant, Placed
    <3>2. PICK d : d = tree[q]
      OBVIOUS
    <3>3. CASE q = <<>>
      BY <1>2, <2>1, <3>3 DEF EntryOK, Ready
    <3>4. CASE q # <<>>
      <4>1. d \in Components \ {Root}
        BY <3>1, <3>2, <3>4 DEF EntryOK, Components
      <4>2. context'[d] = context[d] /\ context'[Manager] = context[Manager]
        BY <1>2, <4>1 DEF Components
      <4>. QED  BY <3>1, <3>2, <4>2 DEF EntryOK, Ready
    <3>. QED  BY <3>3, <3>4
  <2>3. ASSUME NEW d \in Components, Ready(d)'
        PROVE  path'[d] \in DOMAIN tree' /\ tree'[path'[d]] = d
    <3>1. CASE d = Root
      BY <2>1, <3>1
    <3>2. CASE d # Root
      BY <1>2, <2>3, <3>2 DEF TreeInvariant, Placed, Ready
    <3>. QED  BY <3>1, <3>2
  <2>. QED  BY <2>1, <2>2, <2>3 DEF Placed
<1>5. Parentage'
  <2>1. \A d \in Leaves : context'[d] = context[d]
    BY <1>2 DEF Components
  <2>. QED  BY <1>2, <2>1 DEF TreeInvariant, Parentage, Ready
<1>. QED  BY <1>3, <1>4, <1>5 DEF TreeInvariant

LEMMA CallsAloneKeepTree ==
  ASSUME TreeInvariant, UNCHANGED hierarchy, CallTypes', CallMoves("init")
  PROVE  TreeInvariant'
<1>1. call["init"] = NoCall => call'["init"] = NoCall
  BY IdleStays DEF TreeInvariant, AllCalls
<1>. QED  BY <1>1, TreeStays

LEMMA NextKeepsTree ==
  ASSUME TreeInvariant, [Next]_vars
  PROVE  TreeInvariant'
<1>. USE Roles
<1>1. CallTypes /\ "init" \in AllCalls
  BY DEF TreeInvariant, AllCalls
<1>2. ASSUME UNCHANGED <<hierarchy, call>> PROVE TreeInvariant'
  <2>1. CallTypes'
    BY <1>1, <1>2 DEF CallTypes, Active, Parent
  <2>. QED  BY <1>2, <2>1, TreeStays
<1>3. CASE StartRoot
  <2>1. CASE UNCHANGED <<hierarchy, call>>
    BY <1>2, <2>1
  <2>2. ASSUME ~Ready(Root), context' = [context EXCEPT ![Root] = "ready"],
               UNCHANGED <<hasParent, path, tree>>,
               call' = [call EXCEPT !["init"] =
             [at |-> "adds",
              todo |-> << <<Root, Manager>> >>
                         \o [i \in 1 .. Len(Configured) |-> <<Manager, Configured[i]>>]]]
        PROVE  TreeInvariant'
    <3>1. call["init"].at = "none"
      BY <2>2 DEF TreeInvariant, Parentage, NoCall
    <3>2. CallTypes'
      BY <1>1, <2>2, <3>1, InitCall
    <3>. QED  BY <2>2, <3>2, InitRootKeepsTree
  <2>. QED  BY <1>3, <2>1, <2>2 DEF StartRoot
<1>4. ASSUME NEW c \in Components, NEW kind \in Kinds, Works(c, kind) \/ Fails(c, kind) \/ Ends(c, kind)
      PROVE  TreeInvariant'
  <2>1. CASE Works(c, kind)
    BY <1>2, <2>1 DEF Works
  <2>2. CASE Fails(c, kind) \/ Ends(c, kind)
    <3>1. UNCHANGED hierarchy /\ \E ok : Settle(c, kind, ok)
      BY <2>2 DEF Fails, Ends
    <3>2. CallTypes' /\ CallMoves("init")
      BY <1>1, <3>1, SettlingMovesCalls
    <3>. QED  BY <3>1, <3>2, CallsAloneKeepTree
  <2>. QED  BY <1>4, <2>1, <2>2
<1>5. ASSUME NEW k \in AllCalls, MapHost(k) PROVE TreeInvariant'
  <2>1. Active(k) /\ UNCHANGED hierarchy
    BY <1>5 DEF MapHost, Active
  <2>2. \/ call' = [call EXCEPT ![k] = Thrown]
        \/ call' = [call EXCEPT ![k] = [call[k] EXCEPT !.at = "adds"]]
    BY <1>5 DEF MapHost
  <2>3. CallTypes' /\ CallMoves("init")
    BY <1>1, <2>1, <2>2, OneCallMoves
  <2>. QED  BY <2>1, <2>3, CallsAloneKeepTree
<1>6. ASSUME NEW k \in AllCalls, AddChild(k) PROVE TreeInvariant'
  <2>1. PICK p, c : p = Parent(k) /\ c = Child(k)
    OBVIOUS
  <2>2. Active(k) /\ call[k].at = "adds"
    BY <1>6 DEF AddChild, Active
  <2>3. CASE CanBeAdded(c) /\ AddNascent(k, p, c)
    BY <2>1, <2>2, <2>3, AddNascentKeepsTree
  <2>4. CASE CanBeAdded(c) /\ AddReady(k, p, c)
    BY <2>1, <2>2, <2>4, AddReadyKeepsTree
  <2>5. CASE ~CanBeAdded(c)
    <3>1. UNCHANGED hierarchy /\ call' = [call EXCEPT ![k] = Thrown]
      BY <1>6, <2>1, <2>5 DEF AddChild, Child
    <3>2. CallTypes' /\ CallMoves("init")
      BY <1>1, <2>2, <3>1, OneCallMoves
    <3>. QED  BY <3>1, <3>2, CallsAloneKeepTree
  <2>. QED  BY <1>6, <2>1, <2>3, <2>4, <2>5 DEF AddChild, Parent, Child
<1>7. ASSUME NEW k \in AllCalls, ChildInited(k) PROVE TreeInvariant'
  <2>1. Active(k) /\ UNCHANGED hierarchy
    BY <1>7 DEF ChildInited, Active
  <2>2. \/ call' = [call EXCEPT ![k] = Thrown]
        \/ call' = [call EXCEPT ![k] = [call[k] EXCEPT !.at = "start"]]
        \/ call' = [call EXCEPT ![k] = NextChild(call[k].todo)]
    BY <1>7 DEF ChildInited
  <2>3. CallTypes' /\ CallMoves("init")
    BY <1>1, <2>1, <2>2, OneCallMoves
  <2>. QED  BY <2>1, <2>3, CallsAloneKeepTree
<1>8. ASSUME NEW k \in Callers, NEW list \in Lists, AddAll(k, list) PROVE TreeInvariant'
  <2>1. CallTypes' /\ call'["init"] = call["init"]
    BY <1>1, <1>8, NewCall
  <2>2. UNCHANGED hierarchy
    BY <1>8 DEF AddAll
  <2>. QED  BY <2>1, <2>2, TreeStays
<1>9. CASE StartInited \/ StopRoot
  BY <1>2, <1>9 DEF StartInited, StopRoot
<1>10. ASSUME NEW w \in Waiters, WhenStopped(w) PROVE TreeInvariant'
  BY <1>2, <1>10 DEF WhenStopped
<1>11. CASE UNCHANGED vars
  BY <1>2, <1>11 DEF vars
<1>. QED  BY <1>3, <1>4, <1>5, <1>6, <1>7, <1>8, <1>9, <1>10, <1>11 DEF Next, GoOn

LEMMA TreeHolds == Spec => []TreeInvariant
<1>1. Init => TreeInvariant
  BY FirstTree
<1>2. TreeInvariant /\ [Next]_vars => TreeInvariant'
  BY NextKeepsTree
<1>. QED  BY <1>1, <1>2, PTL DEF Spec

(* Whoever adds what, in which order: who has a context is in the tree, at *)
(* its path and nowhere else, below one that is there too, and what is     *)
(* left there without its component is that of a nascent one; and who has  *)
(* no name gets one that is new (ControlContext, #pathKeyForChild()).      *)
THEOREM TheTreeIsTrue == Spec => []TreeIsTrue
<1>1. TreeInvariant => TreeIsTrue
  BY TreeIsSafe
<1>. QED  BY <1>1, TreeHolds, PTL

-----------------------------------------------------------------------------
(* The hosts.  A hostname that is taken stays taken, by the same host.     *)
HostsOf(c) == ToSet(HostNames[c])
MapsTo(h, c) == h \in DOMAIN hostMap.of /\ hostMap.of[h] = c

HostTypes ==
  /\ hostMap = [kept |-> hostMap.kept, of |-> hostMap.of] /\ hostMap.kept \in BOOLEAN
  /\ hostMap.of = [h \in DOMAIN hostMap.of |-> hostMap.of[h]]

(* A child whose init() or start() is awaited has its context.             *)
CalledAreReady ==
  \A k \in AllCalls : call[k].at \in {"init", "inited", "start"} => Ready(Child(k))

(* Where hosts are kept, nobody adds to a manager that is not ready, and   *)
(* so nothing but the root is ever nascent.                                *)
NothingNascent ==
  /\ \A k \in AllCalls : Active(k) /\ Parent(k) = Manager => Ready(Manager)
  /\ context[Manager] # "nascent" /\ \A c \in Leaves : context[c] # "nascent"

(* When a host is added, and from then on, it has all its hostnames.       *)
AddedHaveNames ==
  /\ \A k \in AllCalls : call[k].at = "adds" /\ Parent(k) = Manager =>
       \A h \in HostsOf(Child(k)) : MapsTo(h, Child(k))
  /\ \A c \in Leaves : Ready(c) => \A h \in HostsOf(c) : MapsTo(h, c)

(* A host that is found has the name, and all those before it were taken   *)
(* when it was entered.                                                    *)
MappedInOrder ==
  /\ \A h \in DOMAIN hostMap.of : hostMap.of[h] \in Leaves /\ h \in HostsOf(hostMap.of[h])
  /\ \A c \in Leaves : \A h \in DOMAIN hostMap.of : hostMap.of[h] = c =>
       \E i \in DOMAIN HostNames[c] :
         /\ HostNames[c][i] = h
         /\ \A j \in DOMAIN HostNames[c] : j < i => HostNames[c][j] \in DOMAIN hostMap.of

BeingAddedAsHost(c) ==
  \E k \in AllCalls : call[k].at = "adds" /\ Parent(k) = Manager /\ Child(k) = c
NameIsTaken(c) ==
  /\ Ready(Manager) /\ GivenName[c] # NoName
  /\ Append(path[Manager], GivenName[c]) \in DOMAIN tree
LacksAName(c) == \E h \in HostsOf(c) : ~MapsTo(h, c)
RepeatsAName(c) ==
  \E i, j \in DOMAIN HostNames[c] : j < i /\ HostNames[c][i] = HostNames[c][j]
Accounted(c) ==
  Ready(c) \/ BeingAddedAsHost(c) \/ NameIsTaken(c) \/ LacksAName(c) \/ RepeatsAName(c)

HostsKept ==
  hostMap.kept =>
    /\ NothingNascent /\ AddedHaveNames /\ MappedInOrder
    /\ \A h \in DOMAIN hostMap.of : Accounted(hostMap.of[h])

HostInvariant == TreeInvariant /\ HostTypes /\ CalledAreReady /\ HostsKept

LEMMA HostNamesFact ==
  ASSUME NEW c \in Leaves
  PROVE  /\ DOMAIN HostNames[c] \subseteq Nat
         /\ HostsOf(c) = {HostNames[c][i] : i \in DOMAIN HostNames[c]}
<1>1. HostNames[c] \in Seq(ToSet(HostNames[c]))
  BY TreeAssumption
<1>. QED  BY <1>1 DEF HostsOf, ToSet

(* Leaves that are ready are the children of a manager that is ready.      *)
LEMMA ChildrenFact ==
  ASSUME TreeInvariant, Ready(Manager)
  PROVE  Children(Manager) = {c \in Leaves : Ready(c)}
<1>. USE Roles
<1>1. path[Manager] \in Seq(Names) /\ path[Root] \in Seq(Names)
      /\ Len(path[Manager]) = 1 /\ Len(path[Root]) = 0
  BY NamesFact
<1>2. ASSUME NEW c \in Leaves, Ready(c) PROVE c \in Children(Manager)
  <2>1. PICK x \in Names : path[c] = Append(path[Manager], x)
    BY <1>2, LeafFact
  <2>2. path[c] \in DOMAIN tree /\ tree[path[c]] = c
    BY <1>2, LeafFact
  <2>3. path[Manager] \in Seq(Names)
    BY <1>1
  <2>4. /\ Len(Append(path[Manager], x)) = Len(path[Manager]) + 1
        /\ IsPrefix(path[Manager], Append(path[Manager], x))
    BY <2>3, AppendFact, Zenon
  <2>5. Len(path[c]) = Len(path[Manager]) + 1 /\ IsPrefix(path[Manager], path[c])
    BY <2>1, <2>4
  <2>. QED  BY <2>2, <2>5 DEF Children
<1>3. ASSUME NEW c \in Children(Manager) PROVE c \in Leaves /\ Ready(c)
  <2>1. PICK q \in DOMAIN tree : /\ c = tree[q] /\ Len(q) = Len(path[Manager]) + 1
                                 /\ IsPrefix(path[Manager], q)
    BY DEF Children
  <2>2. EntryOK(q)
    BY DEF TreeInvariant, Placed
  <2>3. q # <<>>
    BY <1>1, <2>1
  <2>4. ASSUME NEW x \in Names PROVE Len(Append(path[Root], x)) = Len(path[Root]) + 1
    <3>1. path[Root] \in Seq(Names)
      BY <1>1
    <3>. QED  BY <3>1, AppendFact, Zenon
  <2>5. \A x \in Names : q # Append(path[Root], x)
    <3>1. \A x \in Names : Len(Append(path[Root], x)) = 1
      BY <1>1, <2>4
    <3>2. Len(q) = 2 /\ 2 # 1
      BY <1>1, <2>1
    <3>. QED  BY <3>1, <3>2, Zenon
  <2>. QED  BY <2>1, <2>2, <2>3, <2>5 DEF EntryOK
<1>. QED  BY <1>2, <1>3

(* A manager that is neither ready nor nascent has none.                   *)
LEMMA NoChildren ==
  ASSUME TreeInvariant, ~Ready(Manager), context[Manager] # "nascent"
  PROVE  Children(Manager) = {}
<1>1. path[Manager] \in Seq(Names)
  BY NamesFact
<1>2. ASSUME NEW q \in DOMAIN tree, Len(q) = Len(path[Manager]) + 1 PROVE FALSE
  <2>1. EntryOK(q)
    BY DEF TreeInvariant, Placed
  <2>2. q # <<>>
    BY <1>1, <1>2
  <2>. QED  BY <2>1, <2>2 DEF EntryOK
<1>. QED  BY <1>2 DEF Children

LEMMA HostsAreTrue ==
  ASSUME HostInvariant
  PROVE  HostMapIsTrue
<1>. USE Roles
<1>. SUFFICES ASSUME hostMap.kept
              PROVE  /\ \A c \in Children(Manager) : \A h \in ToSet(HostNames[c]) :
                          h \in DOMAIN hostMap.of /\ hostMap.of[h] = c
                     /\ \A h \in DOMAIN hostMap.of :
                          LET c == hostMap.of[h]
                          IN  \/ c \in Children(Manager)
                              \/ \E k \in AllCalls : call[k].todo # <<>> /\ call[k].todo[1][2] = c
                              \/ PathKeyForChild(Manager, c) \in DOMAIN tree
                              \/ \E i \in DOMAIN HostNames[c] :
                                   HostNames[c][i] \notin DOMAIN hostMap.of
                                   \/ hostMap.of[HostNames[c][i]] # c
                              \/ \E i, j \in DOMAIN HostNames[c] :
                                   i # j /\ HostNames[c][i] = HostNames[c][j]
  BY DEF HostMapIsTrue
<1>1. TreeInvariant /\ CallTypes /\ TreeTypes /\ HostsKept
  BY DEF HostInvariant, TreeInvariant
<1>2. ASSUME NEW c \in Children(Manager), NEW h \in ToSet(HostNames[c])
      PROVE  h \in DOMAIN hostMap.of /\ hostMap.of[h] = c
  <2>1. Ready(Manager)
    BY <1>1, NoChildren DEF HostsKept, NothingNascent
  <2>2. c \in Leaves /\ Ready(c)
    BY <1>1, <2>1, ChildrenFact
  <2>. QED  BY <1>1, <2>2 DEF HostsKept, AddedHaveNames, HostsOf, MapsTo
<1>3. ASSUME NEW h \in DOMAIN hostMap.of, NEW c, c = hostMap.of[h]
      PROVE  \/ c \in Children(Manager)
             \/ \E k \in AllCalls : call[k].todo # <<>> /\ call[k].todo[1][2] = c
             \/ PathKeyForChild(Manager, c) \in DOMAIN tree
             \/ \E i \in DOMAIN HostNames[c] :
                  HostNames[c][i] \notin DOMAIN hostMap.of \/ hostMap.of[HostNames[c][i]] # c
             \/ \E i, j \in DOMAIN HostNames[c] : i # j /\ HostNames[c][i] = HostNames[c][j]
  <2>1. c \in Leaves /\ Accounted(c)
    BY <1>1, <1>3 DEF HostsKept, MappedInOrder
  <2>2. CASE Ready(c)
    <3>1. Ready(Manager)
      BY <1>1, <2>1, <2>2, LeafFact
    <3>. QED  BY <1>1, <2>1, <2>2, <3>1, ChildrenFact
  <2>3. CASE BeingAddedAsHost(c)
    <3>1. PICK k \in AllCalls : call[k].at = "adds" /\ Child(k) = c
      BY <2>3 DEF BeingAddedAsHost
    <3>2. call[k].todo # <<>>
      BY <1>1, <3>1 DEF CallTypes, Active
    <3>. QED  BY <3>1, <3>2 DEF Child
  <2>4. CASE NameIsTaken(c)
    <3>1. PathKeyForChild(Manager, c) = Append(path[Manager], GivenName[c])
      BY <1>1, <2>1, <2>4, KeyFact DEF NameIsTaken, Components
    <3>. QED  BY <2>4, <3>1 DEF NameIsTaken
  <2>5. CASE LacksAName(c)
    <3>1. PICK x \in HostsOf(c) : ~MapsTo(x, c)
      BY <2>5 DEF LacksAName
    <3>2. PICK i \in DOMAIN HostNames[c] : x = HostNames[c][i]
      BY <2>1, HostNamesFact
    <3>. QED  BY <3>1, <3>2 DEF MapsTo
  <2>6. CASE RepeatsAName(c)
    <3>1. PICK i, j \in DOMAIN HostNames[c] : j < i /\ HostNames[c][i] = HostNames[c][j]
      BY <2>6 DEF RepeatsAName
    <3>2. i # j
      BY <2>1, <3>1, HostNamesFact
    <3>. QED  BY <3>1, <3>2
  <2>. QED  BY <2>1, <2>2, <2>3, <2>4, <2>5, <2>6 DEF Accounted
<1>. QED  BY <1>2, <1>3

LEMMA FirstHosts == Init => HostInvariant
<1>. SUFFICES ASSUME Init PROVE HostInvariant
  OBVIOUS
<1>. USE Roles
<1>1. /\ context = [c \in Components |-> IF c = Root THEN "nascent" ELSE "none"]
      /\ call = [k \in AllCalls |-> NoCall]
      /\ \E kept \in BOOLEAN : hostMap = [kept |-> kept, of |-> <<>>]
  BY DEF Init
<1>2. PICK kept \in BOOLEAN : hostMap = [kept |-> kept, of |-> <<>>]
  BY <1>1
<1>3. DOMAIN hostMap.of = {} /\ hostMap.kept = kept /\ hostMap.of = <<>>
  BY <1>2
<1>4. HostTypes
  BY <1>2, <1>3 DEF HostTypes
<1>5. \A k \in AllCalls : call[k].at = "none"
  BY <1>1 DEF NoCall
<1>6. CalledAreReady
  BY <1>5 DEF CalledAreReady
<1>7. \A c \in Leaves : context[c] = "none"
  BY <1>1 DEF Components
<1>8. NothingNascent
  BY <1>1, <1>5, <1>7 DEF NothingNascent, Active, Components
<1>9. AddedHaveNames /\ MappedInOrder
  BY <1>3, <1>5, <1>7 DEF AddedHaveNames, MappedInOrder, MapsTo, Ready
<1>. QED  BY <1>3, <1>4, <1>6, <1>8, <1>9, FirstTree DEF HostInvariant, HostsKept

-----------------------------------------------------------------------------
\* The hosts, step by step.

(* What most steps do to a call: nothing, or one goes on whose child has   *)
(* its context.                                                            *)
CallGoesOn(k) ==
  \/ call'[k] = call[k]
  \/ /\ call[k].at \in {"init", "inited", "start"}
     /\ \/ call'[k] = Thrown
        \/ call'[k] = NextChild(call[k].todo)
        \/ call'[k].todo = call[k].todo /\ call'[k].at \in {"inited", "start"}

CallBegins(k) ==
  /\ call[k].at = "none" /\ call'[k].at \in {"maps", "adds"}
  /\ call'[k].at = "adds" => call'[k].todo[1][1] = Root
  /\ hostMap.kept /\ call'[k].todo[1][1] = Manager => Ready(Manager)

(* A child that has its context is a leaf below a manager that has its, or *)
(* that manager; so when the next child is one of the manager's, that is   *)
(* ready.                                                                  *)
LEMMA NextParentReady ==
  ASSUME TreeInvariant, NEW k \in AllCalls, Active(k), Ready(Child(k))
  PROVE  Ready(Manager)
<1>1. \/ Child(k) = Manager
      \/ Child(k) \in Leaves
  BY ParentFact
<1>. QED  BY <1>1, LeafFact

LEMMA NextTodo ==
  ASSUME CallTypes, NEW k \in AllCalls, Active(k)
  PROVE  /\ NextChild(call[k].todo).at \in {"maps", "done"}
         /\ NextChild(call[k].todo).at = "done" => NextChild(call[k].todo).todo = <<>>
<1>1. call[k].todo \in Seq(Pairs) /\ call[k].todo # <<>>
  BY DEF CallTypes
<1>. QED  BY <1>1, NextChildFact

LEMMA HostsStay ==
  ASSUME HostInvariant, TreeInvariant', hostMap' = hostMap, tree' = tree,
         path'[Manager] = path[Manager],
         \A c \in Leaves \union {Manager} : context'[c] = context[c],
         \A k \in AllCalls : CallGoesOn(k) \/ CallBegins(k)
  PROVE  HostInvariant'
<1>. USE Roles
<1>1. TreeInvariant /\ CallTypes /\ CallTypes' /\ HostTypes /\ CalledAreReady /\ HostsKept
  BY DEF HostInvariant, TreeInvariant
<1>2. \A c \in Leaves \union {Manager} : Ready(c)' <=> Ready(c)
  BY DEF Ready
<1>3. HostTypes'
  BY <1>1 DEF HostTypes
<1>4. CalledAreReady'
  <2>. SUFFICES ASSUME NEW k \in AllCalls, call'[k].at \in {"init", "inited", "start"}
                PROVE  Ready(Child(k))'
    BY DEF CalledAreReady
  <2>1. call[k].at \in {"init", "inited", "start"} /\ call'[k].todo = call[k].todo
    <3>1. CASE CallBegins(k)
      BY <3>1 DEF CallBegins
    <3>2. CASE call'[k] = call[k]
      BY <3>2
    <3>3. CASE call[k].at \in {"init", "inited", "start"}
      <4>1. NextChild(call[k].todo).at \in {"maps", "done"}
        BY <1>1, <3>3, NextTodo DEF Active
      <4>. QED  BY <3>1, <3>2, <3>3, <4>1 DEF CallGoesOn, Thrown
    <3>. QED  BY <3>1, <3>2, <3>3 DEF CallGoesOn
  <2>2. Ready(Child(k)) /\ Active(k)
    BY <1>1, <2>1 DEF CalledAreReady, Active
  <2>3. Child(k) \in Leaves \union {Manager}
    BY <1>1, <2>2, ParentFact
  <2>4. PICK c : c = Child(k)
    OBVIOUS
  <2>5. Ready(c)'
    BY <1>2, <2>2, <2>3, <2>4
  <2>. QED  BY <2>1, <2>4, <2>5 DEF Child, Ready
<1>5. ASSUME NEW k \in AllCalls, call'[k].at = "adds"
      PROVE  call'[k] = call[k] \/ Parent(k)' = Root
  <2>1. CASE CallBegins(k)
    BY <1>5, <2>1 DEF CallBegins, Parent
  <2>2. CASE call[k].at \in {"init", "inited", "start"}
    <3>1. NextChild(call[k].todo).at \in {"maps", "done"}
      BY <1>1, <2>2, NextTodo DEF Active
    <3>. QED  BY <1>5, <2>1, <2>2, <3>1 DEF CallGoesOn, Thrown
  <2>. QED  BY <2>1, <2>2 DEF CallGoesOn
<1>6. ASSUME NEW k \in AllCalls, call[k].at = "adds" PROVE call'[k] = call[k]
  BY <1>6 DEF CallGoesOn, CallBegins
<1>7. HostsKept'
  <2>. SUFFICES ASSUME hostMap.kept
                PROVE  /\ NothingNascent' /\ AddedHaveNames' /\ MappedInOrder'
                       /\ \A h \in DOMAIN hostMap'.of : Accounted(hostMap.of[h])'
    BY DEF HostsKept
  <2>1. /\ NothingNascent /\ AddedHaveNames /\ MappedInOrder
        /\ \A h \in DOMAIN hostMap.of : Accounted(hostMap.of[h])
    BY <1>1 DEF HostsKept
  <2>2. NothingNascent'
    <3>1. ASSUME NEW k \in AllCalls, Active(k)', Parent(k)' = Manager PROVE Ready(Manager)
      <4>1. CASE CallBegins(k)
        BY <3>1, <4>1 DEF CallBegins, Parent
      <4>2. CASE call'[k] = call[k]
        BY <2>1, <3>1, <4>2 DEF NothingNascent, Parent, Active
      <4>3. CASE call[k].at \in {"init", "inited", "start"}
        BY <1>1, <4>3, NextParentReady DEF CalledAreReady, Active
      <4>. QED  BY <4>1, <4>2, <4>3 DEF CallGoesOn
    <3>. QED  BY <1>2, <2>1, <3>1 DEF NothingNascent
  <2>3. AddedHaveNames'
    <3>1. ASSUME NEW k \in AllCalls, call'[k].at = "adds", Parent(k)' = Manager,
                 NEW c, c = Child(k)', NEW h \in HostsOf(c)
          PROVE  MapsTo(h, c)'
      <4>1. call'[k] = call[k]
        BY <1>5, <3>1
      <4>2. Parent(k) = Manager /\ c = Child(k)
        BY <3>1, <4>1 DEF Parent, Child
      <4>3. MapsTo(h, c)
        BY <2>1, <3>1, <4>1, <4>2 DEF AddedHaveNames
      <4>. QED  BY <4>3 DEF MapsTo
    <3>2. \A c \in Leaves : Ready(c)' => \A h \in HostsOf(c) : MapsTo(h, c)'
      BY <1>2, <2>1 DEF AddedHaveNames, MapsTo
    <3>. QED  BY <3>1, <3>2 DEF AddedHaveNames, MapsTo, HostsOf
  <2>4. MappedInOrder'
    BY <2>1 DEF MappedInOrder, MapsTo
  <2>5. ASSUME NEW h \in DOMAIN hostMap.of, NEW c, c = hostMap.of[h] PROVE Accounted(c)'
    <3>1. Accounted(c) /\ c \in Leaves
      BY <2>1, <2>5 DEF MappedInOrder
    <3>2. BeingAddedAsHost(c) => BeingAddedAsHost(c)'
      BY <1>6 DEF BeingAddedAsHost, Parent, Child
    <3>3. NameIsTaken(c) => NameIsTaken(c)'
      BY <1>2 DEF NameIsTaken
    <3>5. RepeatsAName(c) => RepeatsAName(c)'
      BY DEF RepeatsAName
    <3>4. LacksAName(c) => LacksAName(c)'
      BY DEF LacksAName, MapsTo
    <3>. QED  BY <1>2, <3>1, <3>2, <3>3, <3>4, <3>5 DEF Accounted
  <2>. QED  BY <2>2, <2>3, <2>4, <2>5 DEF Accounted, Ready, BeingAddedAsHost, NameIsTaken, LacksAName, RepeatsAName, MapsTo, HostsOf, Parent, Child
<1>. QED  BY <1>3, <1>4, <1>7 DEF HostInvariant

(* What addHost() enters: names that were free, for the host; all of them, *)
(* or it throws, because one is another host's, or its own twice, or it    *)
(* enters none.                                                            *)
LEMMA MappedFact ==
  ASSUME NEW c \in Leaves, MappedInOrder, NEW names, names = Mapped(c).names
  PROVE  /\ names \subseteq HostsOf(c) /\ names \intersect DOMAIN hostMap.of = {}
         /\ Mapped(c).ok \in BOOLEAN
         /\ Mapped(c).ok => names = HostsOf(c)
         /\ \A h \in names : \E i \in DOMAIN HostNames[c] :
              /\ HostNames[c][i] = h
              /\ \A j \in DOMAIN HostNames[c] : j < i => HostNames[c][j] \in names
         /\ ~Mapped(c).ok /\ names # {} =>
              RepeatsAName(c) \/ \E h \in HostsOf(c) \intersect DOMAIN hostMap.of : hostMap.of[h] # c
<1>. DEFINE own == HostNames[c]
            taken == {i \in DOMAIN own : \/ own[i] \in DOMAIN hostMap.of
                                         \/ \E j \in DOMAIN own : j < i /\ own[j] = own[i]}
            free == {j \in DOMAIN own : \A t \in taken : j < t}
<1>1. names = {own[i] : i \in free} /\ Mapped(c).ok = (taken = {})
  BY DEF Mapped
<1>2. DOMAIN own \subseteq Nat /\ HostsOf(c) = {own[i] : i \in DOMAIN own}
  BY HostNamesFact
<1>3. ASSUME NEW i \in free, i \in taken PROVE FALSE
  <2>1. i < i /\ i \in Nat
    BY <1>2, <1>3
  <2>. QED  BY ONLY <2>1
<1>4. names \intersect DOMAIN hostMap.of = {}
  <2>. SUFFICES ASSUME NEW i \in free, own[i] \in DOMAIN hostMap.of PROVE FALSE
    BY <1>1
  <2>1. i \in taken
    OBVIOUS
  <2>. QED  BY <1>3, <2>1
<1>5. ASSUME NEW i \in free, NEW j \in DOMAIN own, j < i PROVE j \in free
  BY <1>2, <1>5
<1>6. ASSUME taken # {}, names # {}, ~RepeatsAName(c)
      PROVE  \E h \in HostsOf(c) \intersect DOMAIN hostMap.of : hostMap.of[h] # c
  <2>1. PICK t \in taken : TRUE
    BY <1>6
  <2>2. PICK k \in free : TRUE
    BY <1>1, <1>6
  <2>3. t \in DOMAIN own /\ own[t] \in DOMAIN hostMap.of
    <3>1. ~ \E j \in DOMAIN own : j < t /\ own[j] = own[t]
      BY <1>6, <2>1 DEF RepeatsAName
    <3>. QED  BY <2>1, <3>1
  <2>4. own[t] \in HostsOf(c)
    BY <1>2, <2>3
  <2>5. ASSUME hostMap.of[own[t]] = c PROVE FALSE
    <3>1. PICK i \in DOMAIN own :
            own[i] = own[t] /\ \A j \in DOMAIN own : j < i => own[j] \in DOMAIN hostMap.of
      BY <2>3, <2>5 DEF MappedInOrder
    <3>2. i \in taken
      BY <2>3, <3>1
    <3>3. k < i /\ k \in DOMAIN own
      BY <2>2, <3>2
    <3>4. k \in taken
      BY <3>1, <3>3
    <3>. QED  BY <1>3, <2>2, <3>4
  <2>. QED  BY <2>3, <2>4, <2>5
<1>7. names \subseteq HostsOf(c)
  BY <1>1, <1>2
<1>8. taken = {} => names = HostsOf(c)
  BY <1>1, <1>2
<1>9. ASSUME NEW h \in names
      PROVE  \E i \in DOMAIN own : own[i] = h /\ \A j \in DOMAIN own : j < i => own[j] \in names
  <2>1. PICK i \in free : own[i] = h
    BY <1>1, <1>9
  <2>2. \A j \in DOMAIN own : j < i => own[j] \in names
    BY <1>1, <1>5
  <2>. QED  BY <2>1, <2>2
<1>. HIDE DEF taken, free
<1>. QED  BY <1>1, <1>4, <1>6, <1>7, <1>8, <1>9

LEMMA MapHostKeepsHosts ==
  ASSUME HostInvariant, TreeInvariant', NEW k \in AllCalls, MapHost(k)
  PROVE  HostInvariant'
<1>. USE Roles
<1>1. TreeInvariant /\ CallTypes /\ HostTypes /\ CalledAreReady /\ HostsKept
  BY DEF HostInvariant, TreeInvariant
<1>2. call \in [AllCalls -> [at : CallPlaces, todo : Seq(Pairs)]]
  BY <1>1 DEF CallTypes
<1>3. PICK c : c = Child(k)
  OBVIOUS
<1>4. Active(k) /\ call[k].at = "maps" /\ Parent(k) = Manager /\ c \in Leaves
  <2>1. Active(k) /\ call[k].at = "maps"
    BY DEF MapHost, Active
  <2>2. Parent(k) = Manager
    BY <1>1, <2>1 DEF CallTypes
  <2>. QED  BY <1>1, <1>3, <2>1, <2>2, ParentFact
<1>5. context' = context /\ path' = path /\ tree' = tree
  BY DEF MapHost, hierarchy
<1>6. \/ call' = [call EXCEPT ![k] = Thrown]
      \/ call' = [call EXCEPT ![k] = [call[k] EXCEPT !.at = "adds"]]
  BY DEF MapHost
<1>7. \A i \in AllCalls \ {k} : call'[i] = call[i]
  BY <1>2, <1>6
<1>8. call'[k] = Thrown \/ (call'[k].at = "adds" /\ call'[k].todo = call[k].todo)
  BY <1>2, <1>6
<1>9. CalledAreReady'
  <2>. SUFFICES ASSUME NEW i \in AllCalls, call'[i].at \in {"init", "inited", "start"}
                PROVE  Ready(Child(i))'
    BY DEF CalledAreReady
  <2>1. i # k
    BY <1>8 DEF Thrown
  <2>2. call'[i] = call[i] /\ Ready(Child(i))
    BY <1>1, <1>7, <2>1 DEF CalledAreReady
  <2>. QED  BY <1>5, <2>2 DEF Ready, Child
<1>10. CASE ~hostMap.kept
  <2>1. hostMap' = hostMap
    BY <1>10 DEF MapHost
  <2>. QED  BY <1>1, <1>9, <1>10, <2>1 DEF HostInvariant, HostTypes, HostsKept
<1>11. CASE hostMap.kept
  <2>1. NothingNascent /\ AddedHaveNames /\ MappedInOrder
        /\ \A h \in DOMAIN hostMap.of : Accounted(hostMap.of[h])
    BY <1>1, <1>11 DEF HostsKept
  <2>2. PICK names, ok : names = Mapped(c).names /\ ok = Mapped(c).ok
    OBVIOUS
  <2>3. /\ hostMap' = [hostMap EXCEPT !.of =
                   [h \in DOMAIN @ \union names |-> IF h \in names THEN c ELSE @[h]]]
        /\ call' = [call EXCEPT ![k] = IF ok THEN [@ EXCEPT !.at = "adds"] ELSE Thrown]
    BY <1>3, <1>11, <2>2 DEF MapHost, Child
  <2>4. /\ names \subseteq HostsOf(c) /\ names \intersect DOMAIN hostMap.of = {}
        /\ ok \in BOOLEAN
        /\ ok => names = HostsOf(c)
        /\ \A h \in names : \E i \in DOMAIN HostNames[c] :
              /\ HostNames[c][i] = h
              /\ \A j \in DOMAIN HostNames[c] : j < i => HostNames[c][j] \in names
        /\ ~ok /\ names # {} =>
              RepeatsAName(c) \/ \E h \in HostsOf(c) \intersect DOMAIN hostMap.of : hostMap.of[h] # c
    BY <1>4, <2>1, <2>2, MappedFact
  <2>5. PICK of : of = [h \in DOMAIN hostMap.of \union names |->
                         IF h \in names THEN c ELSE hostMap.of[h]]
    OBVIOUS
  <2>6. hostMap' = [kept |-> hostMap.kept, of |-> of]
    BY <1>1, <2>3, <2>5 DEF HostTypes
  <2>7. hostMap'.of = of /\ hostMap'.kept = hostMap.kept
    BY <2>6
  <2>8. /\ DOMAIN of = DOMAIN hostMap.of \union names
        /\ \A h \in names : of[h] = c
        /\ \A h \in DOMAIN hostMap.of : of[h] = hostMap.of[h]
    BY <2>4, <2>5
  <2>9. HostTypes'
    BY <1>1, <2>5, <2>6, <2>7 DEF HostTypes
  <2>10. \A h, d : MapsTo(h, d)' <=> MapsTo(h, d) \/ (h \in names /\ d = c)
    BY <2>4, <2>7, <2>8 DEF MapsTo
  <2>11. NothingNascent'
    <3>1. ASSUME NEW i \in AllCalls, Active(i)', Parent(i)' = Manager PROVE Ready(Manager)
      <4>1. CASE i = k
        BY <1>4, <2>1, <4>1 DEF NothingNascent
      <4>2. CASE i # k
        BY <1>7, <2>1, <3>1, <4>2 DEF NothingNascent, Active, Parent
      <4>. QED  BY <4>1, <4>2
    <3>. QED  BY <1>5, <2>1, <3>1 DEF NothingNascent, Ready
  <2>12. AddedHaveNames'
    <3>1. ASSUME NEW i \in AllCalls, call'[i].at = "adds", Parent(i)' = Manager,
                 NEW d, d = Child(i)', NEW h \in HostsOf(d)
          PROVE  MapsTo(h, d)'
      <4>1. CASE i = k
        <5>1. ok /\ d = c
          BY <1>2, <1>3, <1>8, <2>3, <2>4, <3>1, <4>1 DEF Thrown, Child
        <5>. QED  BY <2>4, <2>10, <3>1, <5>1
      <4>2. CASE i # k
        <5>1. call[i].at = "adds" /\ Parent(i) = Manager /\ d = Child(i)
          BY <1>7, <3>1, <4>2 DEF Parent, Child
        <5>2. MapsTo(h, d)
          BY <2>1, <3>1, <5>1 DEF AddedHaveNames
        <5>. QED  BY <2>10, <5>2
      <4>. QED  BY <4>1, <4>2
    <3>2. \A d \in Leaves : Ready(d)' => \A h \in HostsOf(d) : MapsTo(h, d)'
      BY <1>5, <2>1, <2>10 DEF AddedHaveNames, Ready
    <3>. QED  BY <3>1, <3>2 DEF AddedHaveNames, MapsTo, HostsOf
  <2>13. MappedInOrder'
    <3>1. \A h \in DOMAIN of : of[h] \in Leaves /\ h \in HostsOf(of[h])
      BY <1>4, <2>1, <2>4, <2>8 DEF MappedInOrder
    <3>2. ASSUME NEW d \in Leaves, NEW h \in DOMAIN of, of[h] = d
          PROVE  \E i \in DOMAIN HostNames[d] :
                   /\ HostNames[d][i] = h
                   /\ \A j \in DOMAIN HostNames[d] : j < i => HostNames[d][j] \in DOMAIN of
      <4>1. CASE h \in names
        <5>1. d = c
          BY <2>8, <3>2, <4>1
        <5>. QED  BY <2>4, <2>8, <4>1, <5>1
      <4>2. CASE h \notin names
        <5>1. h \in DOMAIN hostMap.of /\ hostMap.of[h] = d
          BY <2>8, <3>2, <4>2
        <5>2. \E i \in DOMAIN HostNames[d] :
                /\ HostNames[d][i] = h
                /\ \A j \in DOMAIN HostNames[d] : j < i => HostNames[d][j] \in DOMAIN hostMap.of
          BY <2>1, <5>1 DEF MappedInOrder
        <5>. QED  BY <2>8, <5>2
      <4>. QED  BY <4>1, <4>2
    <3>. QED  BY <2>7, <3>1, <3>2 DEF MappedInOrder, HostsOf
  <2>14. ASSUME NEW h \in DOMAIN of, NEW d, d = of[h] PROVE Accounted(d)'
    <3>1. RepeatsAName(d)' <=> RepeatsAName(d)
      BY DEF RepeatsAName
    <3>2. CASE d = c /\ names # {}
      <4>1. CASE ok
        <5>1. call'[k].at = "adds" /\ call'[k].todo = call[k].todo
          BY <1>2, <2>3, <4>1
        <5>2. BeingAddedAsHost(c)'
          BY <1>3, <1>4, <5>1 DEF BeingAddedAsHost, Parent, Child
        <5>. QED  BY <3>2, <5>2 DEF Accounted
      <4>2. CASE ~ok
        <5>1. RepeatsAName(c) \/ \E x \in HostsOf(c) \intersect DOMAIN hostMap.of : hostMap.of[x] # c
          BY <2>4, <3>2, <4>2
        <5>2. ASSUME NEW x \in HostsOf(c) \intersect DOMAIN hostMap.of, hostMap.of[x] # c
              PROVE  LacksAName(c)'
          <6>1. ~MapsTo(x, c)'
            BY <2>4, <2>10, <5>2 DEF MapsTo
          <6>. QED  BY <6>1 DEF LacksAName
        <5>. QED  BY <3>1, <3>2, <5>1, <5>2 DEF Accounted
      <4>. QED  BY <2>4, <4>1, <4>2
    <3>3. CASE ~(d = c /\ names # {})
      <4>1. h \in DOMAIN hostMap.of /\ hostMap.of[h] = d
        BY <2>8, <2>14, <3>3
      <4>2. Accounted(d)
        BY <2>1, <4>1
      <4>3. BeingAddedAsHost(d) => BeingAddedAsHost(d)'
        <5>1. ASSUME NEW i \in AllCalls, call[i].at = "adds" PROVE call'[i] = call[i]
          BY <1>4, <1>7, <5>1
        <5>. QED  BY <5>1 DEF BeingAddedAsHost, Parent, Child
      <4>4. LacksAName(d) => LacksAName(d)'
        BY <2>10, <3>3 DEF LacksAName
      <4>5. (Ready(d)' <=> Ready(d)) /\ (NameIsTaken(d)' <=> NameIsTaken(d))
        BY <1>5 DEF Ready, NameIsTaken
      <4>. QED  BY <3>1, <4>2, <4>3, <4>4, <4>5 DEF Accounted
    <3>. QED  BY <3>2, <3>3
  <2>15. \A h \in DOMAIN hostMap'.of : Accounted(hostMap.of[h])'
    BY <2>7, <2>14 DEF Accounted, Ready, BeingAddedAsHost, NameIsTaken, LacksAName, RepeatsAName,
                       MapsTo, HostsOf, Parent, Child
  <2>. QED  BY <1>9, <2>7, <2>9, <2>11, <2>12, <2>13, <2>15 DEF HostInvariant, HostsKept
<1>. QED  BY <1>1, <1>10, <1>11 DEF HostTypes

(* A child that is added has its context then, or its call is over.        *)
LEMMA AddChildEffect ==
  ASSUME HostInvariant, NEW k \in AllCalls, AddChild(k), NEW p, p = Parent(k), NEW c, c = Child(k)
  PROVE  /\ hostMap' = hostMap /\ \A i \in AllCalls \ {k} : call'[i] = call[i]
         /\ \A d \in Components : Ready(d) => Ready(d)' /\ path'[d] = path[d]
         /\ DOMAIN tree \subseteq DOMAIN tree'
         /\ \/ call'[k] = Thrown
            \/ call'[k] = NextChild(call[k].todo)
            \/ call'[k].at = "init" /\ call'[k].todo = call[k].todo /\ Ready(c)'
         /\ hostMap.kept =>
              \/ /\ UNCHANGED hierarchy /\ call'[k] = Thrown
                 /\ Ready(c) \/ p = Root \/ NameIsTaken(c)
              \/ /\ call'[k].todo = call[k].todo /\ call'[k].at = "init" /\ Ready(c)'
                 /\ \A d \in Components \ {c} : context'[d] = context[d]
<1>. USE Roles
<1>1. TreeInvariant /\ CallTypes /\ TreeTypes /\ CalledAreReady /\ HostsKept
  BY DEF HostInvariant, TreeInvariant
<1>2. /\ call \in [AllCalls -> [at : CallPlaces, todo : Seq(Pairs)]]
      /\ context \in [Components -> {"none", "nascent", "ready"}]
      /\ path \in [Components -> Seq(Names)]
  BY <1>1 DEF CallTypes, TreeTypes
<1>3. Active(k) /\ call[k].at = "adds" /\ hostMap' = hostMap
  BY DEF AddChild, Active
<1>4. \/ k = "init" /\ p = Root /\ c = Manager /\ Ready(Root)
      \/ p = Manager /\ c \in Leaves
  BY <1>1, <1>3, ParentFact
<1>5. ASSUME hostMap.kept PROVE Ready(p) /\ context[c] # "nascent" /\ context[Manager] # "nascent"
  BY <1>1, <1>3, <1>4, <1>5 DEF HostsKept, NothingNascent
<1>6. CASE ~CanBeAdded(c)
  <2>1. UNCHANGED hierarchy /\ call' = [call EXCEPT ![k] = Thrown]
    BY <1>6 DEF AddChild, Child
  <2>2. hostMap.kept => Ready(c)
    BY <1>5, <1>6 DEF CanBeAdded
  <2>3. context' = context /\ path' = path /\ tree' = tree
    BY <2>1 DEF hierarchy
  <2>4. call'[k] = Thrown /\ \A i \in AllCalls \ {k} : call'[i] = call[i]
    BY <1>2, <2>1
  <2>5. \A d \in Components : Ready(d) => Ready(d)' /\ path'[d] = path[d]
    BY <2>3 DEF Ready
  <2>. QED  BY <1>3, <2>1, <2>2, <2>3, <2>4, <2>5
<1>7. CASE CanBeAdded(c) /\ AddNascent(k, p, c)
  <2>1. /\ ~Ready(p) /\ ~Ready(c) /\ path' = path /\ tree' = tree
        /\ context' = [context EXCEPT ![p] = "nascent", ![c] = "nascent"]
        /\ call' = [call EXCEPT ![k] = NextChild(call[k].todo)]
    BY <1>7 DEF AddNascent, CanBeAdded
  <2>2. \A d \in Components : Ready(d) => Ready(d)'
    BY <1>2, <2>1 DEF Ready
  <2>3. call'[k] = NextChild(call[k].todo) /\ \A i \in AllCalls \ {k} : call'[i] = call[i]
    BY <1>2, <2>1
  <2>4. ~hostMap.kept
    BY <1>5, <2>1
  <2>. QED  BY <1>3, <2>1, <2>2, <2>3, <2>4
<1>8. CASE CanBeAdded(c) /\ AddReady(k, p, c)
  <2>1. PICK key : key = PathKeyForChild(p, c)
    OBVIOUS
  <2>2. ~Ready(c) /\ Ready(p)
    BY <1>8 DEF AddReady, CanBeAdded
  <2>3. CASE key \in DOMAIN tree
    <3>1. UNCHANGED hierarchy /\ call' = [call EXCEPT ![k] = Thrown]
      BY <1>8, <2>1, <2>3 DEF AddReady
    <3>2. p = Root \/ NameIsTaken(c)
      <4>1. CASE p = Manager /\ c \in Leaves
        <5>1. GivenName[c] # NoName /\ key = Append(path[Manager], GivenName[c])
          BY <1>1, <2>1, <2>3, <4>1, KeyFact
        <5>. QED  BY <2>2, <2>3, <4>1, <5>1 DEF NameIsTaken
      <4>. QED  BY <1>4, <4>1
    <3>3. context' = context /\ path' = path /\ tree' = tree
      BY <3>1 DEF hierarchy
    <3>4. call'[k] = Thrown /\ \A i \in AllCalls \ {k} : call'[i] = call[i]
      BY <1>2, <3>1
    <3>5. \A d \in Components : Ready(d) => Ready(d)' /\ path'[d] = path[d]
      BY <3>3 DEF Ready
    <3>. QED  BY <1>3, <3>1, <3>2, <3>3, <3>4, <3>5
  <2>4. CASE key \notin DOMAIN tree
    <3>1. DOMAIN tree \subseteq DOMAIN tree'
      BY <1>8, <2>1, <2>4 DEF AddReady
    <3>2. CASE context[c] = "none"
      <4>1. /\ context' = [context EXCEPT ![c] = "ready"]
            /\ path' = [path EXCEPT ![c] = key]
            /\ call' = [call EXCEPT ![k].at = "init"]
        BY <1>8, <2>1, <2>4, <3>2 DEF AddReady
      <4>2. c \in Components
        BY <1>4
      <4>3. context'[c] = "ready" /\ \A d \in Components \ {c} :
              context'[d] = context[d] /\ path'[d] = path[d]
        BY <1>2, <4>1, <4>2
      <4>4. call'[k].at = "init" /\ call'[k].todo = call[k].todo
            /\ \A i \in AllCalls \ {k} : call'[i] = call[i]
        BY <1>2, <4>1
      <4>5. Ready(c)' /\ \A d \in Components : Ready(d) => Ready(d)' /\ path'[d] = path[d]
        BY <2>2, <4>3 DEF Ready
      <4>. QED  BY <1>3, <3>1, <4>3, <4>4, <4>5
    <3>3. CASE context[c] # "none"
      <4>1. context' = context /\ path' = path /\ call' = [call EXCEPT ![k] = Thrown]
        BY <1>8, <2>1, <2>4, <3>3 DEF AddReady
      <4>2. context[c] = "nascent"
        BY <1>2, <1>4, <2>2, <3>3 DEF Ready
      <4>3. call'[k] = Thrown /\ \A i \in AllCalls \ {k} : call'[i] = call[i]
        BY <1>2, <4>1
      <4>4. \A d \in Components : Ready(d) => Ready(d)' /\ path'[d] = path[d]
        BY <4>1 DEF Ready
      <4>5. ~hostMap.kept
        BY <1>5, <4>2
      <4>. QED  BY <1>3, <3>1, <4>3, <4>4, <4>5
    <3>. QED  BY <3>2, <3>3
  <2>. QED  BY <2>3, <2>4
<1>. QED  BY <1>6, <1>7, <1>8 DEF AddChild, Parent, Child

LEMMA AddChildKeepsHosts ==
  ASSUME HostInvariant, TreeInvariant', NEW k \in AllCalls, AddChild(k)
  PROVE  HostInvariant'
<1>. USE Roles
<1>1. TreeInvariant /\ CallTypes /\ HostTypes /\ CalledAreReady /\ HostsKept
  BY DEF HostInvariant, TreeInvariant
<1>2. PICK p, c : p = Parent(k) /\ c = Child(k)
  OBVIOUS
<1>3. Active(k) /\ call[k].at = "adds"
  BY DEF AddChild, Active
<1>4. \/ p = Root /\ c = Manager
      \/ p = Manager /\ c \in Leaves
  BY <1>1, <1>2, <1>3, ParentFact
<1>5. /\ hostMap' = hostMap /\ \A i \in AllCalls \ {k} : call'[i] = call[i]
      /\ \A d \in Components : Ready(d) => Ready(d)' /\ path'[d] = path[d]
      /\ DOMAIN tree \subseteq DOMAIN tree'
      /\ \/ call'[k] = Thrown
         \/ call'[k] = NextChild(call[k].todo)
         \/ call'[k].at = "init" /\ call'[k].todo = call[k].todo /\ Ready(c)'
  BY <1>2, AddChildEffect
<1>6. hostMap.kept =>
           \/ /\ UNCHANGED hierarchy /\ call'[k] = Thrown
              /\ Ready(c) \/ p = Root \/ NameIsTaken(c)
           \/ /\ call'[k].todo = call[k].todo /\ call'[k].at = "init" /\ Ready(c)'
              /\ \A d \in Components \ {c} : context'[d] = context[d]
  BY <1>2, AddChildEffect
<1>7. call'[k].at # "adds"
  <2>1. NextChild(call[k].todo).at \in {"maps", "done"}
    BY <1>1, <1>3, NextTodo
  <2>. QED  BY <1>5, <2>1 DEF Thrown
<1>8. CalledAreReady'
  <2>. SUFFICES ASSUME NEW i \in AllCalls, call'[i].at \in {"init", "inited", "start"},
                       NEW d, d = Child(i)'
                PROVE  Ready(d)'
    BY DEF CalledAreReady, Ready
  <2>1. CASE i = k
    <3>1. NextChild(call[k].todo).at \in {"maps", "done"}
      BY <1>1, <1>3, NextTodo
    <3>2. call'[k].todo = call[k].todo /\ Ready(c)'
      BY <1>5, <2>1, <3>1 DEF Thrown
    <3>. QED  BY <1>2, <2>1, <3>2 DEF Child
  <2>2. CASE i # k
    <3>1. call'[i] = call[i]
      BY <1>5, <2>2
    <3>2. d = Child(i) /\ Ready(d) /\ Active(i)
      BY <1>1, <3>1 DEF CalledAreReady, Child, Active
    <3>3. d \in Components
      BY <1>1, <3>2, ParentFact
    <3>. QED  BY <1>5, <3>2, <3>3
  <2>. QED  BY <2>1, <2>2
<1>9. ASSUME hostMap.kept
      PROVE  /\ NothingNascent' /\ AddedHaveNames' /\ MappedInOrder'
             /\ \A h \in DOMAIN hostMap'.of : Accounted(hostMap.of[h])'
  <2>1. NothingNascent /\ AddedHaveNames /\ MappedInOrder
        /\ \A h \in DOMAIN hostMap.of : Accounted(hostMap.of[h])
    BY <1>1, <1>9 DEF HostsKept
  <2>2. \A h, d : MapsTo(h, d)' <=> MapsTo(h, d)
    BY <1>5 DEF MapsTo
  <2>3. \A d \in Components \ {c} : context'[d] = context[d]
    BY <1>6, <1>9 DEF hierarchy
  <2>4. context'[c] # "nascent"
    BY <1>4, <1>6, <1>9, <2>1 DEF hierarchy, NothingNascent, Ready
  <2>5. NothingNascent'
    <3>1. ASSUME NEW i \in AllCalls, Active(i)', Parent(i)' = Manager PROVE Ready(Manager)'
      <4>1. CASE i = k
        <5>1. Parent(k) = Manager
          BY <1>6, <1>9, <3>1, <4>1 DEF Thrown, Active, Parent
        <5>. QED  BY <1>3, <1>5, <2>1, <5>1 DEF NothingNascent
      <4>2. CASE i # k
        <5>1. Active(i) /\ Parent(i) = Manager
          BY <1>5, <3>1, <4>2 DEF Active, Parent
        <5>. QED  BY <1>5, <2>1, <5>1 DEF NothingNascent
      <4>. QED  BY <4>1, <4>2
    <3>2. \A d \in Leaves \union {Manager} : context'[d] # "nascent"
      BY <2>1, <2>3, <2>4 DEF NothingNascent
    <3>. QED  BY <3>1, <3>2 DEF NothingNascent
  <2>6. AddedHaveNames'
    <3>1. ASSUME NEW i \in AllCalls, call'[i].at = "adds", Parent(i)' = Manager,
                 NEW d, d = Child(i)', NEW h \in HostsOf(d)
          PROVE  MapsTo(h, d)'
      <4>1. call'[i] = call[i]
        BY <1>5, <1>7, <3>1
      <4>. QED  BY <2>1, <2>2, <3>1, <4>1 DEF AddedHaveNames, Parent, Child
    <3>2. ASSUME NEW d \in Leaves, Ready(d)', NEW h \in HostsOf(d) PROVE MapsTo(h, d)'
      <4>1. CASE Ready(d)
        BY <2>1, <2>2, <4>1 DEF AddedHaveNames
      <4>2. CASE ~Ready(d)
        <5>1. d = c
          BY <2>3, <3>2, <4>2 DEF Ready
        <5>2. Parent(k) = Manager
          BY <1>2, <1>4, <5>1
        <5>3. MapsTo(h, d)
          BY <1>2, <1>3, <2>1, <5>1, <5>2 DEF AddedHaveNames
        <5>. QED  BY <2>2, <5>3
      <4>. QED  BY <4>1, <4>2
    <3>. QED  BY <3>1, <3>2 DEF AddedHaveNames, MapsTo, HostsOf
  <2>7. MappedInOrder'
    BY <1>5, <2>1 DEF MappedInOrder
  <2>8. ASSUME NEW h \in DOMAIN hostMap.of, NEW d, d = hostMap.of[h] PROVE Accounted(d)'
    <3>1. Accounted(d) /\ d \in Leaves
      BY <2>1, <2>8 DEF MappedInOrder
    <3>2. NameIsTaken(d) => NameIsTaken(d)'
      BY <1>5 DEF NameIsTaken
    <3>3. LacksAName(d) => LacksAName(d)'
      BY <2>2 DEF LacksAName
    <3>4. Ready(d) => Ready(d)'
      BY <1>5, <3>1
    <3>5. BeingAddedAsHost(d) => Accounted(d)'
      <4>. SUFFICES ASSUME NEW i \in AllCalls, call[i].at = "adds", Parent(i) = Manager, Child(i) = d
                    PROVE  Accounted(d)'
        BY DEF BeingAddedAsHost
      <4>1. CASE i = k
        <5>1. d = c /\ p = Manager
          BY <1>2, <4>1
        <5>2. Ready(d)' \/ Ready(d) \/ NameIsTaken(d)
          BY <1>6, <1>9, <5>1
        <5>. QED  BY <3>2, <3>4, <5>2 DEF Accounted
      <4>2. CASE i # k
        <5>1. call'[i] = call[i]
          BY <1>5, <4>2
        <5>2. BeingAddedAsHost(d)'
          BY <5>1 DEF BeingAddedAsHost, Parent, Child
        <5>. QED  BY <5>2 DEF Accounted
      <4>. QED  BY <4>1, <4>2
    <3>6. RepeatsAName(d) => RepeatsAName(d)'
      BY DEF RepeatsAName
    <3>. QED  BY <3>1, <3>2, <3>3, <3>4, <3>5, <3>6 DEF Accounted
  <2>9. \A h \in DOMAIN hostMap'.of : Accounted(hostMap.of[h])'
    BY <1>5, <2>8 DEF Accounted, Ready, BeingAddedAsHost, NameIsTaken, LacksAName, RepeatsAName,
                      MapsTo, HostsOf, Parent, Child
  <2>. QED  BY <2>5, <2>6, <2>7, <2>9
<1>10. HostTypes'
  BY <1>1, <1>5 DEF HostTypes
<1>. QED  BY <1>5, <1>8, <1>9, <1>10 DEF HostInvariant, HostsKept

LEMMA HostsStayPut ==
  ASSUME HostInvariant, TreeInvariant', UNCHANGED <<hierarchy, hostMap>>,
         \A k \in AllCalls : CallGoesOn(k)
  PROVE  HostInvariant'
<1>1. /\ context' = context /\ path' = path /\ tree' = tree /\ hostMap' = hostMap
  BY DEF hierarchy
<1>. QED  BY <1>1, HostsStay

LEMMA NextKeepsHosts ==
  ASSUME HostInvariant, [Next]_vars
  PROVE  HostInvariant'
<1>. USE Roles
<1>1. TreeInvariant /\ CallTypes
  BY DEF HostInvariant, TreeInvariant
<1>2. TreeInvariant'
  BY <1>1, NextKeepsTree
<1>3. call \in [AllCalls -> [at : CallPlaces, todo : Seq(Pairs)]]
  BY <1>1 DEF CallTypes
<1>4. ASSUME UNCHANGED <<hierarchy, call, hostMap>> PROVE HostInvariant'
  BY <1>2, <1>4, HostsStayPut DEF CallGoesOn
<1>5. CASE StartRoot
  <2>1. CASE UNCHANGED <<hierarchy, call, hostMap>>
    BY <1>4, <2>1
  <2>2. ASSUME ~Ready(Root), context' = [context EXCEPT ![Root] = "ready"],
               UNCHANGED <<hasParent, path, tree, hostMap>>,
               call' = [call EXCEPT !["init"] =
             [at |-> "adds",
              todo |-> << <<Root, Manager>> >>
                         \o [i \in 1 .. Len(Configured) |-> <<Manager, Configured[i]>>]]]
        PROVE  HostInvariant'
    <3>1. call["init"].at = "none"
      BY <1>1, <2>2 DEF TreeInvariant, Parentage, NoCall
    <3>2. /\ call'["init"].at = "adds" /\ call'["init"].todo[1] = <<Root, Manager>>
          /\ \A k \in AllCalls \ {"init"} : call'[k] = call[k]
      BY <1>1, <2>2, <3>1, InitCall
    <3>3. CallBegins("init")
      BY <3>1, <3>2 DEF CallBegins
    <3>4. \A c \in Leaves \union {Manager} : context'[c] = context[c]
      BY <2>2
    <3>5. \A k \in AllCalls : CallGoesOn(k) \/ CallBegins(k)
      BY <3>2, <3>3 DEF CallGoesOn
    <3>. QED  BY <1>2, <2>2, <3>4, <3>5, HostsStay
  <2>. QED  BY <1>5, <2>1, <2>2 DEF StartRoot
<1>6. ASSUME NEW c \in Components, NEW kind \in Kinds, Works(c, kind) \/ Fails(c, kind) \/ Ends(c, kind)
      PROVE  HostInvariant'
  <2>1. CASE Works(c, kind)
    BY <1>4, <2>1 DEF Works
  <2>2. CASE Fails(c, kind) \/ Ends(c, kind)
    <3>1. UNCHANGED <<hierarchy, hostMap>> /\ \E ok : Settle(c, kind, ok)
      BY <2>2 DEF Fails, Ends
    <3>2. PICK ok : Settle(c, kind, ok)
      BY <3>1
    <3>3. call' = [k \in AllCalls |->
                IF call[k].at = kind /\ call[k].todo[1][2] = c
                THEN IF ~ok THEN Thrown
                     ELSE IF kind = "init" THEN [call[k] EXCEPT !.at = "inited"]
                     ELSE NextChild(call[k].todo)
                ELSE call[k]]
      BY <3>2 DEF Settle
    <3>4. ASSUME NEW k \in AllCalls PROVE CallGoesOn(k)
      <4>1. CASE ~(call[k].at = kind /\ call[k].todo[1][2] = c)
        BY <3>3, <4>1 DEF CallGoesOn
      <4>2. CASE call[k].at = kind /\ call[k].todo[1][2] = c
        <5>1. call[k].at \in {"init", "start"}
          BY <1>3, <4>2 DEF Kinds, CallPlaces
        <5>2. \/ call'[k] = Thrown
              \/ call'[k] = [call[k] EXCEPT !.at = "inited"]
              \/ call'[k] = NextChild(call[k].todo)
          BY <3>3, <4>2
        <5>3. call'[k] = [call[k] EXCEPT !.at = "inited"] =>
                call'[k].todo = call[k].todo /\ call'[k].at = "inited"
          BY <1>3
        <5>. QED  BY <5>1, <5>2, <5>3 DEF CallGoesOn
      <4>. QED  BY <4>1, <4>2
    <3>. QED  BY <1>2, <3>1, <3>4, HostsStayPut
  <2>. QED  BY <1>6, <2>1, <2>2
<1>7. ASSUME NEW k \in AllCalls, ChildInited(k) PROVE HostInvariant'
  <2>1. call[k].at = "inited" /\ UNCHANGED <<hierarchy, hostMap>>
    BY <1>7 DEF ChildInited
  <2>2. \/ call' = [call EXCEPT ![k] = Thrown]
        \/ call' = [call EXCEPT ![k] = [call[k] EXCEPT !.at = "start"]]
        \/ call' = [call EXCEPT ![k] = NextChild(call[k].todo)]
    BY <1>7 DEF ChildInited
  <2>3. ASSUME NEW i \in AllCalls PROVE CallGoesOn(i)
    <3>1. CASE i = k
      <4>1. \/ call'[k] = Thrown
            \/ call'[k].todo = call[k].todo /\ call'[k].at = "start"
            \/ call'[k] = NextChild(call[k].todo)
        BY <1>3, <2>2
      <4>. QED  BY <2>1, <3>1, <4>1 DEF CallGoesOn
    <3>2. CASE i # k
      BY <1>3, <2>2, <3>2 DEF CallGoesOn
    <3>. QED  BY <3>1, <3>2
  <2>. QED  BY <1>2, <2>1, <2>3, HostsStayPut
<1>8. ASSUME NEW k \in Callers, NEW list \in Lists, AddAll(k, list) PROVE HostInvariant'
  <2>1. list \in Seq(Leaves) /\ list # <<>>
    BY TreeAssumption
  <2>2. DOMAIN list # {} /\ 1 \in DOMAIN list
    BY <2>1
  <2>3. hostMap.kept => Ready(Manager)
    BY <1>8, <2>2 DEF AddAll, MayBeHost
  <2>4. /\ call[k] = NoCall /\ UNCHANGED <<hierarchy, hostMap>>
        /\ call' = [call EXCEPT ![k] =
                     [at |-> "maps", todo |-> [i \in DOMAIN list |-> <<Manager, list[i]>>]]]
    BY <1>8 DEF AddAll
  <2>5. call'[k].at = "maps" /\ \A i \in AllCalls \ {k} : call'[i] = call[i]
    BY <1>3, <2>4
  <2>6. CallBegins(k)
    BY <2>3, <2>4, <2>5 DEF CallBegins, NoCall
  <2>7. \A i \in AllCalls : CallGoesOn(i) \/ CallBegins(i)
    BY <2>5, <2>6 DEF CallGoesOn
  <2>8. context' = context /\ path' = path /\ tree' = tree /\ hostMap' = hostMap
    BY <2>4 DEF hierarchy
  <2>. QED  BY <1>2, <2>7, <2>8, HostsStay
<1>9. ASSUME NEW k \in AllCalls, MapHost(k) PROVE HostInvariant'
  BY <1>2, <1>9, MapHostKeepsHosts
<1>10. ASSUME NEW k \in AllCalls, AddChild(k) PROVE HostInvariant'
  BY <1>2, <1>10, AddChildKeepsHosts
<1>11. CASE StartInited \/ StopRoot
  BY <1>4, <1>11 DEF StartInited, StopRoot
<1>12. ASSUME NEW w \in Waiters, WhenStopped(w) PROVE HostInvariant'
  BY <1>4, <1>12 DEF WhenStopped
<1>13. CASE UNCHANGED vars
  BY <1>4, <1>13 DEF vars
<1>. QED  BY <1>5, <1>6, <1>7, <1>8, <1>9, <1>10, <1>11, <1>12, <1>13 DEF Next, GoOn

LEMMA HostsHold == Spec => []HostInvariant
<1>1. Init => HostInvariant
  BY FirstHosts
<1>2. HostInvariant /\ [Next]_vars => HostInvariant'
  BY NextKeepsHosts
<1>. QED  BY <1>1, <1>2, PTL DEF Spec

(* However the calls of addAll() interleave: a host that is a child of the *)
(* manager is found by all its names, and one that is found but is not a   *)
(* child is being added, or lost to another, or has a hostname twice       *)
(* (HostMap.checkHost() and addHost()).                                    *)
THEOREM TheHostMapIsTrue == Spec => []HostMapIsTrue
<1>1. HostInvariant => HostMapIsTrue
  BY HostsAreTrue
<1>. QED  BY <1>1, HostsHold, PTL
-----------------------------------------------------------------------------
(* Running and stopping.  The shapes of what is kept, and who awaits whom. *)
States == {"new", "initializing", "stopped", "starting", "running", "stopping"}
WaitsFor(c) == IF c = Root THEN {Manager} ELSE IF c = Manager THEN Leaves ELSE {}

OpShapes ==
  /\ op = [c \in Components |-> [kind \in Kinds |-> op[c][kind]]]
  /\ \A c \in Components, kind \in Kinds :
       op[c][kind] = [at |-> op[c][kind].at, waits |-> op[c][kind].waits,
                      failed |-> op[c][kind].failed]

AwaitedAreBelow ==
  \A c \in Components, kind \in Kinds : op[c][kind].waits \subseteq WaitsFor(c)

(* A component has a state as soon as it has a context, and while the work *)
(* of a call is not done, the state says so: no two calls work at a time.  *)
ReadyHaveStates ==
  /\ state \in [Components -> States]
  /\ \A c \in Components : Ready(c) <=> state[c] # "new"

WorkShows ==
  \A c \in Components, kind \in Kinds : op[c][kind].at = "work" => state[c] = During(kind)

(* What the root awaits of its manager is done when it no longer awaits    *)
(* it, unless it has heard of a failure.                                   *)
ManagerIsDone ==
  \A kind \in {"start", "stop"} :
    op[Root][kind].at = "work" /\ ~op[Root][kind].failed =>
      Manager \in op[Root][kind].waits \/ state[Manager] = Target(kind)

(* The init() of a leaf is awaited by whoever adds it.                     *)
InitIsAwaited ==
  \A c \in Leaves : op[c]["init"].at # "none" =>
    \E k \in AllCalls : call[k].at = "init" /\ Child(k) = c

(* The root adds its manager before anything else, while it initializes.   *)
ManagerFirst ==
  /\ Active("init") => state[Root] = "initializing"
  /\ state[Root] = "initializing" =>
       \/ state[Manager] = "stopped"
       \/ call["init"] = Thrown
       \/ call["init"].at \in {"adds", "init"} /\ Parent("init") = Root
  /\ op[Root]["start"].at = "inited" => state[Root] = "stopped"

InStep ==
  /\ state[Root] = "running" => state[Manager] = "running"
  /\ state[Root] = "stopped" => state[Manager] = "stopped"

StoppingBelow == \A c \in Leaves : state[c] = "stopping" => state[Manager] = "stopping"

(* A leaf rests unless the manager starts or runs, or stops and is to hear *)
(* of it.                                                                  *)
StopsBefore(c, calls) ==
  calls["stop"].at = "work" /\ ~calls["stop"].failed => c \in calls["stop"].waits
StartsBefore(c, calls) ==
  calls["start"].at = "work" /\ ~calls["start"].failed => c \in calls["start"].waits
Rests(c) == state[c] \in {"new", "initializing", "stopped"}

NoneLeftActive ==
  \A c \in Leaves :
    \/ Rests(c)
    \/ state[Manager] \in {"starting", "running"}
    \/ state[Manager] = "stopping" /\ StopsBefore(c, op[Manager])

(* A leaf that has stopped below a manager that starts or runs is excused, *)
(* or the manager is to hear of it.                                        *)
Excused(c) == c \in leftOut \/ BeingAdded(c)

NoneForgotten ==
  \A c \in Leaves : state[c] = "stopped" =>
    \/ Excused(c)
    \/ state[Manager] \in {"new", "initializing", "stopping", "stopped"}
    \/ state[Manager] = "starting" /\ StartsBefore(c, op[Manager])

RunInvariant ==
  /\ OpShapes /\ AwaitedAreBelow /\ ReadyHaveStates /\ WorkShows /\ ManagerIsDone
  /\ InitIsAwaited /\ ManagerFirst /\ InStep /\ StoppingBelow
  /\ NoneLeftActive /\ NoneForgotten

LEMMA KindFact ==
  /\ Kinds = {"init", "start", "stop"}
  /\ During("init") = "initializing" /\ During("start") = "starting"
  /\ During("stop") = "stopping"
  /\ Target("init") = "stopped" /\ Target("start") = "running" /\ Target("stop") = "stopped"
  /\ From("start") = "stopped" /\ From("stop") = "running"
BY DEF Kinds, During, Target, From

(* What is shown of a hierarchy.                                           *)
LEMMA RunsAreWhole ==
  ASSUME TreeInvariant, RunInvariant
  PROVE  RunsAndStopsAsAWhole
<1>. USE Roles
<1>1. ReadyHaveStates /\ InStep /\ NoneLeftActive /\ NoneForgotten
  BY DEF RunInvariant
<1>2. state[Manager] \in {"running", "stopped"} =>
         \A c \in Children(Manager) : c \in Leaves /\ state[c] # "new"
  <2>. SUFFICES ASSUME state[Manager] \in {"running", "stopped"}
                PROVE  \A c \in Children(Manager) : c \in Leaves /\ state[c] # "new"
    OBVIOUS
  <2>1. Ready(Manager)
    BY <1>1 DEF ReadyHaveStates
  <2>2. Children(Manager) = {c \in Leaves : Ready(c)}
    BY <2>1, ChildrenFact
  <2>. QED  BY <1>1, <2>2 DEF ReadyHaveStates
<1>3. state[Manager] = "running" =>
         \A c \in Children(Manager) : state[c] = "stopped" => c \in leftOut \/ BeingAdded(c)
  BY <1>1, <1>2 DEF NoneForgotten, Excused
<1>4. state[Manager] = "stopped" =>
         \A c \in Children(Manager) : state[c] \in {"initializing", "stopped"}
  BY <1>1, <1>2 DEF NoneLeftActive, Rests
<1>. QED  BY <1>1, <1>3, <1>4 DEF RunsAndStopsAsAWhole, InStep

LEMMA FirstRun == Init => RunInvariant
<1>. SUFFICES ASSUME Init PROVE RunInvariant
  OBVIOUS
<1>. USE Roles
<1>1. /\ \A c \in Components : state[c] = "new" /\ ~Ready(c)
      /\ state = [c \in Components |-> "new"]
  BY DEF Init, Ready
<1>2. /\ op = [c \in Components |-> [kind \in Kinds |-> NoOp]]
      /\ \A c \in Components, kind \in Kinds : op[c][kind] = NoOp
  BY DEF Init
<1>3. OpShapes /\ AwaitedAreBelow
  BY <1>2 DEF OpShapes, AwaitedAreBelow, NoOp
<1>4. ReadyHaveStates
  BY <1>1 DEF ReadyHaveStates, States
<1>5. WorkShows /\ ManagerIsDone /\ InitIsAwaited
  BY <1>2, KindFact DEF WorkShows, ManagerIsDone, InitIsAwaited, NoOp
<1>6. ManagerFirst
  <2>1. call["init"].at = "none"
    BY DEF Init, NoCall
  <2>2. op[Root]["start"].at = "none"
    BY <1>2, KindFact DEF NoOp
  <2>. QED  BY <1>1, <2>1, <2>2 DEF ManagerFirst, Active
<1>7. InStep /\ StoppingBelow /\ NoneLeftActive /\ NoneForgotten
  BY <1>1 DEF InStep, StoppingBelow, NoneLeftActive, NoneForgotten, Rests
<1>. QED  BY <1>3, <1>4, <1>5, <1>6, <1>7 DEF RunInvariant

-----------------------------------------------------------------------------
(* A call of init(), start() or stop() returns or throws.                  *)
LEMMA SettledFact ==
  ASSUME OpShapes, AwaitedAreBelow,
         NEW c \in Components, NEW kind \in Kinds, NEW ok \in BOOLEAN, op' = Settled(c, kind, ok)
  PROVE  /\ OpShapes' /\ AwaitedAreBelow'
         /\ op'[c][kind].at = "none"
         /\ \A d \in Components \ {Root}, j \in Kinds :
              op'[d][j].at # "none" => op[d][j].at # "none"
         /\ op'[Root]["start"].at = "inited" =>
              op[Root]["start"].at = "inited" \/ (c = Root /\ kind = "init" /\ ok)
         /\ \A d \in Components, j \in Kinds : op'[d][j].at = "work" =>
              /\ op[d][j].at = "work"
              /\ ~op'[d][j].failed =>
                   /\ ~op[d][j].failed
                   /\ \A e \in op[d][j].waits \ op'[d][j].waits : e = c /\ j = kind /\ ok
<1>. USE Roles
<1>1. ASSUME NEW d \in Components, NEW j \in Kinds
      PROVE  op'[d][j] = IF d = c /\ j = kind THEN NoOp
                         ELSE IF j = kind /\ c \in op[d][j].waits
                         THEN [op[d][j] EXCEPT !.waits = @ \ {c}, !.failed = @ \/ ~ok]
                         ELSE IF c = Root /\ d = Root /\ kind = "init" /\ op[d][j].at = "init"
                         THEN IF ok THEN [op[d][j] EXCEPT !.at = "inited"] ELSE NoOp
                         ELSE op[d][j]
  BY DEF Settled
<1>2. op' = [d \in Components |-> [j \in Kinds |-> op'[d][j]]]
  BY DEF Settled
<1>3. ASSUME NEW d \in Components, NEW j \in Kinds
      PROVE  /\ op'[d][j] = [at |-> op'[d][j].at, waits |-> op'[d][j].waits,
                             failed |-> op'[d][j].failed]
             /\ op'[d][j].waits \subseteq WaitsFor(d)
             /\ d # Root /\ op'[d][j].at # "none" => op[d][j].at # "none"
             /\ op'[d][j].at = "work" => op[d][j].at = "work"
             /\ op'[d][j].at = "inited" =>
                  op[d][j].at = "inited" \/ (c = Root /\ kind = "init" /\ ok)
             /\ op'[d][j].at = "work" /\ ~op'[d][j].failed =>
                  /\ ~op[d][j].failed
                  /\ \A e \in op[d][j].waits \ op'[d][j].waits : e = c /\ j = kind /\ ok
  <2>1. /\ op[d][j] = [at |-> op[d][j].at, waits |-> op[d][j].waits, failed |-> op[d][j].failed]
        /\ op[d][j].waits \subseteq WaitsFor(d)
    BY DEF OpShapes, AwaitedAreBelow
  <2>2. CASE op'[d][j] = NoOp
    BY <2>2 DEF NoOp
  <2>. DEFINE heard == [op[d][j] EXCEPT !.waits = @ \ {c}, !.failed = @ \/ ~ok]
              inited == [op[d][j] EXCEPT !.at = "inited"]
  <2>3. CASE j = kind /\ op'[d][j] = heard
    <3>1. op'[d][j] = [at |-> op[d][j].at, waits |-> op[d][j].waits \ {c},
                       failed |-> op[d][j].failed \/ ~ok]
      BY <2>1, <2>3
    <3>2. op'[d][j].at = op[d][j].at /\ op'[d][j].waits = op[d][j].waits \ {c}
      BY <3>1
    <3>3. ~op'[d][j].failed => ~op[d][j].failed /\ ok
      <4>1. op'[d][j].failed = (op[d][j].failed \/ ~ok)
        BY <3>1
      <4>2. ASSUME op[d][j].failed PROVE op'[d][j].failed
        BY <4>1, <4>2, Zenon
      <4>3. ASSUME ~ok PROVE op'[d][j].failed
        BY <4>1, <4>3, Zenon
      <4>. QED  BY <4>2, <4>3
    <3>. QED  BY <2>1, <2>3, <3>1, <3>2, <3>3
  <2>4. CASE ok /\ c = Root /\ kind = "init" /\ op'[d][j] = inited /\ d = Root
    <3>1. op'[d][j] = [at |-> "inited", waits |-> op[d][j].waits, failed |-> op[d][j].failed]
      BY <2>1, <2>4
    <3>. QED  BY <2>1, <2>4, <3>1
  <2>5. CASE op'[d][j] = op[d][j]
    BY <2>1, <2>5
  <2>6. op'[d][j] = IF d = c /\ j = kind THEN NoOp
                    ELSE IF j = kind /\ c \in op[d][j].waits THEN heard
                    ELSE IF c = Root /\ d = Root /\ kind = "init" /\ op[d][j].at = "init"
                    THEN IF ok THEN inited ELSE NoOp
                    ELSE op[d][j]
    BY <1>1, Zenon
  <2>. HIDE DEF heard, inited
  <2>. QED  BY <2>2, <2>3, <2>4, <2>5, <2>6
<1>4. op'[c][kind].at = "none"
  <2>1. op'[c][kind] = NoOp
    BY DEF Settled
  <2>. QED  BY <2>1 DEF NoOp
<1>5. "start" \in Kinds
  BY KindFact
<1>6. OpShapes'
  BY <1>2, <1>3 DEF OpShapes
<1>7. AwaitedAreBelow'
  <2>. SUFFICES ASSUME NEW d \in Components, NEW j \in Kinds
                PROVE  op'[d][j].waits \subseteq WaitsFor(d)
    BY DEF AwaitedAreBelow, WaitsFor
  <2>. QED  BY <1>3
<1>8. \A d \in Components \ {Root}, j \in Kinds : op'[d][j].at # "none" => op[d][j].at # "none"
  BY <1>3
<1>9. op'[Root]["start"].at = "inited" =>
        op[Root]["start"].at = "inited" \/ (c = Root /\ kind = "init" /\ ok)
  BY <1>3, <1>5
<1>10. ASSUME NEW d \in Components, NEW j \in Kinds, op'[d][j].at = "work"
       PROVE  /\ op[d][j].at = "work"
              /\ ~op'[d][j].failed =>
                   /\ ~op[d][j].failed
                   /\ \A e \in op[d][j].waits \ op'[d][j].waits : e = c /\ j = kind /\ ok
  BY <1>3, <1>10
<1>. QED  BY <1>4, <1>6, <1>7, <1>8, <1>9, <1>10

(* Whoever ends, ends as its state tells: what it has worked for is the    *)
(* case, or somebody else has changed it, or the work was not done.        *)
LEMMA SettlingKeepsRuns ==
  ASSUME TreeInvariant, RunInvariant, TreeInvariant', NEW c \in Components, NEW kind \in Kinds,
         NEW ok \in BOOLEAN, ok <=> state[c] = Target(kind),
         Settle(c, kind, ok), UNCHANGED <<context, state, leftOut>>
  PROVE  RunInvariant'
<1>. USE Roles, KindFact
<1>1. /\ OpShapes /\ AwaitedAreBelow /\ ReadyHaveStates /\ WorkShows /\ ManagerIsDone
      /\ InitIsAwaited /\ ManagerFirst /\ InStep /\ StoppingBelow
      /\ NoneLeftActive /\ NoneForgotten
  BY DEF RunInvariant
<1>2. CallTypes
  BY DEF TreeInvariant
<1>3. /\ OpShapes' /\ AwaitedAreBelow'
      /\ op'[c][kind].at = "none"
      /\ \A d \in Components \ {Root}, j \in Kinds :
           op'[d][j].at # "none" => op[d][j].at # "none"
      /\ op'[Root]["start"].at = "inited" =>
           op[Root]["start"].at = "inited" \/ (c = Root /\ kind = "init" /\ ok)
      /\ \A d \in Components, j \in Kinds : op'[d][j].at = "work" =>
           /\ op[d][j].at = "work"
           /\ ~op'[d][j].failed =>
                /\ ~op[d][j].failed
                /\ \A e \in op[d][j].waits \ op'[d][j].waits : e = c /\ j = kind /\ ok
  BY <1>1, SettledFact DEF Settle
<1>4. \A k \in AllCalls :
        call'[k] = IF call[k].at = kind /\ Child(k) = c
                   THEN IF ~ok THEN Thrown
                        ELSE IF kind = "init" THEN [call[k] EXCEPT !.at = "inited"]
                        ELSE NextChild(call[k].todo)
                   ELSE call[k]
  BY DEF Settle, Child
<1>5. ReadyHaveStates' /\ InStep' /\ StoppingBelow'
  BY <1>1 DEF ReadyHaveStates, InStep, StoppingBelow, Ready
<1>6. WorkShows'
  BY <1>1, <1>3 DEF WorkShows
<1>7. ManagerIsDone'
  BY <1>1, <1>3 DEF ManagerIsDone
<1>8. ASSUME NEW k \in AllCalls, call[k].at = "init", Child(k) = c, kind = "init", ok
      PROVE  call'[k].at = "inited" /\ call'[k].todo = call[k].todo
  <2>1. call[k] \in [at : CallPlaces, todo : Seq(Pairs)]
    BY <1>2 DEF CallTypes
  <2>2. call'[k] = [call[k] EXCEPT !.at = "inited"]
    BY <1>4, <1>8
  <2>. QED  BY <2>1, <2>2
<1>9. InitIsAwaited'
  <2>. SUFFICES ASSUME NEW d \in Leaves, op'[d]["init"].at # "none"
                PROVE  \E k \in AllCalls : call'[k].at = "init" /\ Child(k)' = d
    BY DEF InitIsAwaited
  <2>1. op[d]["init"].at # "none" /\ ~(d = c /\ kind = "init")
    BY <1>3
  <2>2. PICK k \in AllCalls : call[k].at = "init" /\ Child(k) = d
    BY <1>1, <2>1 DEF InitIsAwaited
  <2>3. call'[k] = call[k]
    BY <1>4, <2>1, <2>2
  <2>. QED  BY <2>2, <2>3 DEF Child
<1>10. ManagerFirst'
  <2>1. Active("init")' => Active("init")
    BY <1>4 DEF Active
  <2>2. ASSUME state[Root] = "initializing", state[Manager] # "stopped"
        PROVE  \/ call'["init"] = Thrown
               \/ call'["init"].at \in {"adds", "init"} /\ Parent("init")' = Root
    <3>1. CASE call'["init"] = call["init"]
      BY <1>1, <2>2, <3>1 DEF ManagerFirst, Parent
    <3>2. CASE call["init"].at = kind /\ Child("init") = c
      <4>1. call["init"] # Thrown
        BY <3>2 DEF Thrown
      <4>2. call["init"].at = "init" /\ Parent("init") = Root
        BY <1>1, <2>2, <3>2, <4>1 DEF ManagerFirst
      <4>3. Active("init")
        BY <4>2 DEF Active
      <4>4. c = Manager /\ kind = "init"
        BY <1>2, <3>2, <4>2, <4>3, PairFact
      <4>5. ~ok
        BY <2>2, <4>4
      <4>. QED  BY <1>4, <3>2, <4>5
    <3>. QED  BY <1>4, <3>1, <3>2
  <2>3. op'[Root]["start"].at = "inited" => state[Root] = "stopped"
    BY <1>1, <1>3 DEF ManagerFirst
  <2>. QED  BY <1>1, <2>1, <2>2, <2>3 DEF ManagerFirst
<1>11. NoneLeftActive'
  <2>. SUFFICES ASSUME NEW d \in Leaves, ~Rests(d), state[Manager] \notin {"starting", "running"}
                PROVE  state[Manager] = "stopping" /\ StopsBefore(d, op'[Manager])
    BY DEF NoneLeftActive, Rests
  <2>1. state[Manager] = "stopping" /\ StopsBefore(d, op[Manager])
    BY <1>1 DEF NoneLeftActive
  <2>2. state[d] # "stopped"
    BY DEF Rests
  <2>. QED  BY <1>3, <2>1, <2>2 DEF StopsBefore
<1>12. NoneForgotten'
  <2>. SUFFICES ASSUME NEW d \in Leaves, state[d] = "stopped",
                       state[Manager] \notin {"new", "initializing", "stopping", "stopped"},
                       ~Excused(d)'
                PROVE  state[Manager] = "starting" /\ StartsBefore(d, op'[Manager])
    BY DEF NoneForgotten
  <2>1. ~Excused(d)
    <3>. SUFFICES ASSUME NEW k \in AllCalls, call[k].at \in {"init", "inited"}, Child(k) = d
                  PROVE  BeingAdded(d)'
      BY DEF Excused, BeingAdded, Child
    <3>1. CASE call'[k] = call[k]
      BY <3>1 DEF BeingAdded, Child
    <3>2. CASE call[k].at = kind /\ Child(k) = c
      <4>1. kind = "init" /\ ok
        BY <3>2
      <4>2. call'[k].at = "inited" /\ call'[k].todo = call[k].todo
        BY <1>8, <3>2, <4>1
      <4>. QED  BY <4>2 DEF BeingAdded, Child
    <3>. QED  BY <1>4, <3>1, <3>2
  <2>2. state[Manager] = "starting" /\ StartsBefore(d, op[Manager])
    BY <1>1, <2>1 DEF NoneForgotten
  <2>. QED  BY <1>3, <2>2 DEF StartsBefore
<1>. QED  BY <1>3, <1>5, <1>6, <1>7, <1>9, <1>10, <1>11, <1>12 DEF RunInvariant

(* One call of one component changes.                                      *)
LEMMA OpExcept ==
  ASSUME OpShapes, NEW c \in Components, NEW kind \in Kinds, NEW x,
         op' = [op EXCEPT ![c][kind] = x]
  PROVE  /\ op' = [d \in Components |-> [j \in Kinds |-> op'[d][j]]]
         /\ op'[c][kind] = x
         /\ \A d \in Components, j \in Kinds :
              (d = c /\ j = kind) \/ op'[d][j] = op[d][j]
<1>1. DOMAIN op = Components /\ \A d \in Components : DOMAIN op[d] = Kinds
  BY DEF OpShapes
<1>2. op = [d \in Components |-> op[d]] /\ \A d \in Components : op[d] = [j \in Kinds |-> op[d][j]]
  BY DEF OpShapes
<1>3. op' = [d \in Components |-> IF d = c THEN [op[c] EXCEPT ![kind] = x] ELSE op[d]]
  BY <1>1, <1>2
<1>4. ASSUME NEW d \in Components
      PROVE  op'[d] = [j \in Kinds |-> IF d = c /\ j = kind THEN x ELSE op[d][j]]
  <2>1. CASE d = c
    <3>1. op'[d] = [op[c] EXCEPT ![kind] = x]
      BY <1>3, <2>1
    <3>. QED  BY <1>1, <1>2, <2>1, <3>1
  <2>2. CASE d # c
    BY <1>2, <1>3, <2>2
  <2>. QED  BY <2>1, <2>2
<1>5. ASSUME NEW d \in Components, NEW j \in Kinds
      PROVE  op'[d][j] = IF d = c /\ j = kind THEN x ELSE op[d][j]
  <2>1. op'[d] = [i \in Kinds |-> IF d = c /\ i = kind THEN x ELSE op[d][i]]
    BY <1>4
  <2>. QED  BY <2>1
<1>6. op' = [d \in Components |-> op'[d]]
  BY <1>3
<1>7. ASSUME NEW d \in Components PROVE op'[d] = [j \in Kinds |-> op'[d][j]]
  <2>1. op'[d] = [i \in Kinds |-> IF d = c /\ i = kind THEN x ELSE op[d][i]]
    BY <1>4
  <2>. QED  BY <2>1
<1>. QED  BY <1>5, <1>6, <1>7

LEMMA OpMoves ==
  ASSUME OpShapes, NEW c \in Components, NEW kind \in Kinds, NEW place,
         op' = [op EXCEPT ![c][kind].at = place]
  PROVE  /\ op' = [d \in Components |-> [j \in Kinds |-> op'[d][j]]]
         /\ \A d \in Components, j \in Kinds : (d = c /\ j = kind) \/ op'[d][j] = op[d][j]
<1>1. PICK x : x = [op[c][kind] EXCEPT !.at = place]
  OBVIOUS
<1>2. op' = [op EXCEPT ![c][kind] = x]
  BY <1>1
<1>3. op' = [d \in Components |-> [j \in Kinds |-> op'[d][j]]]
  BY <1>2, OpExcept
<1>4. \A d \in Components, j \in Kinds : (d = c /\ j = kind) \/ op'[d][j] = op[d][j]
  BY <1>2, OpExcept
<1>. QED  BY <1>3, <1>4

(* The own work of a component is done: nothing that it has awaited is     *)
(* active any more, or all of it runs.                                     *)
LEMMA WorkingKeepsRuns ==
  ASSUME TreeInvariant, RunInvariant, NEW c \in Components, NEW kind \in Kinds, Works(c, kind)
  PROVE  RunInvariant'
<1>. USE Roles, KindFact
<1>1. /\ OpShapes /\ AwaitedAreBelow /\ ReadyHaveStates /\ WorkShows /\ ManagerIsDone
      /\ InitIsAwaited /\ ManagerFirst /\ InStep /\ StoppingBelow
      /\ NoneLeftActive /\ NoneForgotten
  BY DEF RunInvariant
<1>2. /\ op[c][kind].at = "work" /\ state[c] = During(kind)
      /\ op[c][kind].waits = {} /\ ~op[c][kind].failed
      /\ c = Root /\ kind = "init" => call["init"] = Done
      /\ UNCHANGED <<context, call, leftOut>>
  BY <1>1 DEF Works, WorkIsDone, WorkShows, hierarchy
<1>3. /\ state' = [state EXCEPT ![c] = Target(kind)]
      /\ \A d \in Components : state'[d] = IF d = c THEN Target(kind) ELSE state[d]
  BY <1>1 DEF Works, SetState, SetStates, ReadyHaveStates
<1>4. /\ op' = [d \in Components |-> [j \in Kinds |-> op'[d][j]]]
      /\ op'[c][kind] = [op[c][kind] EXCEPT !.at = "tail"]
      /\ \A d \in Components, j \in Kinds : (d = c /\ j = kind) \/ op'[d][j] = op[d][j]
  <2>1. op' = [op EXCEPT ![c][kind].at = "tail"]
    BY DEF Works
  <2>2. op'[c][kind] = [op[c][kind] EXCEPT !.at = "tail"]
    <3>1. DOMAIN op = Components /\ DOMAIN op[c] = Kinds
      BY <1>1 DEF OpShapes
    <3>. QED  BY <2>1, <3>1
  <2>3. op' = [d \in Components |-> [j \in Kinds |-> op'[d][j]]]
    BY <1>1, <2>1, OpMoves
  <2>4. \A d \in Components, j \in Kinds : (d = c /\ j = kind) \/ op'[d][j] = op[d][j]
    BY <1>1, <2>1, OpMoves
  <2>. QED  BY <2>2, <2>3, <2>4
<1>6. ASSUME NEW d \in Components, NEW j \in Kinds
      PROVE  /\ op'[d][j] = [at |-> op'[d][j].at, waits |-> op'[d][j].waits,
                             failed |-> op'[d][j].failed]
             /\ op'[d][j].waits = op[d][j].waits
             /\ op'[d][j].at = op[d][j].at \/ (d = c /\ j = kind /\ op'[d][j].at = "tail")
  <2>1. op[d][j] = [at |-> op[d][j].at, waits |-> op[d][j].waits, failed |-> op[d][j].failed]
    BY <1>1 DEF OpShapes
  <2>2. CASE op'[d][j] = op[d][j]
    BY <2>1, <2>2
  <2>3. CASE d = c /\ j = kind /\ op'[d][j] = [op[d][j] EXCEPT !.at = "tail"]
    <3>1. op'[d][j] = [at |-> "tail", waits |-> op[d][j].waits, failed |-> op[d][j].failed]
      BY <2>1, <2>3
    <3>. QED  BY <2>3, <3>1
  <2>. QED  BY <1>4, <2>2, <2>3
<1>7. OpShapes' /\ AwaitedAreBelow'
  <2>1. OpShapes'
    BY <1>4, <1>6 DEF OpShapes
  <2>2. ASSUME NEW d \in Components, NEW j \in Kinds PROVE op'[d][j].waits \subseteq WaitsFor(d)
    BY <1>1, <1>6 DEF AwaitedAreBelow
  <2>3. AwaitedAreBelow'
    BY <2>2 DEF AwaitedAreBelow, WaitsFor
  <2>. QED  BY <2>1, <2>3
<1>8. ASSUME NEW d \in Components, NEW j \in Kinds, op'[d][j].at = "work"
      PROVE  /\ op[d][j].at = "work" /\ op'[d][j] = op[d][j]
             /\ d # c /\ state'[d] = state[d]
  <2>1. ~(d = c /\ j = kind)
    <3>1. op[c][kind] = [at |-> op[c][kind].at, waits |-> op[c][kind].waits,
                         failed |-> op[c][kind].failed]
      BY <1>1 DEF OpShapes
    <3>2. op'[c][kind].at = "tail"
      BY <1>4, <3>1
    <3>. QED  BY <1>8, <3>2
  <2>2. op'[d][j] = op[d][j]
    BY <1>4, <2>1
  <2>3. state[d] = During(j)
    BY <1>1, <1>8, <2>2 DEF WorkShows
  <2>4. d # c
    BY <1>2, <2>1, <2>3
  <2>. QED  BY <1>3, <1>8, <2>2, <2>4
<1>9. ReadyHaveStates'
  <2>1. Target(kind) \in States /\ Target(kind) # "new" /\ state[c] # "new"
    BY <1>2 DEF States
  <2>2. state' \in [Components -> States]
    BY <1>1, <1>3, <2>1 DEF ReadyHaveStates
  <2>. QED  BY <1>1, <1>2, <1>3, <2>1, <2>2 DEF ReadyHaveStates, Ready
<1>10. WorkShows'
  BY <1>1, <1>8 DEF WorkShows
<1>11. ManagerIsDone'
  <2>. SUFFICES ASSUME NEW j \in {"start", "stop"}, op'[Root][j].at = "work", ~op'[Root][j].failed
                PROVE  Manager \in op'[Root][j].waits \/ state'[Manager] = Target(j)
    BY DEF ManagerIsDone
  <2>1. op'[Root][j] = op[Root][j]
    BY <1>8
  <2>2. Manager \in op[Root][j].waits \/ state[Manager] = Target(j)
    BY <1>1, <2>1 DEF ManagerIsDone
  <2>. QED  BY <1>2, <1>3, <2>1, <2>2
<1>12. InitIsAwaited'
  <2>. SUFFICES ASSUME NEW d \in Leaves, op'[d]["init"].at # "none"
                PROVE  \E k \in AllCalls : call'[k].at = "init" /\ Child(k)' = d
    BY DEF InitIsAwaited
  <2>1. op[d]["init"].at # "none"
    BY <1>2, <1>6
  <2>. QED  BY <1>1, <1>2, <2>1 DEF InitIsAwaited, Child
<1>13. ManagerFirst'
  <2>1. Active("init") => c # Root
    BY <1>1, <1>2 DEF ManagerFirst, Active, Done
  <2>2. op'[Root]["start"].at = "inited" => c # Root
    BY <1>1, <1>2, <1>6 DEF ManagerFirst
  <2>3. op'[Root]["start"].at = "inited" => op[Root]["start"].at = "inited"
    BY <1>6
  <2>4. state'[Root] = "initializing" => state[Root] = "initializing"
    BY <1>3
  <2>5. state[Manager] = "stopped" => state'[Manager] = "stopped"
    BY <1>2, <1>3
  <2>. QED  BY <1>1, <1>2, <1>3, <2>1, <2>2, <2>3, <2>4, <2>5 DEF ManagerFirst, Active, Parent
<1>14. InStep'
  <2>1. CASE c = Root /\ kind = "init"
    <3>1. call["init"].at = "done" /\ call["init"] # Thrown
      BY <1>2, <2>1 DEF Done, Thrown
    <3>2. state[Manager] = "stopped"
      BY <1>1, <1>2, <2>1, <3>1 DEF ManagerFirst
    <3>. QED  BY <1>3, <2>1, <3>2 DEF InStep
  <2>2. CASE c = Root /\ kind \in {"start", "stop"}
    <3>1. state[Manager] = Target(kind)
      BY <1>1, <1>2, <2>2 DEF ManagerIsDone
    <3>. QED  BY <1>3, <2>2, <3>1 DEF InStep
  <2>3. CASE c # Root
    BY <1>1, <1>2, <1>3, <2>3 DEF InStep
  <2>. QED  BY <2>1, <2>2, <2>3
<1>15. kind = "init" => c # Manager \/ \A d \in Leaves : Rests(d)
  BY <1>1, <1>2 DEF NoneLeftActive
<1>16. c = Manager /\ kind = "stop" => \A d \in Leaves : Rests(d)
  BY <1>1, <1>2 DEF NoneLeftActive, StopsBefore
<1>17. StoppingBelow'
  <2>. SUFFICES ASSUME NEW d \in Leaves, state'[d] = "stopping"
                PROVE  state'[Manager] = "stopping"
    BY DEF StoppingBelow
  <2>1. d # c /\ state[d] = "stopping" /\ state[Manager] = "stopping"
    BY <1>1, <1>3 DEF StoppingBelow
  <2>2. c # Manager
    BY <1>2, <1>16, <2>1 DEF Rests
  <2>. QED  BY <1>3, <2>1, <2>2
<1>18. NoneLeftActive'
  <2>. SUFFICES ASSUME NEW d \in Leaves, ~Rests(d)', state'[Manager] \notin {"starting", "running"}
                PROVE  state'[Manager] = "stopping" /\ StopsBefore(d, op'[Manager])
    BY DEF NoneLeftActive
  <2>1. ~Rests(d) /\ d # Manager
    BY <1>2, <1>3 DEF Rests
  <2>2. c # Manager
    BY <1>3, <1>15, <1>16, <2>1 DEF Rests
  <2>3. state[Manager] = "stopping" /\ StopsBefore(d, op[Manager])
    BY <1>1, <1>3, <2>1, <2>2 DEF NoneLeftActive
  <2>4. op'[Manager]["stop"] = op[Manager]["stop"]
    BY <1>4, <2>2
  <2>. QED  BY <1>3, <2>2, <2>3, <2>4 DEF StopsBefore
<1>19. NoneForgotten'
  <2>. SUFFICES ASSUME NEW d \in Leaves, state'[d] = "stopped", ~Excused(d)',
                       state'[Manager] \notin {"new", "initializing", "stopping", "stopped"}
                PROVE  state'[Manager] = "starting" /\ StartsBefore(d, op'[Manager])
    BY DEF NoneForgotten
  <2>1. ~Excused(d)
    BY <1>2 DEF Excused, BeingAdded
  <2>2. c # d
    <3>. SUFFICES ASSUME c = d PROVE FALSE
      OBVIOUS
    <3>1. kind # "init"
      BY <1>1, <1>2, <2>1 DEF InitIsAwaited, Excused, BeingAdded, Child
    <3>2. kind = "stop" /\ state[Manager] = "stopping"
      BY <1>1, <1>2, <1>3, <3>1 DEF StoppingBelow
    <3>. QED  BY <1>3, <3>2
  <2>3. c # Manager
    <3>. SUFFICES ASSUME c = Manager PROVE FALSE
      OBVIOUS
    <3>1. kind = "start"
      BY <1>3
    <3>. QED  BY <1>1, <1>2, <1>3, <2>1, <2>2, <3>1 DEF NoneForgotten, StartsBefore
  <2>4. state[Manager] = "starting" /\ StartsBefore(d, op[Manager])
    BY <1>1, <1>3, <2>1, <2>2, <2>3 DEF NoneForgotten
  <2>5. op'[Manager]["start"] = op[Manager]["start"]
    BY <1>4, <2>3
  <2>. QED  BY <1>3, <2>3, <2>4, <2>5 DEF StartsBefore
<1>. QED  BY <1>7, <1>9, <1>10, <1>11, <1>12, <1>13, <1>14, <1>17, <1>18, <1>19 DEF RunInvariant

(* A call on the root goes down to its manager and to all its children     *)
(* that are in the state it wants, where the manager is.                   *)
LEMMA CalledFact ==
  ASSUME TreeInvariant, ReadyHaveStates, NEW kind \in {"start", "stop"},
         state[Root] = From(kind), state[Manager] = From(kind)
  PROVE  /\ Called(Root, kind) = {c \in Components : state[c] = From(kind)}
         /\ Children(Manager) = {c \in Leaves : state[c] # "new"}
<1>. USE Roles
<1>1. From(kind) \in {"stopped", "running"}
  BY DEF From
<1>2. Ready(Manager)
  BY <1>1 DEF ReadyHaveStates
<1>3. Children(Manager) = {c \in Leaves : state[c] # "new"}
  BY <1>2, ChildrenFact DEF ReadyHaveStates
<1>. DEFINE Next1(S) == S \union {d \in UNION {Below(e) : e \in S} : state[d] = From(kind)}
<1>4. Below(Root) = {Manager} /\ Below(Manager) = Children(Manager) /\ \A c \in Leaves : Below(c) = {}
  BY DEF Below
<1>5. Next1({Root}) = {Root, Manager}
  BY <1>4
<1>6. Next1({Root, Manager}) = {c \in Components : state[c] = From(kind)}
  <2>1. UNION {Below(e) : e \in {Root, Manager}} = {Manager} \union {c \in Leaves : state[c] # "new"}
    BY <1>3, <1>4
  <2>2. Next1({Root, Manager}) =
          {Root, Manager} \union
          {d \in {Manager} \union {c \in Leaves : state[c] # "new"} : state[d] = From(kind)}
    BY <2>1
  <2>. HIDE DEF Next1
  <2>3. {c \in Components : state[c] = From(kind)}
          = {Root, Manager} \union {c \in Leaves : state[c] = From(kind)}
    BY DEF Components
  <2>. QED  BY <1>1, <2>2, <2>3
<1>7. Called(Root, kind) = Next1(Next1({Root}))
  BY DEF Called
<1>. HIDE DEF Next1
<1>. QED  BY <1>3, <1>5, <1>6, <1>7

LEMMA BeginFact ==
  ASSUME TreeInvariant, ReadyHaveStates, OpShapes, AwaitedAreBelow, NEW kind \in {"start", "stop"},
         state[Root] = From(kind), state[Manager] = From(kind), Begin(Root, kind)
  PROVE  /\ state' \in [Components -> States]
         /\ \A d \in Components :
              state'[d] = IF state[d] = From(kind) THEN During(kind) ELSE state[d]
         /\ OpShapes' /\ AwaitedAreBelow'
         /\ \A d \in Components, j \in Kinds :
              (j = kind /\ state[d] = From(kind)) \/ op'[d][j] = op[d][j]
         /\ op'[Root][kind].at = "work" /\ Manager \in op'[Root][kind].waits
         /\ ~op'[Manager][kind].failed =>
              \A c \in Leaves : state[c] = "new" \/ c \in op'[Manager][kind].waits
<1>. USE Roles, KindFact
<1>1. PICK called : called = {c \in Components : state[c] = From(kind)}
  OBVIOUS
<1>2. called = Called(Root, kind) /\ Children(Manager) = {c \in Leaves : state[c] # "new"}
  BY <1>1, CalledFact
<1>3. state' = [d \in Components |-> IF d \in called THEN During(kind) ELSE state[d]]
  BY <1>2 DEF Begin, SetStates
<1>4. op' = [d \in Components |->
               IF d \in called
               THEN [op[d] EXCEPT ![kind] =
                       [at |-> "work", waits |-> Below(d) \intersect called,
                        failed |-> ~(Below(d) \subseteq called)]]
               ELSE op[d]]
  BY <1>2 DEF Begin
<1>5. During(kind) \in States
  BY DEF States
<1>6. state' \in [Components -> States]
  BY <1>3, <1>5 DEF ReadyHaveStates
<1>7. \A d \in Components : state'[d] = IF state[d] = From(kind) THEN During(kind) ELSE state[d]
  BY <1>1, <1>3
<1>8. ASSUME NEW d \in Components PROVE op[d] = [j \in Kinds |-> op[d][j]] /\ DOMAIN op[d] = Kinds
  BY DEF OpShapes
<1>9. ASSUME NEW d \in Components, d \in called
      PROVE  /\ op'[d][kind] = [at |-> "work", waits |-> Below(d) \intersect called,
                                failed |-> ~(Below(d) \subseteq called)]
             /\ \A j \in Kinds \ {kind} : op'[d][j] = op[d][j]
             /\ op'[d] = [j \in Kinds |-> op'[d][j]]
  <2>1. PICK x : x = [at |-> "work", waits |-> Below(d) \intersect called,
                      failed |-> ~(Below(d) \subseteq called)]
    OBVIOUS
  <2>2. op'[d] = [op[d] EXCEPT ![kind] = x]
    BY <1>4, <1>9, <2>1
  <2>3. op'[d][kind] = x
    BY <1>8, <2>2
  <2>4. \A j \in Kinds \ {kind} : op'[d][j] = op[d][j]
    BY <1>8, <2>2
  <2>5. op'[d] = [j \in Kinds |-> op'[d][j]]
    BY <1>8, <2>2
  <2>. QED  BY <2>1, <2>3, <2>4, <2>5
<1>10. ASSUME NEW d \in Components, d \notin called PROVE op'[d] = op[d]
  BY <1>4, <1>10
<1>11. \A d \in Components, j \in Kinds :
         (j = kind /\ state[d] = From(kind)) \/ op'[d][j] = op[d][j]
  BY <1>1, <1>9, <1>10
<1>12. Below(Root) = {Manager} /\ Below(Manager) = Children(Manager) /\ \A c \in Leaves : Below(c) = {}
  BY DEF Below
<1>13. OpShapes'
  <2>1. op' = [d \in Components |-> op'[d]]
    BY <1>4
  <2>2. ASSUME NEW d \in Components PROVE op'[d] = [j \in Kinds |-> op'[d][j]]
    BY <1>8, <1>9, <1>10
  <2>3. op' = [d \in Components |-> [j \in Kinds |-> op'[d][j]]]
    BY <2>1, <2>2
  <2>4. ASSUME NEW d \in Components, NEW j \in Kinds
        PROVE  op'[d][j] = [at |-> op'[d][j].at, waits |-> op'[d][j].waits,
                            failed |-> op'[d][j].failed]
    <3>1. op[d][j] = [at |-> op[d][j].at, waits |-> op[d][j].waits, failed |-> op[d][j].failed]
      BY DEF OpShapes
    <3>2. CASE op'[d][j] = op[d][j]
      BY <3>1, <3>2
    <3>3. CASE d \in called /\ j = kind
      <4>1. op'[d][j] = [at |-> "work", waits |-> Below(d) \intersect called,
                         failed |-> ~(Below(d) \subseteq called)]
        BY <1>9, <3>3
      <4>. QED  BY <4>1
    <3>. QED  BY <1>1, <1>11, <3>2, <3>3
  <2>. QED  BY <2>3, <2>4 DEF OpShapes
<1>14. AwaitedAreBelow'
  <2>1. ASSUME NEW d \in Components, NEW j \in Kinds PROVE op'[d][j].waits \subseteq WaitsFor(d)
    <3>1. CASE op'[d][j] = op[d][j]
      BY <3>1 DEF AwaitedAreBelow
    <3>2. CASE d \in called /\ j = kind
      <4>3. op'[d][j] = [at |-> "work", waits |-> Below(d) \intersect called,
                         failed |-> ~(Below(d) \subseteq called)]
        BY <1>9, <3>2
      <4>1. op'[d][j].waits = Below(d) \intersect called
        BY <4>3
      <4>2. Below(d) \subseteq WaitsFor(d)
        BY <1>2, <1>12 DEF WaitsFor, Components
      <4>. QED  BY <4>1, <4>2
    <3>. QED  BY <1>1, <1>11, <3>1, <3>2
  <2>. QED  BY <2>1 DEF AwaitedAreBelow, WaitsFor
<1>15. op'[Root][kind].at = "work" /\ op'[Root][kind].waits = {Manager}
  <2>1. op'[Root][kind] = [at |-> "work", waits |-> Below(Root) \intersect called,
                           failed |-> ~(Below(Root) \subseteq called)]
    BY <1>1, <1>9
  <2>2. op'[Root][kind].at = "work" /\ op'[Root][kind].waits = Below(Root) \intersect called
    BY <2>1
  <2>. QED  BY <1>1, <1>12, <2>2
<1>16. ASSUME ~op'[Manager][kind].failed, NEW c \in Leaves
       PROVE  state[c] = "new" \/ c \in op'[Manager][kind].waits
  <2>1. op'[Manager][kind] = [at |-> "work", waits |-> Below(Manager) \intersect called,
                              failed |-> ~(Below(Manager) \subseteq called)]
    BY <1>1, <1>9
  <2>2. op'[Manager][kind].waits = Below(Manager) \intersect called
    BY <2>1
  <2>3. op'[Manager][kind].failed = ~(Below(Manager) \subseteq called)
    BY <2>1
  <2>4. Below(Manager) \subseteq called
    BY <1>16, <2>3, Zenon
  <2>. QED  BY <1>2, <1>12, <2>2, <2>4
<1>. QED  BY <1>6, <1>7, <1>11, <1>13, <1>14, <1>15, <1>16

(* The root starts or stops: whatever does not follow makes that fail.     *)
LEMMA BeginningKeepsRuns ==
  ASSUME TreeInvariant, RunInvariant, NEW kind \in {"start", "stop"},
         state[Root] = From(kind), Begin(Root, kind), UNCHANGED <<context, call, leftOut>>
  PROVE  RunInvariant'
<1>. USE Roles, KindFact
<1>1. /\ OpShapes /\ AwaitedAreBelow /\ ReadyHaveStates /\ WorkShows /\ ManagerIsDone
      /\ InitIsAwaited /\ ManagerFirst /\ InStep /\ StoppingBelow
      /\ NoneLeftActive /\ NoneForgotten
  BY DEF RunInvariant
<1>2. state[Manager] = From(kind)
  BY <1>1 DEF InStep
<1>3. /\ state' \in [Components -> States]
      /\ \A d \in Components :
           state'[d] = IF state[d] = From(kind) THEN During(kind) ELSE state[d]
      /\ OpShapes' /\ AwaitedAreBelow'
      /\ \A d \in Components, j \in Kinds :
           (j = kind /\ state[d] = From(kind)) \/ op'[d][j] = op[d][j]
      /\ op'[Root][kind].at = "work" /\ Manager \in op'[Root][kind].waits
      /\ ~op'[Manager][kind].failed =>
           \A c \in Leaves : state[c] = "new" \/ c \in op'[Manager][kind].waits
  BY <1>1, <1>2, BeginFact
<1>4. ReadyHaveStates'
  BY <1>1, <1>3 DEF ReadyHaveStates, Ready
<1>5. WorkShows'
  <2>. SUFFICES ASSUME NEW d \in Components, NEW j \in Kinds, op'[d][j].at = "work"
                PROVE  state'[d] = During(j)
    BY DEF WorkShows
  <2>1. CASE j = kind /\ state[d] = From(kind)
    BY <1>3, <2>1
  <2>2. CASE op'[d][j] = op[d][j]
    BY <1>1, <1>3, <2>2 DEF WorkShows
  <2>. QED  BY <1>3, <2>1, <2>2
<1>6. ManagerIsDone'
  <2>. SUFFICES ASSUME NEW j \in {"start", "stop"}, j # kind, op'[Root][j].at = "work"
                PROVE  FALSE
    BY <1>3 DEF ManagerIsDone
  <2>1. op[Root][j].at = "work"
    BY <1>3
  <2>. QED  BY <1>1, <2>1 DEF WorkShows
<1>7. InitIsAwaited'
  <2>. SUFFICES ASSUME NEW d \in Leaves, op'[d]["init"].at # "none"
                PROVE  \E k \in AllCalls : call'[k].at = "init" /\ Child(k)' = d
    BY DEF InitIsAwaited
  <2>1. op[d]["init"].at # "none"
    BY <1>3
  <2>. QED  BY <1>1, <2>1 DEF InitIsAwaited, Child
<1>8. ManagerFirst'
  <2>1. ~Active("init")'
    BY <1>1 DEF ManagerFirst, Active
  <2>2. state'[Root] # "initializing"
    BY <1>3
  <2>3. op'[Root]["start"].at # "inited"
    <3>1. CASE kind = "start"
      BY <1>3, <3>1
    <3>2. CASE kind = "stop"
      BY <1>1, <1>3, <3>2 DEF ManagerFirst
    <3>. QED  BY <3>1, <3>2
  <2>. QED  BY <2>1, <2>2, <2>3 DEF ManagerFirst
<1>9. InStep'
  BY <1>3 DEF InStep
<1>10. StoppingBelow'
  <2>. SUFFICES ASSUME NEW d \in Leaves, state'[d] = "stopping"
                PROVE  state'[Manager] = "stopping"
    BY DEF StoppingBelow
  <2>. QED  BY <1>1, <1>2, <1>3 DEF StoppingBelow
<1>11. NoneLeftActive'
  <2>. SUFFICES ASSUME NEW d \in Leaves, ~Rests(d)', kind = "stop"
                PROVE  StopsBefore(d, op'[Manager])
    BY <1>2, <1>3 DEF NoneLeftActive
  <2>. QED  BY <1>3 DEF StopsBefore, Rests
<1>12. NoneForgotten'
  BY <1>2, <1>3 DEF NoneForgotten
<1>. QED  BY <1>3, <1>4, <1>5, <1>6, <1>7, <1>8, <1>9, <1>10, <1>11, <1>12 DEF RunInvariant

(* Nothing but the calls moves on: what they leave is excused, and init()  *)
(* is awaited for as long as it takes.                                     *)
LEMMA CallsKeepRuns ==
  ASSUME RunInvariant, UNCHANGED <<state, op>>, \A c \in Components : Ready(c)' <=> Ready(c),
         leftOut \subseteq leftOut',
         \A k \in AllCalls : call[k].at = "init" => call'[k] = call[k],
         \A c \in Leaves : BeingAdded(c) /\ state[c] = "stopped" =>
           BeingAdded(c)' \/ c \in leftOut' \/ state[Manager] \notin {"starting", "running"},
         Active("init")' => Active("init"),
         \/ call'["init"] = call["init"]
         \/ call'["init"] = Thrown
         \/ Active("init") /\ (Parent("init") # Root \/ call["init"].at \notin {"adds", "init"})
  PROVE  RunInvariant'
<1>. USE Roles, KindFact
<1>1. /\ OpShapes /\ AwaitedAreBelow /\ ReadyHaveStates /\ WorkShows /\ ManagerIsDone
      /\ InitIsAwaited /\ ManagerFirst /\ InStep /\ StoppingBelow
      /\ NoneLeftActive /\ NoneForgotten
  BY DEF RunInvariant
<1>2. /\ OpShapes' /\ AwaitedAreBelow' /\ WorkShows' /\ ManagerIsDone'
      /\ InStep' /\ StoppingBelow' /\ NoneLeftActive'
  BY <1>1 DEF OpShapes, AwaitedAreBelow, WaitsFor, WorkShows, ManagerIsDone, InStep, StoppingBelow,
              NoneLeftActive, Rests
<1>3. ReadyHaveStates'
  BY <1>1 DEF ReadyHaveStates
<1>4. InitIsAwaited'
  <2>. SUFFICES ASSUME NEW d \in Leaves, op[d]["init"].at # "none"
                PROVE  \E k \in AllCalls : call'[k].at = "init" /\ Child(k)' = d
    BY DEF InitIsAwaited
  <2>1. PICK k \in AllCalls : call[k].at = "init" /\ Child(k) = d
    BY <1>1 DEF InitIsAwaited
  <2>2. call'[k] = call[k]
    BY <2>1
  <2>. QED  BY <2>1, <2>2 DEF Child
<1>5. ManagerFirst'
  <2>1. ASSUME state[Root] = "initializing", state[Manager] # "stopped"
        PROVE  \/ call'["init"] = Thrown
               \/ call'["init"].at \in {"adds", "init"} /\ Parent("init")' = Root
    <3>1. CASE call'["init"] = call["init"]
      BY <1>1, <2>1, <3>1 DEF ManagerFirst, Parent
    <3>2. CASE Active("init") /\ (Parent("init") # Root \/ call["init"].at \notin {"adds", "init"})
      BY <1>1, <2>1, <3>2 DEF ManagerFirst, Active, Thrown
    <3>. QED  BY <3>1, <3>2
  <2>. QED  BY <1>1, <2>1 DEF ManagerFirst
<1>6. NoneForgotten'
  <2>. SUFFICES ASSUME NEW d \in Leaves, state[d] = "stopped", ~Excused(d)',
                       state[Manager] \notin {"new", "initializing", "stopping", "stopped"}
                PROVE  state[Manager] = "starting" /\ StartsBefore(d, op[Manager])
    BY DEF NoneForgotten
  <2>1. state[Manager] \in {"starting", "running"}
    BY <1>1 DEF ReadyHaveStates, States
  <2>2. ~Excused(d)
    BY <2>1 DEF Excused
  <2>. QED  BY <1>1, <2>2 DEF NoneForgotten
<1>. QED  BY <1>2, <1>3, <1>4, <1>5, <1>6 DEF RunInvariant

(* A child with a new context initializes.                                 *)
LEMMA AddingKeepsRuns ==
  ASSUME TreeInvariant, RunInvariant, NEW k \in AllCalls, call[k].at = "adds",
         NEW c, c = Child(k), context[c] = "none",
         context' = [context EXCEPT ![c] = "ready"],
         state' = [state EXCEPT ![c] = "initializing"],
         op' = [op EXCEPT ![c]["init"].at = "work"],
         call' = [call EXCEPT ![k].at = "init"], leftOut' = leftOut
  PROVE  RunInvariant'
<1>. USE Roles, KindFact
<1>1. /\ OpShapes /\ AwaitedAreBelow /\ ReadyHaveStates /\ WorkShows /\ ManagerIsDone
      /\ InitIsAwaited /\ ManagerFirst /\ InStep /\ StoppingBelow
      /\ NoneLeftActive /\ NoneForgotten
  BY DEF RunInvariant
<1>2. CallTypes /\ TreeTypes
  BY DEF TreeInvariant
<1>3. Active(k)
  BY DEF Active
<1>4. \/ k = "init" /\ Parent(k) = Root /\ c = Manager
      \/ Parent(k) = Manager /\ c \in Leaves
  BY <1>2, <1>3, PairFact
<1>5. c \in Components /\ "init" \in Kinds /\ c # Root
  BY <1>4
<1>6. state[c] = "new"
  BY <1>1, <1>5 DEF ReadyHaveStates, Ready
<1>7. \A d \in Components : state'[d] = IF d = c THEN "initializing" ELSE state[d]
  BY <1>1, <1>5 DEF ReadyHaveStates
<1>8. ReadyHaveStates'
  <2>1. state' \in [Components -> States]
    BY <1>1, <1>5 DEF ReadyHaveStates, States
  <2>2. \A d \in Components : Ready(d)' <=> d = c \/ Ready(d)
    BY <1>2, <1>5 DEF Ready, TreeTypes
  <2>. QED  BY <1>1, <1>7, <2>1, <2>2 DEF ReadyHaveStates
<1>9. op'[c]["init"] = [op[c]["init"] EXCEPT !.at = "work"]
  <2>1. DOMAIN op = Components /\ DOMAIN op[c] = Kinds
    BY <1>1, <1>5 DEF OpShapes
  <2>. QED  BY <1>5, <2>1
<1>10. op' = [d \in Components |-> [j \in Kinds |-> op'[d][j]]]
  BY <1>1, <1>5, OpMoves
<1>11. \A d \in Components, j \in Kinds : (d = c /\ j = "init") \/ op'[d][j] = op[d][j]
  BY <1>1, <1>5, OpMoves
<1>12. ASSUME NEW d \in Components, NEW j \in Kinds
       PROVE  /\ op'[d][j] = [at |-> op'[d][j].at, waits |-> op'[d][j].waits,
                              failed |-> op'[d][j].failed]
              /\ op'[d][j].waits = op[d][j].waits
  <2>1. op[d][j] = [at |-> op[d][j].at, waits |-> op[d][j].waits, failed |-> op[d][j].failed]
    BY <1>1 DEF OpShapes
  <2>2. CASE op'[d][j] = op[d][j]
    BY <2>1, <2>2
  <2>3. CASE d = c /\ j = "init"
    <3>1. op'[d][j] = [at |-> "work", waits |-> op[d][j].waits, failed |-> op[d][j].failed]
      BY <1>9, <2>1, <2>3
    <3>. QED  BY <3>1
  <2>. QED  BY <1>11, <2>2, <2>3
<1>13. OpShapes'
  BY <1>10, <1>12 DEF OpShapes
<1>14. AwaitedAreBelow'
  <2>1. ASSUME NEW d \in Components, NEW j \in Kinds PROVE op'[d][j].waits \subseteq WaitsFor(d)
    BY <1>1, <1>12 DEF AwaitedAreBelow
  <2>. QED  BY <2>1 DEF AwaitedAreBelow, WaitsFor
<1>15. WorkShows'
  <2>. SUFFICES ASSUME NEW d \in Components, NEW j \in Kinds, op'[d][j].at = "work"
                PROVE  state'[d] = During(j)
    BY DEF WorkShows
  <2>1. CASE d = c /\ j = "init"
    BY <1>7, <2>1
  <2>2. CASE ~(d = c /\ j = "init")
    <3>1. state[d] = During(j)
      BY <1>1, <1>11, <2>2 DEF WorkShows
    <3>. QED  BY <1>6, <1>7, <3>1
  <2>. QED  BY <2>1, <2>2
<1>16. ManagerIsDone'
  <2>. SUFFICES ASSUME NEW j \in {"start", "stop"}, op'[Root][j].at = "work", ~op'[Root][j].failed
                PROVE  Manager \in op'[Root][j].waits \/ state'[Manager] = Target(j)
    BY DEF ManagerIsDone
  <2>1. op'[Root][j] = op[Root][j]
    BY <1>5, <1>11
  <2>. QED  BY <1>1, <1>6, <1>7, <2>1 DEF ManagerIsDone
<1>17. /\ call'[k].at = "init" /\ call'[k].todo = call[k].todo
       /\ \A i \in AllCalls \ {k} : call'[i] = call[i]
  BY <1>2 DEF CallTypes
<1>18. InitIsAwaited'
  <2>. SUFFICES ASSUME NEW d \in Leaves, op'[d]["init"].at # "none"
                PROVE  \E i \in AllCalls : call'[i].at = "init" /\ Child(i)' = d
    BY DEF InitIsAwaited
  <2>1. CASE d = c
    BY <1>17, <2>1 DEF Child
  <2>2. CASE d # c
    <3>1. op[d]["init"].at # "none"
      BY <1>11, <2>2
    <3>2. PICK i \in AllCalls : call[i].at = "init" /\ Child(i) = d
      BY <1>1, <3>1 DEF InitIsAwaited
    <3>. QED  BY <1>17, <3>2 DEF Child
  <2>. QED  BY <2>1, <2>2
<1>19. ManagerFirst'
  <2>1. Active("init")' => Active("init")
    BY <1>3, <1>17 DEF Active
  <2>2. ASSUME state[Root] = "initializing", state'[Manager] # "stopped"
        PROVE  \/ call'["init"] = Thrown
               \/ call'["init"].at \in {"adds", "init"} /\ Parent("init")' = Root
    <3>1. state[Manager] # "stopped"
      BY <1>6, <1>7, <2>2
    <3>2. CASE k = "init"
      BY <1>1, <1>17, <2>2, <3>1, <3>2 DEF ManagerFirst, Parent, Thrown
    <3>3. CASE k # "init"
      BY <1>1, <1>17, <2>2, <3>1, <3>3 DEF ManagerFirst, Parent
    <3>. QED  BY <3>2, <3>3
  <2>3. op'[Root]["start"] = op[Root]["start"]
    BY <1>5, <1>11
  <2>. QED  BY <1>1, <1>5, <1>7, <2>1, <2>2, <2>3 DEF ManagerFirst
<1>20. InStep'
  <2>1. CASE c = Manager
    <3>1. state[Root] = "initializing"
      BY <1>1, <1>3, <1>4, <2>1 DEF ManagerFirst
    <3>. QED  BY <1>5, <1>7, <3>1 DEF InStep
  <2>2. CASE c # Manager
    BY <1>1, <1>5, <1>7, <2>2 DEF InStep
  <2>. QED  BY <2>1, <2>2
<1>21. StoppingBelow'
  <2>. SUFFICES ASSUME NEW d \in Leaves, state'[d] = "stopping"
                PROVE  state'[Manager] = "stopping"
    BY DEF StoppingBelow
  <2>1. state[d] = "stopping" /\ state[Manager] = "stopping"
    BY <1>1, <1>7 DEF StoppingBelow
  <2>. QED  BY <1>6, <1>7, <2>1
<1>22. op'[Manager]["start"] = op[Manager]["start"] /\ op'[Manager]["stop"] = op[Manager]["stop"]
  BY <1>11
<1>23. NoneLeftActive'
  <2>. SUFFICES ASSUME NEW d \in Leaves, ~Rests(d)', state'[Manager] \notin {"starting", "running"}
                PROVE  state'[Manager] = "stopping" /\ StopsBefore(d, op'[Manager])
    BY DEF NoneLeftActive
  <2>1. ~Rests(d) /\ d # c
    BY <1>7 DEF Rests
  <2>2. c # Manager
    BY <1>1, <1>6, <2>1 DEF NoneLeftActive
  <2>3. state[Manager] = "stopping" /\ StopsBefore(d, op[Manager])
    BY <1>1, <1>7, <2>1, <2>2 DEF NoneLeftActive
  <2>. QED  BY <1>7, <1>22, <2>2, <2>3 DEF StopsBefore
<1>24. NoneForgotten'
  <2>. SUFFICES ASSUME NEW d \in Leaves, state'[d] = "stopped", ~Excused(d)',
                       state'[Manager] \notin {"new", "initializing", "stopping", "stopped"}
                PROVE  state'[Manager] = "starting" /\ StartsBefore(d, op'[Manager])
    BY DEF NoneForgotten
  <2>1. state[d] = "stopped" /\ state'[Manager] = state[Manager]
    BY <1>7
  <2>2. ~Excused(d)
    BY <1>17 DEF Excused, BeingAdded
  <2>3. state[Manager] = "starting" /\ StartsBefore(d, op[Manager])
    BY <1>1, <2>1, <2>2 DEF NoneForgotten
  <2>. QED  BY <1>22, <2>1, <2>3 DEF StartsBefore
<1>. QED  BY <1>8, <1>13, <1>14, <1>15, <1>16, <1>18, <1>19, <1>20, <1>21, <1>23, <1>24
          DEF RunInvariant

(* A leaf starts because its manager runs.                                 *)
LEMMA LeafStartKeepsRuns ==
  ASSUME TreeInvariant, RunInvariant, NEW k \in AllCalls, call[k].at = "inited",
         NEW c \in Leaves, c = Child(k), state[c] = "stopped", state[Manager] = "running", Begin(c, "start"),
         call' = [call EXCEPT ![k].at = "start"], UNCHANGED <<context, leftOut>>
  PROVE  RunInvariant'
<1>. USE Roles, KindFact
<1>1. /\ OpShapes /\ AwaitedAreBelow /\ ReadyHaveStates /\ WorkShows /\ ManagerIsDone
      /\ InitIsAwaited /\ ManagerFirst /\ InStep /\ StoppingBelow
      /\ NoneLeftActive /\ NoneForgotten
  BY DEF RunInvariant
<1>2. CallTypes
  BY DEF TreeInvariant
<1>3. c # Root /\ c # Manager /\ c \in Components
  OBVIOUS
<1>4. Called(c, "start") = {c}
  <2>. DEFINE Next1(S) == S \union {d \in UNION {Below(e) : e \in S} : state[d] = From("start")}
  <2>1. Below(c) = {}
    BY <1>3 DEF Below
  <2>2. Next1({c}) = {c}
    BY <2>1
  <2>3. Called(c, "start") = Next1(Next1({c}))
    BY DEF Called
  <2>. QED  BY <2>2, <2>3
<1>5. PICK called : called = Called(c, "start")
  OBVIOUS
<1>6. state' = [d \in Components |-> IF d \in called THEN "starting" ELSE state[d]]
  BY <1>5 DEF Begin, SetStates
<1>7. /\ state' \in [Components -> States]
      /\ \A d \in Components : state'[d] = IF d = c THEN "starting" ELSE state[d]
  BY <1>1, <1>4, <1>5, <1>6 DEF ReadyHaveStates, States
<1>8. op' = [d \in Components |->
               IF d \in called
               THEN [op[d] EXCEPT !["start"] =
                       [at |-> "work", waits |-> Below(d) \intersect called,
                        failed |-> ~(Below(d) \subseteq called)]]
               ELSE op[d]]
  BY <1>5 DEF Begin
<1>9. PICK x : x = [at |-> "work", waits |-> Below(c) \intersect called,
                    failed |-> ~(Below(c) \subseteq called)]
  OBVIOUS
<1>10. op'[c] = [op[c] EXCEPT !["start"] = x] /\ \A d \in Components \ {c} : op'[d] = op[d]
  BY <1>3, <1>4, <1>5, <1>8, <1>9
<1>11. ASSUME NEW d \in Components PROVE op[d] = [j \in Kinds |-> op[d][j]] /\ DOMAIN op[d] = Kinds
  BY <1>1 DEF OpShapes
<1>12. op'[c]["start"] = x
  BY <1>3, <1>10, <1>11
<1>13. \A j \in Kinds \ {"start"} : op'[c][j] = op[c][j]
  BY <1>3, <1>10, <1>11
<1>14. op'[c] = [j \in Kinds |-> op'[c][j]]
  BY <1>3, <1>10, <1>11
<1>15. x = [at |-> x.at, waits |-> x.waits, failed |-> x.failed] /\ x.at = "work" /\ x.waits = {}
  BY <1>3, <1>9 DEF Below
<1>16. \A d \in Components, j \in Kinds : (d = c /\ j = "start") \/ op'[d][j] = op[d][j]
  BY <1>10, <1>13
<1>17. OpShapes'
  <2>1. op' = [d \in Components |-> op'[d]]
    BY <1>8
  <2>2. ASSUME NEW d \in Components PROVE op'[d] = [j \in Kinds |-> op'[d][j]]
    BY <1>10, <1>11, <1>14
  <2>3. op' = [d \in Components |-> [j \in Kinds |-> op'[d][j]]]
    BY <2>1, <2>2
  <2>4. ASSUME NEW d \in Components, NEW j \in Kinds
        PROVE  op'[d][j] = [at |-> op'[d][j].at, waits |-> op'[d][j].waits,
                            failed |-> op'[d][j].failed]
    <3>1. op[d][j] = [at |-> op[d][j].at, waits |-> op[d][j].waits, failed |-> op[d][j].failed]
      BY <1>1 DEF OpShapes
    <3>2. CASE op'[d][j] = op[d][j]
      BY <3>1, <3>2
    <3>3. CASE op'[d][j] = x
      BY <1>15, <3>3
    <3>. QED  BY <1>12, <1>16, <3>2, <3>3
  <2>. QED  BY <2>3, <2>4 DEF OpShapes
<1>18. AwaitedAreBelow'
  <2>1. ASSUME NEW d \in Components, NEW j \in Kinds PROVE op'[d][j].waits \subseteq WaitsFor(d)
    <3>1. CASE op'[d][j] = op[d][j]
      BY <1>1, <3>1 DEF AwaitedAreBelow
    <3>2. CASE op'[d][j] = x
      BY <1>15, <3>2
    <3>. QED  BY <1>12, <1>16, <3>1, <3>2
  <2>. QED  BY <2>1 DEF AwaitedAreBelow, WaitsFor
<1>19. /\ op'[Root] = op[Root] /\ op'[Manager] = op[Manager]
       /\ state'[Root] = state[Root] /\ state'[Manager] = state[Manager]
  BY <1>3, <1>7, <1>10
<1>20. ReadyHaveStates'
  BY <1>1, <1>3, <1>7 DEF ReadyHaveStates, Ready
<1>21. WorkShows'
  <2>. SUFFICES ASSUME NEW d \in Components, NEW j \in Kinds, op'[d][j].at = "work"
                PROVE  state'[d] = During(j)
    BY DEF WorkShows
  <2>1. CASE d = c /\ j = "start"
    BY <1>7, <2>1
  <2>2. CASE ~(d = c /\ j = "start")
    <3>1. state[d] = During(j)
      BY <1>1, <1>16, <2>2 DEF WorkShows
    <3>. QED  BY <1>7, <3>1
  <2>. QED  BY <2>1, <2>2
<1>22. ManagerIsDone' /\ InStep'
  BY <1>1, <1>19 DEF ManagerIsDone, InStep
<1>23. /\ call'[k].at = "start" /\ call'[k].todo = call[k].todo
       /\ \A i \in AllCalls \ {k} : call'[i] = call[i]
  BY <1>2 DEF CallTypes
<1>24. InitIsAwaited'
  <2>. SUFFICES ASSUME NEW d \in Leaves, op'[d]["init"].at # "none"
                PROVE  \E i \in AllCalls : call'[i].at = "init" /\ Child(i)' = d
    BY DEF InitIsAwaited
  <2>1. op[d]["init"].at # "none"
    BY <1>16
  <2>2. PICK i \in AllCalls : call[i].at = "init" /\ Child(i) = d
    BY <1>1, <2>1 DEF InitIsAwaited
  <2>. QED  BY <1>23, <2>2 DEF Child
<1>25. ManagerFirst'
  <2>1. k # "init"
    BY <1>1 DEF ManagerFirst, Active, Thrown
  <2>2. call'["init"] = call["init"]
    BY <1>23, <2>1
  <2>. QED  BY <1>1, <1>19, <2>2 DEF ManagerFirst, Active, Parent
<1>26. StoppingBelow'
  BY <1>1, <1>7, <1>19 DEF StoppingBelow
<1>27. NoneLeftActive'
  BY <1>19 DEF NoneLeftActive
<1>28. NoneForgotten'
  <2>. SUFFICES ASSUME NEW d \in Leaves, state'[d] = "stopped" PROVE Excused(d)'
    BY DEF NoneForgotten
  <2>1. d # c /\ state[d] = "stopped"
    BY <1>7
  <2>2. Excused(d)
    BY <1>1, <2>1 DEF NoneForgotten
  <2>3. ASSUME NEW i \in AllCalls, call[i].at \in {"init", "inited"}, Child(i) = d
        PROVE  BeingAdded(d)'
    BY <1>23, <2>1, <2>3 DEF BeingAdded, Child
  <2>. QED  BY <2>2, <2>3 DEF Excused, BeingAdded, Child
<1>. QED  BY <1>17, <1>18, <1>20, <1>21, <1>22, <1>24, <1>25, <1>26, <1>27, <1>28 DEF RunInvariant

(* The root, which is new, initializes.                                    *)
LEMMA RootInitKeepsRuns ==
  ASSUME TreeInvariant, RunInvariant, ~Ready(Root),
         context' = [context EXCEPT ![Root] = "ready"],
         state' = [state EXCEPT ![Root] = "initializing"],
         op' = [op EXCEPT ![Root]["start"].at = "init", ![Root]["init"].at = "work"],
         call'["init"].at = "adds", call'["init"].todo[1] = <<Root, Manager>>,
         \A k \in AllCalls \ {"init"} : call'[k] = call[k], leftOut' = leftOut
  PROVE  RunInvariant'
<1>. USE Roles, KindFact
<1>1. /\ OpShapes /\ AwaitedAreBelow /\ ReadyHaveStates /\ WorkShows /\ ManagerIsDone
      /\ InitIsAwaited /\ ManagerFirst /\ InStep /\ StoppingBelow
      /\ NoneLeftActive /\ NoneForgotten
  BY DEF RunInvariant
<1>2. TreeTypes /\ call["init"].at = "none"
  BY DEF TreeInvariant, Parentage, NoCall
<1>3. state[Root] = "new"
  BY <1>1 DEF ReadyHaveStates
<1>4. \A d \in Components : state'[d] = IF d = Root THEN "initializing" ELSE state[d]
  BY <1>1 DEF ReadyHaveStates
<1>5. ReadyHaveStates'
  <2>1. state' \in [Components -> States]
    BY <1>1 DEF ReadyHaveStates, States
  <2>2. \A d \in Components : Ready(d)' <=> d = Root \/ Ready(d)
    BY <1>2 DEF Ready, TreeTypes
  <2>. QED  BY <1>1, <1>4, <2>1, <2>2 DEF ReadyHaveStates
<1>6. PICK y : y = [op[Root] EXCEPT !["start"].at = "init", !["init"].at = "work"]
  OBVIOUS
<1>7. ASSUME NEW d \in Components PROVE op[d] = [j \in Kinds |-> op[d][j]] /\ DOMAIN op[d] = Kinds
  BY <1>1 DEF OpShapes
<1>8. DOMAIN op = Components /\ op = [d \in Components |-> op[d]]
  BY <1>1 DEF OpShapes
<1>9. op' = [op EXCEPT ![Root] = y]
  BY <1>6, <1>7, <1>8
<1>10. op'[Root] = y /\ \A d \in Components \ {Root} : op'[d] = op[d]
  BY <1>8, <1>9
<1>11. /\ y["start"] = [op[Root]["start"] EXCEPT !.at = "init"]
       /\ y["init"] = [op[Root]["init"] EXCEPT !.at = "work"]
       /\ y["stop"] = op[Root]["stop"]
  BY <1>6, <1>7
<1>12. y = [j \in Kinds |-> y[j]]
  BY <1>6, <1>7
<1>13. ASSUME NEW j \in Kinds
       PROVE  /\ op[Root][j].at # "work"
              /\ y[j] = [at |-> y[j].at, waits |-> y[j].waits, failed |-> y[j].failed]
              /\ y[j].waits = op[Root][j].waits
              /\ y[j].at = IF j = "start" THEN "init" ELSE IF j = "init" THEN "work" ELSE op[Root][j].at
  <2>1. op[Root][j] = [at |-> op[Root][j].at, waits |-> op[Root][j].waits,
                       failed |-> op[Root][j].failed]
    BY <1>1 DEF OpShapes
  <2>2. op[Root][j].at # "work"
    BY <1>1, <1>3 DEF WorkShows
  <2>3. CASE j = "stop"
    <3>1. y[j] = op[Root][j]
      BY <1>11, <2>3
    <3>. QED  BY <2>1, <2>2, <2>3, <3>1
  <2>4. CASE j = "start"
    <3>1. y[j] = [at |-> "init", waits |-> op[Root][j].waits, failed |-> op[Root][j].failed]
      BY <1>11, <2>1, <2>4
    <3>. QED  BY <2>2, <2>4, <3>1
  <2>5. CASE j = "init"
    <3>1. y[j] = [at |-> "work", waits |-> op[Root][j].waits, failed |-> op[Root][j].failed]
      BY <1>11, <2>1, <2>5
    <3>. QED  BY <2>2, <2>5, <3>1
  <2>. QED  BY <2>3, <2>4, <2>5
<1>14. OpShapes'
  <2>1. op' = [d \in Components |-> op'[d]]
    BY <1>8, <1>9
  <2>2. ASSUME NEW d \in Components PROVE op'[d] = [j \in Kinds |-> op'[d][j]]
    <3>1. op'[d] = [j \in Kinds |-> IF d = Root THEN y[j] ELSE op[d][j]]
      <4>1. CASE d = Root
        BY <1>10, <1>12, <4>1
      <4>2. CASE d # Root
        <5>1. op[d] = [j \in Kinds |-> op[d][j]]
          BY <1>7
        <5>. QED  BY <1>10, <4>2, <5>1
      <4>. QED  BY <4>1, <4>2
    <3>. QED  BY <3>1
  <2>3. op' = [d \in Components |-> [j \in Kinds |-> op'[d][j]]]
    BY <2>1, <2>2
  <2>4. ASSUME NEW d \in Components, NEW j \in Kinds
        PROVE  op'[d][j] = [at |-> op'[d][j].at, waits |-> op'[d][j].waits,
                            failed |-> op'[d][j].failed]
    <3>1. op[d][j] = [at |-> op[d][j].at, waits |-> op[d][j].waits, failed |-> op[d][j].failed]
      BY <1>1 DEF OpShapes
    <3>2. CASE d # Root
      BY <1>10, <3>1, <3>2
    <3>3. CASE d = Root
      BY <1>10, <1>13, <3>3
    <3>. QED  BY <3>2, <3>3
  <2>. QED  BY <2>3, <2>4 DEF OpShapes
<1>15. AwaitedAreBelow'
  <2>1. ASSUME NEW d \in Components, NEW j \in Kinds PROVE op'[d][j].waits \subseteq WaitsFor(d)
    <3>1. op'[d][j].waits = op[d][j].waits
      BY <1>10, <1>13
    <3>. QED  BY <1>1, <3>1 DEF AwaitedAreBelow
  <2>. QED  BY <2>1 DEF AwaitedAreBelow, WaitsFor
<1>16. WorkShows'
  <2>. SUFFICES ASSUME NEW d \in Components, NEW j \in Kinds, op'[d][j].at = "work"
                PROVE  state'[d] = During(j)
    BY DEF WorkShows
  <2>1. CASE d = Root
    <3>1. j = "init"
      BY <1>10, <1>13, <2>1
    <3>. QED  BY <1>4, <2>1, <3>1
  <2>2. CASE d # Root
    <3>1. op[d][j].at = "work"
      BY <1>10, <2>2
    <3>2. state[d] = During(j)
      BY <1>1, <3>1 DEF WorkShows
    <3>. QED  BY <1>4, <2>2, <3>2
  <2>. QED  BY <2>1, <2>2
<1>17. ManagerIsDone'
  <2>1. ASSUME NEW j \in {"start", "stop"} PROVE op'[Root][j].at # "work"
    <3>1. y[j].at # "work"
      BY <1>13
    <3>. QED  BY <1>10, <3>1
  <2>. QED  BY <2>1 DEF ManagerIsDone
<1>18. InitIsAwaited'
  <2>. SUFFICES ASSUME NEW d \in Leaves, op'[d]["init"].at # "none"
                PROVE  \E i \in AllCalls : call'[i].at = "init" /\ Child(i)' = d
    BY DEF InitIsAwaited
  <2>1. op[d]["init"].at # "none"
    BY <1>10
  <2>2. PICK i \in AllCalls : call[i].at = "init" /\ Child(i) = d
    BY <1>1, <2>1 DEF InitIsAwaited
  <2>. QED  BY <1>2, <2>2 DEF Child
<1>19. ManagerFirst'
  <2>1. op'[Root]["start"].at = "init"
    BY <1>10, <1>13
  <2>2. call'["init"].at = "adds" /\ Parent("init")' = Root
    BY DEF Parent
  <2>. QED  BY <1>4, <2>1, <2>2 DEF ManagerFirst
<1>20. /\ InStep'
       /\ op'[Manager] = op[Manager] /\ state'[Manager] = state[Manager]
       /\ \A d \in Leaves : state'[d] = state[d]
  BY <1>3, <1>4, <1>10 DEF InStep
<1>21. StoppingBelow' /\ NoneLeftActive'
  BY <1>1, <1>20 DEF StoppingBelow, NoneLeftActive, Rests, StopsBefore
<1>22. NoneForgotten'
  <2>. SUFFICES ASSUME NEW d \in Leaves, Excused(d) PROVE Excused(d)'
    BY <1>1, <1>20 DEF NoneForgotten, StartsBefore
  <2>1. ASSUME NEW i \in AllCalls, call[i].at \in {"init", "inited"}, Child(i) = d
        PROVE  BeingAdded(d)'
    <3>1. call'[i] = call[i]
      BY <1>2, <2>1
    <3>. QED  BY <2>1, <3>1 DEF BeingAdded, Child
  <2>. QED  BY <2>1 DEF Excused, BeingAdded, Child
<1>. QED  BY <1>5, <1>14, <1>15, <1>16, <1>17, <1>18, <1>19, <1>20, <1>21, <1>22 DEF RunInvariant

(* One call moves on, and nothing else does.                               *)
LEMMA OneCallKeepsRuns ==
  ASSUME TreeInvariant, RunInvariant, UNCHANGED <<state, op>>,
         \A c \in Components : Ready(c)' <=> Ready(c), leftOut \subseteq leftOut',
         NEW k \in AllCalls, call[k].at \in {"maps", "adds", "inited"}, NEW x, call' = [call EXCEPT ![k] = x],
         x.at # "init",
         call[k].at = "inited" /\ Child(k) \in Leaves /\ state[Child(k)] = "stopped" =>
           Child(k) \in leftOut' \/ state[Manager] \notin {"starting", "running"},
         x = Thrown \/ Parent(k) # Root \/ call[k].at # "adds"
  PROVE  RunInvariant'
<1>. USE Roles
<1>1. call'[k] = x /\ \A i \in AllCalls \ {k} : call'[i] = call[i]
  BY DEF TreeInvariant, CallTypes
<1>2. Active(k)
  BY DEF Active
<1>3. \A i \in AllCalls : call[i].at = "init" => call'[i] = call[i]
  BY <1>1
<1>4. Active("init")' => Active("init")
  BY <1>1, <1>2 DEF Active
<1>5. \/ call'["init"] = call["init"]
      \/ call'["init"] = Thrown
      \/ Active("init") /\ (Parent("init") # Root \/ call["init"].at \notin {"adds", "init"})
  BY <1>1, <1>2
<1>6. ASSUME NEW c \in Leaves, BeingAdded(c), state[c] = "stopped"
      PROVE  BeingAdded(c)' \/ c \in leftOut' \/ state[Manager] \notin {"starting", "running"}
  <2>1. PICK i \in AllCalls : call[i].at \in {"init", "inited"} /\ Child(i) = c
    BY <1>6 DEF BeingAdded, Child
  <2>2. CASE i = k
    BY <1>6, <2>1, <2>2
  <2>3. CASE i # k
    BY <1>1, <2>1, <2>3 DEF BeingAdded, Child
  <2>. QED  BY <2>2, <2>3
<1>. QED  BY <1>3, <1>4, <1>5, <1>6, CallsKeepRuns

LEMMA NextKeepsRuns ==
  ASSUME TreeInvariant, RunInvariant, [Next]_vars
  PROVE  RunInvariant'
<1>. USE Roles
<1>1. /\ CallTypes /\ TreeTypes /\ TreeInvariant'
      /\ ReadyHaveStates /\ WorkShows /\ ManagerFirst
  BY NextKeepsTree DEF TreeInvariant, RunInvariant
<1>2. ASSUME UNCHANGED <<context, state, op, call, leftOut>> PROVE RunInvariant'
  <2>1. \A c \in Leaves : BeingAdded(c)' <=> BeingAdded(c)
    BY <1>2 DEF BeingAdded
  <2>2. \A c \in Components : Ready(c)' <=> Ready(c)
    BY <1>2 DEF Ready
  <2>3. Active("init")' <=> Active("init")
    BY <1>2 DEF Active
  <2>. QED  BY <1>2, <2>1, <2>2, <2>3, CallsKeepRuns
<1>3. CASE StartRoot
  <2>1. CASE Ready(Root)
    <3>1. state[Root] = From("start") /\ Begin(Root, "start") /\ UNCHANGED <<context, call, leftOut>>
      BY <1>3, <2>1, KindFact DEF StartRoot, hierarchy
    <3>. QED  BY <3>1, BeginningKeepsRuns
  <2>2. CASE ~Ready(Root)
    <3>1. /\ context' = [context EXCEPT ![Root] = "ready"]
          /\ state' = [state EXCEPT ![Root] = "initializing"]
          /\ op' = [op EXCEPT ![Root]["start"].at = "init", ![Root]["init"].at = "work"]
          /\ leftOut' = leftOut
      BY <1>3, <2>2 DEF StartRoot, SetState, SetStates
    <3>2. call' = [call EXCEPT !["init"] =
               [at |-> "adds",
                todo |-> << <<Root, Manager>> >>
                           \o [i \in 1 .. Len(Configured) |-> <<Manager, Configured[i]>>]]]
      BY <1>3, <2>2 DEF StartRoot
    <3>3. call["init"].at = "none"
      BY <2>2 DEF TreeInvariant, Parentage, NoCall
    <3>4. /\ call'["init"].at = "adds" /\ call'["init"].todo[1] = <<Root, Manager>>
          /\ \A k \in AllCalls \ {"init"} : call'[k] = call[k]
      BY <1>1, <3>2, <3>3, InitCall
    <3>. QED  BY <2>2, <3>1, <3>4, RootInitKeepsRuns
  <2>. QED  BY <2>1, <2>2
<1>4. CASE StartInited
  <2>1. state[Root] = From("start")
    BY <1>1, <1>4, KindFact DEF StartInited, ManagerFirst
  <2>2. Begin(Root, "start") /\ UNCHANGED <<context, call, leftOut>>
    BY <1>4 DEF StartInited, hierarchy
  <2>. QED  BY <2>1, <2>2, BeginningKeepsRuns
<1>5. CASE StopRoot
  <2>1. state[Root] = From("stop") /\ Begin(Root, "stop") /\ UNCHANGED <<context, call, leftOut>>
    BY <1>5, KindFact DEF StopRoot, hierarchy
  <2>. QED  BY <2>1, BeginningKeepsRuns
<1>6. ASSUME NEW c \in Components, NEW kind \in Kinds, Works(c, kind) PROVE RunInvariant'
  BY <1>6, WorkingKeepsRuns
<1>7. ASSUME NEW c \in Components, NEW kind \in Kinds, Fails(c, kind) PROVE RunInvariant'
  <2>1. Settle(c, kind, FALSE) /\ UNCHANGED <<context, state, leftOut>>
    BY <1>7 DEF Fails, hierarchy
  <2>2. state[c] # Target(kind)
    BY <1>1, <1>7, KindFact DEF Fails, WorkShows
  <2>3. PICK ok \in BOOLEAN : ok = FALSE
    OBVIOUS
  <2>4. Settle(c, kind, ok) /\ (ok <=> state[c] = Target(kind))
    BY <2>1, <2>2, <2>3
  <2>. QED  BY <1>1, <2>1, <2>4, SettlingKeepsRuns
<1>8. ASSUME NEW c \in Components, NEW kind \in Kinds, Ends(c, kind) PROVE RunInvariant'
  <2>1. Settle(c, kind, state[c] = Target(kind)) /\ UNCHANGED <<context, state, leftOut>>
    BY <1>8 DEF Ends, hierarchy
  <2>2. PICK ok \in BOOLEAN : Settle(c, kind, ok) /\ (ok <=> state[c] = Target(kind))
    BY <2>1
  <2>. QED  BY <1>1, <2>1, <2>2, SettlingKeepsRuns
<1>9. ASSUME NEW k \in AllCalls, MapHost(k) PROVE RunInvariant'
  <2>1. call[k].at = "maps" /\ UNCHANGED <<context, state, op, leftOut>>
    BY <1>9 DEF MapHost, hierarchy
  <2>2. PICK x : /\ call' = [call EXCEPT ![k] = x]
                 /\ x = Thrown \/ x = [call[k] EXCEPT !.at = "adds"]
    BY <1>9 DEF MapHost
  <2>3. x.at # "init"
    BY <1>1, <2>2 DEF CallTypes, Thrown
  <2>4. Parent(k) # Root
    BY <1>1, <2>1 DEF CallTypes
  <2>5. \A c \in Components : Ready(c)' <=> Ready(c)
    BY <2>1 DEF Ready
  <2>. QED  BY <2>1, <2>2, <2>3, <2>4, <2>5, OneCallKeepsRuns
<1>10. ASSUME NEW k \in AllCalls, AddChild(k) PROVE RunInvariant'
  <2>1. PICK p, c : p = Parent(k) /\ c = Child(k)
    OBVIOUS
  <2>2. call[k].at = "adds" /\ Active(k) /\ leftOut' = leftOut
    BY <1>10 DEF AddChild, Active
  <2>3. /\ p \in Components /\ c \in Components
        /\ p = Root => Ready(p)
    BY <1>1, <2>1, <2>2, ParentFact
  <2>4. ASSUME call' = [call EXCEPT ![k] = Thrown], UNCHANGED <<context, state, op>>
        PROVE  RunInvariant'
    <3>1. \A d \in Components : Ready(d)' <=> Ready(d)
      BY <2>4 DEF Ready
    <3>2. Thrown.at # "init"
      BY DEF Thrown
    <3>. QED  BY <2>2, <2>4, <3>1, <3>2, OneCallKeepsRuns
  <2>5. CASE ~CanBeAdded(c)
    BY <1>10, <2>1, <2>4, <2>5 DEF AddChild, Child, hierarchy
  <2>6. CASE CanBeAdded(c) /\ AddNascent(k, p, c)
    <3>1. /\ context' = [context EXCEPT ![p] = "nascent", ![c] = "nascent"]
          /\ call' = [call EXCEPT ![k] = NextChild(call[k].todo)]
          /\ ~Ready(p) /\ ~Ready(c) /\ UNCHANGED <<state, op>>
      BY <2>6 DEF AddNascent, CanBeAdded
    <3>2. \A d \in Components : Ready(d)' <=> Ready(d)
      BY <1>1, <2>3, <3>1 DEF TreeTypes, Ready
    <3>3. NextChild(call[k].todo).at # "init"
      BY <1>1, <2>2, NextTodo
    <3>4. Parent(k) # Root
      BY <2>1, <2>3, <3>1
    <3>. QED  BY <2>2, <3>1, <3>2, <3>3, <3>4, OneCallKeepsRuns
  <2>7. CASE CanBeAdded(c) /\ AddReady(k, p, c)
    <3>1. \/ call' = [call EXCEPT ![k] = Thrown] /\ UNCHANGED <<context, state, op>>
          \/ /\ context[c] = "none" /\ context' = [context EXCEPT ![c] = "ready"]
             /\ state' = [state EXCEPT ![c] = "initializing"]
             /\ op' = [op EXCEPT ![c]["init"].at = "work"]
             /\ call' = [call EXCEPT ![k].at = "init"]
      BY <2>7 DEF AddReady, SetState, SetStates, hierarchy
    <3>. QED  BY <2>1, <2>2, <2>4, <3>1, AddingKeepsRuns
  <2>. QED  BY <1>10, <2>1, <2>5, <2>6, <2>7 DEF AddChild, Parent, Child
<1>11. ASSUME NEW k \in AllCalls, ChildInited(k) PROVE RunInvariant'
  <2>1. PICK p, c : p = Parent(k) /\ c = Child(k)
    OBVIOUS
  <2>2. call[k].at = "inited" /\ Active(k) /\ context' = context
    BY <1>11 DEF ChildInited, Active, hierarchy
  <2>3. \/ k = "init" /\ p = Root /\ c = Manager
        \/ p = Manager /\ c \in Leaves
    BY <1>1, <2>1, <2>2, PairFact
  <2>4. \A d \in Components : Ready(d)' <=> Ready(d)
    BY <2>2 DEF Ready
  <2>5. CASE state[p] = "running" /\ state[c] = "stopped"
    <3>1. /\ Begin(c, "start") /\ leftOut' = leftOut
          /\ call' = [call EXCEPT ![k].at = "start"]
      BY <1>11, <2>1, <2>5 DEF ChildInited, MustStart, Parent, Child
    <3>2. p = Manager /\ c \in Leaves
      BY <1>1, <2>2, <2>3, <2>5 DEF ManagerFirst
    <3>. QED  BY <2>1, <2>2, <2>5, <3>1, <3>2, LeafStartKeepsRuns
  <2>6. CASE state[p] = "running" /\ state[c] # "stopped"
    <3>1. call' = [call EXCEPT ![k] = Thrown] /\ UNCHANGED <<state, op, leftOut>>
      BY <1>11, <2>1, <2>6 DEF ChildInited, MustStart, Parent, Child
    <3>2. Thrown.at # "init"
      BY DEF Thrown
    <3>. QED  BY <2>1, <2>2, <2>4, <2>6, <3>1, <3>2, OneCallKeepsRuns
  <2>7. CASE state[p] # "running"
    <3>1. /\ call' = [call EXCEPT ![k] = NextChild(call[k].todo)] /\ UNCHANGED <<state, op>>
          /\ leftOut' = IF state[p] = "starting" THEN leftOut \union {c} ELSE leftOut
      BY <1>11, <2>1, <2>7 DEF ChildInited, MustStart, Parent, Child
    <3>2. NextChild(call[k].todo).at # "init"
      BY <1>1, <2>2, NextTodo
    <3>3. leftOut \subseteq leftOut'
      BY <3>1
    <3>4. c \in Leaves => c \in leftOut' \/ state[Manager] \notin {"starting", "running"}
      BY <2>3, <2>7, <3>1
    <3>. QED  BY <2>1, <2>2, <2>4, <3>1, <3>2, <3>3, <3>4, OneCallKeepsRuns
  <2>. QED  BY <2>5, <2>6, <2>7
<1>12. ASSUME NEW k \in Callers, NEW list \in Lists, AddAll(k, list) PROVE RunInvariant'
  <2>1. UNCHANGED <<context, state, op, leftOut>> /\ call[k] = NoCall
    BY <1>12 DEF AddAll, hierarchy
  <2>2. \A i \in AllCalls \ {k} : call'[i] = call[i]
    BY <1>1, <1>12 DEF AddAll, CallTypes
  <2>3. call[k].at = "none" /\ k # "init" /\ k \in AllCalls
    BY <2>1 DEF NoCall
  <2>4. \A i \in AllCalls : call[i].at = "init" => call'[i] = call[i]
    BY <2>2, <2>3
  <2>5. \A c \in Leaves : BeingAdded(c) => BeingAdded(c)'
    BY <2>2, <2>3 DEF BeingAdded
  <2>6. call'["init"] = call["init"] /\ (Active("init")' => Active("init"))
    BY <2>2, <2>3 DEF Active
  <2>7. \A c \in Components : Ready(c)' <=> Ready(c)
    BY <2>1 DEF Ready
  <2>. QED  BY <2>1, <2>4, <2>5, <2>6, <2>7, CallsKeepRuns
<1>13. ASSUME NEW w \in Waiters, WhenStopped(w) PROVE RunInvariant'
  BY <1>2, <1>13 DEF WhenStopped, hierarchy
<1>14. CASE UNCHANGED vars
  BY <1>2, <1>14 DEF vars, hierarchy
<1>. QED  BY <1>3, <1>4, <1>5, <1>6, <1>7, <1>8, <1>9, <1>10, <1>11, <1>12, <1>13, <1>14 DEF Next, GoOn

LEMMA RunsHold == Spec => [](TreeInvariant /\ RunInvariant)
<1>1. Init => TreeInvariant /\ RunInvariant
  BY FirstTree, FirstRun
<1>2. TreeInvariant /\ RunInvariant /\ [Next]_vars => (TreeInvariant /\ RunInvariant)'
  BY NextKeepsTree, NextKeepsRuns
<1>. QED  BY <1>1, <1>2, PTL DEF Spec

(* Whatever is added, starts, stops and fails, and in which order: what    *)
(* runs does so down to its leaves, but for those that start() of the      *)
(* manager has passed by or whose addition is under way or has thrown; and *)
(* below what has stopped nothing starts, runs or stops (BaseComponent's   *)
(* start(), stop() and #addChild()).                                       *)
THEOREM ItRunsAndStopsAsAWhole == Spec => []RunsAndStopsAsAWhole
<1>1. TreeInvariant /\ RunInvariant => RunsAndStopsAsAWhole
  BY RunsAreWhole
<1>. QED  BY <1>1, RunsHold, PTL
=============================================================================
