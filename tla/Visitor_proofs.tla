--------------------------- MODULE Visitor_proofs ---------------------------
(***************************************************************************)
(* Proofs about BaseValueVisitor and LoggedValueEncoder, for any graphs of *)
(* values: nothing is left half done, the verdict of a visit is right, and *)
(* what is logged has a def for each of its refs.                          *)
(***************************************************************************)
EXTENDS LoggedValueEncoder, TLAPS

-----------------------------------------------------------------------------
(* Sequences: who is in one, who is right below whom, and who is first.    *)
Has(s, n) == \E i \in DOMAIN s : s[i] = n
Below(s, x, y) == \E i \in DOMAIN s : i + 1 \in DOMAIN s /\ s[i] = x /\ s[i + 1] = y
First(s, n) == s # <<>> /\ s[1] = n
Once(s) == \A i, j \in DOMAIN s : s[i] = s[j] => i = j

LEMMA AppendFact ==
  ASSUME NEW S, NEW s \in Seq(S), NEW n \in S
  PROVE  /\ Append(s, n) \in Seq(S) /\ Append(s, n) # <<>> /\ Len(s) \in Nat
         /\ DOMAIN s = 1 .. Len(s) /\ DOMAIN Append(s, n) = 1 .. Len(s) + 1
         /\ \A i \in 1 .. Len(s) : Append(s, n)[i] = s[i]
         /\ \A i \in 1 .. Len(s) : s[i] \in S
         /\ Append(s, n)[Len(s) + 1] = n /\ Last(Append(s, n)) = n
<1>1. /\ Append(s, n) \in Seq(S) /\ Append(s, n) # <<>> /\ Len(s) \in Nat
      /\ DOMAIN s = 1 .. Len(s) /\ Len(Append(s, n)) = Len(s) + 1
      /\ DOMAIN Append(s, n) = 1 .. Len(s) + 1
      /\ \A i \in 1 .. Len(s) : s[i] \in S
  OBVIOUS
<1>2. /\ \A i \in 1 .. Len(s) : Append(s, n)[i] = s[i]
      /\ Append(s, n)[Len(s) + 1] = n
  OBVIOUS
<1>3. Last(Append(s, n)) = n
  BY <1>1, <1>2 DEF Last
<1>. QED  BY <1>1, <1>2, <1>3, Zenon

LEMMA FrontFact ==
  ASSUME NEW S, NEW s \in Seq(S), s # <<>>
  PROVE  /\ Front(s) \in Seq(S) /\ Len(s) \in Nat \ {0}
         /\ DOMAIN s = 1 .. Len(s) /\ DOMAIN Front(s) = 1 .. Len(s) - 1
         /\ \A i \in 1 .. Len(s) - 1 : Front(s)[i] = s[i]
         /\ \A i \in 1 .. Len(s) : s[i] \in S
         /\ Last(s) = s[Len(s)] /\ Last(s) \in S
         /\ Front(s) # <<>> => Len(s) > 1 /\ Last(Front(s)) = s[Len(s) - 1]
         /\ Len(s) > 1 => Front(s) # <<>>
<1>1. /\ Len(s) \in Nat \ {0} /\ DOMAIN s = 1 .. Len(s) /\ s[Len(s)] \in S
      /\ \A i \in 1 .. Len(s) : s[i] \in S
  OBVIOUS
<1>. DEFINE k == Len(s) - 1
<1>2. k \in Nat /\ k <= Len(s) /\ 1 \in Nat
  BY <1>1
<1>3. /\ SubSeq(s, 1, k) \in Seq(S) /\ Len(SubSeq(s, 1, k)) = k
      /\ \A i \in 1 .. k : SubSeq(s, 1, k)[i] = s[i]
  BY <1>1, <1>2
<1>4. /\ Front(s) \in Seq(S) /\ Len(Front(s)) = k /\ DOMAIN Front(s) = 1 .. k
      /\ \A i \in 1 .. k : Front(s)[i] = s[i]
  BY <1>3 DEF Front
<1>5. Last(s) = s[Len(s)] /\ Last(s) \in S
  BY <1>1 DEF Last
<1>6. Front(s) # <<>> => k > 0 /\ Last(Front(s)) = s[k]
  BY <1>1, <1>2, <1>4 DEF Last
<1>7. k > 0 => Front(s) # <<>>
  BY <1>2, <1>4
<1>. QED  BY <1>1, <1>2, <1>4, <1>5, <1>6, <1>7

LEMMA PushFact ==
  ASSUME NEW S, NEW s \in Seq(S), Once(s), NEW n \in S, ~Has(s, n)
  PROVE  /\ Append(s, n) \in Seq(S) /\ Append(s, n) # <<>> /\ Last(Append(s, n)) = n
         /\ Once(Append(s, n))
         /\ \A x : Has(Append(s, n), x) <=> Has(s, x) \/ x = n
         /\ \A x, y : Below(Append(s, n), x, y) <=>
                        Below(s, x, y) \/ (s # <<>> /\ x = Last(s) /\ y = n)
         /\ \A x : First(Append(s, n), x) <=> IF s = <<>> THEN x = n ELSE First(s, x)
<1>. DEFINE t == Append(s, n)
            k == Len(s)
<1>1. /\ t \in Seq(S) /\ t # <<>> /\ k \in Nat /\ DOMAIN s = 1 .. k /\ DOMAIN t = 1 .. k + 1
      /\ \A i \in 1 .. k : t[i] = s[i]
      /\ t[k + 1] = n /\ Last(t) = n
  BY AppendFact
<1>2. (s = <<>> <=> k = 0) /\ Last(s) = s[k]
  BY DEF Last
<1>. HIDE DEF t, k
<1>3. Once(t)
  BY <1>1 DEF Once, Has
<1>4. ASSUME NEW x PROVE Has(t, x) <=> Has(s, x) \/ x = n
  BY <1>1 DEF Has
<1>5. ASSUME NEW x, NEW y
      PROVE  Below(t, x, y) <=> Below(s, x, y) \/ (s # <<>> /\ x = Last(s) /\ y = n)
  <2>1. ASSUME NEW i \in DOMAIN t, i + 1 \in DOMAIN t, t[i] = x, t[i + 1] = y
        PROVE  Below(s, x, y) \/ (s # <<>> /\ x = Last(s) /\ y = n)
    <3>1. CASE i = k
      BY <1>1, <1>2, <2>1, <3>1
    <3>2. CASE i # k
      BY <1>1, <2>1, <3>2 DEF Below
    <3>. QED  BY <3>1, <3>2
  <2>2. ASSUME NEW i \in DOMAIN s, i + 1 \in DOMAIN s, s[i] = x, s[i + 1] = y
        PROVE  Below(t, x, y)
    <3>1. i \in DOMAIN t /\ i + 1 \in DOMAIN t /\ t[i] = x /\ t[i + 1] = y
      BY <1>1, <2>2
    <3>. QED  BY <3>1 DEF Below
  <2>3. ASSUME s # <<>>, x = Last(s), y = n PROVE Below(t, x, y)
    <3>1. k \in DOMAIN t /\ k + 1 \in DOMAIN t /\ t[k] = x /\ t[k + 1] = y
      BY <1>1, <1>2, <2>3
    <3>. QED  BY <3>1 DEF Below
  <2>. QED  BY <2>1, <2>2, <2>3 DEF Below
<1>6. ASSUME NEW x PROVE First(t, x) <=> IF s = <<>> THEN x = n ELSE First(s, x)
  <2>1. CASE s = <<>>
    BY <1>1, <1>2, <2>1 DEF First
  <2>2. CASE s # <<>>
    <3>1. t[1] = s[1]
      BY <1>1, <1>2, <2>2
    <3>. QED  BY <1>1, <2>2, <3>1 DEF First
  <2>. QED  BY <2>1, <2>2
<1>. QED  BY <1>1, <1>3, <1>4, <1>5, <1>6 DEF t

LEMMA PopFact ==
  ASSUME NEW S, NEW s \in Seq(S), Once(s), s # <<>>
  PROVE  /\ Front(s) \in Seq(S) /\ Last(s) \in S /\ Has(s, Last(s))
         /\ Once(Front(s))
         /\ \A x : Has(Front(s), x) <=> Has(s, x) /\ x # Last(s)
         /\ \A x, y : Below(Front(s), x, y) <=> Below(s, x, y) /\ y # Last(s)
         /\ \A y : ~Below(s, Last(s), y)
         /\ Front(s) # <<>> =>
              /\ Below(s, Last(Front(s)), Last(s)) /\ Has(s, Last(Front(s)))
              /\ Last(Front(s)) # Last(s) /\ Last(Front(s)) \in S
              /\ \A x : First(Front(s), x) <=> First(s, x)
         /\ Front(s) = <<>> <=> First(s, Last(s))
<1>. DEFINE t == Front(s)
            k == Len(s)
<1>1. /\ t \in Seq(S) /\ k \in Nat \ {0} /\ DOMAIN s = 1 .. k /\ DOMAIN t = 1 .. k - 1
      /\ \A i \in 1 .. k - 1 : t[i] = s[i]
      /\ \A i \in 1 .. k : s[i] \in S
      /\ Last(s) = s[k] /\ Last(s) \in S
  BY FrontFact
<1>2. /\ t # <<>> => k > 1 /\ Last(t) = s[k - 1]
      /\ k > 1 => t # <<>>
  BY FrontFact
<1>. HIDE DEF t, k
<1>3. Has(s, Last(s))
  BY <1>1 DEF Has
<1>4. Once(t)
  BY <1>1 DEF Once
<1>5. ASSUME NEW x PROVE Has(t, x) <=> Has(s, x) /\ x # Last(s)
  <2>1. ASSUME NEW i \in DOMAIN t, t[i] = x PROVE Has(s, x) /\ x # Last(s)
    BY <1>1, <2>1 DEF Has, Once
  <2>2. ASSUME NEW i \in DOMAIN s, s[i] = x, x # Last(s) PROVE Has(t, x)
    <3>1. i \in DOMAIN t /\ t[i] = x
      BY <1>1, <2>2
    <3>. QED  BY <3>1 DEF Has
  <2>. QED  BY <2>1, <2>2 DEF Has
<1>6. ASSUME NEW x, NEW y PROVE Below(t, x, y) <=> Below(s, x, y) /\ y # Last(s)
  <2>1. ASSUME NEW i \in DOMAIN t, i + 1 \in DOMAIN t, t[i] = x, t[i + 1] = y
        PROVE  Below(s, x, y) /\ y # Last(s)
    <3>1. i \in DOMAIN s /\ i + 1 \in DOMAIN s /\ s[i] = x /\ s[i + 1] = y /\ i + 1 # k /\ k \in DOMAIN s
      BY <1>1, <2>1
    <3>. QED  BY <1>1, <3>1 DEF Below, Once
  <2>2. ASSUME NEW i \in DOMAIN s, i + 1 \in DOMAIN s, s[i] = x, s[i + 1] = y, y # Last(s)
        PROVE  Below(t, x, y)
    <3>1. i \in DOMAIN t /\ i + 1 \in DOMAIN t /\ t[i] = x /\ t[i + 1] = y
      BY <1>1, <2>2
    <3>. QED  BY <3>1 DEF Below
  <2>. QED  BY <2>1, <2>2 DEF Below
<1>7. ASSUME NEW y PROVE ~Below(s, Last(s), y)
  <2>1. SUFFICES ASSUME NEW i \in DOMAIN s, i + 1 \in DOMAIN s, s[i] = Last(s) PROVE FALSE
    BY DEF Below
  <2>2. i = k
    BY <1>1, <2>1 DEF Once
  <2>. QED  BY <1>1, <2>1, <2>2
<1>8. ASSUME t # <<>>
      PROVE  /\ Below(s, Last(t), Last(s)) /\ Has(s, Last(t))
             /\ Last(t) # Last(s) /\ Last(t) \in S
             /\ \A x : First(t, x) <=> First(s, x)
  <2>1. /\ k - 1 \in DOMAIN s /\ (k - 1) + 1 \in DOMAIN s /\ s[k - 1] = Last(t)
        /\ s[(k - 1) + 1] = Last(s) /\ k \in DOMAIN s /\ k - 1 # k /\ s[k] = Last(s)
    BY <1>1, <1>2, <1>8
  <2>2. t[1] = s[1]
    BY <1>1, <1>2, <1>8
  <2>3. Last(t) # Last(s)
    BY <2>1 DEF Once
  <2>4. Below(s, Last(t), Last(s)) /\ Has(s, Last(t)) /\ Last(t) \in S
    BY <1>1, <2>1 DEF Below, Has
  <2>. QED  BY <2>2, <2>3, <2>4, <1>8 DEF First
<1>9. t = <<>> <=> First(s, Last(s))
  <2>1. k = 1 <=> First(s, Last(s))
    BY <1>1 DEF First, Once
  <2>2. k = 1 => t = <<>>
    BY <1>1
  <2>. QED  BY <1>1, <1>2, <2>1, <2>2
<1>. QED  BY <1>1, <1>3, <1>4, <1>5, <1>6, <1>7, <1>8, <1>9 DEF t

LEMMA TailFact ==
  ASSUME NEW S, NEW s \in Seq(S), s # <<>>
  PROVE  /\ Head(s) \in S /\ Tail(s) \in Seq(S) /\ ToSet(s) = {Head(s)} \union ToSet(Tail(s))
         /\ Head(s) \in ToSet(s)
<1>1. Head(s) \in S /\ Tail(s) \in Seq(S) /\ Len(s) \in Nat \ {0} /\ DOMAIN s = 1 .. Len(s)
      /\ Head(s) = s[1] /\ DOMAIN Tail(s) = 1 .. Len(s) - 1
      /\ \A i \in 1 .. Len(s) - 1 : Tail(s)[i] = s[i + 1]
  OBVIOUS
<1>2. ASSUME NEW i \in DOMAIN s PROVE s[i] \in {Head(s)} \union ToSet(Tail(s))
  <2>1. CASE i = 1
    BY <1>1, <2>1
  <2>2. CASE i # 1
    <3>1. i - 1 \in DOMAIN Tail(s) /\ Tail(s)[i - 1] = s[i]
      BY <1>1, <2>2
    <3>. QED  BY <3>1 DEF ToSet
  <2>. QED  BY <2>1, <2>2
<1>3. ASSUME NEW i \in DOMAIN Tail(s) PROVE Tail(s)[i] \in ToSet(s)
  <2>1. i + 1 \in DOMAIN s /\ Tail(s)[i] = s[i + 1]
    BY <1>1
  <2>. QED  BY <2>1 DEF ToSet
<1>4. Head(s) \in ToSet(s)
  BY <1>1 DEF ToSet
<1>5. ToSet(s) \subseteq {Head(s)} \union ToSet(Tail(s))
  BY <1>2 DEF ToSet
<1>6. ToSet(Tail(s)) \subseteq ToSet(s)
  BY <1>3 DEF ToSet
<1>. QED  BY <1>1, <1>4, <1>5, <1>6

LEMMA AppendedSet ==
  ASSUME NEW S, NEW s \in Seq(S), NEW n \in S
  PROVE  ToSet(Append(s, n)) = ToSet(s) \union {n}
<1>1. /\ Len(s) \in Nat /\ DOMAIN s = 1 .. Len(s) /\ DOMAIN Append(s, n) = 1 .. Len(s) + 1
      /\ \A i \in 1 .. Len(s) : Append(s, n)[i] = s[i]
      /\ Append(s, n)[Len(s) + 1] = n
  BY AppendFact
<1>2. ASSUME NEW i \in DOMAIN Append(s, n) PROVE Append(s, n)[i] \in ToSet(s) \union {n}
  <2>1. CASE i = Len(s) + 1
    BY <1>1, <2>1
  <2>2. CASE i # Len(s) + 1
    <3>1. i \in DOMAIN s /\ Append(s, n)[i] = s[i]
      BY <1>1, <2>2
    <3>. QED  BY <3>1 DEF ToSet
  <2>. QED  BY <2>1, <2>2
<1>3. \A i \in DOMAIN s : i \in DOMAIN Append(s, n) /\ Append(s, n)[i] = s[i]
  BY <1>1
<1>4. Len(s) + 1 \in DOMAIN Append(s, n)
  BY <1>1
<1>5. ToSet(Append(s, n)) \subseteq ToSet(s) \union {n}
  BY <1>2 DEF ToSet
<1>6. ToSet(s) \subseteq ToSet(Append(s, n)) /\ n \in ToSet(Append(s, n))
  BY <1>1, <1>3, <1>4 DEF ToSet
<1>. QED  BY <1>5, <1>6
LEMMA JoinedSet ==
  ASSUME NEW S, NEW s \in Seq(S), NEW t \in Seq(S)
  PROVE  ToSet(s \o t) = ToSet(s) \union ToSet(t)
<1>1. /\ Len(s) \in Nat /\ Len(t) \in Nat /\ DOMAIN s = 1 .. Len(s) /\ DOMAIN t = 1 .. Len(t)
      /\ DOMAIN (s \o t) = 1 .. Len(s) + Len(t)
      /\ \A i \in 1 .. Len(s) + Len(t) : (s \o t)[i] = IF i <= Len(s) THEN s[i] ELSE t[i - Len(s)]
  OBVIOUS
<1>. DEFINE u == s \o t
            k == Len(s)
            l == Len(t)
<1>2. /\ k \in Nat /\ l \in Nat /\ DOMAIN s = 1 .. k /\ DOMAIN t = 1 .. l /\ DOMAIN u = 1 .. k + l
      /\ \A i \in 1 .. k + l : u[i] = IF i <= k THEN s[i] ELSE t[i - k]
  BY <1>1
<1>. HIDE DEF u, k, l
<1>3. ASSUME NEW i \in DOMAIN u PROVE u[i] \in ToSet(s) \union ToSet(t)
  <2>1. CASE i <= k
    <3>1. i \in DOMAIN s /\ u[i] = s[i]
      BY <1>2, <1>3, <2>1
    <3>. QED  BY <3>1 DEF ToSet
  <2>2. CASE ~(i <= k)
    <3>1. i - k \in DOMAIN t /\ u[i] = t[i - k]
      BY <1>2, <1>3, <2>2
    <3>. QED  BY <3>1 DEF ToSet
  <2>. QED  BY <2>1, <2>2
<1>4. ASSUME NEW i \in DOMAIN s PROVE s[i] \in ToSet(u)
  <2>1. i \in DOMAIN u /\ u[i] = s[i]
    BY <1>2, <1>4
  <2>. QED  BY <2>1 DEF ToSet
<1>5. ASSUME NEW i \in DOMAIN t PROVE t[i] \in ToSet(u)
  <2>1. i + k \in DOMAIN u /\ u[i + k] = t[i]
    BY <1>2, <1>5
  <2>. QED  BY <2>1 DEF ToSet
<1>6. ToSet(u) = ToSet(s) \union ToSet(t)
  BY <1>3, <1>4, <1>5 DEF ToSet
<1>. QED  BY <1>6 DEF u

LEMMA BelowHas ==
  ASSUME NEW s, NEW x, NEW y, Below(s, x, y)
  PROVE  Has(s, x) /\ Has(s, y)
BY DEF Below, Has

LEMMA FirstHas ==
  ASSUME NEW S, NEW s \in Seq(S), NEW x, First(s, x)
  PROVE  Has(s, x)
<1>1. 1 \in DOMAIN s
  BY DEF First
<1>. QED  BY <1>1 DEF First, Has

-----------------------------------------------------------------------------
(* What the proofs speak of: calls that run or wait, and who waits for whom. *)
IsObject(n) == graph[n].kind = "object"
IsSlow(n) == graph[n].kind \in {"slow", "slowFail"}
Visiting(n) == entry[n] = "visiting"
OnStack(n) == Has(stack, n)
Above(x, y) == Below(stack, x, y)
Bottom(n) == First(stack, n)
IsAwaited(n) == \E p \in Nodes : frame[p].on = n
Live(n) == OnStack(n) \/ frame[n].on # None
Hears(x, y) == stack # <<>> /\ x = Top /\ returned = y

(* Calls or awaits; and so that the one who is called is not over yet.     *)
Calls(x, y) == frame[x].on = y \/ Above(x, y) \/ Hears(x, y)
Awaits(x, y) == frame[x].on = y \/ Above(x, y) \/ (Hears(x, y) /\ Visiting(y))

Remaining(f) == ToSet(f.names) \union ToSet(f.symbols)
IsAt(f, n) == ~AtEnd(f) /\ n = Child(f)

GraphTypes ==
  graph \in [Nodes -> [kind : Kinds, names : Seq(Nodes), symbols : Seq(Nodes), refs : RefPolicies]]

(***************************************************************************)
(* The calls.  A node is called once at a time; only the root's call and   *)
(* one that goes on after a wait are at the bottom of the stack, and only  *)
(* there; who runs or waits is an object whose visit is not over, unless   *)
(* it was found to be the head of a cycle; and what a call has called or   *)
(* awaits is the child that it is at.                                      *)
(***************************************************************************)
StackOK ==
  /\ Once(stack)
  /\ \A n \in Nodes : OnStack(n) =>
       /\ frame[n].on = None
       /\ n = Root \/ frame[n].isAsync => Bottom(n)
       /\ IsAwaited(n) => frame[n].isAsync
  /\ \A n \in Nodes : Bottom(n) => n = Root \/ frame[n].isAsync

LiveOK ==
  \A n \in Nodes : Live(n) => IsObject(n) /\ entry[n] \in {"visiting", "error"}

AwaitOK ==
  /\ \A p, n \in Nodes : frame[p].on = n =>
       /\ frame[p].isAsync /\ n # Root /\ entry[n] # "none"
       /\ Live(n) \/ IsSlow(n) \/ (returned = n /\ stack = <<>>)
       /\ entry[n] = "ok" => returned = n /\ stack = <<>>
  /\ \A p, q \in Nodes : frame[p].on # None /\ frame[p].on = frame[q].on => p = q

PlaceOK == \A x, y \in Nodes : Calls(x, y) => IsAt(frame[x], y)

EntryOK ==
  /\ \A n \in Nodes : entry[n] = "none" => frame[n] = Idle
  /\ \A n \in Nodes : Visiting(n) =>
       IF IsObject(n) THEN Live(n) ELSE IsSlow(n) /\ (returned = n \/ IsAwaited(n) \/ n = Root)
  /\ \A n \in Nodes : entry[n] = "ok" => graph[n].kind \notin {"fail", "slowFail"}
  /\ entry[Root] = "none" => \A n \in Nodes : entry[n] = "none"

ReturnedOK ==
  returned # None =>
    /\ entry[returned] # "none"
    /\ Visiting(returned) =>
         /\ ~OnStack(returned) /\ ~IsAwaited(returned)
         /\ stack = <<>> <=> returned = Root
    /\ stack = <<>> /\ returned # Root => ~Live(returned)

ChildrenOK == \A n \in Nodes : Remaining(frame[n]) \subseteq Children(n)

RefsKept ==
  /\ \A n \in Nodes : def[n] = "open" => Visiting(n)
  /\ \A n \in Nodes : def[n] = "none" /\ shouldRef[n] # "unset" => Finished(n)
  /\ \A n \in Nodes : def[n] # "none" => entry[n] # "none"
  /\ \A n \in Nodes : def[n] # "none" \/ shouldRef[n] = "yes" => graph[n].refs # "never"
  /\ \A n \in Nodes : def[n] # "none" <=> n \in ToSet(allRefs)
  /\ IsInjective(allRefs)

(* Nobody waits in circles: from wherever one starts, who waits for whom ends. *)
Ends == \A U \in SUBSET Nodes : U # {} => \E x \in U : \A y \in U : ~Awaits(x, y)

CallsInvariant ==
  /\ TypeOK
  /\ StackOK /\ LiveOK /\ AwaitOK /\ PlaceOK /\ EntryOK /\ ReturnedOK /\ ChildrenOK
  /\ RefsKept /\ Ends /\ ~impossible

-----------------------------------------------------------------------------
(* The steps, each by what it comes to.                                    *)
IsNext(n) ==
  \/ n = Root /\ entry[Root] = "none"
  \/ Running /\ IsAt(frame[Top], n)

NewFrame(n) == [Idle EXCEPT !.names = graph[n].names, !.symbols = graph[n].symbols]

StartsObject(n) ==
  /\ IsNext(n) /\ entry[n] = "none" /\ IsObject(n)
  /\ entry' = [entry EXCEPT ![n] = "visiting"]
  /\ frame' = [frame EXCEPT ![n] = NewFrame(n)]
  /\ stack' = Append(stack, n) /\ returned' = None
  /\ UNCHANGED <<value, shouldRef, def, allRefs, outcome>>

StartsLeaf(n) ==
  /\ IsNext(n) /\ entry[n] = "none" /\ ~IsObject(n)
  /\ entry' = [entry EXCEPT ![n] = LeafEntry(graph[n].kind)]
  /\ returned' = n
  /\ UNCHANGED <<value, shouldRef, def, allRefs, frame, stack, outcome>>

(* The running call hears of a child that it called or awaited, or meets one again. *)
Meets(p, n) ==
  /\ stack # <<>> /\ p = Top
  /\ returned = n \/ (returned = None /\ IsAt(frame[p], n) /\ entry[n] # "none")

RefsMove(n) ==
  \/ UNCHANGED <<shouldRef, def, allRefs>>
  \/ /\ entry[n] # "error" /\ def[n] = "none" /\ graph[n].refs # "never"
     /\ def' = [def EXCEPT ![n] = NewDef(n)]
     /\ allRefs' = Append(allRefs, n)
     /\ shouldRef' = [shouldRef EXCEPT ![n] = "yes"]
  \/ /\ entry[n] = "ok" /\ def[n] = "none"
     /\ shouldRef' = [shouldRef EXCEPT ![n] = "no"]
     /\ UNCHANGED <<def, allRefs>>

GoesOn(p, n, r) ==
  /\ Meets(p, n) /\ entry[n] # "error" /\ r \in Results /\ r.node = n
  /\ r.isRef => returned = None /\ def'[n] # "none"
  /\ ~r.isRef => entry[n] = "ok"
  /\ TakeResult(p, r)
  /\ returned' = None
  /\ RefsMove(n)
  /\ UNCHANGED <<value, entry, stack, answer, unhandled>>

NotesError(p, n) ==
  /\ Meets(p, n) /\ returned = n /\ entry[n] = "error" /\ ~frame[p].isAsync
  /\ frame' = [frame EXCEPT ![p] = [BrokenOff(@) EXCEPT !.failed = TRUE]]
  /\ returned' = None
  /\ UNCHANGED <<value, entries, stack, answer, unhandled>>

(* A call is over: at its end, or because it heard of or met one that failed. *)
Finishes(p, how) ==
  /\ stack # <<>> /\ p = Top /\ Finish(p, how)
  /\ unhandled' \in BOOLEAN /\ (unhandled => unhandled')
  /\ \/ /\ returned = None /\ AtEnd(frame[p]) /\ unhandled' = unhandled
        /\ how = "error" <=> frame[p].failed /\ ~frame[p].isAsync
     \/ /\ \E n \in Nodes : entry[n] = "error" /\ returned \in {None, n}
        /\ how = "ok" => returned = None /\ ~frame[p].failed /\ unhandled'
  /\ UNCHANGED <<value, frame, answer>>

StartsToWait(p, n) ==
  /\ stack # <<>> /\ p = Top /\ returned = n /\ entry[n] = "visiting"
  /\ Await(p, n)
  /\ UNCHANGED <<value, answer>>

IsCircular(p, n) ==
  /\ Running /\ p = Top /\ IsAt(frame[p], n)
  /\ entry[n] = "visiting" /\ def[n] = "none" /\ graph[n].refs = "never"
  /\ BecomeCircular(p, n)
  /\ UNCHANGED <<value, answer>>

Resumes(p) ==
  /\ stack = <<>> /\ returned # None /\ Finished(returned)
  /\ frame[p].on = returned
  /\ stack' = <<p>>
  /\ frame' = [frame EXCEPT ![p].on = None]
  /\ UNCHANGED <<value, entries, returned, outcome>>

Steps ==
  \/ \E n \in Nodes : StartsObject(n) \/ StartsLeaf(n) \/ Settle(n)
  \/ \E p, n \in Nodes : NotesError(p, n) \/ StartsToWait(p, n) \/ IsCircular(p, n)
  \/ \E p, n \in Nodes, r \in Results : GoesOn(p, n, r)
  \/ \E p \in Nodes, how \in {"ok", "error"} : Finishes(p, how)
  \/ \E p \in Nodes : Resumes(p)
  \/ ReturnToCaller

-----------------------------------------------------------------------------
(* Types.                                                                  *)
LEMMA GraphsTyped == TypeOK => GraphTypes
BY GraphsAssumption DEF TypeOK, GraphTypes

LEMMA TopTyped ==
  ASSUME TypeOK, stack # <<>>
  PROVE  Top \in Nodes /\ Front(stack) \in Seq(Nodes)
<1>1. stack \in Seq(Nodes)
  BY DEF TypeOK
<1>. QED  BY <1>1, FrontFact DEF Top

LEMMA ChildTyped ==
  ASSUME NEW f \in Frames, ~AtEnd(f)
  PROVE  /\ Child(f) \in Nodes /\ Advanced(f) \in Frames /\ BrokenOff(f) \in Frames
         /\ Child(f) \in Remaining(f)
         /\ Remaining(f) \subseteq Remaining(Advanced(f)) \union {Child(f)}
         /\ Remaining(Advanced(f)) \subseteq Remaining(f)
         /\ Remaining(BrokenOff(f)) \subseteq Remaining(f)
         /\ Advanced(f).isAsync = f.isAsync /\ Advanced(f).failed = f.failed
         /\ Advanced(f).on = f.on /\ Advanced(f).got = f.got
         /\ BrokenOff(f).isAsync = f.isAsync /\ BrokenOff(f).failed = f.failed
         /\ BrokenOff(f).on = f.on /\ BrokenOff(f).got = f.got
<1>1. /\ f.names \in Seq(Nodes) /\ f.symbols \in Seq(Nodes)
      /\ f = [names |-> f.names, symbols |-> f.symbols, isAsync |-> f.isAsync,
              failed |-> f.failed, on |-> f.on, got |-> f.got]
  BY DEF Frames
<1>2. <<>> \in Seq(Nodes) /\ ToSet(<<>>) = {}
  BY DEF ToSet
<1>3. CASE f.names # <<>>
  <2>1. /\ Head(f.names) \in Nodes /\ Tail(f.names) \in Seq(Nodes)
        /\ ToSet(f.names) = {Head(f.names)} \union ToSet(Tail(f.names))
    BY <1>1, <1>3, TailFact
  <2>2. /\ Child(f) = Head(f.names)
        /\ Advanced(f) = [f EXCEPT !.names = Tail(f.names)]
        /\ BrokenOff(f) = [f EXCEPT !.names = <<>>]
    BY <1>3 DEF Child, Advanced, BrokenOff
  <2>3. /\ Advanced(f) \in Frames /\ BrokenOff(f) \in Frames
    BY <2>1, <2>2, <1>2 DEF Frames
  <2>4. /\ Advanced(f).names = Tail(f.names) /\ Advanced(f).symbols = f.symbols
        /\ BrokenOff(f).names = <<>> /\ BrokenOff(f).symbols = f.symbols
    BY <2>2 DEF Frames
  <2>5. /\ Advanced(f).isAsync = f.isAsync /\ Advanced(f).failed = f.failed
        /\ Advanced(f).on = f.on /\ Advanced(f).got = f.got
        /\ BrokenOff(f).isAsync = f.isAsync /\ BrokenOff(f).failed = f.failed
        /\ BrokenOff(f).on = f.on /\ BrokenOff(f).got = f.got
    BY <2>2 DEF Frames
  <2>. QED  BY <1>2, <2>1, <2>2, <2>3, <2>4, <2>5 DEF Remaining
<1>4. CASE f.names = <<>>
  <2>0. f.symbols # <<>>
    BY <1>4 DEF AtEnd
  <2>1. /\ Head(f.symbols) \in Nodes /\ Tail(f.symbols) \in Seq(Nodes)
        /\ ToSet(f.symbols) = {Head(f.symbols)} \union ToSet(Tail(f.symbols))
    BY <1>1, <2>0, TailFact
  <2>2. /\ Child(f) = Head(f.symbols)
        /\ Advanced(f) = [f EXCEPT !.symbols = Tail(f.symbols)]
        /\ BrokenOff(f) = [f EXCEPT !.symbols = <<>>]
    BY <1>4 DEF Child, Advanced, BrokenOff
  <2>3. /\ Advanced(f) \in Frames /\ BrokenOff(f) \in Frames
    BY <2>1, <2>2, <1>2 DEF Frames
  <2>4. /\ Advanced(f).symbols = Tail(f.symbols) /\ Advanced(f).names = f.names
        /\ BrokenOff(f).symbols = <<>> /\ BrokenOff(f).names = f.names
    BY <2>2 DEF Frames
  <2>5. /\ Advanced(f).isAsync = f.isAsync /\ Advanced(f).failed = f.failed
        /\ Advanced(f).on = f.on /\ Advanced(f).got = f.got
        /\ BrokenOff(f).isAsync = f.isAsync /\ BrokenOff(f).failed = f.failed
        /\ BrokenOff(f).on = f.on /\ BrokenOff(f).got = f.got
    BY <2>2 DEF Frames
  <2>. QED  BY <1>2, <2>1, <2>2, <2>3, <2>4, <2>5 DEF Remaining
<1>. QED  BY <1>3, <1>4

-----------------------------------------------------------------------------
(* Each step of the visit is one of those above.                           *)
LEMMA StartKinds ==
  ASSUME NEW n \in Nodes, IsNext(n), entry[n] = "none", StartVisit(n)
  PROVE  StartsObject(n) \/ StartsLeaf(n)
<1>1. CASE IsObject(n)
  <2>2. LeafEntry(graph[n].kind) = "visiting"
    BY <1>1 DEF LeafEntry, IsObject
  <2>. QED  BY <1>1, <2>2 DEF StartVisit, StartsObject, IsObject, NewFrame
<1>2. CASE ~IsObject(n)
  BY <1>2 DEF StartVisit, StartsLeaf, IsObject
<1>. QED  BY <1>1, <1>2

LEMMA RefKinds ==
  ASSUME GraphTypes, RefsKept, NEW n \in Nodes, entry[n] \notin {"none", "error"},
         MakeRef(n), def[n] # "none" \/ ShouldRef(n, entry[n] = "visiting"), def \in [Nodes -> {"none", "open", "finished"}]
  PROVE  RefsMove(n) /\ def'[n] # "none"
<1>1. CASE def[n] # "none"
  BY <1>1 DEF MakeRef, RefsMove
<1>2. CASE def[n] = "none"
  <2>1. graph[n].refs # "never"
    BY <1>2 DEF ShouldRef, RefsKept
  <2>2. NewDef(n) # "none"
    BY DEF NewDef
  <2>. QED  BY <1>2, <2>1, <2>2 DEF MakeRef, RefsMove
<1>. QED  BY <1>1, <1>2

LEMMA FinishOnThrow ==
  ASSUME stack # <<>>, TakeThrow(Top), UNCHANGED <<value, answer>>, returned = None,
         NEW n \in Nodes, entry[n] = "error", TypeOK
  PROVE  \E how \in {"ok", "error"} : Finishes(Top, how)
<1>. DEFINE how == IF frame[Top].isAsync \/ frame[Top].failed THEN "error" ELSE "ok"
<1>1. how \in {"ok", "error"} /\ Finish(Top, how) /\ UNCHANGED frame
  BY DEF TakeThrow
<1>2. how = "ok" => ~frame[Top].isAsync /\ ~frame[Top].failed
  OBVIOUS
<1>3. unhandled' = (unhandled \/ ~frame[Top].isAsync)
  BY DEF TakeThrow
<1>4. (unhandled => unhandled') /\ (how = "ok" => ~frame[Top].failed /\ unhandled')
  BY <1>2, <1>3, Zenon
<1>6. unhandled' \in BOOLEAN
  BY <1>3, Zenon
<1>. HIDE DEF how
<1>5. Finishes(Top, how)
  BY <1>1, <1>4, <1>6 DEF Finishes
<1>. QED  BY <1>1, <1>5

LEMMA Again ==
  ASSUME TypeOK, RefsKept, ~impossible, VisitAgain
  PROVE  Steps /\ impossible' = FALSE
<1>. DEFINE p == Top
            n == Child(frame[p])
<1>1. /\ stack # <<>> /\ returned = None /\ ~AtEnd(frame[p]) /\ entry[n] # "none"
      /\ UNCHANGED <<value, answer>>
  BY DEF VisitAgain, Running
<1>2. p \in Nodes /\ frame[p] \in Frames
  BY <1>1, TopTyped DEF TypeOK
<1>3. n \in Nodes /\ IsAt(frame[p], n)
  BY <1>1, <1>2, ChildTyped DEF IsAt
<1>4. entry[n] \in {"visiting", "ok", "error"}
  BY <1>1, <1>3 DEF TypeOK
<1>5. GraphTypes
  BY GraphsTyped
<1>6. impossible' = FALSE
  <2>1. impossible' = (impossible \/ (entry[n] = "visiting" /\ def[n] = "none" /\ shouldRef[n] # "unset"))
    BY DEF VisitAgain
  <2>2. ~(entry[n] = "visiting" /\ def[n] = "none" /\ shouldRef[n] # "unset")
    BY <1>3 DEF RefsKept, Finished
  <2>. QED  BY <2>1, <2>2, Zenon
<1>7. CASE (def[n] # "none" \/ ShouldRef(n, entry[n] = "visiting")) /\ Reref(p, n)
  <2>1. CASE entry[n] = "error"
    BY <1>1, <1>2, <1>3, <1>6, <1>7, <2>1, FinishOnThrow DEF Reref, Steps
  <2>2. CASE entry[n] # "error"
    <3>1. /\ MakeRef(n) /\ TakeResult(p, [node |-> n, isRef |-> TRUE])
          /\ UNCHANGED <<entry, stack, returned, unhandled>>
      BY <1>7, <2>2 DEF Reref
    <3>2. RefsMove(n) /\ def'[n] # "none"
      BY <1>1, <1>3, <1>5, <1>7, <2>2, <3>1, RefKinds DEF TypeOK
    <3>. HIDE DEF p, n
    <3>3. Meets(p, n)
      BY <1>1, <1>3 DEF Meets, p
    <3>4. PICK r \in Results : r = [node |-> n, isRef |-> TRUE]
      BY <1>3 DEF Results
    <3>5. GoesOn(p, n, r)
      BY <1>1, <2>2, <3>1, <3>2, <3>3, <3>4 DEF GoesOn
    <3>. QED  BY <1>2, <1>3, <1>6, <3>5 DEF Steps
  <2>. QED  BY <2>1, <2>2
<1>8. CASE /\ def[n] = "none" /\ ~ShouldRef(n, entry[n] = "visiting")
           /\ IF entry[n] = "visiting" THEN BecomeCircular(p, n) ELSE Reuse(p, n)
  <2>1. CASE entry[n] = "visiting"
    <3>1. shouldRef[n] = "unset"
      BY <1>3, <1>8, <2>1 DEF RefsKept, Finished
    <3>2. graph[n].refs \notin {"always", "cycle"}
      BY <1>8, <2>1, <3>1 DEF ShouldRef
    <3>3. graph[n].refs = "never"
      BY <1>3, <1>5, <3>2 DEF GraphTypes, RefPolicies
    <3>4. Running
      BY <1>1 DEF Running
    <3>5. IsCircular(p, n)
      BY <1>1, <1>3, <1>8, <2>1, <3>3, <3>4 DEF IsCircular
    <3>. QED  BY <1>2, <1>3, <1>6, <3>5 DEF Steps
  <2>2. CASE entry[n] = "error"
    BY <1>1, <1>2, <1>3, <1>6, <1>8, <2>2, FinishOnThrow DEF Reuse, Steps
  <2>3. CASE entry[n] = "ok"
    <3>1. /\ shouldRef' = [shouldRef EXCEPT ![n] = "no"]
          /\ TakeResult(p, [node |-> n, isRef |-> FALSE])
          /\ UNCHANGED <<entry, def, allRefs, stack, returned, unhandled>>
      BY <1>8, <2>3 DEF Reuse
    <3>. HIDE DEF p, n
    <3>2. Meets(p, n)
      BY <1>1, <1>3 DEF Meets, p
    <3>3. RefsMove(n)
      BY <1>8, <2>3, <3>1 DEF RefsMove
    <3>4. PICK r \in Results : r = [node |-> n, isRef |-> FALSE]
      BY <1>3 DEF Results
    <3>5. GoesOn(p, n, r)
      BY <1>1, <2>3, <3>1, <3>2, <3>3, <3>4 DEF GoesOn
    <3>. QED  BY <1>2, <1>3, <1>6, <3>5 DEF Steps
  <2>. QED  BY <1>4, <2>1, <2>2, <2>3
<1>. QED  BY <1>6, <1>7, <1>8 DEF VisitAgain

LEMMA Taking ==
  ASSUME TypeOK, ReturnedOK, ~impossible, Take
  PROVE  Steps /\ impossible' = FALSE
<1>. DEFINE p == Top
            n == returned
<1>1. stack # <<>> /\ n # None /\ UNCHANGED <<value, answer>>
  BY DEF Take
<1>2. p \in Nodes /\ n \in Nodes /\ frame[p] \in Frames
  BY <1>1, TopTyped DEF TypeOK
<1>3. Meets(p, n)
  BY <1>1 DEF Meets
<1>4. impossible' = FALSE
  <2>1. impossible' = (impossible \/ (entry[n] = "visiting" /\ n \in ToSet(stack)))
    BY DEF Take
  <2>2. entry[n] = "visiting" => ~Has(stack, n)
    BY <1>1 DEF ReturnedOK, Visiting, OnStack
  <2>3. ~(entry[n] = "visiting" /\ n \in ToSet(stack))
    BY <2>2 DEF ToSet, Has
  <2>. QED  BY <2>1, <2>3, Zenon
<1>5. CASE /\ entry[n] = "ok" /\ TakeResult(p, [node |-> n, isRef |-> FALSE])
           /\ returned' = None /\ UNCHANGED <<entries, stack, unhandled>>
  <2>. HIDE DEF p, n
  <2>1. RefsMove(n)
    BY <1>5 DEF RefsMove, entries
  <2>2. PICK r \in Results : r = [node |-> n, isRef |-> FALSE]
    BY <1>2 DEF Results
  <2>3. GoesOn(p, n, r)
    BY <1>1, <1>3, <1>5, <2>1, <2>2 DEF GoesOn, entries
  <2>. QED  BY <1>2, <1>4, <2>3 DEF Steps
<1>6. CASE entry[n] = "error" /\ TakeError(p)
  <2>1. CASE frame[p].isAsync
    <3>1. Finish(p, "error") /\ UNCHANGED <<frame, unhandled>>
      BY <1>6, <2>1 DEF TakeError
    <3>. HIDE DEF p
    <3>2. \E m \in Nodes : entry[m] = "error" /\ returned \in {None, m}
      BY <1>2, <1>6
    <3>3. Finishes(p, "error")
      BY <1>1, <3>1, <3>2 DEF Finishes, p, TypeOK
    <3>. QED  BY <1>2, <1>4, <3>3 DEF Steps
  <2>2. CASE ~frame[p].isAsync
    <3>1. NotesError(p, n)
      BY <1>1, <1>3, <1>6, <2>2 DEF TakeError, NotesError
    <3>. QED  BY <1>2, <1>4, <3>1 DEF Steps
  <2>. QED  BY <2>1, <2>2
<1>7. CASE entry[n] = "visiting" /\ Await(p, n)
  <2>1. StartsToWait(p, n)
    BY <1>1, <1>7 DEF StartsToWait
  <2>. QED  BY <1>2, <1>4, <2>1 DEF Steps
<1>. QED  BY <1>4, <1>5, <1>6, <1>7 DEF Take

LEMMA StepsFollow ==
  ASSUME TypeOK, RefsKept, ReturnedOK, ~impossible, Next
  PROVE  Steps /\ impossible' = FALSE
<1>0. impossible = FALSE
  BY DEF TypeOK
<1>1. CASE VisitRoot
  <2>1. StartsObject(Root) \/ StartsLeaf(Root)
    BY <1>1, NodesAssumption, StartKinds DEF VisitRoot, IsNext
  <2>. QED  BY <1>0, <2>1, NodesAssumption DEF Steps, StartsObject, StartsLeaf, outcome
<1>2. CASE VisitNew
  <2>. DEFINE n == Child(frame[Top])
  <2>1. Running /\ ~AtEnd(frame[Top]) /\ entry[n] = "none" /\ StartVisit(n)
    BY <1>2 DEF VisitNew
  <2>2. Top \in Nodes /\ frame[Top] \in Frames
    BY <2>1, TopTyped DEF TypeOK, Running
  <2>3. n \in Nodes /\ IsNext(n)
    BY <2>1, <2>2, ChildTyped DEF IsNext, IsAt
  <2>. HIDE DEF n
  <2>4. StartsObject(n) \/ StartsLeaf(n)
    BY <2>1, <2>3, StartKinds
  <2>. QED  BY <1>0, <2>3, <2>4 DEF Steps, StartsObject, StartsLeaf, outcome
<1>3. CASE VisitAgain
  BY <1>3, Again
<1>4. CASE Take
  BY <1>4, Taking
<1>5. CASE EndOfProperties
  <2>. DEFINE p == Top
              how == IF frame[p].failed /\ ~frame[p].isAsync THEN "error" ELSE "ok"
  <2>1. /\ stack # <<>> /\ returned = None /\ AtEnd(frame[p]) /\ Finish(p, how)
        /\ UNCHANGED <<value, frame, answer, impossible, unhandled>>
    BY <1>5 DEF EndOfProperties, Running, outcome
  <2>2. (how = "error" <=> frame[p].failed /\ ~frame[p].isAsync) /\ how \in {"ok", "error"}
    OBVIOUS
  <2>3. p \in Nodes
    BY <2>1, TopTyped
  <2>. HIDE DEF how
  <2>4. Finishes(p, how)
    BY <2>1, <2>2 DEF Finishes, TypeOK
  <2>. QED  BY <1>0, <2>1, <2>2, <2>3, <2>4 DEF Steps
<1>6. CASE Resume
  <2>1. PICK p \in Waiting(returned) :
          stack' = <<p>> /\ frame' = [frame EXCEPT ![p].on = None]
    BY <1>6 DEF Resume
  <2>2. p \in Nodes /\ frame[p].on = returned
    BY <2>1 DEF Waiting
  <2>3. Resumes(p)
    BY <1>6, <2>1, <2>2 DEF Resume, Resumes
  <2>. QED  BY <1>0, <1>6, <2>2, <2>3 DEF Steps, Resume, outcome
<1>7. CASE ReturnToCaller
  BY <1>0, <1>7 DEF Steps, ReturnToCaller
<1>8. ASSUME NEW n \in Nodes, Settle(n) PROVE Steps /\ impossible' = FALSE
  BY <1>0, <1>8 DEF Steps, Settle, outcome
<1>. QED  BY <1>1, <1>2, <1>3, <1>4, <1>5, <1>6, <1>7, <1>8 DEF Next, Step

-----------------------------------------------------------------------------
(* The call that runs, and the nodes that it starts and meets.             *)
LEMMA TopFact ==
  ASSUME CallsInvariant, stack # <<>>
  PROVE  /\ Top \in Nodes /\ frame[Top] \in Frames /\ OnStack(Top) /\ Live(Top)
         /\ frame[Top].on = None /\ IsObject(Top) /\ entry[Top] \in {"visiting", "error"}
         /\ \A y : ~Above(Top, y)
<1>1. stack \in Seq(Nodes) /\ frame \in [Nodes -> Frames] /\ Once(stack)
  BY DEF CallsInvariant, TypeOK, StackOK
<1>2. Top \in Nodes /\ OnStack(Top) /\ \A y : ~Above(Top, y)
  BY <1>1, PopFact DEF Top, OnStack, Above
<1>3. Live(Top)
  BY <1>2 DEF Live
<1>. QED  BY <1>1, <1>2, <1>3 DEF CallsInvariant, StackOK, LiveOK

LEMMA NextFact ==
  ASSUME CallsInvariant, NEW n \in Nodes, IsNext(n), entry[n] = "none"
  PROVE  /\ ~OnStack(n) /\ ~Live(n) /\ ~IsAwaited(n) /\ frame[n] = Idle /\ def[n] = "none"
         /\ returned = None
         /\ stack = <<>> <=> n = Root
         /\ stack = <<>> => \A m \in Nodes : entry[m] = "none"
         /\ stack # <<>> => Top # n /\ IsAt(frame[Top], n)
<1>1. ~Live(n) /\ ~OnStack(n) /\ frame[n] = Idle /\ def[n] = "none"
  BY DEF CallsInvariant, LiveOK, Live, EntryOK, RefsKept
<1>2. ~IsAwaited(n)
  BY DEF CallsInvariant, AwaitOK, IsAwaited
<1>3. entry[Root] = "none" =>
        returned = None /\ stack = <<>> /\ \A m \in Nodes : entry[m] = "none"
  <2>1. SUFFICES ASSUME entry[Root] = "none"
                 PROVE  returned = None /\ stack = <<>> /\ \A m \in Nodes : entry[m] = "none"
    OBVIOUS
  <2>2. \A m \in Nodes : entry[m] = "none"
    BY <2>1 DEF CallsInvariant, EntryOK
  <2>3. returned = None
    BY <2>2 DEF CallsInvariant, ReturnedOK, TypeOK
  <2>4. stack = <<>>
    BY <2>2, TopFact
  <2>. QED  BY <2>2, <2>3, <2>4
<1>4. stack # <<>> => Top # n
  BY <1>1, TopFact
<1>. QED  BY <1>1, <1>2, <1>3, <1>4 DEF IsNext, Running

LEMMA MeetsFact ==
  ASSUME CallsInvariant, NEW p \in Nodes, NEW n \in Nodes, Meets(p, n)
  PROVE  /\ stack # <<>> /\ p = Top /\ frame[p] \in Frames /\ OnStack(p) /\ Live(p)
         /\ frame[p].on = None /\ IsObject(p) /\ entry[p] \in {"visiting", "error"}
         /\ IsAt(frame[p], n) /\ entry[n] # "none" /\ \A y : ~Above(p, y)
<1>1. stack # <<>> /\ p = Top
  BY DEF Meets
<1>2. CASE returned = n
  <2>1. Calls(p, n) /\ n # None
    BY <1>1, <1>2, NodesAssumption DEF Calls, Hears
  <2>2. IsAt(frame[p], n)
    BY <2>1 DEF CallsInvariant, PlaceOK
  <2>3. entry[n] # "none"
    BY <1>2, <2>1 DEF CallsInvariant, ReturnedOK
  <2>. QED  BY <1>1, <2>2, <2>3, TopFact
<1>3. CASE returned # n
  BY <1>1, <1>3, TopFact DEF Meets
<1>. QED  BY <1>2, <1>3

LEMMA EndsIfNoNew ==
  ASSUME Ends, \A x, y \in Nodes : Awaits(x, y)' => Awaits(x, y) \/ \A z \in Nodes : ~Awaits(y, z)'
  PROVE  Ends'
<1>1. SUFFICES ASSUME NEW U \in SUBSET Nodes, U # {} PROVE \E x \in U : \A y \in U : ~Awaits(x, y)'
  BY DEF Ends
<1>2. CASE \E x \in U : \A z \in Nodes : ~Awaits(x, z)'
  BY <1>2
<1>3. CASE \A x \in U : \E z \in Nodes : Awaits(x, z)'
  <2>1. PICK x \in U : \A y \in U : ~Awaits(x, y)
    BY <1>1 DEF Ends
  <2>2. \A y \in U : ~Awaits(x, y)'
    BY <1>3, <2>1
  <2>. QED  BY <2>2
<1>. QED  BY <1>2, <1>3

(* What a frame offers to the invariants does not change with its lists. *)
LEMMA NewFrameFact ==
  ASSUME GraphTypes, NEW n \in Nodes, IsObject(n)
  PROVE  /\ NewFrame(n) \in Frames /\ NewFrame(n).isAsync = FALSE /\ NewFrame(n).failed = FALSE
         /\ NewFrame(n).on = None /\ NewFrame(n).got = <<>>
         /\ Remaining(NewFrame(n)) = Children(n)
<1>1. graph[n].names \in Seq(Nodes) /\ graph[n].symbols \in Seq(Nodes) /\ <<>> \in Seq(Results)
  BY DEF GraphTypes
<1>2. /\ NewFrame(n) \in Frames /\ NewFrame(n).isAsync = FALSE /\ NewFrame(n).failed = FALSE
      /\ NewFrame(n).on = None /\ NewFrame(n).got = <<>>
      /\ NewFrame(n).names = graph[n].names /\ NewFrame(n).symbols = graph[n].symbols
  BY <1>1 DEF NewFrame, Idle, Frames
<1>3. Children(n) = ToSet(graph[n].names) \union ToSet(graph[n].symbols)
  BY <1>1, JoinedSet DEF Children, IsObject
<1>. QED  BY <1>2, <1>3 DEF Remaining

-----------------------------------------------------------------------------
(* An object starts.                                                       *)
LEMMA ObjectFact ==
  ASSUME CallsInvariant, NEW n \in Nodes, StartsObject(n)
  PROVE  /\ stack' \in Seq(Nodes) /\ stack' # <<>> /\ Top' = n /\ Once(stack')
         /\ \A x : Has(stack', x) <=> OnStack(x) \/ x = n
         /\ \A x, y : Below(stack', x, y) <=> Above(x, y) \/ (stack # <<>> /\ x = Top /\ y = n)
         /\ \A x : First(stack', x) <=> IF stack = <<>> THEN x = n ELSE Bottom(x)
         /\ entry'[n] = "visiting" /\ \A x \in Nodes : x # n => entry'[x] = entry[x]
         /\ frame'[n] = NewFrame(n) /\ \A x \in Nodes : x # n => frame'[x] = frame[x]
         /\ ~OnStack(n) /\ ~Live(n) /\ ~IsAwaited(n) /\ frame[n] = Idle /\ def[n] = "none"
         /\ returned = None /\ returned' = None /\ graph' = graph
         /\ stack = <<>> <=> n = Root
         /\ stack = <<>> => \A m \in Nodes : entry[m] = "none"
         /\ stack # <<>> => Top # n /\ IsAt(frame[Top], n)
<1>1. /\ IsNext(n) /\ entry[n] = "none" /\ IsObject(n)
      /\ entry' = [entry EXCEPT ![n] = "visiting"]
      /\ frame' = [frame EXCEPT ![n] = NewFrame(n)]
      /\ stack' = Append(stack, n) /\ returned' = None /\ graph' = graph
  BY DEF StartsObject, value
<1>2. /\ ~OnStack(n) /\ ~Live(n) /\ ~IsAwaited(n) /\ frame[n] = Idle /\ def[n] = "none"
      /\ returned = None
      /\ stack = <<>> <=> n = Root
      /\ stack = <<>> => \A m \in Nodes : entry[m] = "none"
      /\ stack # <<>> => Top # n /\ IsAt(frame[Top], n)
  BY <1>1, NextFact
<1>3. stack \in Seq(Nodes) /\ Once(stack) /\ ~Has(stack, n)
  BY <1>2 DEF CallsInvariant, TypeOK, StackOK, OnStack
<1>4. /\ stack' \in Seq(Nodes) /\ stack' # <<>> /\ Last(stack') = n /\ Once(stack')
      /\ \A x : Has(stack', x) <=> Has(stack, x) \/ x = n
      /\ \A x, y : Below(stack', x, y) <=> Below(stack, x, y) \/ (stack # <<>> /\ x = Last(stack) /\ y = n)
      /\ \A x : First(stack', x) <=> IF stack = <<>> THEN x = n ELSE First(stack, x)
  BY <1>1, <1>3, PushFact
<1>5. entry \in [Nodes -> {"none", "visiting", "ok", "error"}] /\ frame \in [Nodes -> Frames]
  BY DEF CallsInvariant, TypeOK
<1>6. /\ entry'[n] = "visiting" /\ \A x \in Nodes : x # n => entry'[x] = entry[x]
      /\ frame'[n] = NewFrame(n) /\ \A x \in Nodes : x # n => frame'[x] = frame[x]
  BY <1>1, <1>5
<1>. QED  BY <1>1, <1>2, <1>4, <1>6 DEF OnStack, Above, Bottom, Top

LEMMA ObjectKeeps ==
  ASSUME CallsInvariant, NEW n \in Nodes, StartsObject(n), impossible' = FALSE
  PROVE  CallsInvariant'
<1>1. /\ stack' \in Seq(Nodes) /\ stack' # <<>> /\ Top' = n /\ Once(stack')
      /\ \A x : Has(stack', x) <=> OnStack(x) \/ x = n
      /\ \A x, y : Below(stack', x, y) <=> Above(x, y) \/ (stack # <<>> /\ x = Top /\ y = n)
      /\ \A x : First(stack', x) <=> IF stack = <<>> THEN x = n ELSE Bottom(x)
  BY ObjectFact
<1>2. /\ entry'[n] = "visiting" /\ \A x \in Nodes : x # n => entry'[x] = entry[x]
      /\ frame'[n] = NewFrame(n) /\ \A x \in Nodes : x # n => frame'[x] = frame[x]
      /\ returned = None /\ returned' = None /\ graph' = graph
  BY ObjectFact
<1>3. /\ ~OnStack(n) /\ ~Live(n) /\ ~IsAwaited(n) /\ frame[n] = Idle /\ def[n] = "none"
      /\ stack = <<>> <=> n = Root
      /\ stack = <<>> => \A m \in Nodes : entry[m] = "none"
      /\ stack # <<>> => Top # n /\ IsAt(frame[Top], n)
  BY ObjectFact
<1>4. IsObject(n) /\ UNCHANGED <<value, shouldRef, def, allRefs, outcome>> /\ entry[n] = "none"
  BY DEF StartsObject
<1>5. /\ NewFrame(n) \in Frames /\ NewFrame(n).isAsync = FALSE /\ NewFrame(n).failed = FALSE
      /\ NewFrame(n).on = None /\ NewFrame(n).got = <<>>
      /\ Remaining(NewFrame(n)) = Children(n)
  BY <1>4, GraphsTyped, NewFrameFact DEF CallsInvariant
<1>6. TypeOK'
  <2>1. entry' = [entry EXCEPT ![n] = "visiting"] /\ frame' = [frame EXCEPT ![n] = NewFrame(n)]
    BY DEF StartsObject
  <2>. QED  BY <1>1, <1>2, <1>4, <1>5, <2>1 DEF CallsInvariant, TypeOK, value, outcome
<1>7. Idle.on = None
  BY DEF Idle
<1>8. \A x, y \in Nodes : (frame'[x].on = y <=> frame[x].on = y)
  BY <1>2, <1>3, <1>5, <1>7, NodesAssumption
<1>9. StackOK'
  <2>1. \A x \in Nodes : Has(stack', x) =>
          /\ frame'[x].on = None
          /\ x = Root \/ frame'[x].isAsync => First(stack', x)
          /\ (\E p \in Nodes : frame'[p].on = x) => frame'[x].isAsync
    <3>1. ASSUME NEW x \in Nodes, OnStack(x)
          PROVE  /\ frame'[x].on = None
                 /\ x = Root \/ frame'[x].isAsync => First(stack', x)
                 /\ (\E p \in Nodes : frame'[p].on = x) => frame'[x].isAsync
      <4>1. x # n /\ frame'[x] = frame[x]
        BY <1>2, <1>3, <3>1
      <4>2. First(stack', x) <=> Bottom(x)
        BY <1>1, <1>3, <3>1, TopFact DEF OnStack, Has
      <4>. QED  BY <1>8, <3>1, <4>1, <4>2 DEF CallsInvariant, StackOK, IsAwaited
    <3>2. /\ frame'[n].on = None
          /\ n = Root \/ frame'[n].isAsync => First(stack', n)
          /\ ~\E p \in Nodes : frame'[p].on = n
      BY <1>1, <1>2, <1>3, <1>5, <1>8 DEF IsAwaited
    <3>. QED  BY <1>1, <3>1, <3>2
  <2>2. \A x \in Nodes : First(stack', x) => x = Root \/ frame'[x].isAsync
    BY <1>1, <1>2, <1>3, TopFact DEF CallsInvariant, StackOK, Bottom, First, Has, OnStack
  <2>. QED  BY <1>1, <2>1, <2>2 DEF StackOK, OnStack, Bottom, IsAwaited
<1>10. LiveOK'
  BY <1>1, <1>2, <1>3, <1>4, <1>5 DEF CallsInvariant, LiveOK, Live, OnStack, IsObject
<1>11. AwaitOK'
  BY <1>1, <1>2, <1>3, <1>4, <1>5, <1>7, <1>8, NodesAssumption
     DEF CallsInvariant, AwaitOK, Live, OnStack, IsSlow, IsAwaited
<1>12. PlaceOK'
  <2>1. ASSUME NEW x \in Nodes, NEW y \in Nodes, Calls(x, y)' PROVE IsAt(frame'[x], y)
    <3>1. Calls(x, y) \/ (stack # <<>> /\ x = Top /\ y = n)
      BY <1>1, <1>2, <1>8, <2>1, NodesAssumption DEF Calls, Above, Hears
    <3>2. ~Calls(n, y)
      BY <1>2, <1>3, <1>7, NodesAssumption, BelowHas DEF Calls, Above, Hears, OnStack
    <3>3. IsAt(frame[x], y) /\ x # n
      BY <1>3, <3>1, <3>2 DEF CallsInvariant, PlaceOK
    <3>. QED  BY <1>2, <3>3
  <2>. QED  BY <2>1 DEF PlaceOK
<1>13. EntryOK'
  <2>1. \A x \in Nodes : entry'[x] = "none" => frame'[x] = Idle
    BY <1>2 DEF CallsInvariant, EntryOK
  <2>2. ASSUME NEW x \in Nodes, Visiting(x)'
        PROVE  (IF IsObject(x) THEN Live(x)
                ELSE IsSlow(x) /\ (returned = x \/ IsAwaited(x) \/ x = Root))'
    <3>1. CASE x = n
      BY <1>1, <1>2, <1>4, <3>1 DEF IsObject, Live, OnStack
    <3>2. CASE x # n
      <4>1. IF IsObject(x) THEN Live(x) ELSE IsSlow(x) /\ (IsAwaited(x) \/ x = Root)
        BY <1>2, <2>2, <3>2, NodesAssumption DEF CallsInvariant, EntryOK, Visiting
      <4>. QED  BY <1>1, <1>2, <1>8, <3>2, <4>1 DEF IsObject, Live, OnStack, IsSlow, IsAwaited
    <3>. QED  BY <3>1, <3>2
  <2>3. \A x \in Nodes : entry'[x] = "ok" => graph'[x].kind \notin {"fail", "slowFail"}
    BY <1>2 DEF CallsInvariant, EntryOK
  <2>4. entry'[Root] # "none"
    BY <1>2, <1>3, <1>4, NodesAssumption, TopFact DEF CallsInvariant, EntryOK
  <2>. QED  BY <2>1, <2>2, <2>3, <2>4 DEF EntryOK
<1>14. ReturnedOK'
  BY <1>2 DEF ReturnedOK
<1>15. ChildrenOK'
  BY <1>2, <1>5 DEF CallsInvariant, ChildrenOK, Children
<1>16. RefsKept'
  BY <1>2, <1>4, <1>3 DEF CallsInvariant, RefsKept, Visiting, Finished, value
<1>17. Ends'
  <2>1. ASSUME NEW x \in Nodes, NEW y \in Nodes, Awaits(x, y)'
        PROVE  Awaits(x, y) \/ y = n
    BY <1>1, <1>2, <1>8, <2>1, NodesAssumption DEF Awaits, Above, Hears
  <2>2. ASSUME NEW z \in Nodes PROVE ~Awaits(n, z)'
    BY <1>1, <1>2, <1>3, <1>5, <1>8, NodesAssumption, BelowHas DEF Awaits, Above, Hears, OnStack
  <2>. QED  BY <2>1, <2>2, EndsIfNoNew DEF CallsInvariant
<1>. QED  BY <1>6, <1>9, <1>10, <1>11, <1>12, <1>13, <1>14, <1>15, <1>16, <1>17 DEF CallsInvariant

-----------------------------------------------------------------------------
(* A leaf starts, and returns.                                             *)
LEMMA LeafFact ==
  ASSUME CallsInvariant, NEW n \in Nodes, StartsLeaf(n)
  PROVE  /\ entry'[n] \in {"visiting", "ok", "error"}
         /\ (entry'[n] = "visiting" => IsSlow(n)) /\ ~IsObject(n)
         /\ (entry'[n] = "ok" => graph[n].kind \notin {"fail", "slowFail"})
         /\ (entry'[n] = "error" => graph[n].kind = "fail")
         /\ \A x \in Nodes : x # n => entry'[x] = entry[x]
         /\ returned' = n /\ n # None /\ entry[n] = "none"
         /\ UNCHANGED <<graph, sync, shouldRef, def, allRefs, frame, stack, answer, unhandled>>
<1>1. /\ ~IsObject(n) /\ entry' = [entry EXCEPT ![n] = LeafEntry(graph[n].kind)]
      /\ UNCHANGED <<graph, sync, shouldRef, def, allRefs, frame, stack, answer, unhandled>>
      /\ returned' = n /\ entry[n] = "none"
  BY DEF StartsLeaf, value, outcome
<1>2. graph[n].kind \in {"value", "fail", "slow", "slowFail"}
  BY <1>1, GraphsTyped DEF CallsInvariant, GraphTypes, Kinds, IsObject
<1>3. entry'[n] = LeafEntry(graph[n].kind) /\ \A x \in Nodes : x # n => entry'[x] = entry[x]
  BY <1>1 DEF CallsInvariant, TypeOK
<1>4. /\ entry'[n] \in {"visiting", "ok", "error"}
      /\ entry'[n] = "visiting" => IsSlow(n)
      /\ entry'[n] = "ok" => graph[n].kind \notin {"fail", "slowFail"}
      /\ entry'[n] = "error" => graph[n].kind = "fail"
  BY <1>2, <1>3 DEF LeafEntry, IsSlow
<1>. QED  BY <1>1, <1>3, <1>4, NodesAssumption

LEMMA LeafKeeps ==
  ASSUME CallsInvariant, NEW n \in Nodes, StartsLeaf(n), impossible' = FALSE
  PROVE  CallsInvariant'
<1>1. /\ entry'[n] \in {"visiting", "ok", "error"}
      /\ (entry'[n] = "visiting" => IsSlow(n)) /\ ~IsObject(n)
      /\ (entry'[n] = "ok" => graph[n].kind \notin {"fail", "slowFail"})
      /\ \A x \in Nodes : x # n => entry'[x] = entry[x]
      /\ returned' = n /\ n # None /\ entry[n] = "none"
  BY LeafFact
<1>2. UNCHANGED <<graph, sync, shouldRef, def, allRefs, frame, stack, answer, unhandled>>
  BY LeafFact
<1>3. /\ ~OnStack(n) /\ ~Live(n) /\ ~IsAwaited(n) /\ frame[n] = Idle /\ def[n] = "none"
      /\ stack = <<>> <=> n = Root
      /\ stack = <<>> => \A m \in Nodes : entry[m] = "none"
      /\ stack # <<>> => Top # n /\ IsAt(frame[Top], n)
      /\ returned = None
  BY <1>1, NextFact DEF StartsLeaf
<1>4. TypeOK'
  <2>1. entry' = [entry EXCEPT ![n] = entry'[n]]
    BY <1>1 DEF StartsLeaf, CallsInvariant, TypeOK
  <2>. QED  BY <1>1, <1>2, <2>1 DEF CallsInvariant, TypeOK
<1>5. StackOK'
  BY <1>2 DEF CallsInvariant, StackOK, OnStack, Bottom, IsAwaited
<1>6. LiveOK'
  BY <1>1, <1>2, <1>3 DEF CallsInvariant, LiveOK, Live, OnStack, IsObject
<1>7. AwaitOK'
  BY <1>1, <1>2, <1>3, NodesAssumption DEF CallsInvariant, AwaitOK, Live, OnStack, IsSlow, IsAwaited
<1>8. PlaceOK'
  <2>1. ASSUME NEW x \in Nodes, NEW y \in Nodes, Calls(x, y)' PROVE IsAt(frame'[x], y)
    <3>1. Calls(x, y) \/ (stack # <<>> /\ x = Top /\ y = n)
      BY <1>1, <1>2, <2>1 DEF Calls, Above, Hears, Top
    <3>. QED  BY <1>2, <1>3, <3>1 DEF CallsInvariant, PlaceOK
  <2>. QED  BY <2>1 DEF PlaceOK
<1>9. EntryOK'
  <2>1. \A x \in Nodes : entry'[x] = "none" => frame'[x] = Idle
    BY <1>1, <1>2 DEF CallsInvariant, EntryOK
  <2>2. ASSUME NEW x \in Nodes, Visiting(x)'
        PROVE  (IF IsObject(x) THEN Live(x)
                ELSE IsSlow(x) /\ (returned = x \/ IsAwaited(x) \/ x = Root))'
    <3>1. CASE x = n
      BY <1>1, <1>2, <2>2, <3>1 DEF IsObject, Visiting, IsSlow
    <3>2. CASE x # n
      <4>1. IF IsObject(x) THEN Live(x) ELSE IsSlow(x) /\ (IsAwaited(x) \/ x = Root)
        BY <1>1, <1>3, <2>2, <3>2, NodesAssumption DEF CallsInvariant, EntryOK, Visiting
      <4>. QED  BY <1>1, <1>2, <3>2, <4>1 DEF IsObject, Live, OnStack, IsSlow, IsAwaited
    <3>. QED  BY <3>1, <3>2
  <2>3. \A x \in Nodes : entry'[x] = "ok" => graph'[x].kind \notin {"fail", "slowFail"}
    BY <1>1, <1>2 DEF CallsInvariant, EntryOK
  <2>4. entry'[Root] # "none"
    BY <1>1, <1>3, NodesAssumption, TopFact DEF CallsInvariant, EntryOK
  <2>. QED  BY <2>1, <2>2, <2>3, <2>4 DEF EntryOK
<1>10. ReturnedOK'
  <2>1. ~OnStack(n)' /\ ~Live(n)' /\ ~IsAwaited(n)'
    BY <1>2, <1>3 DEF OnStack, Live, IsAwaited
  <2>2. (stack = <<>>)' <=> n = Root
    BY <1>2, <1>3
  <2>. QED  BY <1>1, <2>1, <2>2 DEF ReturnedOK
<1>11. ChildrenOK'
  BY <1>2 DEF CallsInvariant, ChildrenOK, Children
<1>12. RefsKept'
  BY <1>1, <1>2, <1>3 DEF CallsInvariant, RefsKept, Visiting, Finished
<1>13. Ends'
  <2>1. ASSUME NEW x \in Nodes, NEW y \in Nodes, Awaits(x, y)'
        PROVE  Awaits(x, y) \/ y = n
    BY <1>1, <1>2, <2>1 DEF Awaits, Above, Hears
  <2>2. ASSUME NEW z \in Nodes PROVE ~Awaits(n, z)'
    BY <1>1, <1>2, <1>3, NodesAssumption, BelowHas DEF Awaits, Above, Hears, OnStack, Live, Top
  <2>. QED  BY <2>1, <2>2, EndsIfNoNew DEF CallsInvariant
<1>. QED  BY <1>4, <1>5, <1>6, <1>7, <1>8, <1>9, <1>10, <1>11, <1>12, <1>13 DEF CallsInvariant

-----------------------------------------------------------------------------
(* The running call moves on, past a child that is over or to which it has a ref. *)
LEMMA TopMoves ==
  ASSUME CallsInvariant, NEW p \in Nodes, NEW n \in Nodes, Meets(p, n), returned = n => ~Visiting(n),
         NEW f \in Frames, f.on = None, f.isAsync = frame[p].isAsync,
         Remaining(f) \subseteq Remaining(frame[p]),
         frame' = [frame EXCEPT ![p] = f], returned' = None,
         UNCHANGED <<graph, entry, stack>>
  PROVE  /\ StackOK' /\ LiveOK' /\ AwaitOK' /\ PlaceOK' /\ EntryOK' /\ ReturnedOK'
         /\ ChildrenOK' /\ Ends'
<1>1. /\ stack # <<>> /\ p = Top /\ frame[p] \in Frames /\ OnStack(p) /\ Live(p)
      /\ frame[p].on = None /\ entry[p] \in {"visiting", "error"}
      /\ IsAt(frame[p], n) /\ \A y : ~Above(p, y)
      /\ entry[n] # "none"
  BY MeetsFact
<1>2. /\ frame'[p] = f /\ \A x \in Nodes : x # p => frame'[x] = frame[x]
  BY DEF CallsInvariant, TypeOK
<1>3. \A x \in Nodes : frame'[x].on = frame[x].on /\ frame'[x].isAsync = frame[x].isAsync
  BY <1>1, <1>2
<1>4. returned = n \/ returned = None
  BY DEF Meets
<1>5. StackOK'
  BY <1>3 DEF CallsInvariant, StackOK, OnStack, Bottom, IsAwaited
<1>6. LiveOK'
  BY <1>3 DEF CallsInvariant, LiveOK, Live, OnStack, IsObject
<1>7. AwaitOK'
  BY <1>1, <1>3 DEF CallsInvariant, AwaitOK, Live, OnStack, IsSlow, IsAwaited
<1>8. PlaceOK'
  <2>1. ASSUME NEW x \in Nodes, NEW y \in Nodes, Calls(x, y)' PROVE IsAt(frame'[x], y)
    <3>1. frame[x].on = y \/ Above(x, y)
      BY <1>3, <2>1, NodesAssumption DEF Calls, Above, Hears
    <3>2. x # p
      BY <1>1, <3>1, NodesAssumption
    <3>3. IsAt(frame[x], y)
      BY <3>1 DEF CallsInvariant, PlaceOK, Calls
    <3>. QED  BY <1>2, <3>2, <3>3
  <2>. QED  BY <2>1 DEF PlaceOK
<1>9. EntryOK'
  <2>1. \A x \in Nodes : entry'[x] = "none" => frame'[x] = Idle
    BY <1>1, <1>2 DEF CallsInvariant, EntryOK
  <2>2. ASSUME NEW x \in Nodes, Visiting(x)'
        PROVE  (IF IsObject(x) THEN Live(x)
                ELSE IsSlow(x) /\ (returned = x \/ IsAwaited(x) \/ x = Root))'
    <3>1. IF IsObject(x) THEN Live(x) ELSE IsSlow(x) /\ (IsAwaited(x) \/ x = Root)
      BY <1>4, <2>2, NodesAssumption DEF CallsInvariant, EntryOK, Visiting
    <3>. QED  BY <1>3, <3>1 DEF IsObject, Live, OnStack, IsSlow, IsAwaited
  <2>. QED  BY <2>1, <2>2 DEF CallsInvariant, EntryOK
<1>10. ReturnedOK'
  BY DEF ReturnedOK
<1>11. ChildrenOK'
  BY <1>2 DEF CallsInvariant, ChildrenOK, Children
<1>12. Ends'
  <2>1. ASSUME NEW x \in Nodes, NEW y \in Nodes, Awaits(x, y)'
        PROVE  Awaits(x, y)
    BY <1>3, <2>1, NodesAssumption DEF Awaits, Above, Hears
  <2>. QED  BY <2>1, EndsIfNoNew DEF CallsInvariant
<1>. QED  BY <1>5, <1>6, <1>7, <1>8, <1>9, <1>10, <1>11, <1>12

LEMMA RefsMoveKeeps ==
  ASSUME CallsInvariant, NEW n \in Nodes, RefsMove(n), entry[n] # "none", UNCHANGED <<graph, entry>>
  PROVE  /\ RefsKept'
         /\ shouldRef' \in [Nodes -> {"unset", "yes", "no"}]
         /\ def' \in [Nodes -> {"none", "open", "finished"}]
         /\ allRefs' \in Seq(Nodes)
         /\ \A x \in Nodes : def[x] # "none" => def'[x] # "none"
         /\ \A x \in Nodes : x \in ToSet(allRefs) => x \in ToSet(allRefs')
<1>1. /\ shouldRef \in [Nodes -> {"unset", "yes", "no"}]
      /\ def \in [Nodes -> {"none", "open", "finished"}]
      /\ allRefs \in Seq(Nodes) /\ RefsKept
      /\ entry \in [Nodes -> {"none", "visiting", "ok", "error"}]
  BY DEF CallsInvariant, TypeOK
<1>2. CASE UNCHANGED <<shouldRef, def, allRefs>>
  BY <1>1, <1>2 DEF RefsKept, Visiting, Finished
<1>3. CASE /\ entry[n] # "error" /\ def[n] = "none" /\ graph[n].refs # "never"
           /\ def' = [def EXCEPT ![n] = NewDef(n)]
           /\ allRefs' = Append(allRefs, n)
           /\ shouldRef' = [shouldRef EXCEPT ![n] = "yes"]
  <2>1. /\ def'[n] = NewDef(n) /\ \A x \in Nodes : x # n => def'[x] = def[x]
        /\ shouldRef'[n] = "yes" /\ \A x \in Nodes : x # n => shouldRef'[x] = shouldRef[x]
    BY <1>1, <1>3
  <2>2. NewDef(n) \in {"open", "finished"} /\ (NewDef(n) = "open" => entry[n] = "visiting")
    BY <1>1, <1>3 DEF NewDef, Finished
  <2>3. n \notin ToSet(allRefs) /\ IsInjective(allRefs)
    BY <1>1, <1>3 DEF RefsKept
  <2>4. ToSet(allRefs') = ToSet(allRefs) \union {n} /\ allRefs' \in Seq(Nodes)
    BY <1>1, <1>3, AppendedSet, AppendFact
  <2>5. IsInjective(allRefs')
    <3>1. Once(allRefs) /\ ~Has(allRefs, n)
      BY <2>3 DEF IsInjective, Once, ToSet, Has
    <3>2. Once(allRefs')
      BY <1>1, <1>3, <3>1, PushFact
    <3>. QED  BY <3>2 DEF IsInjective, Once
  <2>6. RefsKept'
    BY <1>1, <1>3, <2>1, <2>2, <2>4, <2>5 DEF RefsKept, Visiting, Finished
  <2>7. /\ shouldRef' \in [Nodes -> {"unset", "yes", "no"}]
        /\ def' \in [Nodes -> {"none", "open", "finished"}]
    BY <1>1, <1>3, <2>2
  <2>. QED  BY <2>1, <2>2, <2>4, <2>6, <2>7
<1>4. CASE /\ entry[n] = "ok" /\ def[n] = "none"
           /\ shouldRef' = [shouldRef EXCEPT ![n] = "no"]
           /\ UNCHANGED <<def, allRefs>>
  BY <1>1, <1>4 DEF RefsKept, Visiting, Finished
<1>. QED  BY <1>2, <1>3, <1>4 DEF RefsMove

LEMMA ChildOver ==
  ASSUME CallsInvariant, NEW p \in Nodes, NEW n \in Nodes, Meets(p, n),
         NEW r \in Results, TakeResult(p, r)
  PROVE  \E f \in Frames :
           /\ frame' = [frame EXCEPT ![p] = f]
           /\ f.isAsync = frame[p].isAsync /\ f.failed = frame[p].failed /\ f.on = frame[p].on
           /\ f.got = Append(frame[p].got, r)
           /\ Remaining(f) \subseteq Remaining(frame[p])
           /\ Remaining(frame[p]) \subseteq Remaining(f) \union {n}
<1>. DEFINE g == Advanced(frame[p])
            got == Append(frame[p].got, r)
            f == [g EXCEPT !.got = got]
<1>1. frame[p] \in Frames /\ IsAt(frame[p], n)
  BY MeetsFact
<1>2. /\ g \in Frames /\ g.isAsync = frame[p].isAsync /\ g.failed = frame[p].failed
      /\ g.on = frame[p].on
      /\ Remaining(g) \subseteq Remaining(frame[p])
      /\ Remaining(frame[p]) \subseteq Remaining(g) \union {n}
  BY <1>1, ChildTyped DEF IsAt
<1>3. frame' = [frame EXCEPT ![p] = f]
  BY DEF TakeResult
<1>4. got \in Seq(Results)
  BY <1>1, AppendFact DEF Frames
<1>. HIDE DEF g, got
<1>5. /\ f \in Frames /\ f.isAsync = g.isAsync /\ f.failed = g.failed /\ f.on = g.on
      /\ f.got = got /\ f.names = g.names /\ f.symbols = g.symbols
  BY <1>2, <1>4 DEF Frames
<1>6. Remaining(f) = Remaining(g)
  BY <1>5 DEF Remaining
<1>. HIDE DEF f
<1>. QED  BY <1>2, <1>3, <1>5, <1>6 DEF got

LEMMA GoesOnKeeps ==
  ASSUME CallsInvariant, NEW p \in Nodes, NEW n \in Nodes, NEW r \in Results,
         GoesOn(p, n, r), impossible' = FALSE
  PROVE  CallsInvariant'
<1>1. PICK f \in Frames :
        /\ frame' = [frame EXCEPT ![p] = f]
        /\ f.isAsync = frame[p].isAsync /\ f.on = frame[p].on
        /\ Remaining(f) \subseteq Remaining(frame[p])
  BY ChildOver DEF GoesOn
<1>2. /\ Meets(p, n) /\ (returned = n => entry[n] = "ok") /\ returned' = None /\ RefsMove(n)
      /\ UNCHANGED <<graph, sync, entry, stack, answer, unhandled>>
  BY NodesAssumption DEF GoesOn, value
<1>3. frame[p].on = None /\ entry[n] # "none"
  BY <1>2, MeetsFact
<1>4. /\ StackOK' /\ LiveOK' /\ AwaitOK' /\ PlaceOK' /\ EntryOK' /\ ReturnedOK'
      /\ ChildrenOK' /\ Ends'
  BY <1>1, <1>2, <1>3, TopMoves DEF Visiting
<1>5. /\ RefsKept'
      /\ shouldRef' \in [Nodes -> {"unset", "yes", "no"}]
      /\ def' \in [Nodes -> {"none", "open", "finished"}]
      /\ allRefs' \in Seq(Nodes)
  BY <1>2, <1>3, RefsMoveKeeps
<1>6. TypeOK'
  BY <1>1, <1>2, <1>5 DEF CallsInvariant, TypeOK
<1>. QED  BY <1>4, <1>5, <1>6 DEF CallsInvariant

LEMMA ErrorNoted ==
  ASSUME CallsInvariant, NEW p \in Nodes, NEW n \in Nodes, NotesError(p, n)
  PROVE  \E f \in Frames :
           /\ frame' = [frame EXCEPT ![p] = f]
           /\ f.isAsync = frame[p].isAsync /\ f.failed /\ f.on = frame[p].on
           /\ f.got = frame[p].got
           /\ Remaining(f) \subseteq Remaining(frame[p])
<1>. DEFINE g == BrokenOff(frame[p])
            f == [g EXCEPT !.failed = TRUE]
<1>1. frame[p] \in Frames /\ IsAt(frame[p], n)
  BY MeetsFact DEF NotesError
<1>2. /\ g \in Frames /\ g.isAsync = frame[p].isAsync
      /\ g.on = frame[p].on /\ g.got = frame[p].got
      /\ Remaining(g) \subseteq Remaining(frame[p])
  BY <1>1, ChildTyped DEF IsAt
<1>3. frame' = [frame EXCEPT ![p] = f]
  BY DEF NotesError
<1>. HIDE DEF g
<1>4. /\ f \in Frames /\ f.isAsync = g.isAsync /\ f.failed /\ f.on = g.on
      /\ f.got = g.got /\ f.names = g.names /\ f.symbols = g.symbols
  BY <1>2 DEF Frames
<1>5. Remaining(f) = Remaining(g)
  BY <1>4 DEF Remaining
<1>. HIDE DEF f
<1>. QED  BY <1>2, <1>3, <1>4, <1>5

LEMMA NotesErrorKeeps ==
  ASSUME CallsInvariant, NEW p \in Nodes, NEW n \in Nodes, NotesError(p, n), impossible' = FALSE
  PROVE  CallsInvariant'
<1>1. PICK f \in Frames :
        /\ frame' = [frame EXCEPT ![p] = f]
        /\ f.isAsync = frame[p].isAsync /\ f.on = frame[p].on
        /\ Remaining(f) \subseteq Remaining(frame[p])
  BY ErrorNoted
<1>2. /\ Meets(p, n) /\ entry[n] = "error" /\ returned' = None
      /\ UNCHANGED <<graph, sync, entry, shouldRef, def, allRefs, stack, answer, unhandled>>
  BY DEF NotesError, value, entries
<1>3. frame[p].on = None
  BY <1>2, MeetsFact
<1>4. /\ StackOK' /\ LiveOK' /\ AwaitOK' /\ PlaceOK' /\ EntryOK' /\ ReturnedOK'
      /\ ChildrenOK' /\ Ends'
  BY <1>1, <1>2, <1>3, TopMoves DEF Visiting
<1>5. RefsKept'
  BY <1>2 DEF CallsInvariant, RefsKept, Visiting, Finished
<1>6. TypeOK'
  BY <1>1, <1>2 DEF CallsInvariant, TypeOK
<1>. QED  BY <1>4, <1>5, <1>6 DEF CallsInvariant

-----------------------------------------------------------------------------
(* The running call is over.                                               *)
LEMMA PoppedFact ==
  ASSUME CallsInvariant, stack # <<>>, stack' = Front(stack)
  PROVE  /\ stack' \in Seq(Nodes) /\ Once(stack')
         /\ \A x : Has(stack', x) <=> OnStack(x) /\ x # Top
         /\ \A x, y : Below(stack', x, y) <=> Above(x, y) /\ y # Top
         /\ stack' # <<>> =>
              /\ Above(Top', Top) /\ OnStack(Top') /\ Top' # Top /\ Top' \in Nodes
              /\ \A x : First(stack', x) <=> Bottom(x)
         /\ stack' = <<>> <=> Bottom(Top)
<1>1. stack \in Seq(Nodes) /\ Once(stack)
  BY DEF CallsInvariant, TypeOK, StackOK
<1>2. Last(stack') = Last(Front(stack))
  OBVIOUS
<1>. QED  BY <1>1, <1>2, PopFact DEF OnStack, Above, Bottom, Top

LEMMA OverFact ==
  ASSUME CallsInvariant, NEW p \in Nodes, NEW how \in {"ok", "error"}, Finishes(p, how)
  PROVE  /\ stack # <<>> /\ p = Top /\ stack' = Front(stack) /\ returned' = p
         /\ entry'[p] = how /\ \A x \in Nodes : x # p => entry'[x] = entry[x]
         /\ def'[p] = FinishDef(def[p]) /\ \A x \in Nodes : x # p => def'[x] = def[x]
         /\ UNCHANGED <<graph, sync, frame, shouldRef, allRefs, answer>> /\ unhandled' \in BOOLEAN
         /\ returned # None => entry[returned] = "error"
         /\ OnStack(p) /\ Live(p) /\ frame[p].on = None /\ IsObject(p)
         /\ entry[p] \in {"visiting", "error"} /\ \A y : ~Above(p, y)
<1>1. /\ stack # <<>> /\ p = Top /\ stack' = Front(stack) /\ returned' = p
      /\ entry' = [entry EXCEPT ![p] = how] /\ def' = [def EXCEPT ![p] = FinishDef(@)]
      /\ UNCHANGED <<graph, sync, frame, shouldRef, allRefs, answer>> /\ unhandled' \in BOOLEAN
      /\ returned # None => entry[returned] = "error"
  BY DEF Finishes, Finish, value
<1>2. /\ entry'[p] = how /\ \A x \in Nodes : x # p => entry'[x] = entry[x]
      /\ def'[p] = FinishDef(def[p]) /\ \A x \in Nodes : x # p => def'[x] = def[x]
  BY <1>1 DEF CallsInvariant, TypeOK
<1>. QED  BY <1>1, <1>2, TopFact

LEMMA FinishesKeeps ==
  ASSUME CallsInvariant, NEW p \in Nodes, NEW how \in {"ok", "error"}, Finishes(p, how),
         impossible' = FALSE
  PROVE  CallsInvariant'
<1>1. /\ stack # <<>> /\ p = Top /\ stack' = Front(stack) /\ returned' = p
      /\ entry'[p] = how /\ \A x \in Nodes : x # p => entry'[x] = entry[x]
      /\ def'[p] = FinishDef(def[p]) /\ \A x \in Nodes : x # p => def'[x] = def[x]
      /\ UNCHANGED <<graph, sync, frame, shouldRef, allRefs, answer>> /\ unhandled' \in BOOLEAN
      /\ returned # None => entry[returned] = "error"
  BY OverFact
<1>2. /\ OnStack(p) /\ Live(p) /\ frame[p].on = None /\ IsObject(p)
      /\ entry[p] \in {"visiting", "error"} /\ \A y : ~Above(p, y)
  BY OverFact
<1>3. /\ stack' \in Seq(Nodes) /\ Once(stack')
      /\ \A x : Has(stack', x) <=> OnStack(x) /\ x # p
      /\ \A x, y : Below(stack', x, y) <=> Above(x, y) /\ y # p
      /\ stack' # <<>> =>
           /\ Above(Top', p) /\ OnStack(Top') /\ Top' # p /\ Top' \in Nodes
           /\ \A x : First(stack', x) <=> Bottom(x)
      /\ stack' = <<>> <=> Bottom(p)
  BY <1>1, PoppedFact
<1>4. TypeOK'
  <2>1. entry' = [entry EXCEPT ![p] = how] /\ def' = [def EXCEPT ![p] = FinishDef(@)]
    BY DEF Finishes, Finish
  <2>2. def[p] \in {"none", "open", "finished"}
    BY DEF CallsInvariant, TypeOK
  <2>3. FinishDef(def[p]) \in {"none", "open", "finished"}
    BY <2>2 DEF FinishDef
  <2>4. def' \in [Nodes -> {"none", "open", "finished"}]
    BY <2>1, <2>3 DEF CallsInvariant, TypeOK
  <2>5. entry' \in [Nodes -> {"none", "visiting", "ok", "error"}]
    BY <2>1 DEF CallsInvariant, TypeOK
  <2>. QED  BY <1>1, <1>3, <2>4, <2>5 DEF CallsInvariant, TypeOK
<1>5. IsAwaited(p) => stack' = <<>>
  BY <1>2, <1>3 DEF CallsInvariant, StackOK
<1>6. StackOK'
  <2>1. ASSUME NEW x \in Nodes, OnStack(x), x # p
        PROVE  /\ frame[x].on = None
               /\ x = Root \/ frame[x].isAsync => First(stack', x)
               /\ IsAwaited(x) => frame[x].isAsync
    <3>1. stack' # <<>>
      BY <1>3, <2>1 DEF Has
    <3>. QED  BY <1>3, <2>1, <3>1 DEF CallsInvariant, StackOK
  <2>2. \A x \in Nodes : First(stack', x) => x = Root \/ frame[x].isAsync
    BY <1>3 DEF CallsInvariant, StackOK, First
  <2>. QED  BY <1>1, <1>3, <2>1, <2>2 DEF StackOK, OnStack, Bottom, IsAwaited
<1>7. LiveOK'
  BY <1>1, <1>2, <1>3 DEF CallsInvariant, LiveOK, Live, OnStack, IsObject
<1>8. AwaitOK'
  <2>1. ASSUME NEW q \in Nodes, NEW m \in Nodes, frame[q].on = m
        PROVE  /\ frame[q].isAsync /\ m # Root /\ entry'[m] # "none"
               /\ Live(m)' \/ IsSlow(m) \/ (m = p /\ stack' = <<>>)
               /\ entry'[m] = "ok" => m = p /\ stack' = <<>>
    <3>1. /\ frame[q].isAsync /\ m # Root /\ entry[m] # "none"
          /\ Live(m) \/ IsSlow(m) \/ (returned = m /\ stack = <<>>)
          /\ entry[m] = "ok" => returned = m /\ stack = <<>>
      BY <2>1 DEF CallsInvariant, AwaitOK
    <3>2. CASE m = p
      BY <1>1, <1>5, <2>1, <3>1, <3>2 DEF IsAwaited
    <3>3. CASE m # p
      BY <1>1, <1>3, <3>1, <3>3 DEF Live, OnStack
    <3>. QED  BY <3>2, <3>3
  <2>. QED  BY <1>1, <2>1 DEF CallsInvariant, AwaitOK, IsSlow
<1>9. PlaceOK'
  <2>1. ASSUME NEW x \in Nodes, NEW y \in Nodes, Calls(x, y)' PROVE IsAt(frame'[x], y)
    <3>1. Calls(x, y)
      BY <1>1, <1>3, <2>1 DEF Calls, Above, Hears
    <3>. QED  BY <1>1, <3>1 DEF CallsInvariant, PlaceOK
  <2>. QED  BY <2>1 DEF PlaceOK
<1>10. EntryOK'
  <2>1. \A x \in Nodes : entry'[x] = "none" => frame'[x] = Idle
    BY <1>1 DEF CallsInvariant, EntryOK
  <2>2. ASSUME NEW x \in Nodes, Visiting(x)'
        PROVE  (IF IsObject(x) THEN Live(x)
                ELSE IsSlow(x) /\ (returned = x \/ IsAwaited(x) \/ x = Root))'
    <3>1. x # p /\ Visiting(x)
      BY <1>1, <2>2 DEF Visiting
    <3>2. IF IsObject(x) THEN Live(x) ELSE IsSlow(x) /\ (IsAwaited(x) \/ x = Root)
      BY <1>1, <3>1, NodesAssumption DEF CallsInvariant, EntryOK, Visiting
    <3>. QED  BY <1>1, <1>3, <3>1, <3>2 DEF IsObject, Live, OnStack, IsSlow, IsAwaited
  <2>3. \A x \in Nodes : entry'[x] = "ok" => graph'[x].kind \notin {"fail", "slowFail"}
    BY <1>1, <1>2 DEF CallsInvariant, EntryOK, IsObject
  <2>4. entry'[Root] # "none"
    BY <1>1, <1>2, NodesAssumption DEF CallsInvariant, EntryOK
  <2>. QED  BY <2>1, <2>2, <2>3, <2>4 DEF EntryOK
<1>11. ReturnedOK'
  <2>1. ~Live(p)' /\ entry'[p] # "none" /\ ~Visiting(p)'
    BY <1>1, <1>2, <1>3 DEF Live, OnStack, Visiting
  <2>. QED  BY <1>1, <2>1 DEF ReturnedOK
<1>12. ChildrenOK'
  BY <1>1 DEF CallsInvariant, ChildrenOK, Children
<1>13. RefsKept'
  BY <1>1, <1>2 DEF CallsInvariant, RefsKept, Visiting, Finished, FinishDef
<1>14. Ends'
  <2>1. ASSUME NEW x \in Nodes, NEW y \in Nodes, Awaits(x, y)'
        PROVE  Awaits(x, y)
    BY <1>1, <1>3, <2>1 DEF Awaits, Above, Hears, Visiting
  <2>. QED  BY <2>1, EndsIfNoNew DEF CallsInvariant
<1>. QED  BY <1>4, <1>6, <1>7, <1>8, <1>9, <1>10, <1>11, <1>12, <1>13, <1>14 DEF CallsInvariant

-----------------------------------------------------------------------------
(* The running call waits.                                                 *)
LEMMA WaitFact ==
  ASSUME CallsInvariant, NEW p \in Nodes, NEW n \in Nodes, StartsToWait(p, n)
  PROVE  /\ stack # <<>> /\ p = Top /\ stack' = Front(stack) /\ returned = n
         /\ returned' = IF frame[p].isAsync THEN None ELSE p
         /\ frame'[p] \in Frames
         /\ frame'[p].isAsync /\ frame'[p].on = n /\ frame'[p].failed = frame[p].failed
         /\ frame'[p].names = frame[p].names /\ frame'[p].symbols = frame[p].symbols
         /\ frame'[p].got = frame[p].got
         /\ \A x \in Nodes : x # p => frame'[x] = frame[x]
         /\ frame' \in [Nodes -> Frames]
         /\ UNCHANGED <<graph, sync, entries, answer, unhandled>>
         /\ OnStack(p) /\ Live(p) /\ frame[p].on = None /\ IsObject(p)
         /\ entry[p] \in {"visiting", "error"} /\ \A y : ~Above(p, y)
         /\ IsAt(frame[p], n) /\ entry[n] = "visiting" /\ p # n /\ n # Root
         /\ ~OnStack(n) /\ ~IsAwaited(n)
<1>1. /\ stack # <<>> /\ p = Top /\ stack' = Front(stack) /\ returned = n
      /\ returned' = IF frame[p].isAsync THEN None ELSE p
      /\ frame' = [frame EXCEPT ![p].isAsync = TRUE, ![p].on = n]
      /\ UNCHANGED <<graph, sync, entries, answer, unhandled>>
      /\ entry[n] = "visiting"
  BY DEF StartsToWait, Await, value, entries
<1>2. Meets(p, n)
  BY <1>1 DEF Meets
<1>3. /\ frame[p] \in Frames /\ OnStack(p) /\ Live(p)
      /\ frame[p].on = None /\ IsObject(p) /\ entry[p] \in {"visiting", "error"}
      /\ IsAt(frame[p], n) /\ \A y : ~Above(p, y)
  BY <1>2, MeetsFact
<1>4. ~OnStack(n) /\ ~IsAwaited(n) /\ n # Root
  BY <1>1, NodesAssumption DEF CallsInvariant, ReturnedOK, Visiting
<1>5. frame \in [Nodes -> Frames]
  BY DEF CallsInvariant, TypeOK
<1>6. frame'[p] = [frame[p] EXCEPT !.isAsync = TRUE, !.on = n]
  BY <1>1, <1>5
<1>7. /\ frame'[p] \in Frames
      /\ frame'[p].isAsync /\ frame'[p].on = n /\ frame'[p].failed = frame[p].failed
      /\ frame'[p].names = frame[p].names /\ frame'[p].symbols = frame[p].symbols
      /\ frame'[p].got = frame[p].got
  BY <1>3, <1>6 DEF Frames
<1>8. \A x \in Nodes : x # p => frame'[x] = frame[x]
  BY <1>1, <1>5
<1>9. frame' \in [Nodes -> Frames]
  BY <1>1, <1>5, <1>7, <1>8
<1>. QED  BY <1>1, <1>3, <1>4, <1>7, <1>8, <1>9

LEMMA StartsToWaitKeeps ==
  ASSUME CallsInvariant, NEW p \in Nodes, NEW n \in Nodes, StartsToWait(p, n), impossible' = FALSE
  PROVE  CallsInvariant'
<1>1. /\ stack # <<>> /\ p = Top /\ stack' = Front(stack) /\ returned = n
      /\ returned' = IF frame[p].isAsync THEN None ELSE p
      /\ UNCHANGED <<graph, sync, entries, answer, unhandled>>
      /\ OnStack(p) /\ Live(p) /\ frame[p].on = None /\ IsObject(p)
      /\ entry[p] \in {"visiting", "error"} /\ \A y : ~Above(p, y)
      /\ IsAt(frame[p], n) /\ entry[n] = "visiting" /\ p # n /\ n # Root
      /\ ~OnStack(n) /\ ~IsAwaited(n)
  BY WaitFact
<1>2. /\ frame'[p].isAsync /\ frame'[p].on = n
      /\ frame'[p].names = frame[p].names /\ frame'[p].symbols = frame[p].symbols
      /\ \A x \in Nodes : x # p => frame'[x] = frame[x]
      /\ frame' \in [Nodes -> Frames]
  BY WaitFact
<1>3. /\ stack' \in Seq(Nodes) /\ Once(stack')
      /\ \A x : Has(stack', x) <=> OnStack(x) /\ x # p
      /\ \A x, y : Below(stack', x, y) <=> Above(x, y) /\ y # p
      /\ stack' # <<>> =>
           /\ Above(Top', p) /\ OnStack(Top') /\ Top' # p /\ Top' \in Nodes
           /\ \A x : First(stack', x) <=> Bottom(x)
      /\ stack' = <<>> <=> Bottom(p)
  BY <1>1, PoppedFact
<1>4. TypeOK'
  BY <1>1, <1>2, <1>3 DEF CallsInvariant, TypeOK, entries
<1>5. frame[p].isAsync => stack' = <<>>
  BY <1>1, <1>3 DEF CallsInvariant, StackOK
<1>6. \A x, y \in Nodes : frame'[x].on = y <=> frame[x].on = y \/ (x = p /\ y = n)
  BY <1>1, <1>2, NodesAssumption
<1>7. entry' = entry
  BY <1>1 DEF entries
<1>8. \A x \in Nodes : Live(x)' <=> Live(x)
  BY <1>1, <1>2, <1>3, NodesAssumption DEF Live, OnStack
<1>9. StackOK'
  <2>1. ASSUME NEW x \in Nodes, OnStack(x), x # p
        PROVE  /\ frame'[x].on = None
               /\ x = Root \/ frame'[x].isAsync => First(stack', x)
               /\ IsAwaited(x)' => frame'[x].isAsync
    <3>1. stack' # <<>>
      BY <1>3, <2>1 DEF Has
    <3>2. IsAwaited(x)' => IsAwaited(x)
      BY <1>1, <1>6, <2>1 DEF IsAwaited
    <3>. QED  BY <1>2, <1>3, <2>1, <3>1, <3>2 DEF CallsInvariant, StackOK
  <2>2. ASSUME NEW x \in Nodes, First(stack', x) PROVE x = Root \/ frame'[x].isAsync
    <3>1. Has(stack', x)
      BY <1>3, <2>2, FirstHas
    <3>2. x # p /\ Bottom(x)
      BY <1>3, <2>2, <3>1 DEF First
    <3>. QED  BY <1>2, <3>2 DEF CallsInvariant, StackOK
  <2>. QED  BY <1>3, <2>1, <2>2 DEF StackOK, OnStack, Bottom
<1>10. LiveOK'
  BY <1>1, <1>7, <1>8 DEF CallsInvariant, LiveOK, IsObject
<1>11. AwaitOK'
  <2>1. Live(n) \/ IsSlow(n)
    BY <1>1 DEF CallsInvariant, EntryOK, Visiting
  <2>2. ASSUME NEW q \in Nodes, NEW m \in Nodes, frame'[q].on = m
        PROVE  /\ frame'[q].isAsync /\ m # Root /\ entry'[m] # "none"
               /\ Live(m)' \/ IsSlow(m)'
               /\ entry'[m] # "ok"
    <3>1. CASE q = p /\ m = n
      BY <1>1, <1>2, <1>7, <1>8, <2>1, <3>1 DEF IsSlow
    <3>2. CASE frame[q].on = m
      <4>1. q # p
        BY <1>1, <3>2, NodesAssumption
      <4>. QED  BY <1>1, <1>2, <1>7, <1>8, <3>2, <4>1 DEF CallsInvariant, AwaitOK, IsSlow
    <3>. QED  BY <1>6, <2>2, <3>1, <3>2
  <2>3. ASSUME NEW q \in Nodes, NEW r \in Nodes, frame'[q].on # None, frame'[q].on = frame'[r].on
        PROVE  q = r
    <3>1. frame'[q].on \in Nodes
      BY <1>2, <2>3 DEF Frames
    <3>. DEFINE m == frame'[q].on
    <3>2. (frame[q].on = m \/ (q = p /\ m = n)) /\ (frame[r].on = m \/ (r = p /\ m = n))
      BY <1>6, <2>3, <3>1
    <3>. HIDE DEF m
    <3>3. m \in Nodes
      BY <3>1 DEF m
    <3>. QED  BY <1>1, <3>2, <3>3, NodesAssumption DEF CallsInvariant, AwaitOK, IsAwaited
  <2>. QED  BY <2>2, <2>3 DEF AwaitOK
<1>12. PlaceOK'
  <2>1. ASSUME NEW x \in Nodes, NEW y \in Nodes, Calls(x, y)' PROVE IsAt(frame'[x], y)
    <3>1. Calls(x, y) \/ (x = p /\ y = n)
      <4>1. CASE frame'[x].on = y
        BY <1>6, <4>1 DEF Calls
      <4>2. CASE Below(stack', x, y)
        BY <1>3, <4>2 DEF Calls, Above
      <4>3. CASE Hears(x, y)'
        BY <1>1, <1>3, <4>3, NodesAssumption DEF Calls, Hears
      <4>. QED  BY <2>1, <4>1, <4>2, <4>3 DEF Calls, Above
    <3>2. IsAt(frame[x], y)
      BY <1>1, <3>1 DEF CallsInvariant, PlaceOK
    <3>. QED  BY <1>2, <3>2 DEF IsAt, AtEnd, Child
  <2>. QED  BY <2>1 DEF PlaceOK
<1>13. EntryOK'
  <2>1. \A x \in Nodes : entry'[x] = "none" => frame'[x] = Idle
    BY <1>1, <1>2, <1>7 DEF CallsInvariant, EntryOK
  <2>2. ASSUME NEW x \in Nodes, Visiting(x)'
        PROVE  (IF IsObject(x) THEN Live(x)
                ELSE IsSlow(x) /\ (returned = x \/ IsAwaited(x) \/ x = Root))'
    <3>1. IF IsObject(x) THEN Live(x) ELSE IsSlow(x) /\ (x = n \/ IsAwaited(x) \/ x = Root)
      BY <1>1, <1>7, <2>2 DEF CallsInvariant, EntryOK, Visiting
    <3>2. x = n \/ IsAwaited(x) => IsAwaited(x)'
      BY <1>6 DEF IsAwaited
    <3>. QED  BY <1>1, <1>8, <3>1, <3>2 DEF IsObject, IsSlow
  <2>. QED  BY <1>1, <1>7, <2>1, <2>2 DEF CallsInvariant, EntryOK
<1>14. ReturnedOK'
  <2>1. CASE frame[p].isAsync
    BY <1>1, <2>1 DEF ReturnedOK
  <2>2. CASE ~frame[p].isAsync
    <3>1. ~OnStack(p)'
      BY <1>3 DEF OnStack
    <3>2. ~IsAwaited(p)
      BY <1>1, <2>2 DEF CallsInvariant, StackOK
    <3>3. ~IsAwaited(p)'
      BY <1>1, <1>6, <3>2 DEF IsAwaited
    <3>4. stack' = <<>> <=> p = Root
      BY <1>1, <1>3, <2>2 DEF CallsInvariant, StackOK
    <3>. QED  BY <1>1, <1>7, <2>2, <3>1, <3>3, <3>4 DEF ReturnedOK
  <2>. QED  BY <2>1, <2>2
<1>15. ChildrenOK'
  <2>1. \A x \in Nodes : Remaining(frame'[x]) = Remaining(frame[x])
    BY <1>2 DEF Remaining
  <2>. QED  BY <1>1, <2>1 DEF CallsInvariant, ChildrenOK, Children
<1>16. RefsKept'
  BY <1>1 DEF CallsInvariant, RefsKept, Visiting, Finished, entries
<1>17. Ends'
  <2>1. ASSUME NEW x \in Nodes, NEW y \in Nodes, Awaits(x, y)'
        PROVE  Awaits(x, y)
    <3>1. CASE frame'[x].on = y
      BY <1>1, <1>6, <3>1 DEF Awaits, Hears, Visiting
    <3>2. CASE Below(stack', x, y)
      BY <1>3, <3>2 DEF Awaits, Above
    <3>3. CASE Hears(x, y)'
      BY <1>1, <1>3, <3>3, NodesAssumption DEF Awaits, Hears
    <3>. QED  BY <2>1, <3>1, <3>2, <3>3 DEF Awaits, Above
  <2>. QED  BY <2>1, EndsIfNoNew DEF CallsInvariant
<1>. QED  BY <1>4, <1>9, <1>10, <1>11, <1>12, <1>13, <1>14, <1>15, <1>16, <1>17 DEF CallsInvariant

-----------------------------------------------------------------------------
(* The head of a cycle is found.                                           *)
LEMMA CircularFact ==
  ASSUME CallsInvariant, NEW p \in Nodes, NEW n \in Nodes, IsCircular(p, n)
  PROVE  /\ stack # <<>> /\ p = Top /\ IsAt(frame[p], n) /\ returned = None /\ returned' = n
         /\ entry[n] = "visiting" /\ def[n] = "none" /\ graph[n].refs = "never"
         /\ entry' = [entry EXCEPT ![n] = "error"]
         /\ entry'[n] = "error" /\ \A x \in Nodes : x # n => entry'[x] = entry[x]
         /\ shouldRef' = [shouldRef EXCEPT ![n] = "no"]
         /\ UNCHANGED <<graph, sync, def, allRefs, frame, stack, answer, unhandled>>
         /\ n # None
<1>1. /\ stack # <<>> /\ p = Top /\ IsAt(frame[p], n) /\ returned = None /\ returned' = n
      /\ entry[n] = "visiting" /\ def[n] = "none" /\ graph[n].refs = "never"
      /\ entry' = [entry EXCEPT ![n] = "error"]
      /\ shouldRef' = [shouldRef EXCEPT ![n] = "no"]
      /\ UNCHANGED <<graph, sync, def, allRefs, frame, stack, answer, unhandled>>
  BY DEF IsCircular, BecomeCircular, Running, value
<1>2. entry'[n] = "error" /\ \A x \in Nodes : x # n => entry'[x] = entry[x]
  BY <1>1 DEF CallsInvariant, TypeOK
<1>. QED  BY <1>1, <1>2, NodesAssumption

LEMMA IsCircularKeeps ==
  ASSUME CallsInvariant, NEW p \in Nodes, NEW n \in Nodes, IsCircular(p, n), impossible' = FALSE
  PROVE  CallsInvariant'
<1>1. /\ stack # <<>> /\ p = Top /\ IsAt(frame[p], n) /\ returned = None /\ returned' = n
      /\ entry[n] = "visiting" /\ def[n] = "none" /\ graph[n].refs = "never"
      /\ entry'[n] = "error" /\ \A x \in Nodes : x # n => entry'[x] = entry[x]
      /\ UNCHANGED <<graph, sync, def, allRefs, frame, stack, answer, unhandled>>
      /\ n # None
  BY CircularFact
<1>2. entry' = [entry EXCEPT ![n] = "error"] /\ shouldRef' = [shouldRef EXCEPT ![n] = "no"]
  BY CircularFact
<1>3. TypeOK'
  BY <1>1, <1>2 DEF CallsInvariant, TypeOK
<1>4. StackOK'
  BY <1>1 DEF CallsInvariant, StackOK, OnStack, Bottom, IsAwaited
<1>5. LiveOK'
  BY <1>1 DEF CallsInvariant, LiveOK, Live, OnStack, IsObject
<1>6. AwaitOK'
  BY <1>1 DEF CallsInvariant, AwaitOK, Live, OnStack, IsSlow
<1>7. PlaceOK'
  <2>1. ASSUME NEW x \in Nodes, NEW y \in Nodes, Calls(x, y)' PROVE IsAt(frame'[x], y)
    <3>1. Calls(x, y) \/ (x = p /\ y = n)
      BY <1>1, <2>1 DEF Calls, Above, Hears, Top
    <3>. QED  BY <1>1, <3>1 DEF CallsInvariant, PlaceOK
  <2>. QED  BY <2>1 DEF PlaceOK
<1>8. EntryOK'
  <2>1. \A x \in Nodes : entry'[x] = "none" => frame'[x] = Idle
    BY <1>1 DEF CallsInvariant, EntryOK
  <2>2. ASSUME NEW x \in Nodes, Visiting(x)'
        PROVE  (IF IsObject(x) THEN Live(x)
                ELSE IsSlow(x) /\ (returned = x \/ IsAwaited(x) \/ x = Root))'
    <3>1. IF IsObject(x) THEN Live(x) ELSE IsSlow(x) /\ (IsAwaited(x) \/ x = Root)
      BY <1>1, <2>2, NodesAssumption DEF CallsInvariant, EntryOK, Visiting
    <3>. QED  BY <1>1, <3>1 DEF IsObject, Live, OnStack, IsSlow, IsAwaited
  <2>3. \A x \in Nodes : entry'[x] = "ok" => graph'[x].kind \notin {"fail", "slowFail"}
    BY <1>1 DEF CallsInvariant, EntryOK
  <2>4. entry'[Root] # "none"
    BY <1>1, NodesAssumption DEF CallsInvariant, EntryOK
  <2>. QED  BY <2>1, <2>2, <2>3, <2>4 DEF EntryOK
<1>9. ReturnedOK'
  BY <1>1 DEF ReturnedOK, Visiting
<1>10. ChildrenOK'
  BY <1>1 DEF CallsInvariant, ChildrenOK, Children
<1>11. RefsKept'
  <2>1. shouldRef'[n] = "no" /\ \A x \in Nodes : x # n => shouldRef'[x] = shouldRef[x]
    BY <1>2 DEF CallsInvariant, TypeOK
  <2>. QED  BY <1>1, <2>1 DEF CallsInvariant, RefsKept, Visiting, Finished
<1>12. Ends'
  <2>1. ASSUME NEW x \in Nodes, NEW y \in Nodes, Awaits(x, y)'
        PROVE  Awaits(x, y)
    BY <1>1, <2>1 DEF Awaits, Above, Hears, Visiting
  <2>. QED  BY <2>1, EndsIfNoNew DEF CallsInvariant
<1>. QED  BY <1>3, <1>4, <1>5, <1>6, <1>7, <1>8, <1>9, <1>10, <1>11, <1>12 DEF CallsInvariant

-----------------------------------------------------------------------------
(* A call goes on after its wait.                                          *)
LEMMA ResumedFact ==
  ASSUME CallsInvariant, NEW p \in Nodes, Resumes(p)
  PROVE  /\ stack = <<>> /\ returned # None /\ Finished(returned) /\ frame[p].on = returned
         /\ returned \in Nodes /\ returned # Root /\ frame[p].isAsync /\ p # returned
         /\ IsAt(frame[p], returned) /\ ~Live(returned)
         /\ \A q \in Nodes : frame[q].on = returned => q = p
         /\ stack' \in Seq(Nodes) /\ stack' # <<>> /\ Top' = p /\ Once(stack')
         /\ \A x : Has(stack', x) <=> x = p
         /\ \A x, y : ~Below(stack', x, y)
         /\ \A x : First(stack', x) <=> x = p
         /\ frame'[p] \in Frames /\ frame'[p].on = None /\ frame'[p].isAsync
         /\ frame'[p].failed = frame[p].failed /\ frame'[p].got = frame[p].got
         /\ frame'[p].names = frame[p].names /\ frame'[p].symbols = frame[p].symbols
         /\ \A x \in Nodes : x # p => frame'[x] = frame[x]
         /\ frame' \in [Nodes -> Frames]
         /\ UNCHANGED <<graph, sync, entries, returned, answer, impossible, unhandled>>
<1>1. /\ stack = <<>> /\ returned # None /\ Finished(returned) /\ frame[p].on = returned
      /\ stack' = <<p>> /\ frame' = [frame EXCEPT ![p].on = None]
      /\ UNCHANGED <<graph, sync, entries, returned, answer, impossible, unhandled>>
  BY DEF Resumes, value, outcome
<1>2. returned \in Nodes /\ frame \in [Nodes -> Frames] /\ frame[p] \in Frames
  BY <1>1 DEF CallsInvariant, TypeOK
<1>3. /\ returned # Root /\ frame[p].isAsync /\ IsAt(frame[p], returned)
      /\ \A q \in Nodes : frame[q].on = returned => q = p
  BY <1>1, <1>2 DEF CallsInvariant, AwaitOK, PlaceOK, Calls
<1>4. ~Live(returned)
  BY <1>1, <1>3 DEF CallsInvariant, ReturnedOK
<1>5. p # returned
  BY <1>1, <1>4 DEF Live
<1>6. /\ stack' \in Seq(Nodes) /\ stack' # <<>> /\ Len(stack') = 1 /\ DOMAIN stack' = 1 .. 1
      /\ stack'[1] = p
  BY <1>1
<1>7. Top' = p
  BY <1>6 DEF Top, Last
<1>8. /\ Once(stack')
      /\ \A x : Has(stack', x) <=> x = p
      /\ \A x, y : ~Below(stack', x, y)
      /\ \A x : First(stack', x) <=> x = p
  BY <1>6 DEF Once, Has, Below, First
<1>9. frame'[p] = [frame[p] EXCEPT !.on = None] /\ \A x \in Nodes : x # p => frame'[x] = frame[x]
  BY <1>1, <1>2
<1>10. /\ frame'[p] \in Frames /\ frame'[p].on = None /\ frame'[p].isAsync = frame[p].isAsync
       /\ frame'[p].failed = frame[p].failed /\ frame'[p].got = frame[p].got
       /\ frame'[p].names = frame[p].names /\ frame'[p].symbols = frame[p].symbols
  BY <1>2, <1>9 DEF Frames
<1>11. frame' \in [Nodes -> Frames]
  BY <1>1, <1>2, <1>9, <1>10
<1>. QED  BY <1>1, <1>2, <1>3, <1>4, <1>5, <1>6, <1>7, <1>8, <1>9, <1>10, <1>11

LEMMA ResumesKeeps ==
  ASSUME CallsInvariant, NEW p \in Nodes, Resumes(p)
  PROVE  CallsInvariant'
<1>1. /\ stack = <<>> /\ returned # None /\ Finished(returned) /\ frame[p].on = returned
      /\ returned \in Nodes /\ returned # Root /\ frame[p].isAsync /\ p # returned
      /\ IsAt(frame[p], returned) /\ ~Live(returned)
      /\ \A q \in Nodes : frame[q].on = returned => q = p
  BY ResumedFact
<1>2. /\ stack' \in Seq(Nodes) /\ stack' # <<>> /\ Top' = p /\ Once(stack')
      /\ \A x : Has(stack', x) <=> x = p
      /\ \A x, y : ~Below(stack', x, y)
      /\ \A x : First(stack', x) <=> x = p
  BY ResumedFact
<1>3. /\ frame'[p].on = None /\ frame'[p].isAsync
      /\ frame'[p].names = frame[p].names /\ frame'[p].symbols = frame[p].symbols
      /\ \A x \in Nodes : x # p => frame'[x] = frame[x]
      /\ frame' \in [Nodes -> Frames]
      /\ UNCHANGED <<graph, sync, entries, returned, answer, impossible, unhandled>>
  BY ResumedFact
<1>4. TypeOK'
  BY <1>2, <1>3 DEF CallsInvariant, TypeOK, entries
<1>5. \A x, y \in Nodes : frame'[x].on = y <=> frame[x].on = y /\ x # p
  BY <1>3, NodesAssumption
<1>6. entry' = entry
  BY <1>3 DEF entries
<1>7. \A x : ~OnStack(x)
  BY <1>1 DEF OnStack, Has
<1>8. \A x \in Nodes : Live(x)' <=> Live(x)
  <2>1. frame[p].on # None
    BY <1>1
  <2>. QED  BY <1>2, <1>3, <1>7, <2>1 DEF Live, OnStack
<1>9. StackOK'
  BY <1>2, <1>3 DEF StackOK, OnStack, Bottom
<1>10. LiveOK'
  BY <1>3, <1>6, <1>8 DEF CallsInvariant, LiveOK, IsObject
<1>11. AwaitOK'
  <2>1. ASSUME NEW q \in Nodes, NEW m \in Nodes, frame'[q].on = m
        PROVE  /\ frame'[q].isAsync /\ m # Root /\ entry'[m] # "none"
               /\ Live(m)' \/ IsSlow(m)'
               /\ entry'[m] # "ok"
    <3>1. frame[q].on = m /\ q # p
      BY <1>5, <2>1
    <3>2. m # returned
      BY <1>1, <3>1
    <3>. QED  BY <1>3, <1>6, <1>8, <3>1, <3>2 DEF CallsInvariant, AwaitOK, IsSlow
  <2>2. ASSUME NEW q \in Nodes, NEW r \in Nodes, frame'[q].on # None, frame'[q].on = frame'[r].on
        PROVE  q = r
    <3>1. q # p /\ r # p
      BY <1>3, <2>2
    <3>. QED  BY <1>3, <2>2, <3>1 DEF CallsInvariant, AwaitOK
  <2>. QED  BY <2>1, <2>2 DEF AwaitOK
<1>12. PlaceOK'
  <2>1. ASSUME NEW x \in Nodes, NEW y \in Nodes, Calls(x, y)' PROVE IsAt(frame'[x], y)
    <3>1. frame[x].on = y
      BY <1>1, <1>2, <1>3, <1>5, <2>1 DEF Calls, Above, Hears
    <3>2. IsAt(frame[x], y)
      BY <3>1 DEF CallsInvariant, PlaceOK, Calls
    <3>. QED  BY <1>3, <3>2 DEF IsAt, AtEnd, Child
  <2>. QED  BY <2>1 DEF PlaceOK
<1>13. EntryOK'
  <2>1. \A x \in Nodes : entry'[x] = "none" => frame'[x] = Idle
    <3>1. entry[p] # "none"
      BY <1>1 DEF CallsInvariant, LiveOK, Live
    <3>. QED  BY <1>3, <1>6, <3>1 DEF CallsInvariant, EntryOK
  <2>2. ASSUME NEW x \in Nodes, Visiting(x)'
        PROVE  (IF IsObject(x) THEN Live(x)
                ELSE IsSlow(x) /\ (returned = x \/ IsAwaited(x) \/ x = Root))'
    <3>1. x # returned
      BY <1>1, <1>6, <2>2 DEF Visiting, Finished
    <3>2. IF IsObject(x) THEN Live(x) ELSE IsSlow(x) /\ (IsAwaited(x) \/ x = Root)
      BY <1>6, <2>2, <3>1 DEF CallsInvariant, EntryOK, Visiting
    <3>3. IsAwaited(x) => IsAwaited(x)'
      BY <1>1, <1>5, <3>1 DEF IsAwaited
    <3>. QED  BY <1>3, <1>8, <3>2, <3>3 DEF IsObject, IsSlow
  <2>. QED  BY <1>3, <1>6, <2>1, <2>2 DEF CallsInvariant, EntryOK
<1>14. ReturnedOK'
  BY <1>1, <1>2, <1>3, <1>6 DEF CallsInvariant, ReturnedOK, Visiting, Finished
<1>15. ChildrenOK'
  <2>1. \A x \in Nodes : Remaining(frame'[x]) = Remaining(frame[x])
    BY <1>3 DEF Remaining
  <2>. QED  BY <1>3, <2>1 DEF CallsInvariant, ChildrenOK, Children
<1>16. RefsKept'
  BY <1>3 DEF CallsInvariant, RefsKept, Visiting, Finished, entries
<1>17. Ends'
  <2>1. ASSUME NEW x \in Nodes, NEW y \in Nodes, Awaits(x, y)'
        PROVE  Awaits(x, y)
    BY <1>1, <1>2, <1>3, <1>5, <1>6, <2>1 DEF Awaits, Above, Hears, Visiting, Finished
  <2>. QED  BY <2>1, EndsIfNoNew DEF CallsInvariant
<1>. QED  BY <1>3, <1>4, <1>9, <1>10, <1>11, <1>12, <1>13, <1>14, <1>15, <1>16, <1>17 DEF CallsInvariant

-----------------------------------------------------------------------------
(* A slow leaf settles, and the caller gets what it is due.                *)
LEMMA SettledFact ==
  ASSUME CallsInvariant, NEW n \in Nodes, Settle(n)
  PROVE  /\ stack = <<>> /\ returned = None /\ returned' = n /\ n # None /\ IsSlow(n)
         /\ ~IsObject(n) /\ ~Live(n) /\ entry[n] # "none"
         /\ Visiting(n) \/ IsAwaited(n)
         /\ IsAwaited(n) \/ n = Root
         /\ entry'[n] = (IF graph[n].kind = "slow" THEN "ok" ELSE "error")
         /\ \A x \in Nodes : x # n => entry'[x] = entry[x]
         /\ def'[n] = FinishDef(def[n]) /\ \A x \in Nodes : x # n => def'[x] = def[x]
         /\ entry' \in [Nodes -> {"none", "visiting", "ok", "error"}]
         /\ def' \in [Nodes -> {"none", "open", "finished"}]
         /\ UNCHANGED <<graph, sync, shouldRef, allRefs, frame, stack, answer, impossible, unhandled>>
<1>1. /\ stack = <<>> /\ returned = None /\ returned' = n
      /\ entry' = [entry EXCEPT ![n] = IF graph[n].kind = "slow" THEN "ok" ELSE "error"]
      /\ def' = [def EXCEPT ![n] = FinishDef(@)]
      /\ UNCHANGED <<graph, sync, shouldRef, allRefs, frame, stack, answer, impossible, unhandled>>
  BY DEF Settle, value, outcome
<1>2. IsSlow(n) /\ (Visiting(n) \/ IsAwaited(n))
  BY DEF Settle, Pending, Waiting, IsSlow, Visiting, IsAwaited
<1>3. ~IsObject(n) /\ entry[n] # "none" /\ ~Live(n) /\ n # None
  BY <1>2, NodesAssumption DEF IsSlow, IsObject, Visiting, IsAwaited, CallsInvariant, AwaitOK, LiveOK
<1>4. IsAwaited(n) \/ n = Root
  BY <1>1, <1>2, <1>3 DEF CallsInvariant, EntryOK
<1>5. /\ entry \in [Nodes -> {"none", "visiting", "ok", "error"}]
      /\ def \in [Nodes -> {"none", "open", "finished"}]
  BY DEF CallsInvariant, TypeOK
<1>6. FinishDef(def[n]) \in {"none", "open", "finished"}
  BY <1>5 DEF FinishDef
<1>7. /\ def' \in [Nodes -> {"none", "open", "finished"}]
      /\ def'[n] = FinishDef(def[n]) /\ \A x \in Nodes : x # n => def'[x] = def[x]
  BY <1>1, <1>5, <1>6
<1>8. /\ entry' \in [Nodes -> {"none", "visiting", "ok", "error"}]
      /\ entry'[n] = (IF graph[n].kind = "slow" THEN "ok" ELSE "error")
      /\ \A x \in Nodes : x # n => entry'[x] = entry[x]
  BY <1>1, <1>5
<1>. QED  BY <1>1, <1>2, <1>3, <1>4, <1>7, <1>8

LEMMA SettleKeeps ==
  ASSUME CallsInvariant, NEW n \in Nodes, Settle(n)
  PROVE  CallsInvariant'
<1>1. /\ stack = <<>> /\ returned = None /\ returned' = n /\ n # None /\ IsSlow(n)
      /\ ~IsObject(n) /\ ~Live(n) /\ entry[n] # "none"
  BY SettledFact
<1>2. /\ entry'[n] = (IF graph[n].kind = "slow" THEN "ok" ELSE "error")
      /\ \A x \in Nodes : x # n => entry'[x] = entry[x]
      /\ def'[n] = FinishDef(def[n]) /\ \A x \in Nodes : x # n => def'[x] = def[x]
      /\ entry' \in [Nodes -> {"none", "visiting", "ok", "error"}]
      /\ def' \in [Nodes -> {"none", "open", "finished"}]
      /\ UNCHANGED <<graph, sync, shouldRef, allRefs, frame, stack, answer, impossible, unhandled>>
  BY SettledFact
<1>3. entry'[n] \in {"ok", "error"}
  BY <1>2
<1>4. TypeOK'
  BY <1>1, <1>2 DEF CallsInvariant, TypeOK
<1>5. StackOK'
  BY <1>2 DEF CallsInvariant, StackOK, OnStack, Bottom, IsAwaited
<1>6. LiveOK'
  BY <1>1, <1>2 DEF CallsInvariant, LiveOK, Live, OnStack, IsObject
<1>7. AwaitOK'
  BY <1>1, <1>2, <1>3, NodesAssumption DEF CallsInvariant, AwaitOK, Live, OnStack, IsSlow
<1>8. PlaceOK'
  <2>1. ASSUME NEW x \in Nodes, NEW y \in Nodes, Calls(x, y)' PROVE IsAt(frame'[x], y)
    <3>1. Calls(x, y)
      BY <1>1, <1>2, <2>1 DEF Calls, Above, Hears
    <3>. QED  BY <1>2, <3>1 DEF CallsInvariant, PlaceOK
  <2>. QED  BY <2>1 DEF PlaceOK
<1>9. EntryOK'
  <2>1. \A x \in Nodes : entry'[x] = "none" => frame'[x] = Idle
    BY <1>1, <1>2, <1>3 DEF CallsInvariant, EntryOK
  <2>2. ASSUME NEW x \in Nodes, Visiting(x)'
        PROVE  (IF IsObject(x) THEN Live(x)
                ELSE IsSlow(x) /\ (returned = x \/ IsAwaited(x) \/ x = Root))'
    <3>1. IF IsObject(x) THEN Live(x) ELSE IsSlow(x) /\ (IsAwaited(x) \/ x = Root)
      BY <1>1, <1>2, <1>3, <2>2, NodesAssumption DEF CallsInvariant, EntryOK, Visiting
    <3>. QED  BY <1>2, <3>1 DEF IsObject, Live, OnStack, IsSlow, IsAwaited
  <2>3. \A x \in Nodes : entry'[x] = "ok" => graph'[x].kind \notin {"fail", "slowFail"}
    <3>1. ASSUME NEW x \in Nodes, entry'[x] = "ok" PROVE graph[x].kind \notin {"fail", "slowFail"}
      <4>1. CASE x = n
        BY <1>2, <3>1, <4>1
      <4>2. CASE x # n
        BY <1>2, <3>1, <4>2 DEF CallsInvariant, EntryOK
      <4>. QED  BY <4>1, <4>2
    <3>. QED  BY <1>2, <3>1
  <2>4. entry'[Root] # "none"
    BY <1>1, <1>2, <1>3, NodesAssumption DEF CallsInvariant, EntryOK
  <2>. QED  BY <2>1, <2>2, <2>3, <2>4 DEF EntryOK
<1>10. ReturnedOK'
  <2>1. ~Live(n)' /\ ~Visiting(n)' /\ entry'[n] # "none"
    BY <1>1, <1>2, <1>3 DEF Live, OnStack, Visiting
  <2>. QED  BY <1>1, <2>1 DEF ReturnedOK
<1>11. ChildrenOK'
  BY <1>2 DEF CallsInvariant, ChildrenOK, Children
<1>12. RefsKept'
  BY <1>1, <1>2, <1>3 DEF CallsInvariant, RefsKept, Visiting, Finished, FinishDef
<1>13. Ends'
  <2>1. ASSUME NEW x \in Nodes, NEW y \in Nodes, Awaits(x, y)'
        PROVE  Awaits(x, y)
    BY <1>1, <1>2, <2>1 DEF Awaits, Above, Hears, Visiting
  <2>. QED  BY <2>1, EndsIfNoNew DEF CallsInvariant
<1>. QED  BY <1>2, <1>4, <1>5, <1>6, <1>7, <1>8, <1>9, <1>10, <1>11, <1>12, <1>13 DEF CallsInvariant

LEMMA ReturnKeeps ==
  ASSUME CallsInvariant, ReturnToCaller
  PROVE  CallsInvariant'
<1>1. /\ stack = <<>> /\ returned # None /\ returned' = None
      /\ ~Finished(returned) \/ ~IsAwaited(returned)
      /\ UNCHANGED <<graph, sync, entries, frame, stack, impossible, unhandled>>
  BY DEF ReturnToCaller, value, Waiting, IsAwaited
<1>2. returned \in Nodes /\ entry[returned] \in {"visiting", "ok", "error"}
  BY <1>1 DEF CallsInvariant, TypeOK, ReturnedOK
<1>3. ~IsAwaited(returned) /\ (Visiting(returned) => returned = Root)
  BY <1>1, <1>2 DEF CallsInvariant, ReturnedOK, Finished, Visiting
<1>4. TypeOK'
  <2>1. answer' \in {"none", "ok", "error", "unfinished"}
    <3>1. answer' = IF returned # Root \/ answer # "none" THEN answer
                    ELSE IF Finished(Root) THEN entry[Root]
                    ELSE IF sync THEN "unfinished" ELSE "none"
      BY DEF ReturnToCaller
    <3>. QED  BY <3>1 DEF CallsInvariant, TypeOK, Finished
  <2>. QED  BY <1>1, <2>1 DEF CallsInvariant, TypeOK, entries
<1>5. StackOK'
  BY <1>1 DEF CallsInvariant, StackOK, OnStack, Bottom, IsAwaited
<1>6. LiveOK'
  BY <1>1 DEF CallsInvariant, LiveOK, Live, OnStack, IsObject, entries
<1>7. AwaitOK'
  BY <1>1, <1>3 DEF CallsInvariant, AwaitOK, Live, OnStack, IsSlow, IsAwaited, entries
<1>8. PlaceOK'
  <2>1. ASSUME NEW x \in Nodes, NEW y \in Nodes, Calls(x, y)' PROVE IsAt(frame'[x], y)
    <3>1. Calls(x, y)
      BY <1>1, <2>1 DEF Calls, Above, Hears
    <3>. QED  BY <1>1, <3>1 DEF CallsInvariant, PlaceOK
  <2>. QED  BY <2>1 DEF PlaceOK
<1>9. EntryOK'
  <2>1. \A x \in Nodes : entry'[x] = "none" => frame'[x] = Idle
    BY <1>1 DEF CallsInvariant, EntryOK, entries
  <2>2. ASSUME NEW x \in Nodes, Visiting(x)'
        PROVE  (IF IsObject(x) THEN Live(x)
                ELSE IsSlow(x) /\ (returned = x \/ IsAwaited(x) \/ x = Root))'
    <3>1. IF IsObject(x) THEN Live(x) ELSE IsSlow(x) /\ (IsAwaited(x) \/ x = Root)
      BY <1>1, <1>3, <2>2 DEF CallsInvariant, EntryOK, Visiting, entries
    <3>. QED  BY <1>1, <3>1 DEF IsObject, Live, OnStack, IsSlow, IsAwaited
  <2>. QED  BY <1>1, <2>1, <2>2 DEF CallsInvariant, EntryOK, entries
<1>10. ReturnedOK'
  BY <1>1 DEF ReturnedOK
<1>11. ChildrenOK'
  BY <1>1 DEF CallsInvariant, ChildrenOK, Children
<1>12. RefsKept'
  BY <1>1 DEF CallsInvariant, RefsKept, Visiting, Finished, entries
<1>13. Ends'
  <2>1. ASSUME NEW x \in Nodes, NEW y \in Nodes, Awaits(x, y)'
        PROVE  Awaits(x, y)
    BY <1>1, <2>1 DEF Awaits, Above, Hears, Visiting
  <2>. QED  BY <2>1, EndsIfNoNew DEF CallsInvariant
<1>. QED  BY <1>1, <1>4, <1>5, <1>6, <1>7, <1>8, <1>9, <1>10, <1>11, <1>12, <1>13 DEF CallsInvariant

-----------------------------------------------------------------------------
(* All of them together.                                                   *)
LEMMA InitCalls == Init => CallsInvariant
<1>. SUFFICES ASSUME Init PROVE CallsInvariant
  OBVIOUS
<1>1. /\ graph \in Graphs /\ sync \in BOOLEAN
      /\ entry = [n \in Nodes |-> "none"] /\ shouldRef = [n \in Nodes |-> "unset"]
      /\ def = [n \in Nodes |-> "none"] /\ allRefs = <<>>
      /\ frame = [n \in Nodes |-> Idle] /\ stack = <<>> /\ returned = None
      /\ answer = "none" /\ impossible = FALSE /\ unhandled = FALSE
  BY DEF Init
<1>0. <<>> \in Seq(Nodes) /\ <<>> \in Seq(Results) /\ None \in Nodes \union {None}
      /\ FALSE \in BOOLEAN
  OBVIOUS
<1>13. Idle \in Frames
  BY <1>0, Zenon DEF Idle, Frames
<1>14. Idle.on = None
  BY DEF Idle
<1>15. Idle.names = <<>>
  BY Zenon DEF Idle
<1>16. Idle.symbols = <<>>
  BY Zenon DEF Idle
<1>3. TypeOK
  <2>1. frame \in [Nodes -> Frames]
    BY <1>1, <1>13, Zenon
  <2>2. allRefs \in Seq(Nodes) /\ stack \in Seq(Nodes)
    BY <1>0, <1>1, Zenon
  <2>3. /\ entry \in [Nodes -> {"none", "visiting", "ok", "error"}]
        /\ shouldRef \in [Nodes -> {"unset", "yes", "no"}]
        /\ def \in [Nodes -> {"none", "open", "finished"}]
    BY <1>1
  <2>4. returned \in Nodes \union {None} /\ answer \in {"none", "ok", "error", "unfinished"}
        /\ impossible \in BOOLEAN /\ unhandled \in BOOLEAN
    BY <1>1
  <2>. QED  BY <1>1, <2>1, <2>2, <2>3, <2>4, Zenon DEF TypeOK
<1>4. \A x : ~OnStack(x)
  BY <1>1 DEF OnStack, Has
<1>5. \A n \in Nodes : frame[n].on = None /\ frame[n] = Idle
  BY <1>1, <1>14
<1>6. \A x, y \in Nodes : ~Calls(x, y) /\ ~Awaits(x, y)
  BY <1>1, <1>5, NodesAssumption DEF Calls, Awaits, Above, Below, Hears
<1>7. \A n \in Nodes : Remaining(frame[n]) = {}
  <2>1. ToSet(Idle.names) = {} /\ ToSet(Idle.symbols) = {}
    BY <1>15, <1>16 DEF ToSet
  <2>. QED  BY <1>5, <2>1 DEF Remaining
<1>8. StackOK
  BY <1>1, <1>4 DEF StackOK, Once, Bottom, First
<1>9. LiveOK /\ AwaitOK
  BY <1>4, <1>5, NodesAssumption DEF LiveOK, AwaitOK, Live
<1>10. PlaceOK /\ Ends
  BY <1>6 DEF PlaceOK, Ends
<1>11. EntryOK /\ ReturnedOK /\ ChildrenOK
  BY <1>1, <1>5, <1>7 DEF EntryOK, ReturnedOK, ChildrenOK, Visiting
<1>12. RefsKept
  BY <1>1 DEF RefsKept, ToSet, IsInjective
<1>. QED  BY <1>1, <1>3, <1>8, <1>9, <1>10, <1>11, <1>12 DEF CallsInvariant

LEMMA NextCalls == CallsInvariant /\ [Next]_vars => CallsInvariant'
<1>. SUFFICES ASSUME CallsInvariant, [Next]_vars PROVE CallsInvariant'
  OBVIOUS
<1>1. CASE UNCHANGED vars
  <2>1. UNCHANGED <<graph, sync, entry, shouldRef, def, allRefs, frame, stack, returned,
                    answer, impossible, unhandled>>
    BY <1>1 DEF vars, value, entries, outcome
  <2>2. TypeOK' /\ StackOK' /\ LiveOK' /\ AwaitOK'
    BY <2>1 DEF CallsInvariant, TypeOK, StackOK, LiveOK, AwaitOK, Live, OnStack, Bottom, IsAwaited,
                IsObject, IsSlow
  <2>3. PlaceOK' /\ Ends'
    BY <2>1 DEF CallsInvariant, PlaceOK, Calls, Ends, Awaits, Above, Hears, Visiting, Top
  <2>4. EntryOK' /\ ReturnedOK' /\ ChildrenOK' /\ RefsKept'
    BY <2>1 DEF CallsInvariant, EntryOK, ReturnedOK, ChildrenOK, RefsKept, Live, OnStack, IsAwaited,
                IsObject, IsSlow, Visiting, Children, Finished
  <2>. QED  BY <2>1, <2>2, <2>3, <2>4 DEF CallsInvariant
<1>2. CASE Next
  <2>1. Steps /\ impossible' = FALSE
    BY <1>2, StepsFollow DEF CallsInvariant
  <2>. QED  BY <2>1, ObjectKeeps, LeafKeeps, GoesOnKeeps, NotesErrorKeeps, FinishesKeeps,
               StartsToWaitKeeps, IsCircularKeeps, ResumesKeeps, SettleKeeps, ReturnKeeps DEF Steps
<1>. QED  BY <1>1, <1>2

(* Whatever the calls of a visit know of one another holds at any time: who is on
   the stack or awaits something, what it is at, and that nobody waits in a circle. *)
THEOREM CallsStay == Spec => []CallsInvariant
BY InitCalls, NextCalls, PTL DEF Spec

LEMMA RestIsWhole == CallsInvariant => NothingHalfDone
<1>. SUFFICES ASSUME CallsInvariant PROVE NothingHalfDone
  OBVIOUS
<1>1. ~impossible /\ IsInjective(allRefs) /\ \A n \in Nodes : n \in ToSet(allRefs) <=> def[n] # "none"
  BY DEF CallsInvariant, RefsKept
<1>2. SUFFICES ASSUME AtRest
               PROVE  \A n \in Nodes : def[n] # "open" /\ entry[n] # "visiting" /\ frame[n].on = None
  BY <1>1 DEF NothingHalfDone, NothingImpossible
<1>3. stack = <<>> /\ returned = None /\ \A n \in Nodes : ~Pending(n)
  BY <1>2 DEF AtRest
<1>4. \A x : ~OnStack(x)
  BY <1>3 DEF OnStack, Has
<1>5. \A n \in Nodes : frame[n].on = None
  <2>1. SUFFICES ASSUME NEW m \in Nodes, frame[m].on # None PROVE FALSE
    OBVIOUS
  <2>. DEFINE U == {n \in Nodes : frame[n].on # None}
  <2>2. PICK x \in U : \A y \in U : ~Awaits(x, y)
    <3>1. m \in U /\ U \in SUBSET Nodes
      BY <2>1
    <3>. QED  BY <3>1 DEF CallsInvariant, Ends
  <2>3. PICK y \in Nodes : frame[x].on = y
    BY <2>2 DEF CallsInvariant, TypeOK, Frames
  <2>4. Live(y) \/ IsSlow(y)
    BY <1>3, <2>2, <2>3, NodesAssumption DEF CallsInvariant, AwaitOK
  <2>5. ~IsSlow(y)
    BY <1>3, <2>2, <2>3 DEF Pending, Waiting, IsSlow
  <2>6. y \in U
    BY <1>4, <2>4, <2>5 DEF Live
  <2>. QED  BY <2>2, <2>3, <2>6 DEF Awaits
<1>6. \A n \in Nodes : entry[n] # "visiting"
  BY <1>3, <1>4, <1>5 DEF CallsInvariant, EntryOK, Live, Visiting, IsSlow, Pending
<1>7. \A n \in Nodes : def[n] # "open"
  BY <1>6 DEF CallsInvariant, RefsKept, Visiting
<1>. QED  BY <1>5, <1>6, <1>7

(* Once an answer is there and no leaf is pending, every entry is finished and so is
   every def, and no call of _prot_visitProperties() waits for anything. *)
THEOREM NothingIsLeftHalfDone == Spec => []NothingHalfDone
BY CallsStay, RestIsWhole, PTL

-----------------------------------------------------------------------------
(* The outcome.  What follows is about who notices an error, and how.       *)

(* Something fails, or a node without refs is on a cycle. *)
Bad == Failing # {} \/ \E n \in Unreffed : n \in Beyond(n, Reachable)

(* There was an error that is not taken back: it is noted by a call, it was thrown
   where nobody listens, it is the outcome of a node that is done with, or it is
   about to be heard of. *)
DoneWith(n) == ~Live(n) /\ ~(IsSlow(n) /\ IsAwaited(n))
Errors ==
  \/ unhandled
  \/ \E n \in Nodes : frame[n].failed \/ (entry[n] = "error" /\ DoneWith(n))
  \/ returned # None /\ entry[returned] = "error" /\ (stack # <<>> \/ ~Live(returned))

VisitedIsReachable == \A n \in Nodes : entry[n] # "none" => n \in Reachable

ErrorsAreBad ==
  /\ (\E n \in Nodes : entry[n] = "error") => Errors
  /\ Errors => Bad

AsyncIsSlow ==
  \A n \in Nodes : frame[n].isAsync \/ (Visiting(n) /\ ~IsObject(n)) => Slow # {}

(* Unless there was an error, nothing runs while a leaf is not settled. *)
ReturnedBusy == returned # None /\ Visiting(returned)
LeafsAlone ==
  ~Errors => \A x \in Nodes : Visiting(x) /\ ~IsObject(x) =>
    /\ \A y \in Nodes : Visiting(y) /\ ~IsObject(y) => y = x
    /\ (stack = <<>> /\ returned = None) \/ ReturnedBusy

DoneChildren ==
  \A n \in Nodes : IsObject(n) /\ entry[n] # "none" =>
    \A m \in Children(n) :
      m \in Remaining(frame[n]) \/ frame[n].failed \/ entry[m] = "ok" \/ def[m] # "none"

(***************************************************************************)
(* Until the caller got its answer, and as long as no error is swallowed,  *)
(* an error is on its way up; whoever runs or waits has somebody who waits *)
(* for it, up to the root; and what came to a good end has children that   *)
(* did, or for which there are refs.                                       *)
(***************************************************************************)
Early == answer = "none" /\ ~Swallowed
ReturnedError == returned # None /\ entry[returned] = "error"
ErrorsRise ==
  (\E n \in Nodes : entry[n] = "error") =>
    ReturnedError \/ \E x \in Nodes : OnStack(x) /\ frame[x].failed

(* Also within the part of the stack that is above the error. *)
IsUpperPart(W) ==
  /\ \A x \in W : OnStack(x)
  /\ \A x \in W, y \in Nodes : Above(x, y) => y \in W
CyclesRise ==
  \A W \in SUBSET Nodes : IsUpperPart(W) /\ (\E x \in W : entry[x] = "error") =>
    ReturnedError \/ \E x \in W : frame[x].failed

AllLive(U) == \A x \in U : Live(x)
Rooted ==
  \A U \in SUBSET Nodes : AllLive(U) /\ U # {} /\ Root \notin U =>
    \E x \in U : \E y \in Nodes \ U : Awaits(y, x)

Handed == stack = <<>> /\ returned \notin {None, Root} => IsAwaited(returned)

OkChildren ==
  \A n \in Nodes : entry[n] = "ok" =>
    /\ \A m \in Children(n) : entry[m] = "ok" \/ def[m] # "none"
    /\ n \notin Beyond(n, Unreffed)

EarlyOK == ErrorsRise /\ CyclesRise /\ Rooted /\ Handed /\ OkChildren

OutcomeOK ==
  /\ VisitedIsReachable /\ ErrorsAreBad /\ AsyncIsSlow /\ LeafsAlone /\ DoneChildren
  /\ Early => EarlyOK
  /\ VerdictIsRight

-----------------------------------------------------------------------------
(* The graph, which stays as it is.                                        *)
LEMMA ChildrenTyped == ASSUME GraphTypes, NEW n \in Nodes PROVE Children(n) \subseteq Nodes
<1>1. CASE graph[n].kind = "object"
  <2>1. graph[n].names \in Seq(Nodes) /\ graph[n].symbols \in Seq(Nodes)
    BY DEF GraphTypes
  <2>2. ToSet(graph[n].names) \subseteq Nodes /\ ToSet(graph[n].symbols) \subseteq Nodes
    BY <2>1 DEF ToSet
  <2>3. ToSet(graph[n].names \o graph[n].symbols) = ToSet(graph[n].names) \union ToSet(graph[n].symbols)
    BY <2>1, JoinedSet
  <2>. QED  BY <1>1, <2>2, <2>3 DEF Children
<1>2. CASE graph[n].kind # "object"
  BY <1>2 DEF Children
<1>. QED  BY <1>1, <1>2

LEMMA SpreadFact ==
  ASSUME GraphTypes, NEW T \in SUBSET Nodes, NEW S
  PROVE  /\ T \subseteq Spread(T, S) /\ Spread(T, S) \subseteq Nodes
         /\ Closed(Spread(T, S), S)
         /\ \A U \in SUBSET Nodes : T \subseteq U /\ Closed(U, S) => Spread(T, S) \subseteq U
<1>1. T \subseteq Spread(T, S) /\ Spread(T, S) \subseteq Nodes
  BY DEF Spread
<1>2. \A U \in SUBSET Nodes : T \subseteq U /\ Closed(U, S) => Spread(T, S) \subseteq U
  BY DEF Spread
<1>3. ASSUME NEW n \in Spread(T, S), NEW m \in Children(n) \intersect S
      PROVE  m \in Spread(T, S)
  <2>1. n \in Nodes /\ m \in Nodes
    BY <1>1, ChildrenTyped
  <2>2. ASSUME NEW U \in SUBSET Nodes, T \subseteq U, Closed(U, S) PROVE m \in U
    <3>1. n \in U
      BY <1>2, <2>2
    <3>. QED  BY <2>2, <3>1 DEF Closed
  <2>. QED  BY <2>1, <2>2 DEF Spread
<1>4. Closed(Spread(T, S), S)
  BY <1>3 DEF Closed
<1>. QED  BY <1>1, <1>2, <1>4

LEMMA ReachableFact ==
  ASSUME GraphTypes
  PROVE  /\ Root \in Reachable /\ Reachable \subseteq Nodes
         /\ \A n \in Reachable : Children(n) \subseteq Reachable
<1>1. {Root} \in SUBSET Nodes
  BY NodesAssumption
<1>2. Root \in Reachable /\ Reachable \subseteq Nodes /\ Closed(Reachable, Nodes)
  BY <1>1, SpreadFact DEF Reachable
<1>3. \A n \in Reachable : Children(n) \subseteq Nodes
  BY <1>2, ChildrenTyped
<1>. QED  BY <1>2, <1>3 DEF Closed

LEMMA BeyondFact ==
  ASSUME GraphTypes, NEW n \in Nodes, NEW S
  PROVE  /\ Children(n) \intersect S \subseteq Beyond(n, S) /\ Beyond(n, S) \subseteq Nodes
         /\ Closed(Beyond(n, S), S)
         /\ \A U \in SUBSET Nodes :
              Children(n) \intersect S \subseteq U /\ Closed(U, S) => Beyond(n, S) \subseteq U
<1>1. Children(n) \intersect S \in SUBSET Nodes
  BY ChildrenTyped
<1>. QED  BY <1>1, SpreadFact DEF Beyond

LEMMA GraphSame ==
  ASSUME graph' = graph
  PROVE  /\ \A n : Children(n)' = Children(n)
         /\ Reachable' = Reachable /\ Failing' = Failing /\ Slow' = Slow /\ Unreffed' = Unreffed
         /\ \A n \in Nodes : (n \in Beyond(n, Unreffed))' <=> n \in Beyond(n, Unreffed)
         /\ Bad' <=> Bad
<1>1. \A n : Children(n)' = Children(n)
  BY DEF Children
<1>2. Reachable' = Reachable
  BY <1>1 DEF Reachable, Spread, Closed
<1>3. Failing' = Failing /\ Slow' = Slow /\ Unreffed' = Unreffed
  BY <1>2 DEF Failing, Slow, Unreffed
<1>4. \A n \in Nodes : (n \in Beyond(n, Unreffed))' <=> n \in Beyond(n, Unreffed)
  BY <1>1, <1>3 DEF Beyond, Spread, Closed
<1>5. \A n \in Nodes : (n \in Beyond(n, Reachable))' <=> n \in Beyond(n, Reachable)
  BY <1>1, <1>2 DEF Beyond, Spread, Closed
<1>6. Unreffed \subseteq Nodes
  BY DEF Unreffed, Reachable, Spread
<1>. QED  BY <1>1, <1>2, <1>3, <1>4, <1>5, <1>6 DEF Bad

LEMMA ChildIsChild ==
  ASSUME CallsInvariant, NEW x \in Nodes, NEW y \in Nodes, IsAt(frame[x], y)
  PROVE  y \in Children(x)
<1>1. frame[x] \in Frames
  BY DEF CallsInvariant, TypeOK
<1>2. y \in Remaining(frame[x])
  BY <1>1, ChildTyped DEF IsAt
<1>. QED  BY <1>2 DEF CallsInvariant, ChildrenOK

-----------------------------------------------------------------------------
(* What of the outcome stays, for steps of several kinds.                  *)
LEMMA StaysRight ==
  ASSUME VerdictIsRight, graph' = graph, answer' = answer, Swallowed => Swallowed'
  PROVE  VerdictIsRight'
<1>1. /\ Failing' = Failing /\ Slow' = Slow /\ Unreffed' = Unreffed
      /\ \A n \in Nodes : (n \in Beyond(n, Unreffed))' <=> n \in Beyond(n, Unreffed)
      /\ Bad' <=> Bad
  BY GraphSame
<1>2. Unreffed \subseteq Nodes
  BY DEF Unreffed, Reachable, Spread
<1>3. answer' = "ok" =>
        Swallowed' \/ (Failing' = {} /\ \A n \in Unreffed' : ~(n \in Beyond(n, Unreffed))')
  BY <1>1, <1>2 DEF VerdictIsRight
<1>4. (answer = "error" => Bad) /\ (answer = "unfinished" => Slow # {})
  BY DEF VerdictIsRight, Bad
<1>5. (answer' = "error" => Bad') /\ (answer' = "unfinished" => Slow' # {})
  BY <1>1, <1>4
<1>. QED  BY <1>3, <1>5 DEF VerdictIsRight, Bad

LEMMA OkChildrenStay ==
  ASSUME OkChildren, graph' = graph, NEW p \in Nodes,
         \A x \in Nodes : entry[x] = "ok" => entry'[x] = "ok",
         \A x \in Nodes : def[x] # "none" => def'[x] # "none",
         \A x \in Nodes : x # p /\ entry'[x] = "ok" => entry[x] = "ok",
         GraphTypes,
         entry'[p] = "ok" =>
           \/ entry[p] = "ok"
           \/ /\ \A m \in Children(p) : entry[m] = "ok" \/ def[m] # "none"
              /\ p \notin Beyond(p, Unreffed)
  PROVE  OkChildren'
<1>1. /\ \A n : Children(n)' = Children(n)
      /\ \A n \in Nodes : (n \in Beyond(n, Unreffed))' <=> n \in Beyond(n, Unreffed)
  BY GraphSame
<1>2. SUFFICES ASSUME NEW n \in Nodes, entry'[n] = "ok"
               PROVE  /\ \A m \in Children(n) : entry'[m] = "ok" \/ def'[m] # "none"
                      /\ n \notin Beyond(n, Unreffed)
  BY <1>1 DEF OkChildren
<1>3. /\ \A m \in Children(n) : entry[m] = "ok" \/ def[m] # "none"
      /\ n \notin Beyond(n, Unreffed)
  BY <1>2 DEF OkChildren
<1>. QED  BY <1>3, ChildrenTyped

LEMMA DoneChildrenStay ==
  ASSUME DoneChildren, graph' = graph, NEW p \in Nodes, GraphTypes,
         \A x \in Nodes : entry[x] = "ok" => entry'[x] = "ok",
         \A x \in Nodes : def[x] # "none" => def'[x] # "none",
         \A x \in Nodes : x # p /\ entry'[x] # "none" => entry[x] # "none",
         \A x \in Nodes : x # p =>
           frame'[x].failed = frame[x].failed /\ Remaining(frame'[x]) = Remaining(frame[x]),
         IsObject(p) /\ entry'[p] # "none" =>
           \A m \in Children(p) :
             m \in Remaining(frame'[p]) \/ frame'[p].failed \/ entry'[m] = "ok" \/ def'[m] # "none"
  PROVE  DoneChildren'
<1>1. \A n : Children(n)' = Children(n)
  BY GraphSame
<1>2. SUFFICES ASSUME NEW n \in Nodes, IsObject(n), entry'[n] # "none", NEW m \in Children(n)
               PROVE  m \in Remaining(frame'[n]) \/ frame'[n].failed \/ entry'[m] = "ok" \/ def'[m] # "none"
  BY <1>1 DEF DoneChildren, IsObject
<1>3. CASE n = p
  BY <1>2, <1>3
<1>4. CASE n # p
  <2>1. m \in Nodes
    BY ChildrenTyped
  <2>2. m \in Remaining(frame[n]) \/ frame[n].failed \/ entry[m] = "ok" \/ def[m] # "none"
    BY <1>2, <1>4 DEF DoneChildren
  <2>. QED  BY <1>4, <2>1, <2>2
<1>. QED  BY <1>3, <1>4

LEMMA RootedStays ==
  ASSUME Rooted,
         \A x \in Nodes : Live(x)' => Live(x),
         \A x, y \in Nodes : Live(x)' /\ Awaits(y, x) => Awaits(y, x)'
  PROVE  Rooted'
<1>1. SUFFICES ASSUME NEW U \in SUBSET Nodes, AllLive(U)', U # {}, Root \notin U
               PROVE  \E x \in U : \E y \in Nodes \ U : Awaits(y, x)'
  BY DEF Rooted
<1>2. \A x \in U : Live(x)'
  BY <1>1 DEF AllLive
<1>3. AllLive(U)
  BY <1>2 DEF AllLive
<1>4. PICK x \in U, y \in Nodes \ U : Awaits(y, x)
  BY <1>1, <1>3 DEF Rooted
<1>. QED  BY <1>2, <1>4

LEMMA ErrorsStay ==
  ASSUME Errors, unhandled => unhandled',
         \A n \in Nodes : frame[n].failed => frame'[n].failed,
         \A n \in Nodes : entry[n] = "error" /\ DoneWith(n) => entry'[n] = "error" /\ DoneWith(n)',
         returned # None /\ entry[returned] = "error" /\ (stack # <<>> \/ ~Live(returned)) => Errors'
  PROVE  Errors'
<1>1. CASE unhandled
  BY <1>1 DEF Errors
<1>2. CASE \E n \in Nodes : frame[n].failed \/ (entry[n] = "error" /\ DoneWith(n))
  BY <1>2 DEF Errors
<1>. QED  BY <1>1, <1>2 DEF Errors

LEMMA SwallowedStays ==
  ASSUME unhandled => unhandled',
         \A n \in Nodes : frame[n].failed /\ frame[n].isAsync => frame'[n].failed /\ frame'[n].isAsync
  PROVE  Swallowed => Swallowed'
BY DEF Swallowed

(* Whoever runs but is not the innermost has called the next. *)
LEMMA SomebodyAbove ==
  ASSUME CallsInvariant, NEW x \in Nodes, OnStack(x), x # Top
  PROVE  \E y \in Nodes : Above(x, y) /\ OnStack(y)
<1>1. stack \in Seq(Nodes) /\ stack # <<>>
  BY DEF CallsInvariant, TypeOK, OnStack, Has
<1>2. PICK i \in DOMAIN stack : stack[i] = x
  BY DEF OnStack, Has
<1>3. /\ Len(stack) \in Nat \ {0} /\ DOMAIN stack = 1 .. Len(stack)
      /\ \A j \in 1 .. Len(stack) : stack[j] \in Nodes
      /\ Top = stack[Len(stack)]
  BY <1>1, FrontFact DEF Top
<1>4. i + 1 \in DOMAIN stack
  BY <1>2, <1>3
<1>5. Above(x, stack[i + 1]) /\ OnStack(stack[i + 1])
  BY <1>2, <1>4 DEF Above, Below, OnStack, Has
<1>. QED  BY <1>3, <1>4, <1>5

LEMMA OneBelow ==
  ASSUME CallsInvariant, NEW x, NEW y, NEW z, Above(x, z), Above(y, z)
  PROVE  x = y
<1>1. stack \in Seq(Nodes) /\ Once(stack)
  BY DEF CallsInvariant, TypeOK, StackOK
<1>2. PICK i \in DOMAIN stack : i + 1 \in DOMAIN stack /\ stack[i] = x /\ stack[i + 1] = z
  BY DEF Above, Below
<1>3. PICK j \in DOMAIN stack : j + 1 \in DOMAIN stack /\ stack[j] = y /\ stack[j + 1] = z
  BY DEF Above, Below
<1>4. i + 1 = j + 1
  BY <1>1, <1>2, <1>3 DEF Once
<1>5. i \in Nat /\ j \in Nat
  BY <1>1
<1>. QED  BY <1>2, <1>3, <1>4, <1>5

(* The innermost call is in every upper part of the stack. *)
LEMMA TopIsUpper ==
  ASSUME CallsInvariant, NEW W \in SUBSET Nodes, IsUpperPart(W), W # {}
  PROVE  stack # <<>> /\ Top \in W
<1>1. PICK x \in W : \A y \in W : ~Awaits(x, y)
  BY DEF CallsInvariant, Ends
<1>2. OnStack(x) /\ stack # <<>>
  BY DEF IsUpperPart, OnStack, Has, CallsInvariant, TypeOK
<1>3. x = Top
  BY <1>1, <1>2, SomebodyAbove DEF IsUpperPart, Awaits
<1>. QED  BY <1>2, <1>3

LEMMA NobodyBelowFirst ==
  ASSUME NEW S, NEW s \in Seq(S), Once(s), NEW x, First(s, x)
  PROVE  \A y : ~Below(s, y, x)
<1>1. 1 \in DOMAIN s /\ DOMAIN s = 1 .. Len(s) /\ s[1] = x
  BY DEF First
<1>2. SUFFICES ASSUME NEW y, NEW i \in DOMAIN s, i + 1 \in DOMAIN s, s[i + 1] = x PROVE FALSE
  BY DEF Below
<1>3. i + 1 = 1
  BY <1>1, <1>2 DEF Once
<1>. QED  BY <1>1, <1>3

(* Unless there was an error, no leaf is waited for while a call runs. *)
LEMMA NoLeafWaits ==
  ASSUME LeafsAlone, ~Errors, ~ReturnedBusy, stack # <<>> \/ returned # None, NEW x \in Nodes, Visiting(x)
  PROVE  IsObject(x)
BY DEF LeafsAlone

LEMMA ErrorsStayBad ==
  ASSUME ErrorsAreBad, graph' = graph, Errors => Errors', returned' \in Nodes \union {None},
         NEW n \in Nodes,
         \A x \in Nodes : x # n /\ entry'[x] = "error" => entry[x] = "error",
         entry'[n] = "error" => entry[n] = "error" \/ Errors \/ (Bad /\ Errors'),
         \A x \in Nodes : frame'[x].failed => frame[x].failed \/ Errors,
         unhandled' => unhandled \/ Errors
  PROVE  ErrorsAreBad'
<1>1. Bad' <=> Bad
  BY GraphSame
<1>2. \A x \in Nodes : entry[x] = "error" \/ frame[x].failed => Errors
  BY DEF ErrorsAreBad, Errors
<1>3. unhandled => Errors
  BY DEF Errors
<1>4. (\E x \in Nodes : entry'[x] = "error") => Errors' /\ Bad
  BY <1>2 DEF ErrorsAreBad
<1>5. Errors' => Errors \/ \E x \in Nodes : entry'[x] = "error"
  BY <1>2, <1>3 DEF Errors
<1>. QED  BY <1>1, <1>4, <1>5 DEF ErrorsAreBad

LEMMA NextIsReachable ==
  ASSUME CallsInvariant, VisitedIsReachable, NEW n \in Nodes, IsNext(n)
  PROVE  n \in Reachable
<1>1. GraphTypes
  BY GraphsTyped DEF CallsInvariant
<1>2. CASE n = Root
  BY <1>1, <1>2, ReachableFact
<1>3. CASE n # Root
  <2>1. stack # <<>> /\ IsAt(frame[Top], n)
    BY <1>3 DEF IsNext, Running
  <2>2. Top \in Nodes /\ entry[Top] # "none"
    BY <2>1, TopFact
  <2>3. n \in Children(Top) /\ Top \in Reachable
    BY <2>1, <2>2, ChildIsChild DEF VisitedIsReachable
  <2>. QED  BY <1>1, <2>3, ReachableFact
<1>. QED  BY <1>2, <1>3

-----------------------------------------------------------------------------
(* An object starts.                                                       *)
LEMMA ObjectOutcome ==
  ASSUME CallsInvariant, OutcomeOK, NEW n \in Nodes, StartsObject(n)
  PROVE  OutcomeOK'
<1>1. /\ stack' # <<>>
      /\ \A x : Has(stack', x) <=> OnStack(x) \/ x = n
      /\ \A x, y : Below(stack', x, y) <=> Above(x, y) \/ (stack # <<>> /\ x = Top /\ y = n)
  BY ObjectFact
<1>2. /\ entry'[n] = "visiting" /\ \A x \in Nodes : x # n => entry'[x] = entry[x]
      /\ frame'[n] = NewFrame(n) /\ \A x \in Nodes : x # n => frame'[x] = frame[x]
      /\ returned = None /\ returned' = None /\ graph' = graph
  BY ObjectFact
<1>3. /\ ~OnStack(n) /\ ~Live(n) /\ ~IsAwaited(n) /\ frame[n] = Idle /\ def[n] = "none"
      /\ stack = <<>> <=> n = Root
      /\ stack = <<>> => \A m \in Nodes : entry[m] = "none"
      /\ stack # <<>> => Top # n
  BY ObjectFact
<1>4. IsObject(n) /\ UNCHANGED <<def, answer, unhandled>> /\ entry[n] = "none" /\ IsNext(n)
  BY DEF StartsObject, outcome
<1>5. /\ NewFrame(n).isAsync = FALSE /\ NewFrame(n).failed = FALSE
      /\ NewFrame(n).on = None /\ Remaining(NewFrame(n)) = Children(n) /\ GraphTypes
  BY <1>4, GraphsTyped, NewFrameFact DEF CallsInvariant
<1>6. Idle.failed = FALSE /\ Idle.isAsync = FALSE /\ Idle.on = None
  BY DEF Idle
<1>7. \A x \in Nodes : x # n => (Live(x)' <=> Live(x)) /\ (IsAwaited(x)' <=> IsAwaited(x))
  BY <1>1, <1>2, <1>3, <1>5, <1>6, NodesAssumption DEF Live, OnStack, IsAwaited
<1>8. \A x \in Nodes : x # n => (DoneWith(x)' <=> DoneWith(x))
  BY <1>2, <1>7 DEF DoneWith, IsSlow
<1>9. Errors => Errors'
  BY <1>2, <1>3, <1>4, <1>6, <1>8, ErrorsStay
<1>10. VisitedIsReachable'
  <2>1. n \in Reachable
    BY <1>4, NextIsReachable DEF OutcomeOK
  <2>2. Reachable' = Reachable
    BY <1>2, GraphSame
  <2>. QED  BY <1>2, <2>1, <2>2 DEF OutcomeOK, VisitedIsReachable
<1>11. ErrorsAreBad'
  BY <1>2, <1>4, <1>5, <1>9, ErrorsStayBad DEF OutcomeOK
<1>12. AsyncIsSlow'
  <2>1. Slow' = Slow
    BY <1>2, GraphSame
  <2>. QED  BY <1>2, <1>4, <1>5, <2>1 DEF OutcomeOK, AsyncIsSlow, Visiting, IsObject
<1>13. ASSUME ~Errors', NEW x \in Nodes, Visiting(x)' PROVE IsObject(x)'
  <2>1. CASE x = n
    BY <1>2, <1>4, <2>1 DEF IsObject
  <2>2. CASE x # n
    <3>1. Visiting(x) /\ ~ReturnedBusy /\ ~Errors
      BY <1>2, <1>9, <1>13, <2>2 DEF Visiting, ReturnedBusy
    <3>2. stack # <<>>
      BY <1>3, <3>1 DEF Visiting
    <3>. QED  BY <1>2, <3>1, <3>2, NoLeafWaits DEF OutcomeOK, IsObject
  <2>. QED  BY <2>1, <2>2
<1>14. LeafsAlone'
  BY <1>13 DEF LeafsAlone
<1>15. DoneChildren'
  <2>1. \A x \in Nodes : entry[x] = "ok" => entry'[x] = "ok"
    BY <1>2, <1>4
  <2>. QED  BY <1>2, <1>4, <1>5, <2>1, DoneChildrenStay DEF OutcomeOK
<1>16. Swallowed => Swallowed'
  BY <1>2, <1>3, <1>4, <1>6, SwallowedStays
<1>17. ASSUME Early' PROVE EarlyOK'
  <2>1. Early /\ EarlyOK
    BY <1>4, <1>16, <1>17 DEF Early, OutcomeOK
  <2>2. ErrorsRise'
    BY <1>1, <1>2, <1>3, <2>1 DEF EarlyOK, ErrorsRise, ReturnedError, OnStack
  <2>3. CyclesRise'
    <3>1. SUFFICES ASSUME NEW W \in SUBSET Nodes, IsUpperPart(W)', NEW x \in W, entry'[x] = "error"
                   PROVE  \E y \in W : frame'[y].failed
      BY DEF CyclesRise
    <3>. DEFINE V == W \ {n}
    <3>2. x \in V /\ entry[x] = "error"
      BY <1>2, <3>1
    <3>3. \A y \in V : OnStack(y)
      BY <1>1, <3>1 DEF IsUpperPart, OnStack
    <3>4. \A y \in V, z \in Nodes : Above(y, z) => z \in V
      BY <1>1, <1>3, <3>1, BelowHas DEF IsUpperPart, Above, OnStack
    <3>5. IsUpperPart(V) /\ V \in SUBSET Nodes
      BY <3>3, <3>4 DEF IsUpperPart
    <3>6. PICK y \in V : frame[y].failed
      BY <1>2, <2>1, <3>2, <3>5 DEF EarlyOK, CyclesRise, ReturnedError
    <3>. QED  BY <1>2, <3>6
  <2>4. Rooted'
    <3>1. SUFFICES ASSUME NEW U \in SUBSET Nodes, AllLive(U)', U # {}, Root \notin U
                   PROVE  \E x \in U : \E y \in Nodes \ U : Awaits(y, x)'
      BY DEF Rooted
    <3>2. \A x, y \in Nodes : Awaits(y, x) => Awaits(y, x)' /\ y # n
      BY <1>1, <1>2, <1>3, <1>5, <1>6, NodesAssumption, BelowHas
         DEF Awaits, Above, OnStack, Hears
    <3>. DEFINE V == U \ {n}
    <3>3. CASE V = {}
      <4>1. U = {n} /\ n # Root /\ stack # <<>>
        BY <1>3, <3>1, <3>3
      <4>2. PICK t \in Nodes : t = Top /\ t # n
        BY <1>3, <4>1, TopFact
      <4>3. Below(stack', t, n)
        BY <1>1, <4>1, <4>2
      <4>4. Awaits(t, n)'
        BY <4>3 DEF Awaits, Above
      <4>. QED  BY <4>1, <4>2, <4>4
    <3>4. CASE V # {}
      <4>1. AllLive(V) /\ V \in SUBSET Nodes /\ Root \notin V
        BY <1>7, <3>1 DEF AllLive
      <4>2. PICK x \in V, y \in Nodes \ V : Awaits(y, x)
        BY <2>1, <3>4, <4>1 DEF EarlyOK, Rooted
      <4>. QED  BY <3>2, <4>2
    <3>. QED  BY <3>3, <3>4
  <2>5. Handed'
    BY <1>1 DEF Handed
  <2>6. OkChildren'
    <3>1. \A x \in Nodes : entry[x] = "ok" => entry'[x] = "ok"
      BY <1>2, <1>4
    <3>. QED  BY <1>2, <1>4, <1>5, <2>1, <3>1, OkChildrenStay DEF EarlyOK
  <2>. QED  BY <2>2, <2>3, <2>4, <2>5, <2>6 DEF EarlyOK
<1>18. VerdictIsRight'
  BY <1>2, <1>4, <1>16, StaysRight DEF OutcomeOK
<1>. QED  BY <1>10, <1>11, <1>12, <1>14, <1>15, <1>17, <1>18 DEF OutcomeOK

-----------------------------------------------------------------------------
(* A leaf has no children.                                                 *)
LEMMA LeafHasNoChildren ==
  ASSUME GraphTypes, NEW n \in Nodes, ~IsObject(n)
  PROVE  Children(n) = {} /\ n \notin Beyond(n, Unreffed)
<1>1. Children(n) = {}
  BY DEF Children, IsObject
<1>2. Beyond(n, Unreffed) \subseteq {}
  <2>1. {} \in SUBSET Nodes /\ Children(n) \intersect Unreffed \subseteq {} /\ Closed({}, Unreffed)
    BY <1>1 DEF Closed
  <2>. QED  BY <2>1, BeyondFact
<1>. QED  BY <1>1, <1>2

(* A leaf starts, and returns.                                             *)
LEMMA LeafOutcome ==
  ASSUME CallsInvariant, OutcomeOK, NEW n \in Nodes, StartsLeaf(n)
  PROVE  OutcomeOK'
<1>1. /\ (entry'[n] = "visiting" => IsSlow(n)) /\ ~IsObject(n)
      /\ entry'[n] \in {"visiting", "ok", "error"}
      /\ (entry'[n] = "error" => graph[n].kind = "fail")
      /\ \A x \in Nodes : x # n => entry'[x] = entry[x]
      /\ returned' = n /\ n # None /\ entry[n] = "none"
  BY LeafFact
<1>2. UNCHANGED <<graph, sync, shouldRef, def, allRefs, frame, stack, answer, unhandled>>
  BY LeafFact
<1>3. IsNext(n) /\ GraphTypes
  BY GraphsTyped DEF StartsLeaf, CallsInvariant
<1>4. /\ ~OnStack(n) /\ ~Live(n) /\ ~IsAwaited(n) /\ frame[n] = Idle /\ def[n] = "none"
      /\ returned = None
      /\ stack = <<>> <=> n = Root
      /\ stack = <<>> => \A m \in Nodes : entry[m] = "none"
  BY <1>1, <1>3, NextFact
<1>5. \A x \in Nodes : Live(x)' = Live(x) /\ IsAwaited(x)' = IsAwaited(x) /\ IsSlow(x)' = IsSlow(x)
  BY <1>2 DEF Live, OnStack, IsAwaited, IsSlow
<1>6. Errors => Errors'
  BY <1>1, <1>2, <1>4, <1>5, ErrorsStay DEF DoneWith
<1>7. n \in Reachable /\ Reachable' = Reachable /\ Slow' = Slow
  BY <1>2, <1>3, NextIsReachable, GraphSame DEF OutcomeOK
<1>8. VisitedIsReachable'
  BY <1>1, <1>7 DEF OutcomeOK, VisitedIsReachable
<1>9. ErrorsAreBad'
  <2>1. entry'[n] = "error" => Bad /\ Errors'
    <3>1. SUFFICES ASSUME entry'[n] = "error" PROVE Bad /\ Errors'
      OBVIOUS
    <3>2. n \in Failing
      BY <1>1, <1>7, <3>1 DEF Failing
    <3>3. ~Live(n)'
      BY <1>4, <1>5
    <3>. QED  BY <1>1, <3>1, <3>2, <3>3 DEF Bad, Errors
  <2>. QED  BY <1>1, <1>2, <1>6, <2>1, ErrorsStayBad DEF OutcomeOK
<1>10. AsyncIsSlow'
  <2>1. entry'[n] = "visiting" => Slow # {}
    BY <1>1, <1>7 DEF Slow, IsSlow
  <2>. QED  BY <1>1, <1>2, <1>7, <2>1 DEF OutcomeOK, AsyncIsSlow, Visiting, IsObject
<1>11. LeafsAlone'
  <2>1. ASSUME ~Errors', NEW x \in Nodes, Visiting(x)', ~IsObject(x)' PROVE x = n
    <3>1. SUFFICES ASSUME x # n PROVE FALSE
      OBVIOUS
    <3>2. Visiting(x) /\ ~ReturnedBusy /\ ~Errors /\ ~IsObject(x)
      BY <1>1, <1>2, <1>4, <1>6, <2>1, <3>1 DEF Visiting, ReturnedBusy, IsObject
    <3>3. stack # <<>>
      BY <1>4, <3>2 DEF Visiting
    <3>. QED  BY <3>2, <3>3, NoLeafWaits DEF OutcomeOK
  <2>2. Visiting(n)' => ReturnedBusy'
    BY <1>1 DEF ReturnedBusy
  <2>. QED  BY <2>1, <2>2 DEF LeafsAlone
<1>12. Remaining(frame'[n]) = Remaining(frame[n])
  BY <1>2
<1>13. DoneChildren'
  <2>1. \A x \in Nodes : entry[x] = "ok" => entry'[x] = "ok"
    BY <1>1
  <2>. QED  BY <1>1, <1>2, <1>3, <2>1, DoneChildrenStay DEF OutcomeOK
<1>14. Swallowed => Swallowed'
  BY <1>2, SwallowedStays
<1>15. ASSUME Early' PROVE EarlyOK'
  <2>1. Early /\ EarlyOK
    BY <1>2, <1>14, <1>15 DEF Early, OutcomeOK
  <2>2. ErrorsRise'
    BY <1>1, <1>2, <1>4, <2>1 DEF EarlyOK, ErrorsRise, ReturnedError, OnStack
  <2>3. CyclesRise'
    <3>1. SUFFICES ASSUME NEW W \in SUBSET Nodes, IsUpperPart(W)', NEW x \in W, entry'[x] = "error"
                   PROVE  \E y \in W : frame'[y].failed
      BY DEF CyclesRise
    <3>2. IsUpperPart(W)
      BY <1>2, <3>1 DEF IsUpperPart, OnStack, Above
    <3>3. entry[x] = "error"
      BY <1>1, <1>4, <3>1, <3>2 DEF IsUpperPart
    <3>. QED  BY <1>2, <1>4, <2>1, <3>2, <3>3 DEF EarlyOK, CyclesRise, ReturnedError
  <2>4. Rooted'
    <3>1. \A x, y \in Nodes : Awaits(y, x) => Awaits(y, x)'
      BY <1>2, <1>4, NodesAssumption DEF Awaits, Above, Hears
    <3>. QED  BY <1>5, <2>1, <3>1, RootedStays DEF EarlyOK
  <2>5. Handed'
    BY <1>1, <1>2, <1>4 DEF Handed
  <2>6. OkChildren'
    <3>1. \A x \in Nodes : entry[x] = "ok" => entry'[x] = "ok"
      BY <1>1
    <3>2. Children(n) = {} /\ n \notin Beyond(n, Unreffed)
      BY <1>1, <1>3, LeafHasNoChildren
    <3>. QED  BY <1>1, <1>2, <1>3, <2>1, <3>1, <3>2, OkChildrenStay DEF EarlyOK
  <2>. QED  BY <2>2, <2>3, <2>4, <2>5, <2>6 DEF EarlyOK
<1>16. VerdictIsRight'
  BY <1>2, <1>14, StaysRight DEF OutcomeOK
<1>. QED  BY <1>8, <1>9, <1>10, <1>11, <1>13, <1>15, <1>16 DEF OutcomeOK

-----------------------------------------------------------------------------
(* The running call moves on, or notes an error.                           *)
LEMMA MoveOutcome ==
  ASSUME CallsInvariant, OutcomeOK, NEW p \in Nodes, NEW n \in Nodes, Meets(p, n),
         returned = n => ~Visiting(n),
         NEW f \in Frames, frame' = [frame EXCEPT ![p] = f],
         f.on = frame[p].on, f.isAsync = frame[p].isAsync, frame[p].failed => f.failed,
         f.failed => frame[p].failed \/ (returned = n /\ entry[n] = "error"),
         returned = n /\ entry[n] = "error" => f.failed,
         \A x \in Nodes : def[x] # "none" => def'[x] # "none",
         \A m \in Nodes : m \in Remaining(frame[p]) =>
           m \in Remaining(f) \/ f.failed \/ entry[m] = "ok" \/ def'[m] # "none",
         returned' = None, UNCHANGED <<graph, entry, stack, answer, unhandled>>
  PROVE  OutcomeOK'
<1>1. /\ stack # <<>> /\ p = Top /\ OnStack(p) /\ Live(p) /\ entry[p] # "none"
      /\ returned = n \/ returned = None
  BY MeetsFact DEF Meets
<1>2. frame'[p] = f /\ \A x \in Nodes : x # p => frame'[x] = frame[x]
  BY DEF CallsInvariant, TypeOK
<1>3. \A x \in Nodes :
        /\ frame'[x].on = frame[x].on /\ frame'[x].isAsync = frame[x].isAsync
        /\ frame[x].failed => frame'[x].failed
  BY <1>2
<1>4. \A x \in Nodes : (Live(x)' <=> Live(x)) /\ (IsAwaited(x)' <=> IsAwaited(x))
  BY <1>3 DEF Live, OnStack, IsAwaited
<1>5. Errors => Errors'
  <2>1. \A x \in Nodes : DoneWith(x)' <=> DoneWith(x)
    BY <1>4 DEF DoneWith, IsSlow
  <2>2. returned = n /\ entry[n] = "error" => Errors'
    BY <1>2 DEF Errors
  <2>. QED  BY <1>1, <1>3, <2>1, <2>2, ErrorsStay
<1>6. VisitedIsReachable' /\ AsyncIsSlow'
  <2>1. Reachable' = Reachable /\ Slow' = Slow
    BY GraphSame
  <2>. QED  BY <1>3, <2>1 DEF OutcomeOK, VisitedIsReachable, AsyncIsSlow, Visiting, IsObject
<1>7. ErrorsAreBad'
  <2>1. \A x \in Nodes : frame'[x].failed => frame[x].failed \/ Errors
    BY <1>2 DEF OutcomeOK, ErrorsAreBad
  <2>. QED  BY <1>5, <2>1, ErrorsStayBad DEF OutcomeOK
<1>8. LeafsAlone'
  <2>1. ASSUME ~Errors', NEW x \in Nodes, Visiting(x)' PROVE IsObject(x)'
    <3>1. Visiting(x) /\ ~ReturnedBusy /\ ~Errors
      BY <1>1, <1>5, <2>1 DEF Visiting, ReturnedBusy
    <3>. QED  BY <1>1, <3>1, NoLeafWaits DEF OutcomeOK, IsObject
  <2>. QED  BY <2>1 DEF LeafsAlone
<1>9. GraphTypes /\ Children(p) \subseteq Nodes
  BY GraphsTyped, ChildrenTyped DEF CallsInvariant
<1>10. DoneChildren'
  <2>1. ASSUME IsObject(p), NEW m \in Children(p)
        PROVE  m \in Remaining(f) \/ f.failed \/ entry[m] = "ok" \/ def'[m] # "none"
    <3>1. m \in Nodes
      BY <1>9
    <3>2. m \in Remaining(frame[p]) \/ frame[p].failed \/ entry[m] = "ok" \/ def[m] # "none"
      BY <1>1, <2>1 DEF OutcomeOK, DoneChildren
    <3>. QED  BY <3>1, <3>2
  <2>. QED  BY <1>2, <1>9, <2>1, DoneChildrenStay DEF OutcomeOK
<1>11. Swallowed => Swallowed'
  BY <1>3, SwallowedStays
<1>12. ASSUME Early' PROVE EarlyOK'
  <2>1. Early /\ EarlyOK
    BY <1>11, <1>12 DEF Early, OutcomeOK
  <2>2. ErrorsRise'
    <3>1. SUFFICES ASSUME NEW x \in Nodes, entry[x] = "error"
                   PROVE  \E y \in Nodes : OnStack(y)' /\ frame'[y].failed
      BY DEF ErrorsRise
    <3>2. CASE ReturnedError
      BY <1>1, <1>2, <3>2 DEF ReturnedError, OnStack
    <3>3. CASE \E y \in Nodes : OnStack(y) /\ frame[y].failed
      BY <1>3, <3>3 DEF OnStack
    <3>. QED  BY <2>1, <3>1, <3>2, <3>3 DEF EarlyOK, ErrorsRise
  <2>3. CyclesRise'
    <3>1. SUFFICES ASSUME NEW W \in SUBSET Nodes, IsUpperPart(W)', NEW x \in W, entry[x] = "error"
                   PROVE  \E y \in W : frame'[y].failed
      BY DEF CyclesRise
    <3>2. IsUpperPart(W)
      BY <3>1 DEF IsUpperPart, OnStack, Above
    <3>3. p \in W
      BY <1>1, <3>1, <3>2, TopIsUpper
    <3>4. ReturnedError \/ \E y \in W : frame[y].failed
      BY <2>1, <3>1, <3>2 DEF EarlyOK, CyclesRise
    <3>. QED  BY <1>1, <1>2, <1>3, <3>3, <3>4 DEF ReturnedError
  <2>4. Rooted'
    <3>1. \A x, y \in Nodes : Awaits(y, x) => Awaits(y, x)'
      BY <1>1, <1>3, NodesAssumption DEF Awaits, Above, Hears, Visiting
    <3>. QED  BY <1>4, <2>1, <3>1, RootedStays DEF EarlyOK
  <2>5. Handed'
    BY DEF Handed
  <2>6. OkChildren'
    BY <1>9, <2>1, OkChildrenStay DEF EarlyOK
  <2>. QED  BY <2>2, <2>3, <2>4, <2>5, <2>6 DEF EarlyOK
<1>13. VerdictIsRight'
  BY <1>11, StaysRight DEF OutcomeOK
<1>. QED  BY <1>6, <1>7, <1>8, <1>10, <1>12, <1>13 DEF OutcomeOK

LEMMA GoesOnOutcome ==
  ASSUME CallsInvariant, OutcomeOK, NEW p \in Nodes, NEW n \in Nodes, NEW r \in Results,
         GoesOn(p, n, r)
  PROVE  OutcomeOK'
<1>1. PICK f \in Frames :
        /\ frame' = [frame EXCEPT ![p] = f]
        /\ f.isAsync = frame[p].isAsync /\ f.failed = frame[p].failed /\ f.on = frame[p].on
        /\ Remaining(frame[p]) \subseteq Remaining(f) \union {n}
  BY ChildOver DEF GoesOn
<1>2. /\ Meets(p, n) /\ (returned = n => entry[n] = "ok") /\ returned' = None /\ RefsMove(n)
      /\ entry[n] = "ok" \/ def'[n] # "none"
      /\ UNCHANGED <<graph, entry, stack, answer, unhandled>>
  BY NodesAssumption DEF GoesOn, value
<1>3. entry[n] # "none"
  BY <1>2, MeetsFact
<1>4. \A x \in Nodes : def[x] # "none" => def'[x] # "none"
  BY <1>2, <1>3, RefsMoveKeeps
<1>5. \A m \in Nodes : m \in Remaining(frame[p]) =>
        m \in Remaining(f) \/ f.failed \/ entry[m] = "ok" \/ def'[m] # "none"
  BY <1>1, <1>2
<1>6. (returned = n => ~Visiting(n)) /\ ~(returned = n /\ entry[n] = "error")
  BY <1>2 DEF Visiting
<1>7. (frame[p].failed => f.failed) /\ (f.failed => frame[p].failed)
  BY <1>1
<1>8. /\ frame' = [frame EXCEPT ![p] = f] /\ f.isAsync = frame[p].isAsync /\ f.on = frame[p].on
      /\ Meets(p, n) /\ returned' = None /\ UNCHANGED <<graph, entry, stack, answer, unhandled>>
  BY <1>1, <1>2
<1>9. (f.failed => frame[p].failed \/ (returned = n /\ entry[n] = "error"))
  BY <1>7
<1>10. (returned = n /\ entry[n] = "error" => f.failed)
  BY <1>6
<1>11. returned = n => ~Visiting(n)
  BY <1>6
<1>. QED  BY <1>4, <1>5, <1>7, <1>8, <1>9, <1>10, <1>11, MoveOutcome

LEMMA NotesErrorOutcome ==
  ASSUME CallsInvariant, OutcomeOK, NEW p \in Nodes, NEW n \in Nodes, NotesError(p, n)
  PROVE  OutcomeOK'
<1>1. PICK f \in Frames :
        /\ frame' = [frame EXCEPT ![p] = f]
        /\ f.isAsync = frame[p].isAsync /\ f.failed /\ f.on = frame[p].on
  BY ErrorNoted
<1>2. /\ Meets(p, n) /\ returned = n /\ entry[n] = "error" /\ returned' = None
      /\ UNCHANGED <<graph, entry, def, stack, answer, unhandled>>
  BY DEF NotesError, value, entries
<1>. QED  BY <1>1, <1>2, MoveOutcome DEF Visiting

-----------------------------------------------------------------------------
(* The running call is over.                                               *)
LEMMA FinishesOutcome ==
  ASSUME CallsInvariant, OutcomeOK, NEW p \in Nodes, NEW how \in {"ok", "error"}, Finishes(p, how)
  PROVE  OutcomeOK'
<1>1. /\ stack # <<>> /\ p = Top /\ stack' = Front(stack) /\ returned' = p
      /\ entry'[p] = how /\ \A x \in Nodes : x # p => entry'[x] = entry[x]
      /\ def'[p] = FinishDef(def[p]) /\ \A x \in Nodes : x # p => def'[x] = def[x]
      /\ UNCHANGED <<graph, sync, frame, shouldRef, allRefs, answer>>
      /\ returned # None => entry[returned] = "error"
  BY OverFact
<1>2. /\ OnStack(p) /\ Live(p) /\ frame[p].on = None /\ IsObject(p)
      /\ entry[p] \in {"visiting", "error"} /\ \A y : ~Above(p, y)
  BY OverFact
<1>3. /\ \A x : Has(stack', x) <=> OnStack(x) /\ x # p
      /\ \A x, y : Below(stack', x, y) <=> Above(x, y) /\ y # p
      /\ stack' = <<>> <=> Bottom(p)
  BY <1>1, PoppedFact
<1>4. /\ unhandled => unhandled'
      /\ \/ /\ returned = None /\ AtEnd(frame[p]) /\ unhandled' = unhandled
            /\ how = "error" <=> frame[p].failed /\ ~frame[p].isAsync
         \/ /\ \E n \in Nodes : entry[n] = "error"
            /\ how = "ok" => returned = None /\ ~frame[p].failed /\ unhandled'
  BY DEF Finishes
<1>5. ~Live(p)' /\ \A x \in Nodes : x # p => (Live(x)' <=> Live(x))
  BY <1>1, <1>2, <1>3 DEF Live, OnStack
<1>6. \A x \in Nodes : (IsAwaited(x)' <=> IsAwaited(x)) /\ (IsSlow(x)' <=> IsSlow(x))
  BY <1>1 DEF IsAwaited, IsSlow
<1>7. how = "error" => Errors'
  <2>1. p # None
    BY NodesAssumption
  <2>. QED  BY <1>1, <1>5, <2>1 DEF Errors
<1>8. Errors => Errors'
  <2>1. \A x \in Nodes : entry[x] = "error" /\ DoneWith(x) => entry'[x] = "error" /\ DoneWith(x)'
    BY <1>1, <1>2, <1>5, <1>6 DEF DoneWith
  <2>2. returned # None => how = "error"
    BY <1>4
  <2>. QED  BY <1>1, <1>4, <1>7, <2>1, <2>2, ErrorsStay
<1>9. VisitedIsReachable' /\ AsyncIsSlow'
  <2>1. Reachable' = Reachable /\ Slow' = Slow
    BY <1>1, GraphSame
  <2>2. VisitedIsReachable'
    BY <1>1, <1>2, <2>1 DEF OutcomeOK, VisitedIsReachable
  <2>3. AsyncIsSlow'
    BY <1>1, <1>2, <2>1 DEF OutcomeOK, AsyncIsSlow, Visiting, IsObject
  <2>. QED  BY <2>2, <2>3
<1>10. ErrorsAreBad'
  <2>1. (\E x \in Nodes : entry[x] = "error" \/ frame[x].failed) => Errors
    BY DEF OutcomeOK, ErrorsAreBad, Errors
  <2>2. entry'[p] = "error" => Errors
    BY <1>1, <1>4, <2>1
  <2>3. unhandled' => unhandled \/ Errors
    BY <1>4, <2>1
  <2>4. returned' \in Nodes \union {None} /\ \A x \in Nodes : frame'[x].failed => frame[x].failed
    BY <1>1
  <2>. QED  BY <1>1, <1>8, <2>2, <2>3, <2>4, ErrorsStayBad DEF OutcomeOK
<1>11. LeafsAlone'
  <2>1. ASSUME ~Errors', NEW x \in Nodes, Visiting(x)' PROVE IsObject(x)'
    <3>1. ~Errors /\ \A n \in Nodes : entry[n] # "error"
      BY <1>8, <2>1 DEF OutcomeOK, ErrorsAreBad
    <3>2. Visiting(x) /\ ~ReturnedBusy
      BY <1>1, <1>4, <2>1, <3>1 DEF Visiting, ReturnedBusy
    <3>. QED  BY <1>1, <3>1, <3>2, NoLeafWaits DEF OutcomeOK, IsObject
  <2>. QED  BY <2>1 DEF LeafsAlone
<1>12. GraphTypes
  BY GraphsTyped DEF CallsInvariant
<1>13. /\ \A x \in Nodes : entry[x] = "ok" => entry'[x] = "ok"
       /\ \A x \in Nodes : def[x] # "none" => def'[x] # "none"
  BY <1>1, <1>2 DEF FinishDef
<1>14. DoneChildren'
  <2>1. ASSUME IsObject(p), NEW m \in Children(p)
        PROVE  m \in Remaining(frame[p]) \/ frame[p].failed \/ entry'[m] = "ok" \/ def'[m] # "none"
    <3>1. m \in Nodes
      BY <1>12, ChildrenTyped
    <3>2. m \in Remaining(frame[p]) \/ frame[p].failed \/ entry[m] = "ok" \/ def[m] # "none"
      BY <1>2, <2>1 DEF OutcomeOK, DoneChildren
    <3>. QED  BY <1>13, <3>1, <3>2
  <2>2. \A x \in Nodes : x # p => frame'[x].failed = frame[x].failed /\ Remaining(frame'[x]) = Remaining(frame[x])
    BY <1>1
  <2>. QED  BY <1>1, <1>12, <1>13, <2>1, <2>2, DoneChildrenStay DEF OutcomeOK
<1>15. Swallowed => Swallowed'
  BY <1>1, <1>4, SwallowedStays
<1>16. ASSUME Early' PROVE EarlyOK'
  <2>1. Early /\ EarlyOK
    BY <1>1, <1>15, <1>16 DEF Early, OutcomeOK
  <2>2. how = "ok" => ~frame[p].failed /\ AtEnd(frame[p]) /\ returned = None
    BY <1>1, <1>4, <1>16 DEF Early, Swallowed
  <2>3. how = "error" => ReturnedError'
    <3>1. p # None
      BY NodesAssumption
    <3>. QED  BY <1>1, <3>1 DEF ReturnedError
  <2>4. ErrorsRise'
    <3>1. SUFFICES ASSUME NEW x \in Nodes, entry'[x] = "error", how = "ok"
                   PROVE  \E y \in Nodes : OnStack(y)' /\ frame'[y].failed
      BY <2>3 DEF ErrorsRise
    <3>2. entry[x] = "error"
      BY <1>1, <3>1
    <3>3. PICK y \in Nodes : OnStack(y) /\ frame[y].failed
      BY <2>1, <2>2, <3>1, <3>2 DEF EarlyOK, ErrorsRise, ReturnedError
    <3>4. y # p /\ OnStack(y)'
      BY <1>3, <2>2, <3>1, <3>3 DEF OnStack
    <3>. QED  BY <1>1, <3>3, <3>4
  <2>5. CyclesRise'
    <3>1. SUFFICES ASSUME NEW W \in SUBSET Nodes, IsUpperPart(W)', NEW x \in W, entry'[x] = "error",
                          how = "ok"
                   PROVE  \E y \in W : frame'[y].failed
      BY <2>3 DEF CyclesRise
    <3>. DEFINE V == W \union {p}
    <3>2. \A y \in W : OnStack(y) /\ y # p
      BY <1>3, <3>1 DEF IsUpperPart, OnStack
    <3>3. \A y \in V, z \in Nodes : Above(y, z) => z \in V
      BY <1>2, <1>3, <3>1 DEF IsUpperPart, Above
    <3>4. IsUpperPart(V) /\ V \in SUBSET Nodes
      BY <1>2, <3>2, <3>3 DEF IsUpperPart
    <3>5. entry[x] = "error" /\ x \in V
      BY <1>1, <3>1
    <3>6. PICK y \in V : frame[y].failed
      BY <2>1, <2>2, <3>1, <3>4, <3>5 DEF EarlyOK, CyclesRise, ReturnedError
    <3>. QED  BY <1>1, <2>2, <3>1, <3>6
  <2>6. Rooted'
    <3>1. \A x, y \in Nodes : Live(x)' /\ Awaits(y, x) => Awaits(y, x)'
      BY <1>1, <1>3, <1>5, NodesAssumption DEF Awaits, Above, Hears, Visiting
    <3>. QED  BY <1>2, <1>5, <2>1, <3>1, RootedStays DEF EarlyOK
  <2>7. Handed'
    <3>1. SUFFICES ASSUME stack' = <<>>, p # Root PROVE IsAwaited(p)
      BY <1>1, <1>6 DEF Handed
    <3>2. AllLive({p}) /\ {p} \in SUBSET Nodes /\ {p} # {} /\ Root \notin {p}
      BY <1>2, <3>1 DEF AllLive
    <3>3. PICK x \in {p}, y \in Nodes \ {p} : Awaits(y, x)
      BY <2>1, <3>2 DEF EarlyOK, Rooted
    <3>4. stack \in Seq(Nodes) /\ Once(stack) /\ First(stack, p)
      BY <1>3, <3>1 DEF CallsInvariant, TypeOK, StackOK, Bottom
    <3>5. ~Above(y, p)
      BY <3>4, NobodyBelowFirst DEF Above
    <3>6. ~Hears(y, p)
      BY <1>1, <3>3 DEF Hears
    <3>. QED  BY <3>3, <3>5, <3>6 DEF Awaits, IsAwaited
  <2>8. OkChildren'
    <3>1. ASSUME how = "ok"
          PROVE  /\ \A m \in Children(p) : entry[m] = "ok" \/ def[m] # "none"
                 /\ p \notin Beyond(p, Unreffed)
      <4>1. Remaining(frame[p]) = {}
        BY <2>2, <3>1 DEF AtEnd, Remaining, ToSet
      <4>2. \A m \in Children(p) : entry[m] = "ok" \/ def[m] # "none"
        BY <1>2, <2>2, <3>1, <4>1 DEF OutcomeOK, DoneChildren
      <4>. DEFINE U == {x \in Nodes : entry[x] = "ok"}
      <4>3. ASSUME NEW x \in Nodes, x = p \/ entry[x] = "ok" PROVE Children(x) \intersect Unreffed \subseteq U
        <5>1. \A m \in Children(x) : entry[m] = "ok" \/ def[m] # "none"
          BY <2>1, <4>2, <4>3 DEF EarlyOK, OkChildren
        <5>2. Children(x) \subseteq Nodes
          BY <1>12, ChildrenTyped
        <5>3. \A m \in Nodes : m \in Unreffed => def[m] = "none"
          BY DEF Unreffed, CallsInvariant, RefsKept
        <5>. QED  BY <5>1, <5>2, <5>3
      <4>4. Closed(U, Unreffed)
        BY <4>3 DEF Closed
      <4>5. Children(p) \intersect Unreffed \subseteq U
        BY <4>3
      <4>6. Beyond(p, Unreffed) \subseteq U
        BY <1>12, <4>4, <4>5, BeyondFact
      <4>7. p \notin U
        BY <1>2
      <4>. QED  BY <4>2, <4>6, <4>7
    <3>. QED  BY <1>1, <1>12, <1>13, <2>1, <3>1, OkChildrenStay DEF EarlyOK
  <2>. QED  BY <2>4, <2>5, <2>6, <2>7, <2>8 DEF EarlyOK
<1>17. VerdictIsRight'
  BY <1>1, <1>15, StaysRight DEF OutcomeOK
<1>. QED  BY <1>9, <1>10, <1>11, <1>14, <1>16, <1>17 DEF OutcomeOK

-----------------------------------------------------------------------------
(* The running call waits.                                                 *)
LEMMA StartsToWaitOutcome ==
  ASSUME CallsInvariant, OutcomeOK, NEW p \in Nodes, NEW n \in Nodes, StartsToWait(p, n)
  PROVE  OutcomeOK'
<1>1. /\ stack # <<>> /\ p = Top /\ stack' = Front(stack) /\ returned = n
      /\ returned' = IF frame[p].isAsync THEN None ELSE p
      /\ UNCHANGED <<graph, sync, entries, answer, unhandled>>
      /\ OnStack(p) /\ Live(p) /\ frame[p].on = None /\ IsObject(p)
      /\ entry[p] \in {"visiting", "error"} /\ \A y : ~Above(p, y)
      /\ entry[n] = "visiting" /\ p # n /\ n # Root /\ ~OnStack(n) /\ ~IsAwaited(n)
  BY WaitFact
<1>2. /\ frame'[p].isAsync /\ frame'[p].on = n /\ frame'[p].failed = frame[p].failed
      /\ frame'[p].names = frame[p].names /\ frame'[p].symbols = frame[p].symbols
      /\ \A x \in Nodes : x # p => frame'[x] = frame[x]
  BY WaitFact
<1>3. /\ \A x : Has(stack', x) <=> OnStack(x) /\ x # p
      /\ \A x, y : Below(stack', x, y) <=> Above(x, y) /\ y # p
      /\ stack' # <<>> => Above(Top', p)
      /\ stack' = <<>> <=> Bottom(p)
  BY <1>1, PoppedFact
<1>4. entry' = entry /\ def' = def /\ n # None
  BY <1>1, NodesAssumption DEF entries
<1>5. frame[p].isAsync => stack' = <<>>
  BY <1>1, <1>3 DEF CallsInvariant, StackOK
<1>6. /\ \A x \in Nodes : Live(x)' <=> Live(x)
      /\ \A x \in Nodes : x # n => (IsAwaited(x)' <=> IsAwaited(x))
  BY <1>1, <1>2, <1>3, <1>4, NodesAssumption DEF Live, OnStack, IsAwaited
<1>7. \A x \in Nodes : frame'[x].failed <=> frame[x].failed
  BY <1>2
<1>8. Errors => Errors'
  <2>1. \A x \in Nodes : x # n => (DoneWith(x)' <=> DoneWith(x))
    BY <1>1, <1>6 DEF DoneWith, IsSlow
  <2>. QED  BY <1>1, <1>4, <1>7, <2>1, ErrorsStay
<1>9. Reachable' = Reachable /\ Slow' = Slow /\ GraphTypes
  BY <1>1, GraphSame, GraphsTyped DEF CallsInvariant
<1>10. VisitedIsReachable'
  BY <1>4, <1>9 DEF OutcomeOK, VisitedIsReachable
<1>11. ErrorsAreBad'
  <2>1. returned' \in Nodes \union {None}
    BY <1>1
  <2>. QED  BY <1>1, <1>4, <1>7, <1>8, <2>1, ErrorsStayBad DEF OutcomeOK
<1>12. Slow # {}
  <2>1. CASE IsObject(n)
    <3>1. Live(n)
      BY <1>1, <2>1 DEF CallsInvariant, EntryOK, Visiting
    <3>2. frame[n].on # None /\ frame[n].on \in Nodes \union {None}
      BY <1>1, <3>1 DEF Live, CallsInvariant, TypeOK, Frames
    <3>3. frame[n].isAsync
      BY <3>2 DEF CallsInvariant, AwaitOK
    <3>. QED  BY <3>3 DEF OutcomeOK, AsyncIsSlow
  <2>2. CASE ~IsObject(n)
    BY <1>1, <2>2 DEF OutcomeOK, AsyncIsSlow, Visiting
  <2>. QED  BY <2>1, <2>2
<1>13. AsyncIsSlow'
  BY <1>9, <1>12 DEF AsyncIsSlow
<1>14. LeafsAlone'
  <2>1. SUFFICES ASSUME ~Errors' PROVE LeafsAlone'
    BY DEF LeafsAlone
  <2>2. ~Errors /\ Visiting(p)
    BY <1>1, <1>8, <2>1 DEF OutcomeOK, ErrorsAreBad, Visiting
  <2>3. (stack' = <<>> /\ returned' = None) \/ ReturnedBusy'
    BY <1>1, <1>4, <1>5, <2>2, NodesAssumption DEF ReturnedBusy, Visiting
  <2>. QED  BY <1>1, <1>4, <2>2, <2>3 DEF OutcomeOK, LeafsAlone, Visiting, IsObject
<1>15. \A x \in Nodes : Remaining(frame'[x]) = Remaining(frame[x])
  BY <1>2 DEF Remaining
<1>16. DoneChildren'
  <2>1. IsObject(p) /\ entry'[p] # "none" =>
          \A m \in Children(p) :
            m \in Remaining(frame'[p]) \/ frame'[p].failed \/ entry'[m] = "ok" \/ def'[m] # "none"
    BY <1>4, <1>7, <1>15 DEF OutcomeOK, DoneChildren
  <2>2. \A x \in Nodes : x # p => frame'[x].failed = frame[x].failed /\ Remaining(frame'[x]) = Remaining(frame[x])
    BY <1>2, <1>15
  <2>. QED  BY <1>1, <1>4, <1>9, <2>1, <2>2, DoneChildrenStay DEF OutcomeOK
<1>17. Swallowed => Swallowed'
  BY <1>1, <1>2, SwallowedStays
<1>18. ASSUME Early' PROVE EarlyOK'
  <2>1. Early /\ EarlyOK
    BY <1>1, <1>17, <1>18 DEF Early, OutcomeOK
  <2>2. ~frame[p].failed /\ ~ReturnedError
    BY <1>1, <1>2, <1>18 DEF Early, Swallowed, ReturnedError
  <2>3. ErrorsRise'
    BY <1>2, <1>3, <1>4, <2>1, <2>2 DEF EarlyOK, ErrorsRise, OnStack
  <2>4. ASSUME NEW W \in SUBSET Nodes, NEW x \in W, entry[x] = "error",
               \A y \in W : OnStack(y),
               \A y \in W, z \in Nodes : Above(y, z) => z \in W \union {p}
        PROVE  \E y \in W : y # p /\ frame[y].failed
    <3>. DEFINE V == W \union {p}
    <3>1. IsUpperPart(V) /\ V \in SUBSET Nodes /\ x \in V
      BY <1>1, <2>4 DEF IsUpperPart
    <3>2. PICK y \in V : frame[y].failed
      BY <2>1, <2>2, <2>4, <3>1 DEF EarlyOK, CyclesRise
    <3>. QED  BY <2>2, <3>2
  <2>5. CyclesRise'
    <3>1. SUFFICES ASSUME NEW W \in SUBSET Nodes, IsUpperPart(W)', NEW x \in W, entry[x] = "error"
                   PROVE  \E y \in W : frame'[y].failed
      BY <1>4 DEF CyclesRise
    <3>2. \A y \in W : OnStack(y)
      BY <1>3, <3>1 DEF IsUpperPart, OnStack
    <3>3. \A y \in W, z \in Nodes : Above(y, z) => z \in W \union {p}
      BY <1>3, <3>1 DEF IsUpperPart, Above
    <3>. QED  BY <1>2, <2>4, <3>1, <3>2, <3>3
  <2>6. Visiting(p)
    <3>1. SUFFICES ASSUME entry[p] = "error" PROVE FALSE
      BY <1>1 DEF Visiting
    <3>. DEFINE W == {p}
    <3>2. W \in SUBSET Nodes /\ p \in W /\ (\A y \in W : OnStack(y)) /\ \A y \in W, z \in Nodes : Above(y, z) => z \in W \union {p}
      BY <1>1
    <3>3. \E y \in W : y # p
      BY <2>4, <3>1, <3>2
    <3>. QED  BY <3>3
  <2>7. Rooted'
    <3>1. ASSUME NEW x \in Nodes, NEW y \in Nodes, Awaits(y, x) PROVE Awaits(y, x)'
      <4>1. CASE frame[y].on = x
        BY <1>1, <1>2, <4>1, NodesAssumption DEF Awaits
      <4>2. CASE Above(y, x) /\ x # p
        BY <1>3, <4>2 DEF Awaits, Above
      <4>3. CASE Above(y, x) /\ x = p
        <5>1. ~Bottom(p)
          <6>1. stack \in Seq(Nodes) /\ Once(stack)
            BY DEF CallsInvariant, TypeOK, StackOK
          <6>. QED  BY <4>3, <6>1, NobodyBelowFirst DEF Above, Bottom
        <5>2. stack' # <<>> /\ returned' = p
          BY <1>1, <1>3, <1>5, <5>1
        <5>3. y = Top'
          BY <1>3, <4>3, <5>2, OneBelow
        <5>. QED  BY <1>4, <2>6, <4>3, <5>2, <5>3 DEF Awaits, Hears, Visiting
      <4>4. CASE Hears(y, x)
        BY <1>1, <1>2, <4>4 DEF Awaits, Hears
      <4>. QED  BY <3>1, <4>1, <4>2, <4>3, <4>4 DEF Awaits
    <3>. QED  BY <1>6, <2>1, <3>1, RootedStays DEF EarlyOK
  <2>8. Handed'
    BY <1>1, <1>3 DEF Handed, CallsInvariant, StackOK
  <2>9. OkChildren'
    BY <1>1, <1>4, <1>9, <2>1, OkChildrenStay DEF EarlyOK
  <2>. QED  BY <2>3, <2>5, <2>7, <2>8, <2>9 DEF EarlyOK
<1>19. VerdictIsRight'
  BY <1>1, <1>17, StaysRight DEF OutcomeOK
<1>. QED  BY <1>10, <1>11, <1>13, <1>14, <1>16, <1>18, <1>19 DEF OutcomeOK

-----------------------------------------------------------------------------
(* The head of a cycle is found: it is beyond itself.                      *)
LEMMA CycleIsBad ==
  ASSUME CallsInvariant, OutcomeOK, NEW p \in Nodes, NEW n \in Nodes, IsCircular(p, n)
  PROVE  Bad
<1>1. /\ stack # <<>> /\ p = Top /\ IsAt(frame[p], n) /\ returned = None
      /\ entry[n] = "visiting" /\ graph[n].refs = "never"
  BY CircularFact
<1>2. SUFFICES ASSUME ~Errors PROVE Bad
  BY DEF OutcomeOK, ErrorsAreBad
<1>3. /\ \A x \in Nodes : entry[x] # "error"
      /\ \A x \in Nodes : Visiting(x) => Live(x)
  <2>1. \A x \in Nodes : entry[x] # "error"
    BY <1>2 DEF OutcomeOK, ErrorsAreBad
  <2>2. ASSUME NEW x \in Nodes, Visiting(x) PROVE Live(x)
    <3>1. ~ReturnedBusy
      BY <1>1 DEF ReturnedBusy
    <3>2. IsObject(x)
      BY <1>1, <1>2, <2>2, <3>1, NoLeafWaits DEF OutcomeOK
    <3>. QED  BY <2>2, <3>2 DEF CallsInvariant, EntryOK
  <2>. QED  BY <2>1, <2>2
<1>4. GraphTypes
  BY GraphsTyped DEF CallsInvariant
<1>. DEFINE B == Beyond(n, Reachable)
            U == {x \in Nodes : Visiting(x) /\ (x = n \/ x \in B)}
<1>5. ASSUME NEW x \in U, NEW y \in Nodes, IsAt(frame[x], y), entry[y] # "none" PROVE y \in B
  <2>1. y \in Children(x) /\ y \in Reachable
    BY <1>5, ChildIsChild DEF OutcomeOK, VisitedIsReachable
  <2>2. Children(n) \intersect Reachable \subseteq B /\ Closed(B, Reachable)
    BY <1>4, BeyondFact
  <2>. QED  BY <2>1, <2>2 DEF Closed
<1>6. PICK x \in U : \A y \in U : ~Awaits(x, y)
  <2>1. n \in U /\ U \in SUBSET Nodes
    BY <1>1 DEF Visiting
  <2>2. U # {}
    BY <2>1
  <2>. HIDE DEF U
  <2>. QED  BY <2>1, <2>2 DEF CallsInvariant, Ends
<1>. HIDE DEF B
<1>7. ASSUME NEW y \in Nodes, frame[x].on = y \/ Above(x, y) PROVE ~Visiting(y)
  <2>1. Awaits(x, y) /\ Calls(x, y)
    BY <1>7 DEF Awaits, Calls
  <2>2. IsAt(frame[x], y)
    BY <2>1 DEF CallsInvariant, PlaceOK
  <2>3. Visiting(y) => y \in B
    BY <1>5, <2>2 DEF Visiting
  <2>. QED  BY <1>6, <2>1, <2>3
<1>8. frame[x].on = None
  <2>1. SUFFICES ASSUME NEW y \in Nodes, frame[x].on = y PROVE FALSE
    BY DEF CallsInvariant, TypeOK, Frames
  <2>2. entry[y] \notin {"none", "ok", "error"}
    BY <1>1, <1>3, <2>1, NodesAssumption DEF CallsInvariant, AwaitOK
  <2>3. Visiting(y)
    BY <2>2 DEF CallsInvariant, TypeOK, Visiting
  <2>. QED  BY <1>7, <2>1, <2>3
<1>9. x = Top
  <2>1. SUFFICES ASSUME x # Top PROVE FALSE
    OBVIOUS
  <2>2. OnStack(x)
    BY <1>3, <1>8 DEF Live
  <2>3. PICK y \in Nodes : Above(x, y) /\ OnStack(y)
    BY <2>1, <2>2, SomebodyAbove
  <2>4. Visiting(y)
    BY <1>3, <2>3 DEF CallsInvariant, LiveOK, Live, Visiting
  <2>. QED  BY <1>7, <2>3, <2>4
<1>10. n \in B /\ n \in Unreffed
  BY <1>1, <1>5, <1>9 DEF OutcomeOK, VisitedIsReachable, Unreffed
<1>. QED  BY <1>10 DEF Bad, B

LEMMA IsCircularOutcome ==
  ASSUME CallsInvariant, OutcomeOK, NEW p \in Nodes, NEW n \in Nodes, IsCircular(p, n)
  PROVE  OutcomeOK'
<1>1. /\ stack # <<>> /\ p = Top /\ returned = None /\ returned' = n
      /\ entry[n] = "visiting" /\ def[n] = "none"
      /\ entry'[n] = "error" /\ \A x \in Nodes : x # n => entry'[x] = entry[x]
      /\ UNCHANGED <<graph, sync, def, allRefs, frame, stack, answer, unhandled>>
      /\ n # None
  BY CircularFact
<1>2. Errors' /\ ReturnedError'
  BY <1>1 DEF Errors, ReturnedError
<1>3. Bad /\ Bad' /\ Reachable' = Reachable /\ Slow' = Slow /\ GraphTypes
  BY <1>1, CycleIsBad, GraphSame, GraphsTyped DEF CallsInvariant
<1>4. VisitedIsReachable' /\ AsyncIsSlow'
  <2>1. VisitedIsReachable'
    BY <1>1, <1>3 DEF OutcomeOK, VisitedIsReachable
  <2>2. AsyncIsSlow'
    BY <1>1, <1>3 DEF OutcomeOK, AsyncIsSlow, Visiting, IsObject
  <2>. QED  BY <2>1, <2>2
<1>5. ErrorsAreBad' /\ LeafsAlone'
  BY <1>2, <1>3 DEF ErrorsAreBad, LeafsAlone
<1>6. \A x \in Nodes : entry[x] = "ok" => entry'[x] = "ok"
  BY <1>1
<1>7. DoneChildren'
  <2>1. ASSUME IsObject(n), NEW m \in Children(n)
        PROVE  m \in Remaining(frame[n]) \/ frame[n].failed \/ entry'[m] = "ok" \/ def[m] # "none"
    <3>1. m \in Nodes
      BY <1>3, ChildrenTyped
    <3>2. m \in Remaining(frame[n]) \/ frame[n].failed \/ entry[m] = "ok" \/ def[m] # "none"
      BY <1>1, <2>1 DEF OutcomeOK, DoneChildren
    <3>. QED  BY <1>6, <3>1, <3>2
  <2>. QED  BY <1>1, <1>3, <1>6, <2>1, DoneChildrenStay DEF OutcomeOK
<1>8. Swallowed => Swallowed'
  BY <1>1, SwallowedStays
<1>9. ASSUME Early' PROVE EarlyOK'
  <2>1. Early /\ EarlyOK
    BY <1>1, <1>8, <1>9 DEF Early, OutcomeOK
  <2>2. ErrorsRise' /\ CyclesRise'
    BY <1>2 DEF ErrorsRise, CyclesRise
  <2>3. Rooted'
    <3>1. \A x, y \in Nodes : Awaits(y, x) => Awaits(y, x)'
      BY <1>1, NodesAssumption DEF Awaits, Above, Hears
    <3>2. \A x \in Nodes : Live(x)' => Live(x)
      BY <1>1 DEF Live, OnStack
    <3>. QED  BY <2>1, <3>1, <3>2, RootedStays DEF EarlyOK
  <2>4. Handed'
    BY <1>1 DEF Handed
  <2>5. OkChildren'
    BY <1>1, <1>3, <1>6, <2>1, OkChildrenStay DEF EarlyOK
  <2>. QED  BY <2>2, <2>3, <2>4, <2>5 DEF EarlyOK
<1>10. VerdictIsRight'
  BY <1>1, <1>8, StaysRight DEF OutcomeOK
<1>. QED  BY <1>4, <1>5, <1>7, <1>9, <1>10 DEF OutcomeOK

-----------------------------------------------------------------------------
(* A call goes on after its wait.                                          *)
LEMMA ResumesOutcome ==
  ASSUME CallsInvariant, OutcomeOK, NEW p \in Nodes, Resumes(p)
  PROVE  OutcomeOK'
<1>1. /\ stack = <<>> /\ returned # None /\ Finished(returned) /\ frame[p].on = returned
      /\ returned \in Nodes /\ returned # Root /\ frame[p].isAsync /\ p # returned
      /\ ~Live(returned)
      /\ stack' # <<>> /\ \A x : Has(stack', x) <=> x = p
      /\ UNCHANGED <<graph, sync, entries, returned, answer, impossible, unhandled>>
  BY ResumedFact
<1>2. /\ frame'[p].on = None /\ frame'[p].isAsync /\ frame'[p].failed = frame[p].failed
      /\ frame'[p].names = frame[p].names /\ frame'[p].symbols = frame[p].symbols
      /\ \A x \in Nodes : x # p => frame'[x] = frame[x]
  BY ResumedFact
<1>3. entry' = entry /\ def' = def
  BY <1>1 DEF entries
<1>4. /\ \A x, y : ~OnStack(x) /\ ~Above(x, y)
      /\ \A x, y : ~Hears(x, y)
  BY <1>1 DEF OnStack, Has, Above, Below, Hears
<1>5. \A x \in Nodes : (Live(x)' <=> Live(x)) /\ (IsAwaited(x)' => IsAwaited(x))
  BY <1>1, <1>2, <1>4, NodesAssumption DEF Live, OnStack, IsAwaited
<1>6. \A x \in Nodes : (frame'[x].failed <=> frame[x].failed) /\ (frame'[x].isAsync <=> frame[x].isAsync)
  BY <1>1, <1>2
<1>7. Errors => Errors'
  <2>1. \A x \in Nodes : DoneWith(x) => DoneWith(x)'
    BY <1>1, <1>5 DEF DoneWith, IsSlow
  <2>2. entry[returned] = "error" => Errors'
    BY <1>1, <1>3 DEF Errors
  <2>. QED  BY <1>1, <1>3, <1>6, <2>1, <2>2, ErrorsStay
<1>8. Reachable' = Reachable /\ Slow' = Slow /\ GraphTypes
  BY <1>1, GraphSame, GraphsTyped DEF CallsInvariant
<1>9. VisitedIsReachable' /\ AsyncIsSlow'
  BY <1>1, <1>3, <1>6, <1>8 DEF OutcomeOK, VisitedIsReachable, AsyncIsSlow, Visiting, IsObject
<1>10. ErrorsAreBad'
  <2>1. returned' \in Nodes \union {None}
    BY <1>1
  <2>. QED  BY <1>1, <1>3, <1>6, <1>7, <2>1, ErrorsStayBad DEF OutcomeOK
<1>11. LeafsAlone'
  <2>1. ASSUME ~Errors', NEW x \in Nodes, Visiting(x)' PROVE IsObject(x)'
    <3>1. ~Errors /\ Visiting(x) /\ ~ReturnedBusy
      BY <1>1, <1>3, <1>7, <2>1 DEF Visiting, ReturnedBusy, Finished
    <3>. QED  BY <1>1, <3>1, NoLeafWaits DEF OutcomeOK, IsObject
  <2>. QED  BY <2>1 DEF LeafsAlone
<1>12. \A x \in Nodes : Remaining(frame'[x]) = Remaining(frame[x])
  BY <1>2 DEF Remaining
<1>13. DoneChildren'
  <2>1. IsObject(p) /\ entry'[p] # "none" =>
          \A m \in Children(p) :
            m \in Remaining(frame'[p]) \/ frame'[p].failed \/ entry'[m] = "ok" \/ def'[m] # "none"
    BY <1>3, <1>6, <1>12 DEF OutcomeOK, DoneChildren
  <2>2. \A x \in Nodes : x # p => frame'[x].failed = frame[x].failed /\ Remaining(frame'[x]) = Remaining(frame[x])
    BY <1>2, <1>12
  <2>. QED  BY <1>1, <1>3, <1>8, <2>1, <2>2, DoneChildrenStay DEF OutcomeOK
<1>14. Swallowed => Swallowed'
  BY <1>1, <1>6, SwallowedStays
<1>15. ASSUME Early' PROVE EarlyOK'
  <2>1. Early /\ EarlyOK
    BY <1>1, <1>14, <1>15 DEF Early, OutcomeOK
  <2>2. ErrorsRise' /\ CyclesRise'
    <3>1. (\E x \in Nodes : entry[x] = "error") => ReturnedError
      BY <1>4, <2>1 DEF EarlyOK, ErrorsRise
    <3>2. ReturnedError' <=> ReturnedError
      BY <1>1, <1>3 DEF ReturnedError
    <3>. QED  BY <1>3, <3>1, <3>2 DEF ErrorsRise, CyclesRise
  <2>3. Rooted'
    <3>1. \A x, y \in Nodes : Live(x) /\ Awaits(y, x) => Awaits(y, x)'
      BY <1>1, <1>2, <1>4 DEF Awaits
    <3>. QED  BY <1>5, <2>1, <3>1, RootedStays DEF EarlyOK
  <2>4. Handed'
    BY <1>1 DEF Handed
  <2>5. OkChildren'
    BY <1>1, <1>3, <1>8, <2>1, OkChildrenStay DEF EarlyOK
  <2>. QED  BY <2>2, <2>3, <2>4, <2>5 DEF EarlyOK
<1>16. VerdictIsRight'
  BY <1>1, <1>14, StaysRight DEF OutcomeOK
<1>. QED  BY <1>9, <1>10, <1>11, <1>13, <1>15, <1>16 DEF OutcomeOK

-----------------------------------------------------------------------------
(* A slow leaf settles.                                                    *)
LEMMA SettleOutcome ==
  ASSUME CallsInvariant, OutcomeOK, NEW n \in Nodes, Settle(n)
  PROVE  OutcomeOK'
<1>1. /\ stack = <<>> /\ returned = None /\ returned' = n /\ n # None /\ IsSlow(n)
      /\ ~IsObject(n) /\ ~Live(n) /\ entry[n] # "none"
      /\ Visiting(n) \/ IsAwaited(n)
      /\ IsAwaited(n) \/ n = Root
  BY SettledFact
<1>2. /\ entry'[n] = (IF graph[n].kind = "slow" THEN "ok" ELSE "error")
      /\ \A x \in Nodes : x # n => entry'[x] = entry[x]
      /\ def'[n] = FinishDef(def[n]) /\ \A x \in Nodes : x # n => def'[x] = def[x]
      /\ UNCHANGED <<graph, sync, shouldRef, allRefs, frame, stack, answer, unhandled>>
  BY SettledFact
<1>3. entry[n] # "ok" /\ entry'[n] \in {"ok", "error"}
  BY <1>1, <1>2, NodesAssumption DEF Visiting, IsAwaited, CallsInvariant, AwaitOK
<1>4. /\ \A x, y : ~OnStack(x) /\ ~Above(x, y)
      /\ \A x, y : ~Hears(x, y)
  BY <1>1 DEF OnStack, Has, Above, Below, Hears
<1>5. \A x \in Nodes : (Live(x)' <=> Live(x)) /\ (IsAwaited(x)' <=> IsAwaited(x)) /\ (IsSlow(x)' <=> IsSlow(x))
  BY <1>2 DEF Live, OnStack, IsAwaited, IsSlow
<1>6. entry'[n] = "error" => Errors' /\ Bad
  <2>1. SUFFICES ASSUME entry'[n] = "error" PROVE Errors' /\ Bad
    OBVIOUS
  <2>2. n \in Failing
    BY <1>1, <1>2, <2>1 DEF OutcomeOK, VisitedIsReachable, Failing, IsSlow
  <2>. QED  BY <1>1, <1>5, <2>1, <2>2 DEF Errors, Bad
<1>7. Errors => Errors'
  <2>1. entry[n] = "error" => ~DoneWith(n)
    BY <1>1 DEF DoneWith, Visiting
  <2>. QED  BY <1>1, <1>2, <1>5, <2>1, ErrorsStay DEF DoneWith
<1>8. Reachable' = Reachable /\ Slow' = Slow /\ GraphTypes
  BY <1>2, GraphSame, GraphsTyped DEF CallsInvariant
<1>9. VisitedIsReachable' /\ AsyncIsSlow'
  <2>1. VisitedIsReachable'
    BY <1>1, <1>2, <1>8 DEF OutcomeOK, VisitedIsReachable
  <2>2. AsyncIsSlow'
    BY <1>2, <1>3, <1>8 DEF OutcomeOK, AsyncIsSlow, Visiting, IsObject
  <2>. QED  BY <2>1, <2>2
<1>10. ErrorsAreBad'
  BY <1>1, <1>2, <1>6, <1>7, ErrorsStayBad DEF OutcomeOK
<1>11. LeafsAlone'
  <2>1. ASSUME ~Errors', NEW x \in Nodes, Visiting(x)' PROVE IsObject(x)'
    <3>1. SUFFICES ASSUME ~IsObject(x) PROVE FALSE
      BY <1>2 DEF IsObject
    <3>2. x # n /\ Visiting(x) /\ ~Errors
      BY <1>2, <1>3, <1>7, <2>1 DEF Visiting
    <3>3. ~Visiting(n)
      BY <1>1, <3>1, <3>2 DEF OutcomeOK, LeafsAlone
    <3>4. entry[n] = "error"
      BY <1>1, <1>3, <3>3 DEF Visiting, CallsInvariant, TypeOK
    <3>. QED  BY <3>2, <3>4 DEF OutcomeOK, ErrorsAreBad
  <2>. QED  BY <2>1 DEF LeafsAlone
<1>12. /\ \A x \in Nodes : entry[x] = "ok" => entry'[x] = "ok"
       /\ \A x \in Nodes : def[x] # "none" => def'[x] # "none"
  BY <1>2, <1>3 DEF FinishDef
<1>13. DoneChildren'
  BY <1>1, <1>2, <1>8, <1>12, DoneChildrenStay DEF OutcomeOK
<1>14. Swallowed => Swallowed'
  BY <1>2, SwallowedStays
<1>15. ASSUME Early' PROVE EarlyOK'
  <2>1. Early /\ EarlyOK
    BY <1>2, <1>14, <1>15 DEF Early, OutcomeOK
  <2>2. \A x \in Nodes : entry'[x] = "error" => ReturnedError'
    <3>1. \A x \in Nodes : entry[x] # "error"
      BY <1>1, <1>4, <2>1 DEF EarlyOK, ErrorsRise, ReturnedError
    <3>. QED  BY <1>1, <1>2, <3>1 DEF ReturnedError
  <2>3. ErrorsRise' /\ CyclesRise'
    BY <2>2 DEF ErrorsRise, CyclesRise
  <2>4. Rooted'
    <3>1. \A x, y \in Nodes : Awaits(y, x) => Awaits(y, x)'
      BY <1>2, <1>4 DEF Awaits
    <3>. QED  BY <1>5, <2>1, <3>1, RootedStays DEF EarlyOK
  <2>5. Handed'
    BY <1>1, <1>5 DEF Handed
  <2>6. OkChildren'
    <3>1. Children(n) = {} /\ n \notin Beyond(n, Unreffed)
      BY <1>1, <1>8, LeafHasNoChildren
    <3>. QED  BY <1>2, <1>8, <1>12, <2>1, <3>1, OkChildrenStay DEF EarlyOK
  <2>. QED  BY <2>3, <2>4, <2>5, <2>6 DEF EarlyOK
<1>16. VerdictIsRight'
  BY <1>2, <1>14, StaysRight DEF OutcomeOK
<1>. QED  BY <1>9, <1>10, <1>11, <1>13, <1>15, <1>16 DEF OutcomeOK

-----------------------------------------------------------------------------
(* The caller gets its answer: when it is a good one, all is well.         *)
LEMMA RootIsWhole ==
  ASSUME CallsInvariant, OutcomeOK, Early, stack = <<>>, returned = Root, entry[Root] = "ok"
  PROVE  Failing = {} /\ \A n \in Unreffed : n \notin Beyond(n, Unreffed)
<1>1. EarlyOK /\ GraphTypes /\ Root \in Nodes
  BY GraphsTyped, NodesAssumption DEF OutcomeOK, CallsInvariant
<1>2. /\ \A x, y : ~OnStack(x) /\ ~Above(x, y)
      /\ \A x, y : ~Hears(x, y)
  BY DEF OnStack, Has, Above, Below, Hears
<1>3. \A x \in Nodes : entry[x] # "error"
  BY <1>1, <1>2 DEF EarlyOK, ErrorsRise, ReturnedError
<1>4. \A x \in Nodes : ~Live(x)
  <2>1. SUFFICES ASSUME NEW x \in Nodes, Live(x) PROVE FALSE
    OBVIOUS
  <2>. DEFINE U == {y \in Nodes : Live(y)}
  <2>2. AllLive(U) /\ U \in SUBSET Nodes /\ U # {}
    BY <2>1 DEF AllLive
  <2>3. Root \notin U
    BY DEF CallsInvariant, LiveOK
  <2>4. \E y \in U : \E z \in Nodes \ U : Awaits(z, y)
    <3>. HIDE DEF U
    <3>. QED  BY <1>1, <2>2, <2>3 DEF EarlyOK, Rooted
  <2>5. PICK y \in U, z \in Nodes \ U : Awaits(z, y)
    BY <2>4
  <2>6. frame[z].on = y
    BY <1>2, <2>5 DEF Awaits
  <2>. QED  BY <2>5, <2>6, NodesAssumption DEF Live
<1>5. \A x \in Nodes : ~Visiting(x)
  <2>1. \A x \in Nodes : ~IsAwaited(x)
    BY <1>4, NodesAssumption DEF IsAwaited, Live
  <2>. QED  BY <1>4, <2>1 DEF CallsInvariant, EntryOK, Visiting
<1>6. \A x \in Nodes : entry[x] \in {"none", "ok"}
  BY <1>3, <1>5 DEF Visiting, CallsInvariant, TypeOK
<1>7. \A x \in Nodes : def[x] # "none" => entry[x] = "ok"
  BY <1>6 DEF CallsInvariant, RefsKept
<1>. DEFINE K == {x \in Nodes : entry[x] = "ok"}
<1>8. Reachable \subseteq K
  <2>1. ASSUME NEW x \in K PROVE Children(x) \intersect Nodes \subseteq K
    <3>1. \A m \in Children(x) : entry[m] = "ok" \/ def[m] # "none"
      BY <1>1 DEF EarlyOK, OkChildren
    <3>. QED  BY <1>7, <3>1
  <2>2. {Root} \subseteq K /\ Closed(K, Nodes) /\ K \in SUBSET Nodes /\ {Root} \in SUBSET Nodes
    BY <1>1, <2>1 DEF Closed
  <2>. HIDE DEF K
  <2>. QED  BY <1>1, <2>2, SpreadFact DEF Reachable
<1>9. Failing = {}
  BY <1>8 DEF Failing, CallsInvariant, EntryOK
<1>10. \A n \in Unreffed : n \notin Beyond(n, Unreffed)
  BY <1>1, <1>8 DEF Unreffed, EarlyOK, OkChildren
<1>. QED  BY <1>9, <1>10

LEMMA ReturnOutcome ==
  ASSUME CallsInvariant, OutcomeOK, ReturnToCaller
  PROVE  OutcomeOK'
<1>1. /\ stack = <<>> /\ returned # None /\ returned' = None /\ returned \in Nodes
      /\ ~Finished(returned) \/ ~IsAwaited(returned)
      /\ UNCHANGED <<graph, sync, entry, def, frame, stack, impossible, unhandled>>
  BY DEF ReturnToCaller, value, entries, Waiting, IsAwaited, CallsInvariant, TypeOK
<1>2. answer' = IF returned # Root \/ answer # "none" THEN answer
                ELSE IF Finished(Root) THEN entry[Root]
                ELSE IF sync THEN "unfinished" ELSE "none"
  BY DEF ReturnToCaller
<1>3. entry[returned] \in {"visiting", "ok", "error"}
  BY <1>1 DEF CallsInvariant, TypeOK, ReturnedOK
<1>4. ~IsAwaited(returned) /\ (Visiting(returned) => returned = Root)
  BY <1>1, <1>3 DEF CallsInvariant, ReturnedOK, Finished, Visiting
<1>5. /\ \A x, y : ~OnStack(x) /\ ~Above(x, y)
      /\ \A x, y : ~Hears(x, y)
  BY <1>1 DEF OnStack, Has, Above, Below, Hears
<1>6. \A x \in Nodes : (Live(x)' <=> Live(x)) /\ (DoneWith(x)' <=> DoneWith(x))
  BY <1>1 DEF Live, OnStack, DoneWith, IsSlow, IsAwaited
<1>7. Errors => Errors'
  <2>1. returned # None /\ entry[returned] = "error" /\ (stack # <<>> \/ ~Live(returned)) => Errors'
    <3>1. SUFFICES ASSUME entry[returned] = "error", ~Live(returned) PROVE Errors'
      BY <1>1
    <3>2. DoneWith(returned)
      BY <1>4, <3>1 DEF DoneWith
    <3>3. entry'[returned] = "error" /\ \A x \in Nodes : x = returned => DoneWith(x)'
      BY <1>1, <1>6, <3>1, <3>2
    <3>. QED  BY <1>1, <3>3 DEF Errors
  <2>. QED  BY <1>1, <1>6, <2>1, ErrorsStay
<1>8. Reachable' = Reachable /\ Slow' = Slow /\ GraphTypes
  BY <1>1, GraphSame, GraphsTyped DEF CallsInvariant
<1>9. VisitedIsReachable' /\ AsyncIsSlow'
  BY <1>1, <1>8 DEF OutcomeOK, VisitedIsReachable, AsyncIsSlow, Visiting, IsObject
<1>10. ErrorsAreBad'
  BY <1>1, <1>7, ErrorsStayBad DEF OutcomeOK
<1>11. LeafsAlone'
  BY <1>1, <1>7 DEF OutcomeOK, LeafsAlone, Visiting, IsObject
<1>12. DoneChildren'
  <2>1. \A x : Remaining(frame[x])' = Remaining(frame[x])
    BY <1>1
  <2>. QED  BY <1>1, <2>1, GraphSame DEF OutcomeOK, DoneChildren, IsObject
<1>13. Swallowed => Swallowed'
  BY <1>1, SwallowedStays
<1>14. ASSUME Early' PROVE EarlyOK'
  <2>1. Early /\ EarlyOK
    BY <1>2, <1>13, <1>14 DEF Early, OutcomeOK
  <2>2. returned = Root
    BY <1>1, <1>4, <2>1, NodesAssumption DEF EarlyOK, Handed
  <2>3. Visiting(Root)
    BY <1>2, <1>3, <1>14, <2>1, <2>2 DEF Early, Finished, Visiting
  <2>4. \A x \in Nodes : entry[x] # "error"
    BY <1>5, <2>1, <2>2, <2>3 DEF EarlyOK, ErrorsRise, ReturnedError, Visiting
  <2>5. ErrorsRise' /\ CyclesRise'
    BY <1>1, <2>4 DEF ErrorsRise, CyclesRise
  <2>6. Rooted'
    <3>1. \A x, y \in Nodes : Awaits(y, x) => Awaits(y, x)'
      BY <1>1, <1>5 DEF Awaits
    <3>. QED  BY <1>6, <2>1, <3>1, RootedStays DEF EarlyOK
  <2>7. Handed'
    BY <1>1 DEF Handed
  <2>8. OkChildren'
    BY <1>1, <1>8, <2>1, OkChildrenStay DEF EarlyOK
  <2>. QED  BY <2>5, <2>6, <2>7, <2>8 DEF EarlyOK
<1>15. VerdictIsRight'
  <2>1. CASE answer' = answer
    BY <1>1, <1>13, <2>1, StaysRight DEF OutcomeOK
  <2>2. CASE answer' # answer
    <3>1. returned = Root /\ answer = "none"
      BY <1>2, <2>2
    <3>2. /\ answer' = "ok" => entry[Root] = "ok"
          /\ answer' = "error" => entry[Root] = "error"
          /\ answer' = "unfinished" => Visiting(Root)
      BY <1>2, <1>3, <2>2, <3>1 DEF Finished, Visiting
    <3>3. entry[Root] = "ok" /\ ~Swallowed =>
            Failing = {} /\ \A n \in Unreffed : n \notin Beyond(n, Unreffed)
      BY <1>1, <3>1, RootIsWhole DEF Early
    <3>4. entry[Root] = "error" => Bad
      BY NodesAssumption DEF OutcomeOK, ErrorsAreBad
    <3>5. Visiting(Root) => Slow # {}
      <4>1. SUFFICES ASSUME Visiting(Root), IsObject(Root) PROVE Slow # {}
        BY NodesAssumption DEF OutcomeOK, AsyncIsSlow
      <4>2. frame[Root].on # None
        BY <1>5, <4>1, NodesAssumption DEF CallsInvariant, EntryOK, Live
      <4>3. frame[Root].on \in Nodes
        BY <4>2, NodesAssumption DEF CallsInvariant, TypeOK, Frames
      <4>4. frame[Root].isAsync
        BY <4>3, NodesAssumption DEF CallsInvariant, AwaitOK
      <4>. QED  BY <4>4, NodesAssumption DEF OutcomeOK, AsyncIsSlow
    <3>6. /\ Failing' = Failing /\ Unreffed' = Unreffed /\ Slow' = Slow /\ (Bad' <=> Bad)
          /\ \A n \in Nodes : (n \in Beyond(n, Unreffed))' <=> n \in Beyond(n, Unreffed)
          /\ Unreffed \subseteq Nodes
      BY <1>1, GraphSame DEF Unreffed, Reachable, Spread
    <3>7. answer' = "ok" =>
            Swallowed' \/ (Failing' = {} /\ \A n \in Unreffed' : ~(n \in Beyond(n, Unreffed))')
      BY <1>13, <3>2, <3>3, <3>6
    <3>8. (answer' = "error" => Bad') /\ (answer' = "unfinished" => Slow' # {})
      BY <3>2, <3>4, <3>5, <3>6
    <3>. QED  BY <3>7, <3>8 DEF VerdictIsRight, Bad
  <2>. QED  BY <2>1, <2>2
<1>. QED  BY <1>9, <1>10, <1>11, <1>12, <1>14, <1>15 DEF OutcomeOK

-----------------------------------------------------------------------------
(* All of them together.                                                   *)
LEMMA InitOutcome == Init => OutcomeOK
<1>. SUFFICES ASSUME Init PROVE OutcomeOK
  OBVIOUS
<1>1. /\ entry = [n \in Nodes |-> "none"]
      /\ frame = [n \in Nodes |-> Idle] /\ stack = <<>> /\ returned = None
      /\ answer = "none" /\ unhandled = FALSE
  BY DEF Init
<1>2. \A n \in Nodes : frame[n].on = None /\ frame[n].isAsync = FALSE /\ frame[n].failed = FALSE
  BY <1>1 DEF Idle
<1>3. \A n \in Nodes : entry[n] = "none" /\ ~OnStack(n) /\ ~Live(n)
  BY <1>1, <1>2 DEF OnStack, Has, Live
<1>4. ~Errors
  BY <1>1, <1>2, <1>3 DEF Errors
<1>5. VisitedIsReachable /\ ErrorsAreBad /\ AsyncIsSlow /\ LeafsAlone /\ DoneChildren
  BY <1>2, <1>3, <1>4
     DEF VisitedIsReachable, ErrorsAreBad, AsyncIsSlow, LeafsAlone, DoneChildren, Visiting
<1>6. ErrorsRise /\ CyclesRise /\ Rooted /\ Handed /\ OkChildren
  BY <1>1, <1>3 DEF ErrorsRise, CyclesRise, Rooted, AllLive, Handed, OkChildren
<1>7. VerdictIsRight
  BY <1>1 DEF VerdictIsRight
<1>. QED  BY <1>5, <1>6, <1>7 DEF OutcomeOK, EarlyOK

LEMMA SameOutcome ==
  ASSUME CallsInvariant, OutcomeOK, UNCHANGED vars
  PROVE  OutcomeOK'
<1>1. UNCHANGED <<graph, sync, entry, def, frame, stack, returned, answer, unhandled>>
  BY DEF vars, value, entries, outcome
<1>2. \A x : Remaining(frame[x])' = Remaining(frame[x])
  BY <1>1
<1>3. VisitedIsReachable' /\ AsyncIsSlow' /\ DoneChildren' /\ (Bad' <=> Bad)
  BY <1>1, <1>2, GraphSame
     DEF OutcomeOK, VisitedIsReachable, AsyncIsSlow, DoneChildren, Visiting, IsObject
<1>4. Errors' <=> Errors
  BY <1>1 DEF Errors, DoneWith, Live, OnStack, IsSlow, IsAwaited
<1>5. ErrorsAreBad' /\ LeafsAlone'
  BY <1>1, <1>3, <1>4 DEF OutcomeOK, ErrorsAreBad, LeafsAlone, Visiting, IsObject, ReturnedBusy
<1>6. Swallowed' <=> Swallowed
  BY <1>1 DEF Swallowed
<1>7. ASSUME Early' PROVE EarlyOK'
  <2>1. EarlyOK /\ GraphTypes
    BY <1>1, <1>6, <1>7, GraphsTyped DEF Early, OutcomeOK, CallsInvariant
  <2>2. ErrorsRise' /\ CyclesRise' /\ Handed'
    BY <1>1, <2>1
       DEF EarlyOK, ErrorsRise, CyclesRise, Handed, ReturnedError, IsUpperPart, OnStack, Above, IsAwaited
  <2>3. Rooted'
    <3>1. /\ \A x \in Nodes : Live(x)' <=> Live(x)
          /\ \A x, y \in Nodes : Awaits(y, x) => Awaits(y, x)'
      BY <1>1 DEF Live, OnStack, Awaits, Above, Hears, Top, Visiting
    <3>. QED  BY <2>1, <3>1, RootedStays DEF EarlyOK
  <2>4. OkChildren'
    BY <1>1, <2>1, NodesAssumption, OkChildrenStay DEF EarlyOK
  <2>. QED  BY <2>2, <2>3, <2>4 DEF EarlyOK
<1>8. VerdictIsRight'
  BY <1>1, <1>6, StaysRight DEF OutcomeOK
<1>. QED  BY <1>3, <1>5, <1>7, <1>8 DEF OutcomeOK

LEMMA NextOutcome == CallsInvariant /\ OutcomeOK /\ [Next]_vars => OutcomeOK'
<1>. SUFFICES ASSUME CallsInvariant, OutcomeOK, [Next]_vars PROVE OutcomeOK'
  OBVIOUS
<1>1. CASE UNCHANGED vars
  BY <1>1, SameOutcome
<1>2. CASE Next
  <2>1. Steps
    BY <1>2, StepsFollow DEF CallsInvariant
  <2>. QED  BY <2>1, ObjectOutcome, LeafOutcome, GoesOnOutcome, NotesErrorOutcome, FinishesOutcome,
               StartsToWaitOutcome, IsCircularOutcome, ResumesOutcome, SettleOutcome, ReturnOutcome
               DEF Steps
<1>. QED  BY <1>1, <1>2

(* The outcome of a visit is as its invariant says, and so the verdict that the
   caller gets is right. *)
THEOREM OutcomeStays == Spec => [](CallsInvariant /\ OutcomeOK)
<1>1. Init => CallsInvariant /\ OutcomeOK
  BY InitCalls, InitOutcome
<1>2. CallsInvariant /\ OutcomeOK /\ [Next]_vars => CallsInvariant' /\ OutcomeOK'
  BY NextCalls, NextOutcome
<1>. QED  BY <1>1, <1>2, PTL DEF Spec

(* A visit ends well only if nothing that it reaches fails and no cycle is left
   without refs, and badly only if something does or is. *)
THEOREM VerdictsAreRight == Spec => []VerdictIsRight
<1>1. OutcomeOK => VerdictIsRight
  BY DEF OutcomeOK
<1>. QED  BY <1>1, OutcomeStays, PTL

-----------------------------------------------------------------------------
(* What is logged.  A visit that is synchronous runs from the root, which  *)
(* is at the bottom of the stack; what would make it end otherwise than    *)
(* well is on its way up.                                                  *)
RunsFromRoot ==
  /\ stack # <<>> => Bottom(Root)
  /\ stack = <<>> /\ entry[Root] # "none" => returned = Root
  /\ \A x \in Nodes : OnStack(x) => ~frame[x].isAsync

Clean == \A n \in Nodes : entry[n] # "error" /\ ~frame[n].isAsync /\ ~frame[n].failed
Trouble ==
  \/ returned # None /\ entry[returned] \in {"error", "visiting"}
  \/ \E x \in Nodes : OnStack(x) /\ frame[x].failed

(* Each node that was visited is within the result that the root has, or will have
   when the calls that run return theirs. *)
Holds(U) ==
  /\ Root \in U
  /\ \A x \in U : Held(x) \subseteq U
  /\ \A x \in U, y \in Nodes : Above(x, y) \/ Hears(x, y) => y \in U
AllHeld == \A U \in SUBSET Nodes : Holds(U) => \A n \in Nodes : entry[n] # "none" => n \in U

SyncRun ==
  sync /\ answer = "none" /\ RunsFromRoot /\ (Clean \/ Trouble) /\ (Clean => AllHeld)
SyncOver ==
  sync /\ answer = "ok" /\ stack = <<>> /\ returned = None /\ entry[Root] # "none"
  /\ Clean /\ AllHeld /\ \A n \in Nodes : ~Visiting(n)

(* A ref in a result is one that was made. *)
GotRefs ==
  \A n \in Nodes : \A r \in ToSet(frame[n].got) : r.isRef => def[r.node] # "none"

EncodedOK ==
  /\ sync /\ answer = "none" => SyncRun
  /\ sync /\ answer = "ok" => SyncOver
  /\ GotRefs

LEMMA HeldSame ==
  ASSUME NEW x \in Nodes, frame'[x].got = frame[x].got
  PROVE  Held(x)' = Held(x)
BY DEF Held

(* While a result is handed up, what it is in does not get smaller. *)
LEMMA AllHeldStays ==
  ASSUME AllHeld, NEW n \in Nodes,
         \A x \in Nodes : x # n /\ entry'[x] # "none" => entry[x] # "none",
         \A x \in Nodes : Held(x) \subseteq Held(x)',
         \A x, y \in Nodes : Above(x, y) \/ Hears(x, y) =>
           Above(x, y)' \/ Hears(x, y)' \/ y \in Held(x)',
         entry[n] = "none" /\ entry'[n] # "none" =>
           n = Root \/ \E x \in Nodes : entry[x] # "none" /\ (Above(x, n)' \/ Hears(x, n)')
  PROVE  AllHeld'
<1>1. SUFFICES ASSUME NEW U \in SUBSET Nodes, Holds(U)', NEW m \in Nodes, entry'[m] # "none"
               PROVE  m \in U
  BY DEF AllHeld
<1>2. /\ Root \in U
      /\ \A x \in U : Held(x)' \subseteq U
      /\ \A x \in U, y \in Nodes : Above(x, y)' \/ Hears(x, y)' => y \in U
  BY <1>1 DEF Holds
<1>3. Holds(U)
  BY <1>2 DEF Holds
<1>4. \A x \in Nodes : entry[x] # "none" => x \in U
  BY <1>3 DEF AllHeld
<1>. QED  BY <1>1, <1>2, <1>4

LEMMA RestsAtRoot ==
  ASSUME CallsInvariant, RunsFromRoot, stack = <<>>
  PROVE  /\ returned # None => returned = Root
         /\ returned = None => \A n \in Nodes : entry[n] = "none"
<1>1. returned # None => entry[Root] # "none"
  <2>1. returned # None => returned \in Nodes /\ entry[returned] # "none"
    BY DEF CallsInvariant, TypeOK, ReturnedOK
  <2>. QED  BY <2>1 DEF CallsInvariant, EntryOK
<1>2. returned = None => entry[Root] = "none"
  BY NodesAssumption DEF RunsFromRoot
<1>. QED  BY <1>1, <1>2 DEF RunsFromRoot, CallsInvariant, EntryOK

LEMMA OneFirst ==
  ASSUME NEW s, NEW x, NEW y, First(s, x), First(s, y)
  PROVE  x = y
BY DEF First

-----------------------------------------------------------------------------
(* A synchronous visit goes on.                                            *)
LEMMA ObjectInSync ==
  ASSUME CallsInvariant, SyncRun, NEW n \in Nodes, StartsObject(n)
  PROVE  SyncRun'
<1>1. /\ stack' # <<>>
      /\ \A x : Has(stack', x) <=> OnStack(x) \/ x = n
      /\ \A x, y : Below(stack', x, y) <=> Above(x, y) \/ (stack # <<>> /\ x = Top /\ y = n)
      /\ \A x : First(stack', x) <=> IF stack = <<>> THEN x = n ELSE Bottom(x)
      /\ entry'[n] = "visiting" /\ \A x \in Nodes : x # n => entry'[x] = entry[x]
      /\ frame'[n] = NewFrame(n) /\ \A x \in Nodes : x # n => frame'[x] = frame[x]
      /\ returned = None /\ returned' = None
  BY ObjectFact
<1>2. /\ ~OnStack(n) /\ frame[n] = Idle
      /\ stack = <<>> <=> n = Root
      /\ stack # <<>> => Top # n
  BY ObjectFact
<1>3. /\ NewFrame(n).isAsync = FALSE /\ NewFrame(n).failed = FALSE /\ NewFrame(n).got = <<>>
      /\ Idle.isAsync = FALSE /\ Idle.failed = FALSE
  <2>1. IsObject(n) /\ GraphTypes
    BY GraphsTyped DEF StartsObject, CallsInvariant
  <2>. QED  BY <2>1, NewFrameFact DEF Idle
<1>4. sync' /\ answer' = "none"
  BY DEF SyncRun, StartsObject, value, outcome
<1>5. RunsFromRoot'
  <2>1. First(stack', Root)
    BY <1>1, <1>2 DEF SyncRun, RunsFromRoot
  <2>2. \A x \in Nodes : Has(stack', x) => ~frame'[x].isAsync
    BY <1>1, <1>3 DEF SyncRun, RunsFromRoot
  <2>. QED  BY <1>1, <2>1, <2>2 DEF RunsFromRoot, Bottom, OnStack
<1>6. Clean' <=> Clean
  BY <1>1, <1>2, <1>3 DEF Clean, StartsObject
<1>7. Trouble => Trouble'
  BY <1>1, <1>2 DEF Trouble, OnStack
<1>8. Clean' => AllHeld'
  <2>1. SUFFICES ASSUME Clean' PROVE AllHeld'
    OBVIOUS
  <2>2. AllHeld
    BY <1>6, <2>1 DEF SyncRun
  <2>3. \A x \in Nodes : Held(x) \subseteq Held(x)'
    <3>1. Held(n) = {}
      <4>1. Idle.got = <<>>
        BY Zenon DEF Idle
      <4>2. ToSet(frame[n].got) = {}
        BY <1>2, <4>1 DEF ToSet
      <4>. QED  BY <4>2 DEF Held
    <3>2. \A x \in Nodes : x # n => Held(x)' = Held(x)
      BY <1>1, HeldSame
    <3>. QED  BY <3>1, <3>2
  <2>4. \A x, y \in Nodes : Above(x, y) \/ Hears(x, y) => Above(x, y)'
    BY <1>1, NodesAssumption DEF Above, Hears
  <2>5. n = Root \/ \E x \in Nodes : entry[x] # "none" /\ Above(x, n)'
    <3>1. SUFFICES ASSUME n # Root PROVE \E x \in Nodes : entry[x] # "none" /\ Above(x, n)'
      OBVIOUS
    <3>2. stack # <<>>
      BY <1>2, <3>1
    <3>3. PICK t \in Nodes : t = Top /\ entry[t] # "none"
      BY <3>2, TopFact
    <3>4. Above(t, n)'
      BY <1>1, <3>2, <3>3 DEF Above
    <3>. QED  BY <3>3, <3>4
  <2>. QED  BY <1>1, <2>2, <2>3, <2>4, <2>5, AllHeldStays
<1>. QED  BY <1>4, <1>5, <1>6, <1>7, <1>8 DEF SyncRun

LEMMA LeafInSync ==
  ASSUME CallsInvariant, SyncRun, NEW n \in Nodes, StartsLeaf(n)
  PROVE  SyncRun'
<1>1. /\ entry'[n] \in {"visiting", "ok", "error"}
      /\ \A x \in Nodes : x # n => entry'[x] = entry[x]
      /\ returned' = n /\ n # None /\ entry[n] = "none"
      /\ UNCHANGED <<graph, sync, def, frame, stack, answer>>
  BY LeafFact
<1>2. /\ returned = None
      /\ stack = <<>> <=> n = Root
  BY <1>1, NextFact DEF StartsLeaf
<1>3. sync' /\ answer' = "none"
  BY <1>1 DEF SyncRun
<1>4. RunsFromRoot'
  BY <1>1, <1>2 DEF SyncRun, RunsFromRoot, Bottom, OnStack
<1>5. (Clean' => Clean) /\ (Clean /\ ~Clean' => Trouble')
  BY <1>1 DEF Clean, Trouble
<1>6. Trouble => Trouble'
  BY <1>1, <1>2 DEF Trouble, OnStack
<1>7. Clean' => AllHeld'
  <2>1. SUFFICES ASSUME Clean' PROVE AllHeld'
    OBVIOUS
  <2>2. AllHeld
    BY <1>5, <2>1 DEF SyncRun
  <2>3. \A x \in Nodes : Held(x) \subseteq Held(x)'
    BY <1>1, HeldSame
  <2>4. \A x, y \in Nodes : Above(x, y) \/ Hears(x, y) => Above(x, y)'
    BY <1>1, <1>2, NodesAssumption DEF Above, Hears
  <2>5. n = Root \/ \E x \in Nodes : entry[x] # "none" /\ Hears(x, n)'
    <3>1. SUFFICES ASSUME n # Root PROVE \E x \in Nodes : entry[x] # "none" /\ Hears(x, n)'
      OBVIOUS
    <3>2. stack # <<>>
      BY <1>2, <3>1
    <3>3. PICK t \in Nodes : t = Top /\ entry[t] # "none"
      BY <3>2, TopFact
    <3>4. Hears(t, n)'
      BY <1>1, <3>2, <3>3 DEF Hears, Top
    <3>. QED  BY <3>3, <3>4
  <2>. QED  BY <1>1, <2>2, <2>3, <2>4, <2>5, AllHeldStays
<1>. QED  BY <1>3, <1>4, <1>5, <1>6, <1>7 DEF SyncRun

LEMMA GoesOnInSync ==
  ASSUME CallsInvariant, SyncRun, NEW p \in Nodes, NEW n \in Nodes, NEW r \in Results,
         GoesOn(p, n, r)
  PROVE  SyncRun'
<1>1. PICK f \in Frames :
        /\ frame' = [frame EXCEPT ![p] = f]
        /\ f.isAsync = frame[p].isAsync /\ f.failed = frame[p].failed
        /\ f.got = Append(frame[p].got, r)
  BY ChildOver DEF GoesOn
<1>2. /\ Meets(p, n) /\ returned' = None /\ entry[n] # "error" /\ r.node = n
      /\ r.isRef => returned = None
      /\ returned = n => entry[n] = "ok"
      /\ UNCHANGED <<sync, entry, stack, answer>>
  BY NodesAssumption DEF GoesOn, value
<1>3. /\ stack # <<>> /\ p = Top /\ frame[p] \in Frames
      /\ returned = n \/ returned = None
  BY <1>2, MeetsFact DEF Meets
<1>4. frame'[p] = f /\ \A x \in Nodes : x # p => frame'[x] = frame[x]
  BY <1>1 DEF CallsInvariant, TypeOK
<1>5. \A x \in Nodes : frame'[x].isAsync = frame[x].isAsync /\ frame'[x].failed = frame[x].failed
  BY <1>1, <1>4
<1>6. RunsFromRoot'
  BY <1>2, <1>3, <1>5 DEF SyncRun, RunsFromRoot, Bottom, OnStack
<1>7. Clean' <=> Clean
  BY <1>2, <1>5 DEF Clean
<1>8. Trouble => Trouble'
  <2>1. ~(returned # None /\ entry[returned] \in {"error", "visiting"})
    BY <1>2, <1>3
  <2>. QED  BY <1>2, <1>5, <2>1 DEF Trouble, OnStack
<1>9. Clean' => AllHeld'
  <2>1. SUFFICES ASSUME Clean' PROVE AllHeld'
    OBVIOUS
  <2>2. AllHeld
    BY <1>7, <2>1 DEF SyncRun
  <2>3. ToSet(frame'[p].got) = ToSet(frame[p].got) \union {r}
    <3>1. frame[p].got \in Seq(Results)
      BY <1>3 DEF Frames
    <3>2. ToSet(Append(frame[p].got, r)) = ToSet(frame[p].got) \union {r}
      BY <3>1, AppendedSet
    <3>. QED  BY <1>1, <1>4, <3>2
  <2>4. \A x \in Nodes : Held(x) \subseteq Held(x)'
    BY <1>4, <2>3 DEF Held
  <2>5. returned = n => n \in Held(p)'
    <3>1. SUFFICES ASSUME returned = n PROVE n \in Held(p)'
      OBVIOUS
    <3>2. ~r.isRef
      BY <1>2, <3>1, NodesAssumption
    <3>. QED  BY <1>2, <2>3, <3>2 DEF Held
  <2>6. \A x, y \in Nodes : Above(x, y) \/ Hears(x, y) => Above(x, y)' \/ y \in Held(x)'
    BY <1>2, <1>3, <2>5, NodesAssumption DEF Above, Hears
  <2>. QED  BY <1>2, <2>2, <2>4, <2>6, AllHeldStays
<1>. QED  BY <1>2, <1>6, <1>7, <1>8, <1>9 DEF SyncRun

LEMMA NotesErrorInSync ==
  ASSUME CallsInvariant, SyncRun, NEW p \in Nodes, NEW n \in Nodes, NotesError(p, n)
  PROVE  SyncRun'
<1>1. PICK f \in Frames :
        /\ frame' = [frame EXCEPT ![p] = f]
        /\ f.isAsync = frame[p].isAsync /\ f.failed
  BY ErrorNoted
<1>2. /\ Meets(p, n) /\ returned' = None /\ UNCHANGED <<sync, entry, stack, answer>>
  BY DEF NotesError, value, entries
<1>3. stack # <<>> /\ OnStack(p)
  BY <1>2, MeetsFact
<1>4. frame'[p] = f /\ \A x \in Nodes : x # p => frame'[x] = frame[x]
  BY <1>1 DEF CallsInvariant, TypeOK
<1>5. \A x \in Nodes : frame'[x].isAsync = frame[x].isAsync
  BY <1>1, <1>4
<1>6. RunsFromRoot'
  BY <1>2, <1>3, <1>5 DEF SyncRun, RunsFromRoot, Bottom, OnStack
<1>7. ~Clean' /\ Trouble'
  BY <1>1, <1>2, <1>3, <1>4 DEF Clean, Trouble, OnStack
<1>. QED  BY <1>2, <1>6, <1>7 DEF SyncRun

LEMMA PoppedInSync ==
  ASSUME CallsInvariant, RunsFromRoot, NEW p \in Nodes, p = Top, stack # <<>>, stack' = Front(stack),
         returned' = p, \A x \in Nodes : x # p => frame'[x].isAsync = frame[x].isAsync
  PROVE  RunsFromRoot'
<1>1. /\ \A x : Has(stack', x) <=> OnStack(x) /\ x # p
      /\ stack' # <<>> => \A x : First(stack', x) <=> Bottom(x)
      /\ stack' = <<>> <=> Bottom(p)
  BY PoppedFact
<1>2. stack' # <<>> => First(stack', Root)
  BY <1>1 DEF RunsFromRoot
<1>3. stack' = <<>> => p = Root
  BY <1>1, OneFirst DEF RunsFromRoot, Bottom
<1>4. \A x \in Nodes : Has(stack', x) => ~frame'[x].isAsync
  BY <1>1 DEF RunsFromRoot
<1>. QED  BY <1>2, <1>3, <1>4 DEF RunsFromRoot, Bottom, OnStack

LEMMA FinishesInSync ==
  ASSUME CallsInvariant, SyncRun, NEW p \in Nodes, NEW how \in {"ok", "error"}, Finishes(p, how)
  PROVE  SyncRun'
<1>1. /\ stack # <<>> /\ p = Top /\ stack' = Front(stack) /\ returned' = p
      /\ entry'[p] = how /\ \A x \in Nodes : x # p => entry'[x] = entry[x]
      /\ UNCHANGED <<graph, sync, frame, answer>>
      /\ OnStack(p) /\ entry[p] \in {"visiting", "error"}
      /\ p # None
  BY OverFact, NodesAssumption
<1>2. /\ \A x : Has(stack', x) <=> OnStack(x) /\ x # p
      /\ \A x, y : Below(stack', x, y) <=> Above(x, y) /\ y # p
      /\ stack' # <<>> => Above(Top', p)
      /\ stack' = <<>> <=> Bottom(p)
  BY <1>1, PoppedFact
<1>3. \/ /\ returned = None
         /\ how = "error" <=> frame[p].failed /\ ~frame[p].isAsync
      \/ /\ \E n \in Nodes : entry[n] = "error"
         /\ how = "ok" => returned = None /\ ~frame[p].failed
  BY DEF Finishes
<1>4. ~frame[p].isAsync
  BY <1>1 DEF SyncRun, RunsFromRoot
<1>5. RunsFromRoot'
  BY <1>1, PoppedInSync DEF SyncRun
<1>6. how = "error" => Trouble' /\ ~Clean'
  BY <1>1 DEF Trouble, Clean
<1>7. how = "ok" => ~frame[p].failed /\ returned = None
  BY <1>3, <1>4
<1>8. how = "ok" /\ Trouble => Trouble' /\ ~Clean'
  <2>1. SUFFICES ASSUME how = "ok", Trouble PROVE Trouble' /\ ~Clean'
    OBVIOUS
  <2>2. PICK x \in Nodes : OnStack(x) /\ frame[x].failed
    BY <1>7, <2>1 DEF Trouble
  <2>3. Has(stack', x) /\ frame'[x].failed
    BY <1>1, <1>2, <1>7, <2>1, <2>2
  <2>. QED  BY <2>3 DEF Trouble, Clean, OnStack
<1>9. how = "ok" /\ Clean => Clean'
  BY <1>1 DEF Clean
<1>10. how = "ok" /\ Clean => AllHeld'
  <2>1. SUFFICES ASSUME how = "ok", AllHeld PROVE AllHeld'
    BY DEF SyncRun
  <2>2. \A x \in Nodes : Held(x) \subseteq Held(x)'
    BY <1>1, HeldSame
  <2>3. \A x, y \in Nodes : Above(x, y) => Above(x, y)' \/ Hears(x, y)'
    <3>1. SUFFICES ASSUME NEW x \in Nodes, Above(x, p) PROVE Hears(x, p)'
      BY <1>2 DEF Above
    <3>2. ~Bottom(p)
      <4>1. stack \in Seq(Nodes) /\ Once(stack)
        BY DEF CallsInvariant, TypeOK, StackOK
      <4>. QED  BY <3>1, <4>1, NobodyBelowFirst DEF Above, Bottom
    <3>3. stack' # <<>> /\ x = Top'
      BY <1>2, <3>1, <3>2, OneBelow
    <3>. QED  BY <1>1, <3>3 DEF Hears
  <2>4. \A x, y \in Nodes : ~Hears(x, y)
    BY <1>7, <2>1, NodesAssumption DEF Hears
  <2>. QED  BY <1>1, <2>1, <2>2, <2>3, <2>4, AllHeldStays
<1>11. sync' /\ answer' = "none"
  BY <1>1 DEF SyncRun
<1>. QED  BY <1>5, <1>6, <1>8, <1>9, <1>10, <1>11 DEF SyncRun

LEMMA StartsToWaitInSync ==
  ASSUME CallsInvariant, SyncRun, NEW p \in Nodes, NEW n \in Nodes, StartsToWait(p, n)
  PROVE  SyncRun'
<1>1. /\ stack # <<>> /\ p = Top /\ stack' = Front(stack)
      /\ returned' = IF frame[p].isAsync THEN None ELSE p
      /\ UNCHANGED <<graph, sync, entries, answer>>
      /\ OnStack(p) /\ entry[p] \in {"visiting", "error"}
  BY WaitFact
<1>2. /\ frame'[p].isAsync /\ \A x \in Nodes : x # p => frame'[x] = frame[x]
  BY WaitFact
<1>3. ~frame[p].isAsync
  BY <1>1 DEF SyncRun, RunsFromRoot
<1>4. RunsFromRoot'
  BY <1>1, <1>2, <1>3, PoppedInSync DEF SyncRun
<1>5. Trouble' /\ ~Clean'
  BY <1>1, <1>2, <1>3, NodesAssumption DEF Trouble, Clean, entries
<1>. QED  BY <1>1, <1>4, <1>5 DEF SyncRun

LEMMA IsCircularInSync ==
  ASSUME CallsInvariant, SyncRun, NEW p \in Nodes, NEW n \in Nodes, IsCircular(p, n)
  PROVE  SyncRun'
<1>1. /\ stack # <<>> /\ returned' = n /\ entry'[n] = "error" /\ n # None
      /\ UNCHANGED <<sync, frame, stack, answer>>
  BY CircularFact
<1>2. RunsFromRoot'
  BY <1>1 DEF SyncRun, RunsFromRoot, Bottom, OnStack
<1>3. Trouble' /\ ~Clean'
  BY <1>1 DEF Trouble, Clean
<1>. QED  BY <1>1, <1>2, <1>3 DEF SyncRun

-----------------------------------------------------------------------------
(* It never comes to wait before its caller has its answer.                *)
LEMMA ReturnInSync ==
  ASSUME CallsInvariant, SyncRun, ReturnToCaller
  PROVE  /\ answer' # "none"
         /\ answer' = "ok" => SyncOver'
<1>1. /\ stack = <<>> /\ returned # None /\ returned' = None
      /\ UNCHANGED <<graph, sync, entry, def, frame, stack>>
      /\ answer' = IF returned # Root \/ answer # "none" THEN answer
                   ELSE IF Finished(Root) THEN entry[Root]
                   ELSE IF sync THEN "unfinished" ELSE "none"
  BY DEF ReturnToCaller, value, entries
<1>2. returned = Root /\ answer = "none" /\ sync
  BY <1>1, RestsAtRoot DEF SyncRun
<1>3. /\ answer' # "none"
      /\ answer' = "ok" => entry[Root] = "ok"
  BY <1>1, <1>2 DEF Finished
<1>4. SUFFICES ASSUME entry[Root] = "ok", answer' = "ok" PROVE SyncOver'
  BY <1>3
<1>5. \A x, y : ~OnStack(x) /\ ~Above(x, y) /\ ~Hears(x, y)
  BY <1>1 DEF OnStack, Has, Above, Below, Hears
<1>6. Clean /\ AllHeld
  BY <1>2, <1>4, <1>5 DEF SyncRun, Trouble
<1>7. AllHeld'
  <2>1. \A x \in Nodes : Held(x) \subseteq Held(x)'
    BY <1>1, HeldSame
  <2>. QED  BY <1>1, <1>5, <1>6, <2>1, NodesAssumption, AllHeldStays
<1>8. \A n \in Nodes : ~Visiting(n)
  <2>1. \A n \in Nodes : frame[n].on = None
    BY <1>6 DEF Clean, CallsInvariant, AwaitOK, TypeOK, Frames
  <2>. QED  BY <1>2, <1>4, <1>5, <2>1, NodesAssumption
            DEF CallsInvariant, EntryOK, Live, IsAwaited, Visiting
<1>. QED  BY <1>1, <1>2, <1>4, <1>6, <1>7, <1>8 DEF SyncOver, Clean, Visiting

LEMMA NoWaitInSync ==
  ASSUME CallsInvariant, SyncRun
  PROVE  /\ \A p \in Nodes : ~Resumes(p)
         /\ \A n \in Nodes : ~Settle(n)
<1>1. ASSUME NEW p \in Nodes, Resumes(p) PROVE FALSE
  BY <1>1, ResumedFact, RestsAtRoot DEF SyncRun
<1>2. ASSUME NEW n \in Nodes, Settle(n) PROVE FALSE
  BY <1>2, SettledFact, RestsAtRoot DEF SyncRun
<1>. QED  BY <1>1, <1>2

LEMMA NothingAfterSync ==
  ASSUME CallsInvariant, SyncOver
  PROVE  ~Steps
<1>1. stack = <<>> /\ returned = None /\ entry[Root] # "none"
  BY DEF SyncOver
<1>2. \A n \in Nodes : ~IsNext(n)
  BY <1>1 DEF IsNext, Running
<1>3. \A n \in Nodes : ~StartsObject(n) /\ ~StartsLeaf(n)
  BY <1>2 DEF StartsObject, StartsLeaf
<1>4. \A n \in Nodes : ~Settle(n)
  <2>1. SUFFICES ASSUME NEW n \in Nodes, Settle(n) PROVE FALSE
    OBVIOUS
  <2>2. IsAwaited(n)
    BY <2>1, SettledFact DEF SyncOver
  <2>3. PICK p \in Nodes : frame[p].isAsync
    BY <2>2 DEF IsAwaited, CallsInvariant, AwaitOK
  <2>. QED  BY <2>3 DEF SyncOver, Clean
<1>5. \A p, n \in Nodes : ~NotesError(p, n) /\ ~StartsToWait(p, n) /\ ~IsCircular(p, n)
  BY <1>1 DEF NotesError, StartsToWait, IsCircular, Meets, Running
<1>6. \A p, n \in Nodes, r \in Results : ~GoesOn(p, n, r)
  BY <1>1 DEF GoesOn, Meets
<1>7. \A p \in Nodes, how \in {"ok", "error"} : ~Finishes(p, how)
  BY <1>1 DEF Finishes
<1>8. \A p \in Nodes : ~Resumes(p)
  BY <1>1 DEF Resumes
<1>9. ~ReturnToCaller
  BY <1>1 DEF ReturnToCaller
<1>. QED  BY <1>3, <1>4, <1>5, <1>6, <1>7, <1>8, <1>9 DEF Steps

-----------------------------------------------------------------------------
(* A ref is there for good, and before a result has it.                    *)
LEMMA GotRefsStay ==
  ASSUME GotRefs, NEW p \in Nodes,
         \A x \in Nodes : def[x] # "none" => def'[x] # "none",
         frame \in [Nodes -> Frames],
         \A x \in Nodes : x # p => frame'[x] = frame[x],
         \A r \in ToSet(frame'[p].got) : r \in ToSet(frame[p].got) \/ (r.isRef => def'[r.node] # "none")
  PROVE  GotRefs'
<1>1. ASSUME NEW x \in Nodes, NEW r \in ToSet(frame[x].got), r.isRef PROVE def'[r.node] # "none"
  <2>1. frame[x].got \in Seq(Results)
    BY DEF Frames
  <2>2. r \in Results
    BY <2>1 DEF ToSet
  <2>3. r.node \in Nodes
    BY <2>2 DEF Results
  <2>. QED  BY <1>1, <2>3 DEF GotRefs
<1>2. ASSUME NEW x \in Nodes, NEW r \in ToSet(frame'[x].got), r.isRef PROVE def'[r.node] # "none"
  <2>1. CASE x = p
    BY <1>1, <1>2, <2>1
  <2>2. CASE x # p
    BY <1>1, <1>2, <2>2
  <2>. QED  BY <2>1, <2>2
<1>. QED  BY <1>2 DEF GotRefs

LEMMA StepsKeepRefs ==
  ASSUME CallsInvariant, GotRefs, Steps
  PROVE  GotRefs'
<1>1. frame \in [Nodes -> Frames] /\ Root \in Nodes
  BY NodesAssumption DEF CallsInvariant, TypeOK
<1>2. ASSUME NEW n \in Nodes, StartsObject(n) PROVE GotRefs'
  <2>1. /\ frame'[n] = NewFrame(n) /\ \A x \in Nodes : x # n => frame'[x] = frame[x]
    BY <1>2, ObjectFact
  <2>2. NewFrame(n).got = <<>> /\ def' = def
    BY <1>2, NewFrameFact, GraphsTyped DEF StartsObject, CallsInvariant
  <2>3. ToSet(frame'[n].got) = {}
    BY <2>1, <2>2 DEF ToSet
  <2>. QED  BY <1>1, <2>1, <2>2, <2>3, GotRefsStay
<1>3. ASSUME NEW n \in Nodes, StartsLeaf(n) PROVE GotRefs'
  <2>1. UNCHANGED <<def, frame>>
    BY <1>3, LeafFact
  <2>. QED  BY <2>1 DEF GotRefs
<1>4. ASSUME NEW n \in Nodes, Settle(n) PROVE GotRefs'
  <2>1. UNCHANGED frame /\ \A x \in Nodes : def[x] # "none" => def'[x] # "none"
    BY <1>4, SettledFact DEF FinishDef
  <2>. QED  BY <1>1, <2>1, GotRefsStay
<1>5. ASSUME NEW p \in Nodes, NEW n \in Nodes, NotesError(p, n) PROVE GotRefs'
  <2>1. PICK f \in Frames : frame' = [frame EXCEPT ![p] = f] /\ f.got = frame[p].got
    BY <1>5, ErrorNoted
  <2>2. frame'[p] = f /\ \A x \in Nodes : x # p => frame'[x] = frame[x]
    BY <1>1, <2>1
  <2>3. def' = def
    BY <1>5 DEF NotesError, entries
  <2>. QED  BY <1>1, <2>1, <2>2, <2>3, GotRefsStay
<1>6. ASSUME NEW p \in Nodes, NEW n \in Nodes, StartsToWait(p, n) PROVE GotRefs'
  <2>1. /\ frame'[p].got = frame[p].got /\ \A x \in Nodes : x # p => frame'[x] = frame[x]
        /\ def' = def
    BY <1>6, WaitFact DEF entries
  <2>. QED  BY <1>1, <2>1, GotRefsStay
<1>7. ASSUME NEW p \in Nodes, NEW n \in Nodes, IsCircular(p, n) PROVE GotRefs'
  <2>1. UNCHANGED <<def, frame>>
    BY <1>7, CircularFact
  <2>. QED  BY <2>1 DEF GotRefs
<1>8. ASSUME NEW p \in Nodes, NEW n \in Nodes, NEW r \in Results, GoesOn(p, n, r) PROVE GotRefs'
  <2>1. PICK f \in Frames : frame' = [frame EXCEPT ![p] = f] /\ f.got = Append(frame[p].got, r)
    BY <1>8, ChildOver DEF GoesOn
  <2>2. frame'[p] = f /\ \A x \in Nodes : x # p => frame'[x] = frame[x]
    BY <1>1, <2>1
  <2>3. /\ Meets(p, n) /\ RefsMove(n) /\ r.node = n /\ UNCHANGED <<graph, entry>>
        /\ r.isRef => def'[n] # "none"
    BY <1>8 DEF GoesOn, value
  <2>4. \A x \in Nodes : def[x] # "none" => def'[x] # "none"
    BY <2>3, MeetsFact, RefsMoveKeeps
  <2>5. ToSet(frame'[p].got) = ToSet(frame[p].got) \union {r}
    <3>1. frame[p].got \in Seq(Results)
      BY <1>1 DEF Frames
    <3>2. ToSet(Append(frame[p].got, r)) = ToSet(frame[p].got) \union {r}
      BY <3>1, AppendedSet
    <3>. QED  BY <2>1, <2>2, <3>2
  <2>. QED  BY <1>1, <2>2, <2>3, <2>4, <2>5, GotRefsStay
<1>9. ASSUME NEW p \in Nodes, NEW how \in {"ok", "error"}, Finishes(p, how) PROVE GotRefs'
  <2>1. UNCHANGED frame /\ \A x \in Nodes : def[x] # "none" => def'[x] # "none"
    BY <1>9, OverFact DEF FinishDef
  <2>. QED  BY <1>1, <2>1, GotRefsStay
<1>10. ASSUME NEW p \in Nodes, Resumes(p) PROVE GotRefs'
  <2>1. /\ frame'[p].got = frame[p].got /\ \A x \in Nodes : x # p => frame'[x] = frame[x]
        /\ def' = def
    BY <1>10, ResumedFact DEF entries
  <2>. QED  BY <1>1, <2>1, GotRefsStay
<1>11. ASSUME ReturnToCaller PROVE GotRefs'
  <2>1. UNCHANGED <<def, frame>>
    BY <1>11 DEF ReturnToCaller, entries
  <2>. QED  BY <2>1 DEF GotRefs
<1>. QED  BY <1>2, <1>3, <1>4, <1>5, <1>6, <1>7, <1>8, <1>9, <1>10, <1>11 DEF Steps

-----------------------------------------------------------------------------
(* All of them together.                                                   *)
LEMMA InitEncoded == Init => EncodedOK
<1>. SUFFICES ASSUME Init PROVE EncodedOK
  OBVIOUS
<1>1. /\ entry = [n \in Nodes |-> "none"]
      /\ frame = [n \in Nodes |-> Idle] /\ stack = <<>> /\ returned = None /\ answer = "none"
  BY DEF Init
<1>2. \A n \in Nodes : frame[n].isAsync = FALSE /\ frame[n].failed = FALSE
  BY <1>1 DEF Idle
<1>3. \A n \in Nodes : ToSet(frame[n].got) = {}
  <2>1. Idle.got = <<>>
    BY Zenon DEF Idle
  <2>. QED  BY <1>1, <2>1 DEF ToSet
<1>4. Clean /\ AllHeld /\ GotRefs
  BY <1>1, <1>2, <1>3 DEF Clean, AllHeld, GotRefs
<1>5. RunsFromRoot
  BY <1>1, <1>2, NodesAssumption DEF RunsFromRoot
<1>. QED  BY <1>1, <1>4, <1>5 DEF EncodedOK, SyncRun

LEMMA StepsEncode ==
  ASSUME CallsInvariant, EncodedOK, Steps
  PROVE  EncodedOK'
<1>1. GotRefs'
  BY StepsKeepRefs DEF EncodedOK
<1>2. sync' = sync /\ (answer' = answer \/ ReturnToCaller)
  BY DEF Steps, StartsObject, StartsLeaf, Settle, NotesError, StartsToWait, IsCircular, GoesOn,
         Finishes, Resumes, ReturnToCaller, value, outcome
<1>3. answer # "none" => answer' = answer
  BY <1>2 DEF ReturnToCaller
<1>4. CASE sync /\ answer = "none"
  <2>1. SyncRun
    BY <1>4 DEF EncodedOK
  <2>2. CASE ReturnToCaller
    BY <1>1, <2>1, <2>2, ReturnInSync DEF EncodedOK
  <2>3. CASE ~ReturnToCaller
    <3>1. SyncRun'
      BY <2>1, <2>3, ObjectInSync, LeafInSync, GoesOnInSync, NotesErrorInSync, FinishesInSync,
         StartsToWaitInSync, IsCircularInSync, NoWaitInSync DEF Steps
    <3>. QED  BY <1>1, <3>1 DEF EncodedOK, SyncRun
  <2>. QED  BY <2>2, <2>3
<1>5. CASE sync /\ answer = "ok"
  BY <1>5, NothingAfterSync DEF EncodedOK
<1>6. CASE ~sync \/ answer \notin {"none", "ok"}
  BY <1>1, <1>2, <1>3, <1>6 DEF EncodedOK
<1>. QED  BY <1>4, <1>5, <1>6

LEMMA SameEncoded ==
  ASSUME EncodedOK, UNCHANGED vars
  PROVE  EncodedOK'
<1>1. UNCHANGED <<graph, sync, entry, def, frame, stack, returned, answer>>
  BY DEF vars, value, entries, outcome
<1>2. AllHeld => AllHeld'
  <2>1. /\ \A x \in Nodes : Held(x) \subseteq Held(x)'
        /\ \A x, y \in Nodes : Above(x, y) \/ Hears(x, y) => Above(x, y)' \/ Hears(x, y)'
    BY <1>1 DEF Held, Above, Hears, Top
  <2>. QED  BY <1>1, <2>1, NodesAssumption, AllHeldStays
<1>3. SyncRun => SyncRun'
  <2>1. (RunsFromRoot => RunsFromRoot') /\ (Clean <=> Clean') /\ (Trouble => Trouble')
    BY <1>1 DEF RunsFromRoot, Clean, Trouble, OnStack, Bottom
  <2>. QED  BY <1>1, <1>2, <2>1 DEF SyncRun
<1>4. SyncOver => SyncOver'
  BY <1>1, <1>2 DEF SyncOver, Clean, Visiting
<1>5. GotRefs => GotRefs'
  BY <1>1 DEF GotRefs
<1>. QED  BY <1>1, <1>3, <1>4, <1>5 DEF EncodedOK

(* What is logged stays as said above, for as long as the visit runs and after. *)
THEOREM EncodedStays == Spec => [](CallsInvariant /\ EncodedOK)
<1>1. Init => CallsInvariant /\ EncodedOK
  BY InitCalls, InitEncoded
<1>2. CallsInvariant /\ EncodedOK /\ [Next]_vars => CallsInvariant' /\ EncodedOK'
  <2>1. CallsInvariant /\ EncodedOK /\ Next => EncodedOK'
    BY StepsFollow, StepsEncode DEF CallsInvariant
  <2>. QED  BY <2>1, NextCalls, SameEncoded
<1>. QED  BY <1>1, <1>2, PTL DEF Spec

LEMMA WithinFact ==
  ASSUME CallsInvariant, NEW T \in SUBSET Nodes, NEW S
  PROVE  /\ T \subseteq Within(T, S) /\ Within(T, S) \subseteq Nodes
         /\ \A m \in Within(T, S) \ S : Held(m) \subseteq Within(T, S)
<1>1. T \subseteq Within(T, S) /\ Within(T, S) \subseteq Nodes
  BY DEF Within
<1>2. ASSUME NEW m \in Within(T, S) \ S, NEW n \in Held(m) PROVE n \in Within(T, S)
  <2>1. n \in Nodes
    <3>1. frame[m].got \in Seq(Results)
      BY <1>1 DEF CallsInvariant, TypeOK, Frames
    <3>2. \A r \in ToSet(frame[m].got) : r \in Results
      BY <3>1 DEF ToSet
    <3>. QED  BY <3>2 DEF Held, Results
  <2>2. ASSUME NEW U \in SUBSET Nodes, T \subseteq U, \A k \in U \ S : Held(k) \subseteq U
        PROVE  n \in U
    <3>1. m \in U
      BY <2>2 DEF Within
    <3>. QED  BY <2>2, <3>1
  <2>. QED  BY <2>1, <2>2 DEF Within
<1>. QED  BY <1>1, <1>2

LEMMA EncodedHasDefs == CallsInvariant /\ EncodedOK => RefsAreDefined
<1>. SUFFICES ASSUME CallsInvariant, EncodedOK, answer = "ok", sync, NEW n \in RefsWritten
              PROVE  n \in DefsWritten \/ \E d \in DefsWritten : d # n /\ n \in Within({d}, {})
  BY DEF RefsAreDefined, IsLogged
<1>1. SyncOver /\ GotRefs
  BY DEF EncodedOK
<1>2. PICK m \in Within({Root}, {}) : n \in RefsHeld(m)
  BY DEF RefsWritten
<1>3. PICK r \in ToSet(frame[m].got) : r.isRef /\ r.node = n
  BY <1>2 DEF RefsHeld
<1>4. m \in Nodes /\ n \in Nodes /\ def[n] # "none"
  <2>1. m \in Nodes
    BY <1>2 DEF Within
  <2>2. frame[m].got \in Seq(Results)
    BY <2>1 DEF CallsInvariant, TypeOK, Frames
  <2>3. r \in Results
    BY <2>2 DEF ToSet
  <2>. QED  BY <1>1, <1>3, <2>1, <2>3 DEF GotRefs, Results
<1>5. n \in WithRef /\ entry[n] # "none"
  BY <1>4 DEF CallsInvariant, RefsKept, WithRef
<1>. DEFINE W == Within({Root}, WithRef)
            U == W \union UNION {Within({d}, {}) : d \in DefsWritten}
<1>6. Root \in W /\ W \subseteq Nodes /\ \A x \in W \ WithRef : Held(x) \subseteq W
  BY NodesAssumption, WithinFact
<1>7. DefsWritten = W \intersect WithRef
  BY DEF DefsWritten
<1>8. ASSUME NEW d \in DefsWritten
      PROVE  d \in Within({d}, {}) /\ Within({d}, {}) \subseteq Nodes
             /\ \A x \in Within({d}, {}) : Held(x) \subseteq Within({d}, {})
  BY <1>6, <1>7, WithinFact
<1>. HIDE DEF W
<1>9. U \subseteq Nodes /\ Root \in U
  BY <1>6, <1>8
<1>10. ASSUME NEW x \in U PROVE Held(x) \subseteq U
  <2>1. CASE x \in W \ WithRef
    BY <1>6, <2>1
  <2>2. CASE x \in DefsWritten
    BY <1>8, <2>2
  <2>3. CASE \E d \in DefsWritten : x \in Within({d}, {})
    <3>1. PICK d \in DefsWritten : x \in Within({d}, {})
      BY <2>3
    <3>. QED  BY <1>8, <3>1
  <2>. QED  BY <1>7, <2>1, <2>2, <2>3
<1>11. \A x, y : ~Above(x, y) /\ ~Hears(x, y)
  BY <1>1 DEF SyncOver, Above, Below, Hears
<1>12. Holds(U)
  BY <1>9, <1>10, <1>11 DEF Holds
<1>13. n \in U
  <2>. HIDE DEF U
  <2>. QED  BY <1>1, <1>4, <1>5, <1>9, <1>12 DEF SyncOver, AllHeld
<1>. QED  BY <1>5, <1>7, <1>13

(* Each ref in what is logged has its def there, or within the value of another
   def. *)
THEOREM RefsHaveDefs == Spec => []RefsAreDefined
BY EncodedStays, EncodedHasDefs, PTL
=============================================================================
