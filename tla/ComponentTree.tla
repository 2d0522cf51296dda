---------------------------- MODULE ComponentTree ----------------------------
(***************************************************************************)
(* A hierarchy of components that grows while it lives: BaseComponent,     *)
(* ControlContext, RootControlContext and TemplAggregateComponent of       *)
(* src/compy with the Condition of src/async that they wait on, and the    *)
(* managers of src/webapp-core (ComponentManager and HostManager).         *)
(*                                                                         *)
(* There is a root with one manager, as WebappRoot has four, and leaves    *)
(* below the manager: those that the root's configuration names, and those *)
(* that anybody adds with addAll(), before the hierarchy is started, while *)
(* it starts, runs or stops, or later.  WebappRoot.tla has all four        *)
(* managers, whose members are all there from the start.                   *)
(*                                                                         *)
(* A step is what an async method does between two awaits.  A method of    *)
(* one component is not called again before the last call of it has ended. *)
(***************************************************************************)
EXTENDS Integers, Sequences, FiniteSets, SequencesExt

CONSTANTS
  Root, Manager, Leaves,
  Configured,        \* the leaves that the root adds, in order
  GivenName,         \* the configured name of each component, or NoName
  ClassName,         \* what the name of a component without one begins with
  HostNames,         \* the hostnames of each leaf, in order
  Lists,             \* what is passed to addAll(); nothing happens without a child
  Callers, Waiters,  \* bound: the calls of addAll() and of whenStopped()
  MaxStarts          \* bound: the calls of the root's start()

(* A name is <<beginning, number>>; that of a class is a beginning. *)
NoName == <<>>
Components == {Root, Manager} \union Leaves

ASSUME TreeAssumption ==
  /\ Root # Manager /\ {Root, Manager} \intersect Leaves = {}
  /\ Configured \in Seq(Leaves) /\ Lists \subseteq Seq(Leaves) \ {<<>>}
  /\ DOMAIN GivenName = Components /\ DOMAIN ClassName = Components
  /\ DOMAIN HostNames = Leaves /\ \A c \in Leaves : HostNames[c] \in Seq(ToSet(HostNames[c]))
  /\ "init" \notin Callers /\ MaxStarts \in Nat

VARIABLES
  context,    \* #context: none, a NascentContext, or ready
  hasParent,  \* #hasParent of a nascent one
  path,       \* namePath of a ready one
  state,      \* state
  tree,       \* #contextTree: the component at each path
  op,         \* the calls of init(), start() and stop() of each component
  call,       \* the calls of addAll(), and the root's _impl_init()
  hostMap,    \* #hostMap of a manager that keeps one
  waiter,     \* the calls of the root's whenStopped()
  starts,     \* how often start() of the root was called
  leftOut     \* leaves that were added while the manager was starting

hierarchy == <<context, hasParent, path, tree>>
vars == <<hierarchy, state, op, call, hostMap, waiter, starts, leftOut>>

Kinds == {"init", "start", "stop"}
AllCalls == Callers \union {"init"}

(* The state that a call begins in, the one it goes through, and its target. *)
From(kind) == IF kind = "start" THEN "stopped" ELSE "running"
During(kind) == CASE kind = "init" -> "initializing" [] kind = "start" -> "starting"
                  [] kind = "stop" -> "stopping"
Target(kind) == IF kind = "start" THEN "running" ELSE "stopped"

(* Nothing; the root's start() awaits its init() or has seen it return; the own
   work, with the calls below that it awaits; the rest after the target state. *)
NoOp == [at |-> "none", waits |-> {}, failed |-> FALSE]
NoCall == [at |-> "none", todo |-> <<>>]
Done == [at |-> "done", todo |-> <<>>]
Thrown == [at |-> "threw", todo |-> <<>>]

TypeOK ==
  /\ context \in [Components -> {"none", "nascent", "ready"}]
  /\ hasParent \in [Components -> BOOLEAN]
  /\ \A c \in Components : Len(path[c]) <= 2
  /\ state \in [Components ->
                  {"new", "stopped", "running"} \union {During(k) : k \in Kinds}]
  /\ \A q \in DOMAIN tree : tree[q] \in Components
  /\ op \in [Components -> [Kinds ->
       [at : {"none", "init", "inited", "work", "tail"},
        waits : SUBSET Components, failed : BOOLEAN]]]
  /\ \A k \in AllCalls : call[k].at \in {"none", "maps", "adds", "init", "inited", "start", "done", "threw"}
  /\ hostMap.kept \in BOOLEAN
  /\ waiter \in [Waiters -> {"none", "waits", "woken", "returned"}]
  /\ starts \in 0 .. MaxStarts
  /\ leftOut \subseteq Leaves

(* The root is constructed, and its constructor has put it into its tree. *)
Init ==
  /\ context = [c \in Components |-> IF c = Root THEN "nascent" ELSE "none"]
  /\ hasParent = [c \in Components |-> FALSE]
  /\ path = [c \in Components |-> <<>>]
  /\ state = [c \in Components |-> "new"]
  /\ tree = [q \in {<<>>} |-> Root]
  /\ op = [c \in Components |-> [k \in Kinds |-> NoOp]]
  /\ call = [k \in AllCalls |-> NoCall]
  /\ \E kept \in BOOLEAN : hostMap = [kept |-> kept, of |-> <<>>]
  /\ waiter = [w \in Waiters |-> "none"]
  /\ starts = 0
  /\ leftOut = {}

-----------------------------------------------------------------------------
\* The contexts and their names.

Ready(c) == context[c] = "ready"

(* children(): what the tree has one level below. *)
Children(c) ==
  {tree[q] : q \in {r \in DOMAIN tree : Len(r) = Len(path[c]) + 1 /\ IsPrefix(path[c], r)}}

(* getComponentElseNull(): the component at a path, if there is one. *)
GetComponent(q) == {tree[r] : r \in {q} \intersect DOMAIN tree}

(* #pathKeyForChild() *)
PathKeyForChild(p, c) ==
  LET taken == {q[Len(q)] : q \in {r \in DOMAIN tree : Len(r) = Len(path[p]) + 1
                                                       /\ IsPrefix(path[p], r)}}
      free == {n \in 1 .. Cardinality(taken) + 1 : <<ClassName[c], n>> \notin taken}
  IN  Append(path[p], IF GivenName[c] # NoName THEN GivenName[c]
                      ELSE <<ClassName[c], CHOOSE n \in free : \A m \in free : n <= m>>)

(* Mutant of CanBeAdded: only the check of nascent ones. *)
LooksUnparented(c) == ~(context[c] = "nascent" /\ hasParent[c])

(* #flattenForAdd() *)
CanBeAdded(c) == ~Ready(c) /\ ~(context[c] = "nascent" /\ hasParent[c])

-----------------------------------------------------------------------------
\* States, and who waits for them.

(* Condition.onOff(): everyone who awaits the promise of whenTrue() goes on, later. *)
Pulsed(newState) ==
  [w \in Waiters |-> IF waiter[w] = "waits" /\ newState[Root] # state[Root]
                     THEN "woken" ELSE waiter[w]]

(* setState() *)
SetStates(newState) == state' = newState /\ waiter' = Pulsed(newState)
SetState(c, s) == SetStates([state EXCEPT ![c] = s])

(* whenStopped() and whenState(): looks, and awaits the condition. *)
WhenStopped(w) ==
  /\ waiter[w] \in {"none", "woken"}
  /\ state[Root] # "new"
  /\ waiter' = [waiter EXCEPT ![w] = IF state[Root] = "stopped" THEN "returned" ELSE "waits"]
  /\ UNCHANGED <<hierarchy, state, op, call, hostMap, starts, leftOut>>

-----------------------------------------------------------------------------
\* init(), start() and stop().

(* What start() and stop() of a component call the same method of. *)
Below(c) == IF c = Root THEN {Manager} ELSE IF c = Manager THEN Children(c) ELSE {}

(* A call goes as far down as it finds the states it wants; where it does not,
   it throws, and so do the calls that await it. *)
Called(c, kind) ==
  LET Next1(S) == S \union {d \in UNION {Below(e) : e \in S} : state[d] = From(kind)}
  IN  Next1(Next1({c}))

Begin(c, kind) ==
  LET called == Called(c, kind)
  IN  /\ SetStates([d \in Components |-> IF d \in called THEN During(kind) ELSE state[d]])
      /\ op' = [d \in Components |->
                  IF d \in called
                  THEN [op[d] EXCEPT ![kind] =
                          [at |-> "work", waits |-> Below(d) \intersect called,
                           failed |-> ~(Below(d) \subseteq called)]]
                  ELSE op[d]]

NotGoing(c, kind) == \A d \in Called(c, kind) : op[d][kind].at = "none"

(* Mutant of Settled: who throws is not reported to who awaits all. *)
SettledIfGood(c, kind, ok) ==
  [d \in Components |->
     [k \in Kinds |->
        IF d = c /\ k = kind THEN NoOp
        ELSE IF ok /\ k = kind /\ c \in op[d][k].waits
        THEN [op[d][k] EXCEPT !.waits = @ \ {c}]
        ELSE op[d][k]]]

(* A call returns (ok) or throws; those below whose Promise.all() or await it
   is part of are told. *)
Settled(c, kind, ok) ==
  [d \in Components |->
     [k \in Kinds |->
        IF d = c /\ k = kind THEN NoOp
        ELSE IF k = kind /\ c \in op[d][k].waits
        THEN [op[d][k] EXCEPT !.waits = @ \ {c}, !.failed = @ \/ ~ok]
        ELSE IF c = Root /\ d = Root /\ kind = "init" /\ op[d][k].at = "init"
        THEN IF ok THEN [op[d][k] EXCEPT !.at = "inited"] ELSE NoOp
        ELSE op[d][k]]]

(* addAll() goes on with its next child, or is done. *)
NextChild(todo) == IF Len(todo) = 1 THEN Done ELSE [at |-> "maps", todo |-> Tail(todo)]

Settle(c, kind, ok) ==
  /\ op' = Settled(c, kind, ok)
  /\ call' = [k \in AllCalls |->
                IF call[k].at = kind /\ call[k].todo[1][2] = c
                THEN IF ~ok THEN Thrown
                     ELSE IF kind = "init" THEN [call[k] EXCEPT !.at = "inited"]
                     ELSE NextChild(call[k].todo)
                ELSE call[k]]

(* start() of the root, the first one with init() before it: _impl_init() adds
   the manager, and then to the manager what the configuration has. *)
StartRoot ==
  /\ op[Root]["start"].at = "none"
  /\ starts < MaxStarts /\ starts' = starts + 1
  /\ \/ /\ ~Ready(Root)
        /\ context' = [context EXCEPT ![Root] = "ready"]
        /\ SetState(Root, "initializing")
        /\ op' = [op EXCEPT ![Root]["start"].at = "init", ![Root]["init"].at = "work"]
        /\ call' = [call EXCEPT !["init"] =
             [at |-> "adds",
              todo |-> << <<Root, Manager>> >>
                         \o [i \in 1 .. Len(Configured) |-> <<Manager, Configured[i]>>]]]
        /\ UNCHANGED <<hasParent, path, tree, hostMap, leftOut>>
     \/ /\ Ready(Root) /\ state[Root] = "stopped"
        /\ NotGoing(Root, "start")
        /\ Begin(Root, "start")
        /\ UNCHANGED <<hierarchy, call, hostMap, leftOut>>

(* It goes on after init() without a look at the state. *)
StartInited ==
  /\ op[Root]["start"].at = "inited"
  /\ Begin(Root, "start")
  /\ UNCHANGED <<hierarchy, call, hostMap, starts, leftOut>>

StopRoot ==
  /\ state[Root] = "running"
  /\ NotGoing(Root, "stop")
  /\ Begin(Root, "stop")
  /\ UNCHANGED <<hierarchy, call, hostMap, starts, leftOut>>

(* Mutant of WorkIsDone: the calls below are awaited, whatever becomes of them. *)
AllSettled(c, kind) == op[c][kind].waits = {} /\ (c = Root /\ kind = "init" => call["init"] = Done)

(* The own work is done: of a leaf, at any time; of the others, when all that
   they await have returned; of the root's init(), when everything is added. *)
WorkIsDone(c, kind) ==
  /\ op[c][kind].waits = {} /\ ~op[c][kind].failed
  /\ c = Root /\ kind = "init" => call["init"] = Done

(* The method of the base class is called last. *)
Works(c, kind) ==
  /\ op[c][kind].at = "work"
  /\ WorkIsDone(c, kind)
  /\ SetState(c, Target(kind))
  /\ op' = [op EXCEPT ![c][kind].at = "tail"]
  /\ UNCHANGED <<hierarchy, call, hostMap, starts, leftOut>>

(* It throws: a leaf of its own accord, the others because of what they await. *)
Fails(c, kind) ==
  /\ op[c][kind].at = "work"
  /\ \/ c \in Leaves
     \/ op[c][kind].failed
     \/ c = Root /\ kind = "init" /\ call["init"] = Thrown
  /\ Settle(c, kind, FALSE)
  /\ UNCHANGED <<hierarchy, state, hostMap, waiter, starts, leftOut>>

(* The caller of the _impl method looks whether the base class has been called,
   and throws if the state is not what it expects. *)
Ends(c, kind) ==
  /\ op[c][kind].at = "tail"
  /\ Settle(c, kind, state[c] = Target(kind))
  /\ UNCHANGED <<hierarchy, state, hostMap, waiter, starts, leftOut>>

-----------------------------------------------------------------------------
\* addAll() and what it calls, child by child.

(* checkHost() throws if there is no map yet, or a name is in it. *)
MayBeHost(c) ==
  hostMap.kept => /\ Ready(Manager)
                  /\ \A i \in DOMAIN HostNames[c] : HostNames[c][i] \notin DOMAIN hostMap.of

(* addAll() asks of every child whether it is allowed. *)
AddAll(k, list) ==
  /\ call[k] = NoCall
  /\ \A i \in DOMAIN list : MayBeHost(list[i])
  /\ call' = [call EXCEPT ![k] =
       [at |-> "maps", todo |-> [i \in DOMAIN list |-> <<Manager, list[i]>>]]]
  /\ UNCHANGED <<hierarchy, state, op, hostMap, waiter, starts, leftOut>>

(* Mutant of Mapped: the last host to claim a name gets it. *)
Claimed(c) ==
  [names |-> ToSet(HostNames[c]), ok |-> TRUE]

(* addHost(): name after name, until one is taken, if only by the host itself. *)
Mapped(c) ==
  LET names == HostNames[c]
      taken == {i \in DOMAIN names :
                  \/ names[i] \in DOMAIN hostMap.of
                  \/ \E j \in DOMAIN names : j < i /\ names[j] = names[i]}
  IN  [names |-> {names[i] : i \in {j \in DOMAIN names : \A t \in taken : j < t}},
       ok |-> taken = {}]

(* _impl_addChild() of the manager. *)
MapHost(k) ==
  /\ call[k].at = "maps"
  /\ LET c == call[k].todo[1][2]
         mapped == Mapped(c)
     IN  IF hostMap.kept
         THEN /\ hostMap' = [hostMap EXCEPT !.of =
                   [h \in DOMAIN @ \union mapped.names |->
                      IF h \in mapped.names THEN c ELSE @[h]]]
              /\ call' = [call EXCEPT ![k] =
                   IF mapped.ok THEN [@ EXCEPT !.at = "adds"] ELSE Thrown]
         ELSE /\ call' = [call EXCEPT ![k].at = "adds"]
              /\ UNCHANGED hostMap
  /\ UNCHANGED <<hierarchy, state, op, waiter, starts, leftOut>>

(* #addChild() of a parent without a context only takes note of the child. *)
AddNascent(k, p, c) ==
  /\ ~Ready(p)
  /\ context' = [context EXCEPT ![p] = "nascent", ![c] = "nascent"]
  /\ hasParent' = [hasParent EXCEPT ![c] = TRUE]
  /\ call' = [call EXCEPT ![k] = NextChild(@.todo)]
  /\ UNCHANGED <<path, tree, state, op, waiter>>

(* Otherwise it constructs the child's context, whose name must be new, and
   calls init(), which throws if the child is nascent: the context, in the tree
   by now, has no component then that has it. *)
AddReady(k, p, c) ==
  LET key == PathKeyForChild(p, c)
  IN  /\ Ready(p)
      /\ IF key \in DOMAIN tree
         THEN /\ call' = [call EXCEPT ![k] = Thrown]
              /\ UNCHANGED <<hierarchy, state, op, waiter>>
         ELSE /\ tree' = [q \in DOMAIN tree \union {key} |-> IF q = key THEN c ELSE tree[q]]
              /\ UNCHANGED hasParent
              /\ IF context[c] = "none"
                 THEN /\ context' = [context EXCEPT ![c] = "ready"]
                      /\ path' = [path EXCEPT ![c] = key]
                      /\ SetState(c, "initializing")
                      /\ op' = [op EXCEPT ![c]["init"].at = "work"]
                      /\ call' = [call EXCEPT ![k].at = "init"]
                 ELSE /\ call' = [call EXCEPT ![k] = Thrown]
                      /\ UNCHANGED <<context, path, state, op, waiter>>

(* _prot_addChild(), and for the manager _prot_addAll(). *)
AddChild(k) ==
  /\ call[k].at = "adds"
  /\ LET p == call[k].todo[1][1]
         c == call[k].todo[1][2]
     IN  IF CanBeAdded(c)
         THEN AddNascent(k, p, c) \/ AddReady(k, p, c)
         ELSE /\ call' = [call EXCEPT ![k] = Thrown]
              /\ UNCHANGED <<hierarchy, state, op, waiter>>
  /\ UNCHANGED <<hostMap, starts, leftOut>>

(* The child is to run as its parent does. *)
MustStart(p) == state[p] = "running"

(* #addChild() after init(); start() throws if the child was started meanwhile. *)
ChildInited(k) ==
  /\ call[k].at = "inited"
  /\ LET p == call[k].todo[1][1]
         c == call[k].todo[1][2]
     IN  IF MustStart(p)
         THEN /\ IF state[c] = "stopped"
                 THEN /\ NotGoing(c, "start")
                      /\ Begin(c, "start")
                      /\ call' = [call EXCEPT ![k].at = "start"]
                 ELSE /\ call' = [call EXCEPT ![k] = Thrown]
                      /\ UNCHANGED <<state, op, waiter>>
              /\ UNCHANGED leftOut
         ELSE /\ call' = [call EXCEPT ![k] = NextChild(@.todo)]
              /\ leftOut' = IF state[p] = "starting" THEN leftOut \union {c} ELSE leftOut
              /\ UNCHANGED <<state, op, waiter>>
  /\ UNCHANGED <<hierarchy, hostMap, starts>>

(* What is left to do of the calls that were made. *)
GoOn ==
  \/ StartInited
  \/ \E c \in Components, kind \in Kinds :
       Works(c, kind) \/ Fails(c, kind) \/ Ends(c, kind)
  \/ \E k \in AllCalls : MapHost(k) \/ AddChild(k) \/ ChildInited(k)
  \/ \E w \in Waiters : waiter[w] = "woken" /\ WhenStopped(w)

Next ==
  \/ GoOn
  \/ StartRoot \/ StopRoot
  \/ \E k \in Callers, list \in Lists : AddAll(k, list)
  \/ \E w \in Waiters : waiter[w] = "none" /\ WhenStopped(w)

(* The program does not stand still while a promise that is settled has someone to
   go on, or the own work of a leaf is not done. *)
Fairness == WF_vars(GoOn)

Spec == Init /\ [][Next]_vars
FairSpec == Spec /\ Fairness
-----------------------------------------------------------------------------
BeingAdded(c) ==
  \E k \in AllCalls : call[k].at \in {"init", "inited"} /\ call[k].todo[1][2] = c

(* The tree and the components agree on where each of them is, whoever adds what
   in which order: a component with a context is at its path and nowhere else, and
   below one that is there too (ControlContext.js:112).  The one entry without its
   component is that of a nascent one, which init() refuses to adopt.  And a component
   that has no name of its own is never refused for its name: it gets one that is new,
   whatever names its siblings have been given (#pathKeyForChild()). *)
TreeIsTrue ==
  /\ \A c \in Components : Ready(c) =>
       /\ GetComponent(path[c]) = {c}
       /\ c # Root => path[c] # <<>> /\ Ready(tree[Front(path[c])])
  /\ \A q \in DOMAIN tree :
       IF Ready(tree[q]) THEN q = path[tree[q]]
       ELSE context[tree[q]] = "nascent" /\ tree[q] \in {Root, Manager}
  /\ \A p \in {Root, Manager}, c \in Components :
       Ready(p) /\ GivenName[c] = NoName => GetComponent(PathKeyForChild(p, c)) = {}

(* A hierarchy that runs does so down to its leaves, and one that has stopped has
   nothing in it that still starts, runs or stops, whatever was added meanwhile.  A
   child that does not run below a manager that does is on its way, or has thrown on
   it, or its init() ended while the manager was starting: #addChild() starts it only
   if its parent runs already (BaseComponent.js:427), and start() of the manager has
   passed it by. *)
RunsAndStopsAsAWhole ==
  /\ state[Root] = "running" => state[Manager] = "running"
  /\ state[Manager] = "running" =>
       \A c \in Children(Manager) :
         state[c] = "stopped" => c \in leftOut \/ BeingAdded(c)
  /\ state[Root] = "stopped" => state[Manager] = "stopped"
  /\ state[Manager] = "stopped" =>
       \A c \in Children(Manager) : state[c] \in {"initializing", "stopped"}

(* addAll() checks the hostnames of all it is given, and enters those of each of them
   later, before the host is a child of the manager: a host that is one is found by
   all its names; and a host that is found but is not one is being added, or lost to
   another that has its name or one of its hostnames, or was there too early, or has
   a hostname twice. *)
HostMapIsTrue ==
  hostMap.kept =>
    /\ \A c \in Children(Manager) : \A h \in ToSet(HostNames[c]) :
         h \in DOMAIN hostMap.of /\ hostMap.of[h] = c
    /\ \A h \in DOMAIN hostMap.of :
         LET c == hostMap.of[h]
         IN  \/ c \in Children(Manager)
             \/ \E k \in AllCalls : call[k].todo # <<>> /\ call[k].todo[1][2] = c
             \/ PathKeyForChild(Manager, c) \in DOMAIN tree
             \/ \E i \in DOMAIN HostNames[c] :
                  HostNames[c][i] \notin DOMAIN hostMap.of \/ hostMap.of[HostNames[c][i]] # c
             \/ \E i, j \in DOMAIN HostNames[c] : i # j /\ HostNames[c][i] = HostNames[c][j]

(* Every call comes to its end, if only with an error: nobody awaits a promise that
   is never settled, although children come and go while all of them are awaited. And
   who waits for the hierarchy to stop, as run() of BaseSystem does, hears of it,
   unless it starts again before they look: a pulse is all they get (whenState()). *)
EveryCallEnds ==
  /\ <>[](/\ \A c \in Components, kind \in Kinds : op[c][kind].at = "none"
          /\ \A k \in AllCalls : call[k].at \in {"none", "done", "threw"})
  /\ \A w \in Waiters :
       waiter[w] \in {"waits", "woken"} /\ state[Root] = "stopped"
         ~> waiter[w] = "returned" \/ state[Root] # "stopped"
=============================================================================
