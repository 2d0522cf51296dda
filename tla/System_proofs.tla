---------------------------- MODULE System_proofs ----------------------------
(***************************************************************************)
(* Proofs about the life of the system, for any number of hierarchies, any *)
(* members, faults, signals and problems: there is one hierarchy at a      *)
(* time, an open endpoint has what it needs, and an exit with code 0 is a  *)
(* clean one.                                                              *)
(***************************************************************************)
EXTENDS System, TLAPS

-----------------------------------------------------------------------------
\* One hierarchy.

(* Whatever a manager that has stopped manages has stopped. *)
HaveStopped(f) ==
  \A k \in Kinds : f[k] = "stopped" => \A m \in Members(k) : f[m] = "stopped"
ManagedHaveStopped(g) == HaveStopped(state[g])

GoodRoot(g) ==
  /\ state[g] \in [Components -> States] /\ at[g] \in Places
  /\ ManagedHaveStopped(g)

(* Nothing of it is active, and nobody starts or stops it. *)
Down(g) == ~Up(g) /\ at[g].op \notin {"start", "stop"}

(* Its stop() was called; when that has returned, nothing is active. *)
Ending(g) == at[g].op # "start" /\ (at[g] = Returned => ~Up(g))

(* Members, managers and the root are different components. *)
LEMMA Disjoint ==
  /\ \A k \in Kinds : k \in Components /\ k # "root"
  /\ "root" \in Components
  /\ \A k \in Kinds : \A m \in Members(k) :
       m \in AllMembers /\ m \in Components /\ m \notin Kinds /\ m # "root"
  /\ \A j, k \in Kinds : \A m \in Members(k) : m \in Members(j) => j = k
  /\ \A m \in AllMembers : m \in Components /\ m \notin Kinds /\ m # "root"
<1>1. /\ \A k \in Kinds : Members(k) \intersect ({"root"} \union Kinds) = {}
      /\ \A k, m \in Kinds : k # m => Members(k) \intersect Members(m) = {}
  BY HierarchyAssumption, Zenon DEF HierarchyAssumption
<1>2. "root" \notin Kinds
  BY DEF Kinds
<1>3. \A m : m \in AllMembers <=> \E k \in Kinds : m \in Members(k)
  BY Zenon DEF AllMembers
<1>4. \A c : c \in Components <=> c = "root" \/ c \in Kinds \/ c \in AllMembers
  BY Zenon DEF Components
<1>. QED BY <1>1, <1>2, <1>3, <1>4, Zenon

LEMMA OrderIsOfKinds ==
  /\ Len(StartOrder) = 4
  /\ \A n \in 1 .. 4 : StartOrder[n] \in Kinds
  /\ StartOrder[1] = "host"
<1>1. StartOrder = <<"host", "service", "application", "endpoint">>
  BY DEF StartOrder
<1>2. Len(StartOrder) = 4 /\ StartOrder[1] = "host" /\ StartOrder[2] = "service"
      /\ StartOrder[3] = "application" /\ StartOrder[4] = "endpoint"
  BY <1>1
<1>3. \A n \in 1 .. 4 : n = 1 \/ n = 2 \/ n = 3 \/ n = 4
  OBVIOUS
<1>. QED BY <1>2, <1>3 DEF Kinds

(* Managers are told something together with all that they manage. *)
LEMMA PutsKeeps ==
  ASSUME NEW g \in Roots, GoodRoot(g), NEW kinds \in SUBSET Kinds,
         NEW s \in {"starting", "stopping"}
  PROVE  /\ Puts(g, kinds, s) \in [Components -> States]
         /\ \A k \in Kinds : Puts(g, kinds, s)[k] = IF k \in kinds THEN s ELSE state[g][k]
         /\ \A k \in Kinds : \A m \in Members(k) :
              Puts(g, kinds, s)[m] = IF k \in kinds THEN s ELSE state[g][m]
         /\ Puts(g, kinds, s)["root"] = state[g]["root"]
<1>. DEFINE told == kinds \union UNION {Members(k) : k \in kinds}
<1>1. \A c : c \in told <=> c \in kinds \/ \E k \in kinds : c \in Members(k)
  BY Zenon
<1>2. Puts(g, kinds, s) = [c \in Components |-> IF c \in told THEN s ELSE state[g][c]]
  BY Zenon DEF Puts
<1>3. \A k \in Kinds : k \in told <=> k \in kinds
  BY <1>1, Disjoint, Zenon
<1>4. \A k \in Kinds : \A m \in Members(k) : m \in told <=> k \in kinds
  <2>. SUFFICES ASSUME NEW k \in Kinds, NEW m \in Members(k)
                PROVE  m \in told <=> k \in kinds
    BY Zenon
  <2>1. m \notin kinds
    BY Disjoint, Zenon
  <2>2. \A j \in kinds : m \in Members(j) => j = k
    BY Disjoint, Zenon
  <2>3. m \in told <=> \E j \in kinds : m \in Members(j)
    BY <1>1, <2>1, Zenon
  <2>. QED BY <2>2, <2>3, Zenon
<1>5. "root" \notin told
  BY <1>1, Disjoint, Zenon
<1>. HIDE DEF told
<1>6. state[g] \in [Components -> States] /\ s \in States
  BY DEF GoodRoot, States
<1>7. \A c \in Components : Puts(g, kinds, s)[c] = IF c \in told THEN s ELSE state[g][c]
  BY <1>2, Zenon
<1>8. Puts(g, kinds, s) \in [Components -> States]
  BY <1>2, <1>6
<1>9. \A k \in Kinds : Puts(g, kinds, s)[k] = IF k \in kinds THEN s ELSE state[g][k]
  BY <1>3, <1>7, Disjoint, Zenon
<1>10. \A k \in Kinds : \A m \in Members(k) :
         Puts(g, kinds, s)[m] = IF k \in kinds THEN s ELSE state[g][m]
  BY <1>4, <1>7, Disjoint, Zenon
<1>11. Puts(g, kinds, s)["root"] = state[g]["root"]
  BY <1>5, <1>7, Disjoint, Zenon
<1>. QED BY <1>8, <1>9, <1>10, <1>11, Zenon

Roots2States == state \in [Roots -> [Components -> States]] /\ at \in [Roots -> Places]

(* What a step does to the root it is a step of, and to the others. *)
Others(g) == \A h \in Roots : h # g => state'[h] = state[h] /\ at'[h] = at[h]

LEMMA PlaceFacts ==
  \A p \in Places :
    /\ p.op = "start" => p.step \in 1 .. 4
    /\ p.op = "stop" => p.step \in 1 .. 3
    /\ p.op = "start" <=> p \in [op : {"start"}, step : 1 .. 4]
    /\ p.op = "stop" <=> p \in [op : {"stop"}, step : 1 .. 3]
BY DEF Places, NotCalled, Returned, Threw

(* A root is started: its init() has made it new, or has failed. *)
LEMMA StartRootKeeps ==
  ASSUME Roots2States, NEW g \in Roots, ManagedHaveStopped(g), StartRoot(g)
  PROVE  Roots2States' /\ ManagedHaveStopped(g)' /\ Others(g)
<1>. DEFINE fresh == [c \in Components |->
                IF c \in {"root", StartOrder[1]} \union Members(StartOrder[1])
                THEN "starting" ELSE "stopped"]
<1>1. fresh \in [Components -> States]
  BY DEF States
<1>2. CASE state' = [state EXCEPT ![g] = fresh]
           /\ at' = [at EXCEPT ![g] = [op |-> "start", step |-> 1]]
  <2>1. state'[g] = fresh
    BY <1>2, Zenon DEF Roots2States
  <2>2. Roots2States'
    <3>1. [op |-> "start", step |-> 1] \in Places
      BY DEF Places
    <3>. HIDE DEF fresh
    <3>. QED BY <1>1, <1>2, <3>1 DEF Roots2States
  <2>3. ManagedHaveStopped(g)'
    <3>. SUFFICES ASSUME NEW k \in Kinds, state'[g][k] = "stopped", NEW m \in Members(k)
                  PROVE  state'[g][m] = "stopped"
      BY DEF ManagedHaveStopped, HaveStopped
    <3>1. k # StartOrder[1]
      <4>1. k \in Components BY Disjoint, Zenon
      <4>. QED BY <2>1, <4>1
    <3>2. StartOrder[1] \in Kinds
      BY OrderIsOfKinds
    <3>3. m \in Components /\ m \notin {"root", StartOrder[1]} \union Members(StartOrder[1])
      BY <3>1, <3>2, Disjoint, Zenon
    <3>. QED BY <2>1, <3>3, Zenon
  <2>4. Others(g)
    <3>. HIDE DEF fresh
    <3>. QED BY <1>2, Zenon DEF Others, Roots2States
  <2>. QED BY <2>2, <2>3, <2>4, Zenon
<1>3. CASE state' = [state EXCEPT ![g]["root"] = "initializing"] /\ at' = [at EXCEPT ![g] = Threw]
           /\ state[g]["root"] = "new"
  <2>1. state'[g] = [state[g] EXCEPT !["root"] = "initializing"] /\ at'[g] = Threw
    BY <1>3, Zenon DEF Roots2States
  <2>2. Roots2States'
    <3>1. state[g] \in [Components -> States] /\ "initializing" \in States /\ Threw \in Places
      BY DEF Roots2States, States, Places
    <3>. QED BY <1>3, <3>1 DEF Roots2States
  <2>3. ManagedHaveStopped(g)'
    <3>1. \A c \in Components : c # "root" => state'[g][c] = state[g][c]
      BY <2>1, Zenon DEF Roots2States
    <3>2. \A k \in Kinds : state'[g][k] = state[g][k]
      BY <3>1, Disjoint, Zenon
    <3>3. \A k \in Kinds : \A m \in Members(k) : state'[g][m] = state[g][m]
      BY <3>1, Disjoint, Zenon
    <3>. QED BY <3>2, <3>3, Zenon DEF ManagedHaveStopped, HaveStopped
  <2>4. Others(g)
    BY <1>3, Zenon DEF Others, Roots2States
  <2>. QED BY <2>2, <2>3, <2>4, Zenon
<1>. QED BY <1>2, <1>3 DEF StartRoot

(* The general form of a step: the root's components are given anew. *)
LEMMA RootMoves ==
  ASSUME Roots2States, NEW g \in Roots, NEW s \in [Components -> States], NEW p \in Places,
         state' = [state EXCEPT ![g] = s], at' = [at EXCEPT ![g] = p]
  PROVE  Roots2States' /\ Others(g) /\ state'[g] = s /\ at'[g] = p
<1>1. Roots2States'
  BY DEF Roots2States
<1>2. Others(g) /\ state'[g] = s /\ at'[g] = p
  BY Zenon DEF Roots2States, Others
<1>. QED BY <1>1, <1>2, Zenon

(* Only managers are told, or only the root's own state changes. *)
LEMMA ToldKeeps ==
  ASSUME NEW g \in Roots, GoodRoot(g), NEW kinds \in SUBSET Kinds,
         NEW s \in {"starting", "stopping"}, state'[g] = Puts(g, kinds, s)
  PROVE  ManagedHaveStopped(g)'
<1>. SUFFICES ASSUME NEW k \in Kinds, state'[g][k] = "stopped", NEW m \in Members(k)
              PROVE  state'[g][m] = "stopped"
  BY DEF ManagedHaveStopped, HaveStopped
<1>1. k \notin kinds /\ state[g][k] = "stopped"
  BY PutsKeeps
<1>2. state'[g][m] = state[g][m]
  BY <1>1, PutsKeeps
<1>. QED BY <1>1, <1>2 DEF GoodRoot, ManagedHaveStopped, HaveStopped

(* One component changes its state: it is the root, or a manager that goes on, or
   all it manages has stopped, or a member that had not stopped. *)
LEMMA OneChanges ==
  ASSUME NEW f \in [Components -> States], NEW c \in Components, NEW s \in States,
         HaveStopped(f),
         c \in Kinds => s # "stopped" \/ \A m \in Members(c) : f[m] = "stopped",
         c \in AllMembers => f[c] # "stopped"
  PROVE  HaveStopped([f EXCEPT ![c] = s])
<1>. SUFFICES ASSUME NEW k \in Kinds, [f EXCEPT ![c] = s][k] = "stopped", NEW m \in Members(k)
              PROVE  [f EXCEPT ![c] = s][m] = "stopped"
  BY DEF HaveStopped
<1>1. k \in Components /\ m \in Components /\ m \in AllMembers /\ m \notin Kinds /\ k # m
  BY Disjoint, Zenon
<1>2. CASE k = c
  BY <1>1, <1>2
<1>3. CASE k # c
  <2>1. f[k] = "stopped" /\ f[m] = "stopped"
    BY <1>1, <1>3 DEF HaveStopped
  <2>2. m # c
    BY <1>1, <2>1
  <2>. QED BY <1>1, <2>1, <2>2
<1>. QED BY <1>2, <1>3

-----------------------------------------------------------------------------
\* The steps of a hierarchy.

(* What each of them keeps. *)
Kept(g) ==
  /\ Roots2States' /\ Others(g) /\ ManagedHaveStopped(g)'
  /\ Down(g) => Down(g)'
  /\ Ending(g) => Ending(g)'

LEMMA StartGoesOnKeeps ==
  ASSUME Roots2States, NEW g \in Roots, GoodRoot(g), StartGoesOn(g)
  PROVE  Kept(g)
<1>. DEFINE n == at[g].step
            k == StartOrder[n]
<1>1. at[g].op = "start" /\ n \in 1 .. 4 /\ k \in Kinds /\ Len(StartOrder) = 4
  BY PlaceFacts, OrderIsOfKinds DEF StartGoesOn, GoodRoot
<1>2. k \in Components /\ k # "root" /\ "root" \in Components /\ k \notin AllMembers
      /\ "root" \notin Kinds /\ "root" \notin AllMembers
  BY <1>1, Disjoint, Zenon
<1>3. ~Down(g) /\ ~Ending(g)
  BY <1>1, Zenon DEF Down, Ending
<1>. HIDE DEF k
<1>4. CASE n < Len(StartOrder)
  <2>. DEFINE next == StartOrder[n + 1]
              told == Puts(g, {next}, "starting")
  <2>1. next \in Kinds
    BY <1>1, <1>4, OrderIsOfKinds
  <2>2. state' = [state EXCEPT ![g] = [told EXCEPT ![k] = "running"]]
        /\ at' = [at EXCEPT ![g].step = n + 1]
    BY <1>4, Zenon DEF StartGoesOn, k
  <2>. HIDE DEF next
  <2>3. /\ told \in [Components -> States]
        /\ \A j \in Kinds : told[j] = IF j \in {next} THEN "starting" ELSE state[g][j]
        /\ \A j \in Kinds : \A m \in Members(j) :
             told[m] = IF j \in {next} THEN "starting" ELSE state[g][m]
    <3>1. {next} \in SUBSET Kinds /\ "starting" \in {"starting", "stopping"}
      BY <2>1
    <3>. DEFINE kinds == {next}
    <3>. HIDE DEF kinds
    <3>2. /\ Puts(g, kinds, "starting") \in [Components -> States]
          /\ \A j \in Kinds :
               Puts(g, kinds, "starting")[j] = IF j \in kinds THEN "starting" ELSE state[g][j]
          /\ \A j \in Kinds : \A m \in Members(j) :
               Puts(g, kinds, "starting")[m] = IF j \in kinds THEN "starting" ELSE state[g][m]
      <4>1. kinds \in SUBSET Kinds
        BY <3>1 DEF kinds
      <4>. QED BY <3>1, <4>1, PutsKeeps
    <3>. QED BY <3>2 DEF kinds
  <2>. HIDE DEF told
  <2>4. [told EXCEPT ![k] = "running"] \in [Components -> States]
    BY <2>3 DEF States
  <2>5. [at[g] EXCEPT !.step = n + 1] \in Places
    <3>1. at[g] \in [op : {"start"}, step : 1 .. 4] /\ n + 1 \in 1 .. 4
      BY <1>1, <1>4, PlaceFacts DEF GoodRoot
    <3>. QED BY <3>1 DEF Places
  <2>6. Roots2States' /\ Others(g) /\ state'[g] = [told EXCEPT ![k] = "running"]
    <3>1. at' = [at EXCEPT ![g] = [at[g] EXCEPT !.step = n + 1]]
      BY <2>2, Zenon
    <3>. QED BY <2>2, <2>4, <2>5, <3>1, RootMoves, Zenon
  <2>7. HaveStopped(told)
    BY <2>3 DEF GoodRoot, ManagedHaveStopped, HaveStopped
  <2>8. ManagedHaveStopped(g)'
    <3>1. "running" \in States /\ "running" # "stopped"
      BY DEF States
    <3>2. HaveStopped([told EXCEPT ![k] = "running"])
      BY <1>2, <2>3, <2>7, <3>1, OneChanges
    <3>. QED BY <2>6, <3>2, Zenon DEF ManagedHaveStopped
  <2>. QED BY <1>3, <2>6, <2>8 DEF Kept
<1>5. CASE ~(n < Len(StartOrder))
  <2>1. state' = [state EXCEPT ![g][k] = "running", ![g]["root"] = "running"]
        /\ at' = [at EXCEPT ![g] = Returned]
    BY <1>5, Zenon DEF StartGoesOn, k
  <2>. DEFINE one == [state[g] EXCEPT ![k] = "running"]
  <2>2. one \in [Components -> States] /\ "running" \in States /\ Returned \in Places
    BY DEF GoodRoot, States, Places
  <2>3. [one EXCEPT !["root"] = "running"] \in [Components -> States]
    BY <2>2
  <2>4. state' = [state EXCEPT ![g] = [one EXCEPT !["root"] = "running"]]
    BY <2>1 DEF Roots2States
  <2>5. Roots2States' /\ Others(g) /\ state'[g] = [one EXCEPT !["root"] = "running"]
    BY <2>1, <2>2, <2>3, <2>4, RootMoves
  <2>6. HaveStopped(one)
    <3>1. HaveStopped(state[g]) /\ state[g] \in [Components -> States] /\ "running" # "stopped"
      BY DEF GoodRoot, ManagedHaveStopped
    <3>. QED BY <1>2, <2>2, <3>1, OneChanges
  <2>. HIDE DEF one
  <2>7. ManagedHaveStopped(g)'
    <3>1. HaveStopped([one EXCEPT !["root"] = "running"])
      BY <1>2, <2>2, <2>6, OneChanges
    <3>. QED BY <2>5, <3>1, Zenon DEF ManagedHaveStopped
  <2>. QED BY <1>3, <2>5, <2>7 DEF Kept
<1>. QED BY <1>4, <1>5

(* A call that throws leaves the components as they are. *)
LEMMA ThrowsKeeps ==
  ASSUME Roots2States, NEW g \in Roots, GoodRoot(g), StartThrows(g) \/ StopThrows(g)
  PROVE  Kept(g)
<1>1. at' = [at EXCEPT ![g] = Threw] /\ state' = state /\ at[g].op \in {"start", "stop"}
  BY Zenon DEF StartThrows, StopThrows
<1>2. Threw \in Places /\ Threw.op = "threw" /\ Threw # Returned
  BY DEF Places, Threw, Returned
<1>3. Roots2States' /\ Others(g) /\ at'[g] = Threw
  BY <1>1, <1>2 DEF Roots2States, Others
<1>4. ManagedHaveStopped(g)'
  BY <1>1 DEF GoodRoot, ManagedHaveStopped
<1>5. ~Down(g) /\ Ending(g)'
  BY <1>1, <1>2, <1>3, Zenon DEF Down, Ending
<1>. QED BY <1>3, <1>4, <1>5, Zenon DEF Kept

(* stop() of a root: 'Not running.', or its endpoints are told. *)
LEMMA StopRootKeeps ==
  ASSUME Roots2States, NEW g \in Roots, GoodRoot(g), StopRoot(g)
  PROVE  Roots2States' /\ Others(g) /\ ManagedHaveStopped(g)' /\ Ending(g)'
<1>1. CASE state[g]["root"] = "running"
  <2>. DEFINE told == Puts(g, {"endpoint"}, "stopping")
              f == [told EXCEPT !["root"] = "stopping"]
              p == [op |-> "stop", step |-> 1]
  <2>1. state' = [state EXCEPT ![g] = f] /\ at' = [at EXCEPT ![g] = p]
    BY <1>1, Zenon DEF StopRoot
  <2>2. told \in [Components -> States] /\ HaveStopped(told)
    <3>1. {"endpoint"} \in SUBSET Kinds /\ "stopping" \in {"starting", "stopping"}
      BY DEF Kinds
    <3>2. told \in [Components -> States]
      BY <3>1, PutsKeeps, Zenon
    <3>3. HaveStopped(told)
      <4>. DEFINE kinds == {"endpoint"}
                  tells == Puts(g, kinds, "stopping")
      <4>1. kinds \in SUBSET Kinds
        BY <3>1
      <4>. HIDE DEF kinds
      <4>2. /\ \A k \in Kinds : tells[k] = IF k \in kinds THEN "stopping" ELSE state[g][k]
            /\ \A k \in Kinds : \A m \in Members(k) :
                 tells[m] = IF k \in kinds THEN "stopping" ELSE state[g][m]
        BY <3>1, <4>1, PutsKeeps
      <4>. HIDE DEF tells
      <4>3. HaveStopped(tells)
        BY <4>2 DEF GoodRoot, ManagedHaveStopped, HaveStopped
      <4>. QED BY <4>3, Zenon DEF tells, kinds
    <3>. QED BY <3>2, <3>3
  <2>. HIDE DEF told
  <2>3. f \in [Components -> States] /\ HaveStopped(f)
    <3>1. "stopping" \in States /\ "root" \in Components /\ "root" \notin Kinds
          /\ "root" \notin AllMembers
      BY Disjoint DEF States
    <3>. QED BY <2>2, <3>1, OneChanges
  <2>4. p \in Places /\ p.op = "stop" /\ p # Returned
    BY DEF Places, Returned
  <2>. HIDE DEF f, p
  <2>5. Roots2States' /\ Others(g) /\ state'[g] = f /\ at'[g] = p
    BY <2>1, <2>3, <2>4, RootMoves, Zenon
  <2>. QED BY <2>3, <2>4, <2>5 DEF ManagedHaveStopped, Ending
<1>2. CASE state[g]["root"] # "running"
  <2>1. state' = state /\ at' = [at EXCEPT ![g] = Threw]
    BY <1>2, Zenon DEF StopRoot
  <2>2. Threw \in Places /\ Threw.op = "threw" /\ Threw # Returned
    BY DEF Places, Threw, Returned
  <2>3. Roots2States' /\ Others(g) /\ at'[g] = Threw
    BY <2>1, <2>2 DEF Roots2States, Others
  <2>. QED BY <2>1, <2>2, <2>3 DEF GoodRoot, ManagedHaveStopped, Ending
<1>. QED BY <1>1, <1>2, Zenon

(* stop() goes on: the next managers are told, or all of them have stopped. *)
LEMMA StopGoesOnKeeps ==
  ASSUME Roots2States, NEW g \in Roots, GoodRoot(g), StopGoesOn(g)
  PROVE  Kept(g)
<1>1. at[g].op = "stop" /\ ~Down(g)
  BY Zenon DEF StopGoesOn, Down
<1>2. ASSUME NEW kinds \in SUBSET Kinds, NEW n \in {2, 3},
             state' = [state EXCEPT ![g] = Puts(g, kinds, "stopping")],
             at' = [at EXCEPT ![g].step = n]
      PROVE  Kept(g)
  <2>. DEFINE p == [at[g] EXCEPT !.step = n]
  <2>1. at[g] \in [op : {"stop"}, step : 1 .. 3]
    BY <1>1, PlaceFacts DEF GoodRoot
  <2>2. p \in Places /\ p.op = "stop" /\ p # Returned
    <3>1. p \in [op : {"stop"}, step : 1 .. 3]
      BY <2>1
    <3>2. p \in Places
      BY <3>1 DEF Places
    <3>. QED BY <3>1, <3>2 DEF Returned
  <2>3. at' = [at EXCEPT ![g] = p]
    BY <1>2, Zenon
  <2>. HIDE DEF p
  <2>4. Puts(g, kinds, "stopping") \in [Components -> States]
    BY PutsKeeps
  <2>5. Roots2States' /\ Others(g) /\ state'[g] = Puts(g, kinds, "stopping") /\ at'[g] = p
    BY <1>2, <2>2, <2>3, <2>4, RootMoves, Zenon
  <2>6. ManagedHaveStopped(g)'
    BY <2>5, ToldKeeps
  <2>7. Ending(g)'
    BY <2>2, <2>5 DEF Ending
  <2>. QED BY <1>1, <2>5, <2>6, <2>7 DEF Kept
<1>3. CASE /\ \A k \in Kinds : state[g][k] = "stopped"
           /\ state' = [state EXCEPT ![g]["root"] = "stopped"]
           /\ at' = [at EXCEPT ![g] = Returned]
  <2>. DEFINE f == [state[g] EXCEPT !["root"] = "stopped"]
  <2>1. "root" \in Components /\ "root" \notin Kinds /\ "root" \notin AllMembers
    BY Disjoint, Zenon
  <2>2. f \in [Components -> States] /\ HaveStopped(f)
    <3>1. "stopped" \in States /\ state[g] \in [Components -> States] /\ HaveStopped(state[g])
      BY DEF States, GoodRoot, ManagedHaveStopped
    <3>. QED BY <2>1, <3>1, OneChanges
  <2>3. \A m \in AllMembers : f[m] = "stopped"
    <3>. SUFFICES ASSUME NEW m \in AllMembers PROVE f[m] = "stopped"
      OBVIOUS
    <3>1. PICK k \in Kinds : m \in Members(k)
      BY Zenon DEF AllMembers
    <3>2. state[g][m] = "stopped"
      BY <1>3, <3>1 DEF GoodRoot, ManagedHaveStopped, HaveStopped
    <3>3. m \in Components /\ m # "root"
      BY Disjoint, Zenon
    <3>. QED BY <3>2, <3>3 DEF GoodRoot
  <2>4. state' = [state EXCEPT ![g] = f] /\ at' = [at EXCEPT ![g] = Returned]
    BY <1>3, Zenon
  <2>. HIDE DEF f
  <2>5. Returned \in Places /\ Returned.op = "returned"
    BY DEF Places, Returned
  <2>6. Roots2States' /\ Others(g) /\ state'[g] = f /\ at'[g] = Returned
    BY <2>2, <2>4, <2>5, RootMoves, Zenon
  <2>7. Ending(g)'
    BY <2>3, <2>5, <2>6 DEF Ending, Up
  <2>. QED BY <1>1, <2>2, <2>6, <2>7 DEF Kept, ManagedHaveStopped
<1>4. {"application"} \in SUBSET Kinds /\ {"service", "host"} \in SUBSET Kinds
  BY DEF Kinds
<1>. QED BY <1>2, <1>3, <1>4 DEF StopGoesOn

(* A manager whose members have all stopped. *)
LEMMA ManagerStopsKeeps ==
  ASSUME Roots2States, NEW g \in Roots, GoodRoot(g), NEW k \in Kinds, ManagerStops(g, k)
  PROVE  Kept(g)
<1>. DEFINE f == [state[g] EXCEPT ![k] = "stopped"]
<1>1. k \in Components /\ k \notin AllMembers
  BY Disjoint, Zenon
<1>2. f \in [Components -> States] /\ HaveStopped(f)
  <2>1. "stopped" \in States /\ state[g] \in [Components -> States] /\ HaveStopped(state[g])
    BY DEF States, GoodRoot, ManagedHaveStopped
  <2>2. \A m \in Members(k) : state[g][m] = "stopped"
    BY Zenon DEF ManagerStops, InState
  <2>. QED BY <1>1, <2>1, <2>2, OneChanges
<1>3. \A m \in AllMembers : f[m] = state[g][m]
  BY <1>1, Disjoint DEF GoodRoot
<1>4. state' = [state EXCEPT ![g] = f] /\ at' = [at EXCEPT ![g] = at[g]] /\ at' = at
  BY DEF ManagerStops, Roots2States
<1>. HIDE DEF f
<1>5. Roots2States' /\ Others(g) /\ state'[g] = f
  BY <1>2, <1>4, RootMoves DEF GoodRoot
<1>6. Up(g)' <=> Up(g)
  BY <1>3, <1>5 DEF Up
<1>. QED BY <1>2, <1>4, <1>5, <1>6 DEF Kept, ManagedHaveStopped, Down, Ending

(* A member that is done with starting or stopping, or throws. *)
LEMMA MemberKeeps ==
  ASSUME Roots2States, NEW g \in Roots, GoodRoot(g), NEW m \in AllMembers,
         MemberIsDone(g, m) \/ MemberThrows(g, m)
  PROVE  Kept(g)
<1>1. Up(g) /\ at' = at
  BY DEF MemberIsDone, MemberThrows, Up
<1>2. ASSUME NEW s \in {"running", "stopped"}, state[g][m] \in {"starting", "stopping"},
             state' = [state EXCEPT ![g][m] = s]
      PROVE  Roots2States' /\ Others(g) /\ ManagedHaveStopped(g)'
  <2>. DEFINE f == [state[g] EXCEPT ![m] = s]
  <2>1. m \in Components /\ m \notin Kinds
    BY Disjoint, Zenon
  <2>2. f \in [Components -> States] /\ HaveStopped(f)
    <3>1. s \in States /\ state[g] \in [Components -> States] /\ HaveStopped(state[g])
      BY DEF States, GoodRoot, ManagedHaveStopped
    <3>2. state[g][m] # "stopped"
      BY <1>2
    <3>. QED BY <2>1, <3>1, <3>2, OneChanges
  <2>3. state' = [state EXCEPT ![g] = f] /\ at' = [at EXCEPT ![g] = at[g]]
    BY <1>1, <1>2 DEF Roots2States
  <2>. HIDE DEF f
  <2>4. Roots2States' /\ Others(g) /\ state'[g] = f
    BY <2>2, <2>3, RootMoves DEF GoodRoot
  <2>. QED BY <2>2, <2>4 DEF ManagedHaveStopped
<1>3. Roots2States' /\ Others(g) /\ ManagedHaveStopped(g)'
  <2>1. CASE MemberIsDone(g, m)
    BY <1>2, <2>1 DEF MemberIsDone
  <2>2. CASE MemberThrows(g, m)
    BY <1>1, <2>2 DEF MemberThrows, Roots2States, Others, GoodRoot, ManagedHaveStopped
  <2>. QED BY <2>1, <2>2
<1>. QED BY <1>1, <1>3, Zenon DEF Kept, Down, Ending

(* Any step of a hierarchy is one of those. *)
LEMMA WebappStepKeeps ==
  ASSUME Roots2States, \A g \in Roots : ManagedHaveStopped(g), WebappStep
  PROVE  \E g \in Roots : Kept(g)
<1>1. PICK g \in Roots :
        \/ StartGoesOn(g) \/ StartThrows(g) \/ StopGoesOn(g) \/ StopThrows(g)
        \/ \E k \in Kinds : ManagerStops(g, k)
        \/ \E m \in AllMembers : MemberIsDone(g, m) \/ MemberThrows(g, m)
  BY Zenon DEF WebappStep
<1>2. GoodRoot(g)
  BY DEF GoodRoot, Roots2States
<1>3. CASE StartGoesOn(g)
  BY <1>2, <1>3, StartGoesOnKeeps
<1>4. CASE StartThrows(g) \/ StopThrows(g)
  BY <1>2, <1>4, ThrowsKeeps
<1>5. CASE StopGoesOn(g)
  BY <1>2, <1>5, StopGoesOnKeeps
<1>6. CASE \E k \in Kinds : ManagerStops(g, k)
  BY <1>2, <1>6, ManagerStopsKeeps
<1>7. CASE \E m \in AllMembers : MemberIsDone(g, m) \/ MemberThrows(g, m)
  BY <1>2, <1>7, MemberKeeps
<1>. QED BY <1>1, <1>3, <1>4, <1>5, <1>6, <1>7, Zenon

-----------------------------------------------------------------------------
\* Where main(), the system thread and the shutdown callback can be.

Phases ==
  /\ main = "loading" => sys = "initializing" /\ thread = "none" /\ rootComponent = 0
  /\ main = "starting" => sys = "starting"
  /\ thread \in {"waiting", "loading", "stoppingOld", "startingNew"}
       => sys \in {"starting", "running", "stopping"}
  /\ sys \in {"starting", "running", "stopping"} => rootComponent \in Roots
  /\ rootComponent \in {0} \union Roots
  /\ made \in Nat
  /\ thread = "stoppingOld" => nextRootComponent \in Roots
  /\ stopCall \in {"thread", "root"} => sys = "stopping"
  /\ stopCall = "root" => thread = "done"
  /\ stopCall = "returned" => rootComponent = 0 /\ sys = "stopped" /\ thread = "done"

LEMMA PhasesKeep ==
  ASSUME Phases, [Next]_vars
  PROVE  Phases'
<1>. MaxRoots \in Nat \ {0} /\ Roots = 1 .. MaxRoots
  BY HierarchyAssumption DEF HierarchyAssumption, Roots
<1>1. CASE StartUp
  BY <1>1 DEF StartUp, LoadSucceeds, LoadFails, SystemStarts, SystemStartThrows, MainExits,
              Phases
<1>2. CASE Reload
  BY <1>2 DEF Reload, ThreadReloads, ReloadEnds, ReloadLoadFails, ReloadLoads, OldStops,
              OldStopThrows, NewStartSettles, ThreadEnds, ShouldStop, Phases
<1>3. CASE Shutdown
  BY <1>3 DEF Shutdown, RunCallbacks, StopGetsToRoot, SystemStops, SystemStopThrows,
              CallbacksSettle, CallbacksTimeOut, system, Phases
<1>4. CASE FromOutside
  BY <1>4 DEF FromOutside, ReloadSignal, system, Phases
<1>5. CASE UNCHANGED vars
  BY <1>5 DEF vars, system, Phases
<1>. QED BY <1>1, <1>2, <1>3, <1>4, <1>5 DEF Next

-----------------------------------------------------------------------------
\* What becomes of the hierarchies.

RootsInTurn ==
  /\ Roots2States
  /\ \A g \in Roots : ManagedHaveStopped(g)
  /\ \A g \in Roots : g # rootComponent => Down(g)
  /\ thread = "stoppingOld" \/ stopCall = "root" => Ending(rootComponent)

(* The caller of start() or stop() only looks at how that went. *)
LEMMA SeenKeeps ==
  ASSUME RootsInTurn, NEW r \in Roots, Seen(r)
  PROVE  /\ Roots2States' /\ state' = state
         /\ \A g \in Roots : ManagedHaveStopped(g)'
         /\ \A g \in Roots : Down(g) => Down(g)'
         /\ Ending(r)'
         /\ at'[r] = NotCalled
<1>1. state' = state /\ at' = [at EXCEPT ![r] = NotCalled] /\ NotCalled \in Places
  BY DEF Seen, Places
<1>2. Roots2States'
  BY <1>1 DEF RootsInTurn, Roots2States
<1>3. at'[r] = NotCalled /\ \A g \in Roots : g # r => at'[g] = at[g]
  BY <1>1 DEF RootsInTurn, Roots2States
<1>4. NotCalled.op = "none" /\ NotCalled # Returned
  BY DEF NotCalled, Returned
<1>5. \A g \in Roots : ManagedHaveStopped(g)'
  BY <1>1, Zenon DEF RootsInTurn, ManagedHaveStopped
<1>6. \A g \in Roots : Up(g)' <=> Up(g)
  BY <1>1, Zenon DEF Up
<1>7. \A g \in Roots : Down(g) => Down(g)'
  BY <1>3, <1>4, <1>6 DEF Down
<1>8. Ending(r)'
  BY <1>3, <1>4 DEF Ending
<1>. QED BY <1>1, <1>2, <1>3, <1>5, <1>7, <1>8

LEMMA SeenRootKeeps ==
  ASSUME RootsInTurn, rootComponent \in Roots, Seen(rootComponent),
         rootComponent' = rootComponent
  PROVE  RootsInTurn'
<1>1. PICK r \in Roots : r = rootComponent
  BY Zenon
<1>2. Roots2States' /\ (\A g \in Roots : ManagedHaveStopped(g)')
      /\ (\A g \in Roots : Down(g) => Down(g)') /\ Ending(r)'
  BY <1>1, SeenKeeps
<1>3. Ending(rootComponent)'
  BY <1>1, <1>2, Zenon DEF Ending, Up
<1>4. \A g \in Roots : g # rootComponent' => Down(g)'
  BY <1>2 DEF RootsInTurn
<1>. QED BY <1>2, <1>3, <1>4 DEF RootsInTurn

(* A root that nothing happens to stays as it is. *)
LEMMA OthersKeep ==
  ASSUME NEW g \in Roots, Others(g), NEW h \in Roots, h # g
  PROVE  /\ ManagedHaveStopped(h) => ManagedHaveStopped(h)'
         /\ Down(h) => Down(h)'
         /\ Ending(h) => Ending(h)'
<1>1. state'[h] = state[h] /\ at'[h] = at[h]
  BY DEF Others
<1>. QED BY <1>1, Zenon DEF ManagedHaveStopped, Down, Ending, Up

(* stop() of the hierarchy that is up. *)
LEMMA StopTheRootKeeps ==
  ASSUME RootsInTurn, rootComponent \in Roots, StopRoot(rootComponent),
         rootComponent' = rootComponent
  PROVE  RootsInTurn'
<1>1. PICK r \in Roots : r = rootComponent
  BY Zenon
<1>2. GoodRoot(r) /\ StopRoot(r)
  BY <1>1 DEF GoodRoot, RootsInTurn, Roots2States
<1>3. Roots2States' /\ Others(r) /\ ManagedHaveStopped(r)' /\ Ending(r)'
  BY <1>2, StopRootKeeps DEF RootsInTurn
<1>4. \A g \in Roots : ManagedHaveStopped(g)'
  BY <1>3, OthersKeep DEF RootsInTurn
<1>5. \A g \in Roots : g # rootComponent' => Down(g)'
  BY <1>1, <1>3, OthersKeep DEF RootsInTurn
<1>6. Ending(rootComponent)'
  BY <1>1, <1>3, Zenon DEF Ending, Up
<1>. QED BY <1>3, <1>4, <1>5, <1>6 DEF RootsInTurn

LEMMA StartUpKeeps ==
  ASSUME Phases, RootsInTurn, StartUp
  PROVE  RootsInTurn'
<1>1. CASE LoadSucceeds
  <2>1. 1 \in Roots
    BY HierarchyAssumption DEF HierarchyAssumption, Roots
  <2>2. StartRoot(1) /\ rootComponent' = 1 /\ thread' = "waiting" /\ stopCall' = stopCall
    BY <1>1 DEF LoadSucceeds
  <2>3. stopCall # "root"
    BY <1>1 DEF LoadSucceeds, Phases
  <2>4. Roots2States' /\ ManagedHaveStopped(1)' /\ Others(1)
    BY <2>1, <2>2, StartRootKeeps DEF RootsInTurn
  <2>5. \A g \in Roots : g # 1 => Down(g)
    <3>1. rootComponent = 0 /\ \A g \in Roots : g # 0
      BY <1>1 DEF LoadSucceeds, Phases, Roots
    <3>. QED BY <3>1 DEF RootsInTurn
  <2>6. \A g \in Roots : ManagedHaveStopped(g)'
    BY <2>1, <2>4, OthersKeep DEF RootsInTurn
  <2>7. \A g \in Roots : g # rootComponent' => Down(g)'
    BY <2>1, <2>2, <2>4, <2>5, OthersKeep
  <2>. QED BY <2>2, <2>3, <2>4, <2>6, <2>7 DEF RootsInTurn
<1>2. CASE SystemStarts \/ SystemStartThrows
  <2>1. rootComponent \in Roots /\ Seen(rootComponent)
        /\ rootComponent' = rootComponent
    BY <1>2 DEF SystemStarts, SystemStartThrows, Phases
  <2>. QED BY <2>1, SeenRootKeeps
<1>3. CASE LoadFails \/ MainExits
  BY <1>3, Zenon DEF LoadFails, MainExits, webapp, RootsInTurn, Roots2States,
       ManagedHaveStopped, Down, Ending, Up
<1>. QED BY <1>1, <1>2, <1>3 DEF StartUp

LEMMA ReloadKeeps ==
  ASSUME Phases, RootsInTurn, Reload
  PROVE  RootsInTurn'
<1>1. CASE ThreadReloads \/ ReloadLoadFails \/ ThreadEnds
  BY <1>1, Zenon DEF ThreadReloads, ReloadLoadFails, ReloadEnds, ThreadEnds, webapp, Phases,
       RootsInTurn, Roots2States, ManagedHaveStopped, Down, Ending, Up
<1>2. CASE ReloadLoads
  <2>1. rootComponent \in Roots /\ rootComponent' = rootComponent
        /\ StopRoot(rootComponent)
    BY <1>2 DEF ReloadLoads, Phases
  <2>. QED BY <2>1, StopTheRootKeeps
<1>3. CASE OldStops
  <2>1. PICK n \in Roots : n = nextRootComponent
    BY <1>3, Zenon DEF OldStops, Phases
  <2>2. PICK r \in Roots : r = rootComponent
    BY <1>3, Zenon DEF OldStops, Phases
  <2>3. StartRoot(n) /\ rootComponent' = n /\ thread' = "startingNew" /\ stopCall' # "root"
    BY <1>3, <2>1, Zenon DEF OldStops, Phases
  <2>4. Roots2States' /\ ManagedHaveStopped(n)' /\ Others(n)
    BY <2>3, StartRootKeeps DEF RootsInTurn
  <2>5. Down(r)
    <3>1. at[r] = Returned /\ Ending(r)
      BY <1>3, <2>2, Zenon DEF OldStops, RootsInTurn
    <3>. QED BY <3>1 DEF Down, Ending, Returned
  <2>6. \A g \in Roots : Down(g)
    BY <2>2, <2>5 DEF RootsInTurn
  <2>7. \A g \in Roots : ManagedHaveStopped(g)'
    BY <2>4, OthersKeep DEF RootsInTurn
  <2>8. \A g \in Roots : g # rootComponent' => Down(g)'
    BY <2>3, <2>4, <2>6, OthersKeep
  <2>. QED BY <2>3, <2>4, <2>7, <2>8 DEF RootsInTurn
<1>4. CASE OldStopThrows \/ NewStartSettles
  <2>1. rootComponent \in Roots /\ rootComponent' = rootComponent /\ Seen(rootComponent)
    BY <1>4 DEF OldStopThrows, NewStartSettles, Phases
  <2>. QED BY <2>1, SeenRootKeeps
<1>. QED BY <1>1, <1>2, <1>3, <1>4 DEF Reload

LEMMA ShutdownKeeps ==
  ASSUME Phases, RootsInTurn, Shutdown
  PROVE  RootsInTurn'
<1>1. CASE RunCallbacks \/ CallbacksSettle \/ CallbacksTimeOut
  BY <1>1, Zenon DEF RunCallbacks, CallbacksSettle, CallbacksTimeOut, webapp, system, Phases,
       RootsInTurn, Roots2States, ManagedHaveStopped, Down, Ending, Up
<1>2. CASE StopGetsToRoot
  <2>1. rootComponent \in Roots /\ rootComponent' = rootComponent
        /\ StopRoot(rootComponent)
    BY <1>2 DEF StopGetsToRoot, Phases
  <2>. QED BY <2>1, StopTheRootKeeps
<1>3. CASE SystemStops
  <2>1. PICK r \in Roots : r = rootComponent
    BY <1>3, Zenon DEF SystemStops, Phases
  <2>2. Seen(r) /\ at[r] = Returned /\ rootComponent' = 0 /\ stopCall' = "returned"
        /\ thread' # "stoppingOld"
    BY <1>3, <2>1, Zenon DEF SystemStops, Phases
  <2>3. Roots2States' /\ (\A g \in Roots : ManagedHaveStopped(g)')
        /\ (\A g \in Roots : Down(g) => Down(g)')
    BY <2>2, SeenKeeps
  <2>4. Down(r)
    <3>1. Ending(r)
      BY <1>3, <2>1, Zenon DEF SystemStops, RootsInTurn
    <3>. QED BY <2>2, <3>1 DEF Down, Ending, Returned
  <2>5. \A g \in Roots : Down(g)'
    BY <2>1, <2>3, <2>4 DEF RootsInTurn
  <2>. QED BY <2>2, <2>3, <2>5 DEF RootsInTurn
<1>4. CASE SystemStopThrows
  <2>1. rootComponent \in Roots /\ rootComponent' = rootComponent /\ Seen(rootComponent)
    BY <1>4 DEF SystemStopThrows, Phases
  <2>. QED BY <2>1, SeenRootKeeps
<1>. QED BY <1>1, <1>2, <1>3, <1>4 DEF Shutdown

LEMMA FromOutsideKeeps ==
  ASSUME Phases, RootsInTurn, FromOutside
  PROVE  RootsInTurn'
<1>1. CASE UNCHANGED webapp /\ UNCHANGED <<thread, rootComponent, stopCall>>
  BY <1>1, Zenon DEF webapp, RootsInTurn, Roots2States, ManagedHaveStopped, Down, Ending, Up
<1>2. CASE WebappStep /\ UNCHANGED <<process, system>>
  <2>1. PICK g \in Roots : Kept(g)
    BY <1>2, WebappStepKeeps DEF RootsInTurn
  <2>2. \A h \in Roots : ManagedHaveStopped(h)' /\ (Down(h) => Down(h)')
                       /\ (Ending(h) => Ending(h)')
    BY <2>1, OthersKeep DEF Kept, RootsInTurn
  <2>3. UNCHANGED <<thread, rootComponent, stopCall>>
    BY <1>2 DEF system
  <2>4. thread = "stoppingOld" \/ stopCall = "root" => Ending(rootComponent)'
    <3>. SUFFICES ASSUME thread = "stoppingOld" \/ stopCall = "root"
                  PROVE  Ending(rootComponent)'
      OBVIOUS
    <3>1. PICK r \in Roots : r = rootComponent
      BY Zenon DEF Phases
    <3>2. Ending(r)'
      BY <2>2, <3>1, Zenon DEF RootsInTurn
    <3>. QED BY <2>3, <3>1, <3>2, Zenon DEF Ending, Up
  <2>. QED BY <2>1, <2>2, <2>3, <2>4 DEF Kept, RootsInTurn
<1>. QED BY <1>1, <1>2 DEF FromOutside, ReloadSignal, webapp, system

SystemInvariant == Phases /\ RootsInTurn

LEMMA SystemInit == Init => SystemInvariant
<1>. SUFFICES ASSUME Init PROVE SystemInvariant
  OBVIOUS
<1>1. Phases
  BY DEF Init, Phases
<1>2. /\ state = [g \in Roots |-> [c \in Components |-> "new"]]
      /\ at = [g \in Roots |-> NotCalled]
      /\ thread = "none" /\ stopCall = "none"
  BY DEF Init, WebappInit
<1>3. Roots2States
  BY <1>2 DEF Roots2States, States, Places
<1>4. \A g \in Roots : \A c \in Components : state[g][c] = "new"
  BY <1>2
<1>5. \A g \in Roots : ManagedHaveStopped(g)
  BY <1>4, Disjoint DEF ManagedHaveStopped, HaveStopped
<1>6. \A g \in Roots : ~Up(g)
  BY <1>4, Disjoint DEF Up
<1>7. \A g \in Roots : Down(g)
  BY <1>2, <1>6 DEF Down, NotCalled
<1>. QED BY <1>1, <1>2, <1>3, <1>5, <1>7 DEF SystemInvariant, RootsInTurn

LEMMA SystemNext == SystemInvariant /\ [Next]_vars => SystemInvariant'
<1>. SUFFICES ASSUME Phases, RootsInTurn, [Next]_vars PROVE RootsInTurn'
  BY PhasesKeep, Zenon DEF SystemInvariant
<1>1. CASE UNCHANGED vars
  BY <1>1, Zenon DEF vars, webapp, system, RootsInTurn, Roots2States, ManagedHaveStopped, Down,
       Ending, Up
<1>2. CASE Next
  BY <1>2, StartUpKeeps, ReloadKeeps, ShutdownKeeps, FromOutsideKeeps DEF Next
<1>. QED BY <1>1, <1>2

(* Reloading never has two hierarchies up at once, for any number of them, any
   members and any faults: _startNewHierarchy() of BaseSystem comes after every
   part of the old one has stopped, or not at all. *)
THEOREM OneRoot == Spec => []OneRootAtATime
<1>1. SystemInvariant => OneRootAtATime
  BY Zenon DEF SystemInvariant, RootsInTurn, OneRootAtATime, Down
<1>. QED BY <1>1, SystemInit, SystemNext, PTL DEF Spec

-----------------------------------------------------------------------------
\* What the endpoints need.

Runs(f, k) == \A m \in Members(k) : f[m] = "running"
Rests(f, k) == \A m \in Members(k) : f[m] = "stopped"
Open(f) == \E e \in Members("endpoint") : f[e] \in {"starting", "running"}

(* The managers that start before the one that is started now are through with it,
   those after it have not begun. *)
InOrder(f, p) ==
  p.op = "start" => \A i \in 1 .. 4 : /\ i < p.step => Runs(f, StartOrder[i])
                                      /\ i > p.step => Rests(f, StartOrder[i])
Serves(f, p) ==
  /\ Open(f) => \A k \in Kinds \ {"endpoint"} : Runs(f, k)
  /\ InOrder(f, p)
  /\ p.op = "stop" => ~Open(f)

(* A call that has returned or has thrown leaves it so. *)
LEMMA SettledServes ==
  ASSUME NEW f, NEW p, Serves(f, p), NEW q \in {NotCalled, Returned, Threw}
  PROVE  Serves(f, q)
<1>1. q.op \notin {"start", "stop"}
  BY DEF NotCalled, Returned, Threw
<1>. QED BY <1>1, Zenon DEF Serves, InOrder

LEMMA OrderIsThis ==
  /\ StartOrder[1] = "host" /\ StartOrder[2] = "service" /\ StartOrder[3] = "application"
  /\ StartOrder[4] = "endpoint"
  /\ \A k \in Kinds \ {"endpoint"} : \E i \in 1 .. 3 : k = StartOrder[i]
  /\ \A i, j \in 1 .. 4 : StartOrder[i] = StartOrder[j] => i = j
  /\ Members("endpoint") = Endpoints
<1>1. StartOrder[1] = "host" /\ StartOrder[2] = "service" /\ StartOrder[3] = "application"
      /\ StartOrder[4] = "endpoint"
  BY DEF StartOrder
<1>2. \A k \in Kinds \ {"endpoint"} : \E i \in 1 .. 3 : k = StartOrder[i]
  BY <1>1 DEF Kinds
<1>3. \A i \in 1 .. 4 : i = 1 \/ i = 2 \/ i = 3 \/ i = 4
  OBVIOUS
<1>4. \A i, j \in 1 .. 4 : StartOrder[i] = StartOrder[j] => i = j
  BY <1>1, <1>3
<1>5. Members("endpoint") = Endpoints
  BY DEF Members
<1>. QED BY <1>1, <1>2, <1>4, <1>5

(* It is a matter of the members' states only. *)
LEMMA SameServes ==
  ASSUME NEW e, NEW f, NEW p, Serves(e, p),
         \A k \in Kinds : \A m \in Members(k) : f[m] = e[m]
  PROVE  Serves(f, p)
<1>1. \A k \in Kinds : (Runs(f, k) <=> Runs(e, k)) /\ (Rests(f, k) <=> Rests(e, k))
  BY Zenon DEF Runs, Rests
<1>2. Open(f) <=> Open(e)
  <2>1. "endpoint" \in Kinds
    BY DEF Kinds
  <2>. QED BY <2>1, Zenon DEF Open
<1>3. InOrder(f, p)
  <2>1. \A i \in 1 .. 4 : StartOrder[i] \in Kinds
    BY OrderIsOfKinds
  <2>. QED BY <1>1, <2>1, Zenon DEF Serves, InOrder
<1>. QED BY <1>1, <1>2, <1>3, Zenon DEF Serves

(* The first manager is started: nothing is open. *)
LEMMA StartRootServes ==
  ASSUME Roots2States, NEW g \in Roots, Serves(state[g], at[g]), StartRoot(g)
  PROVE  Serves(state'[g], at'[g])
<1>. DEFINE f == [c \in Components |->
                IF c \in {"root", StartOrder[1]} \union Members(StartOrder[1])
                THEN "starting" ELSE "stopped"]
            p == [op |-> "start", step |-> 1]
<1>1. CASE state' = [state EXCEPT ![g] = f] /\ at' = [at EXCEPT ![g] = p]
  <2>1. \A i \in 2 .. 4 : Rests(f, StartOrder[i])
    <3>. SUFFICES ASSUME NEW i \in 2 .. 4, NEW m \in Members(StartOrder[i]) PROVE f[m] = "stopped"
      BY DEF Rests
    <3>1. StartOrder[i] \in Kinds /\ StartOrder[1] \in Kinds /\ StartOrder[i] # StartOrder[1]
      BY OrderIsOfKinds, OrderIsThis
    <3>2. m \in Components /\ m \notin {"root", StartOrder[1]} \union Members(StartOrder[1])
      BY <3>1, Disjoint, Zenon
    <3>. QED BY <3>2
  <2>2. p.op = "start" /\ p.step = 1
    OBVIOUS
  <2>3. state'[g] = f /\ at'[g] = p
    BY <1>1, Zenon DEF Roots2States
  <2>. HIDE DEF f, p
  <2>4. ~Open(f)
    <3>1. Rests(f, "endpoint")
      BY <2>1, OrderIsThis
    <3>. QED BY <3>1 DEF Open, Rests
  <2>5. InOrder(f, p)
    BY <2>1, <2>2 DEF InOrder
  <2>6. p.op # "stop"
    BY <2>2
  <2>. QED BY <2>3, <2>4, <2>5, <2>6, Zenon DEF Serves
<1>2. CASE state' = [state EXCEPT ![g]["root"] = "initializing"] /\ at' = [at EXCEPT ![g] = Threw]
  <2>1. at'[g] = Threw /\ \A m \in AllMembers : state'[g][m] = state[g][m]
    BY <1>2, Disjoint DEF Roots2States
  <2>2. \A k \in Kinds : \A m \in Members(k) : state'[g][m] = state[g][m]
    BY <2>1, Disjoint, Zenon
  <2>3. Serves(state'[g], at[g])
    BY <2>2, SameServes
  <2>. QED BY <2>1, <2>3, SettledServes
<1>. QED BY <1>1, <1>2 DEF StartRoot

(* A manager is through, and the next one starts. *)
LEMMA StartGoesOnServes ==
  ASSUME Roots2States, NEW g \in Roots, GoodRoot(g), Serves(state[g], at[g]), StartGoesOn(g)
  PROVE  Serves(state'[g], at'[g])
<1>. DEFINE n == at[g].step
            k == StartOrder[n]
<1>1. at[g].op = "start" /\ n \in 1 .. 4 /\ k \in Kinds /\ Len(StartOrder) = 4
  BY PlaceFacts, OrderIsOfKinds DEF StartGoesOn, GoodRoot
<1>2. k \in Components /\ (\A j \in Kinds : \A m \in Members(j) : m # k /\ m # "root" /\ m \in Components)
  BY <1>1, Disjoint, Zenon
<1>3. Runs(state[g], k)
  BY DEF StartGoesOn, InState, Runs
<1>4. \A i \in 1 .. 4 : /\ i <= n => Runs(state[g], StartOrder[i])
                        /\ i > n => Rests(state[g], StartOrder[i])
  <2>1. \A i \in 1 .. 4 : /\ i < n => Runs(state[g], StartOrder[i])
                          /\ i > n => Rests(state[g], StartOrder[i])
    BY <1>1, Zenon DEF Serves, InOrder
  <2>. QED BY <1>1, <1>3, <2>1
<1>5. CASE n < Len(StartOrder)
  <2>. DEFINE next == StartOrder[n + 1]
              kinds == {next}
              told == Puts(g, kinds, "starting")
              f == [told EXCEPT ![k] = "running"]
              p == [at[g] EXCEPT !.step = n + 1]
  <2>1. next \in Kinds /\ n + 1 \in 1 .. 4
    BY <1>1, <1>5, OrderIsOfKinds
  <2>2. state' = [state EXCEPT ![g] = f] /\ at' = [at EXCEPT ![g] = p]
    BY <1>5, Zenon DEF StartGoesOn
  <2>3. state'[g] = f /\ at'[g] = p
    BY <2>2, Zenon DEF Roots2States
  <2>4. p.op = "start" /\ p.step = n + 1
    <3>1. at[g] \in [op : {"start"}, step : 1 .. 4]
      BY <1>1, PlaceFacts DEF GoodRoot
    <3>. QED BY <3>1
  <2>5. kinds \in SUBSET Kinds /\ \A j : j \in kinds <=> j = next
    BY <2>1
  <2>6. \A i \in 1 .. 4 : StartOrder[i] = next => i = n + 1
    BY <1>1, <2>1, OrderIsThis
  <2>. HIDE DEF p, n, k, kinds, next
  <2>7. /\ told \in [Components -> States]
        /\ \A j \in Kinds : \A m \in Members(j) :
             told[m] = IF j \in kinds THEN "starting" ELSE state[g][m]
    BY <2>5, PutsKeeps
  <2>. HIDE DEF told
  <2>8. \A j \in Kinds : \A m \in Members(j) :
          f[m] = IF j = next THEN "starting" ELSE state[g][m]
    BY <1>2, <2>5, <2>7
  <2>. HIDE DEF f
  <2>9. \A j \in Kinds : j # next => /\ Runs(state[g], j) => Runs(f, j)
                                     /\ Rests(state[g], j) => Rests(f, j)
    BY <2>8 DEF Runs, Rests
  <2>10. InOrder(f, p)
    <3>. SUFFICES ASSUME NEW i \in 1 .. 4
                  PROVE  /\ i < n + 1 => Runs(f, StartOrder[i])
                         /\ i > n + 1 => Rests(f, StartOrder[i])
      BY <2>4, Zenon DEF InOrder
    <3>1. StartOrder[i] \in Kinds /\ n \in Int
      <4>1. StartOrder[i] \in Kinds
        BY OrderIsOfKinds
      <4>2. n \in Int
        BY <1>1
      <4>. QED BY <4>1, <4>2
    <3>2. i # n + 1 => /\ Runs(state[g], StartOrder[i]) => Runs(f, StartOrder[i])
                       /\ Rests(state[g], StartOrder[i]) => Rests(f, StartOrder[i])
      BY <2>6, <2>9, <3>1, Zenon
    <3>3. i < n + 1 => i <= n /\ i # n + 1
      BY <3>1
    <3>4. i > n + 1 => i > n /\ i # n + 1
      BY <3>1
    <3>. QED BY <1>4, <3>2, <3>3, <3>4, Zenon
  <2>11. Open(f) => \A j \in Kinds \ {"endpoint"} : Runs(f, j)
    <3>1. CASE n = 3
      <4>1. \A i \in 1 .. 3 : Runs(f, StartOrder[i])
        BY <2>4, <2>10, <3>1 DEF InOrder
      <4>. QED BY <4>1, OrderIsThis
    <3>2. CASE n # 3
      <4>1. 4 > n + 1
        BY <1>1, <1>5, <3>2 DEF n
      <4>2. Rests(f, "endpoint")
        BY <2>4, <2>10, <4>1, OrderIsThis DEF InOrder
      <4>3. ~Open(f)
        BY <4>2 DEF Open, Rests
      <4>. QED BY <4>3
    <3>. QED BY <3>1, <3>2
  <2>12. p.op # "stop"
    BY <2>4
  <2>. QED BY <2>3, <2>10, <2>11, <2>12, Zenon DEF Serves
<1>6. CASE ~(n < Len(StartOrder))
  <2>1. at'[g] = Returned
        /\ state' = [state EXCEPT ![g][k] = "running", ![g]["root"] = "running"]
    BY <1>6 DEF StartGoesOn, Roots2States
  <2>. HIDE DEF k
  <2>2. \A j \in Kinds : \A m \in Members(j) : state'[g][m] = state[g][m]
    BY <1>2, <2>1 DEF Roots2States
  <2>3. Serves(state'[g], at[g])
    BY <2>2, SameServes
  <2>. QED BY <2>1, <2>3, SettledServes
<1>. QED BY <1>5, <1>6

(* The hierarchy is told to stop: its endpoints close first. *)
LEMMA StopRootServes ==
  ASSUME Roots2States, NEW g \in Roots, GoodRoot(g), Serves(state[g], at[g]), StopRoot(g)
  PROVE  Serves(state'[g], at'[g])
<1>1. CASE state[g]["root"] = "running"
  <2>. DEFINE kinds == {"endpoint"}
              told == Puts(g, kinds, "stopping")
              f == [told EXCEPT !["root"] = "stopping"]
              p == [op |-> "stop", step |-> 1]
  <2>1. state' = [state EXCEPT ![g] = f] /\ at' = [at EXCEPT ![g] = p]
    BY <1>1, Zenon DEF StopRoot
  <2>2. state'[g] = f /\ at'[g] = p
    BY <2>1, Zenon DEF Roots2States
  <2>3. kinds \in SUBSET Kinds /\ "endpoint" \in kinds
    BY DEF Kinds
  <2>4. p.op = "stop" /\ p.op # "start"
    OBVIOUS
  <2>. HIDE DEF kinds, p
  <2>5. /\ told \in [Components -> States]
        /\ \A j \in Kinds : \A m \in Members(j) :
             told[m] = IF j \in kinds THEN "stopping" ELSE state[g][m]
    BY <2>3, PutsKeeps
  <2>. HIDE DEF told
  <2>6. \A m \in Members("endpoint") : f[m] = "stopping"
    BY <2>3, <2>5, Disjoint
  <2>7. ~Open(f)
    BY <2>6 DEF Open
  <2>. HIDE DEF f
  <2>. QED BY <2>2, <2>4, <2>7, Zenon DEF Serves, InOrder
<1>2. CASE state[g]["root"] # "running"
  <2>1. state' = state /\ at'[g] = Threw
    BY <1>2 DEF StopRoot, Roots2States
  <2>. QED BY <2>1, SettledServes
<1>. QED BY <1>1, <1>2

(* The others are told to stop once no endpoint is open. *)
LEMMA StopGoesOnServes ==
  ASSUME Roots2States, NEW g \in Roots, GoodRoot(g), Serves(state[g], at[g]), StopGoesOn(g)
  PROVE  Serves(state'[g], at'[g])
<1>1. at[g].op = "stop" /\ ~Open(state[g])
  BY Zenon DEF StopGoesOn, Serves
<1>2. ASSUME NEW kinds \in SUBSET Kinds, NEW n \in {2, 3}, "endpoint" \notin kinds,
             state' = [state EXCEPT ![g] = Puts(g, kinds, "stopping")],
             at' = [at EXCEPT ![g].step = n]
      PROVE  Serves(state'[g], at'[g])
  <2>. DEFINE f == Puts(g, kinds, "stopping")
              p == [at[g] EXCEPT !.step = n]
  <2>1. state'[g] = f /\ at'[g] = p
    BY <1>2, Zenon DEF Roots2States
  <2>2. p.op = "stop" /\ p.op # "start"
    <3>1. at[g] \in [op : {"stop"}, step : 1 .. 3]
      BY <1>1, PlaceFacts DEF GoodRoot
    <3>. QED BY <3>1
  <2>3. \A m \in Members("endpoint") : f[m] = state[g][m]
    <3>1. "endpoint" \in Kinds
      BY DEF Kinds
    <3>. QED BY <1>2, <3>1, PutsKeeps
  <2>. HIDE DEF f, p
  <2>4. ~Open(f)
    BY <1>1, <2>3 DEF Open
  <2>. QED BY <2>1, <2>2, <2>4, Zenon DEF Serves, InOrder
<1>3. CASE /\ state' = [state EXCEPT ![g]["root"] = "stopped"]
           /\ at' = [at EXCEPT ![g] = Returned]
  <2>1. at'[g] = Returned /\ \A c \in Components : c # "root" => state'[g][c] = state[g][c]
    BY <1>3 DEF Roots2States
  <2>2. \A j \in Kinds : \A m \in Members(j) : state'[g][m] = state[g][m]
    BY <2>1, Disjoint, Zenon
  <2>3. Serves(state'[g], at[g])
    BY <2>2, SameServes
  <2>. QED BY <2>1, <2>3, SettledServes
<1>4. /\ {"application"} \in SUBSET Kinds /\ "endpoint" \notin {"application"}
      /\ {"service", "host"} \in SUBSET Kinds /\ "endpoint" \notin {"service", "host"}
  BY DEF Kinds
<1>. QED BY <1>2, <1>3, <1>4 DEF StopGoesOn

(* A member that has started runs, one that has stopped rests. *)
LEMMA MemberServes ==
  ASSUME Roots2States, NEW g \in Roots, GoodRoot(g), Serves(state[g], at[g]),
         NEW m \in AllMembers, MemberIsDone(g, m)
  PROVE  Serves(state'[g], at'[g])
<1>. DEFINE e == state[g]
            f == state'[g]
            p == at[g]
<1>1. at'[g] = p
  BY DEF MemberIsDone
<1>2. \A c \in Components :
        \/ f[c] = e[c]
        \/ e[c] = "starting" /\ f[c] = "running"
        \/ e[c] = "stopping" /\ f[c] = "stopped"
  BY Disjoint DEF MemberIsDone, Roots2States
<1>3. \A k \in Kinds : \A x \in Members(k) : x \in Components
  BY Disjoint, Zenon
<1>4. Serves(e, p)
  OBVIOUS
<1>5. "endpoint" \in Kinds
  BY DEF Kinds
<1>. HIDE DEF e, f, p
<1>6. \A k \in Kinds : (Runs(e, k) => Runs(f, k)) /\ (Rests(e, k) => Rests(f, k))
  BY <1>2, <1>3 DEF Runs, Rests
<1>7. Open(f) => Open(e)
  BY <1>2, <1>3, <1>5 DEF Open
<1>8. InOrder(f, p)
  <2>1. \A i \in 1 .. 4 : StartOrder[i] \in Kinds
    BY OrderIsOfKinds
  <2>. QED BY <1>4, <1>6, <2>1, Zenon DEF Serves, InOrder
<1>9. Serves(f, p)
  BY <1>4, <1>6, <1>7, <1>8, Zenon DEF Serves
<1>. QED BY <1>1, <1>9, Zenon DEF f

ServesAll == \A g \in Roots : Serves(state[g], at[g])

(* What happens to one root leaves the others serving as they did. *)
LEMMA OneServes ==
  ASSUME ServesAll, NEW g \in Roots, Others(g), Serves(state'[g], at'[g])
  PROVE  ServesAll'
<1>. SUFFICES ASSUME NEW h \in Roots PROVE Serves(state'[h], at'[h])
  BY DEF ServesAll
<1>1. CASE h = g
  BY <1>1
<1>2. CASE h # g
  <2>1. state'[h] = state[h] /\ at'[h] = at[h]
    BY <1>2 DEF Others
  <2>. QED BY <2>1 DEF ServesAll
<1>. QED BY <1>1, <1>2

LEMMA WebappStepServes ==
  ASSUME Roots2States, \A g \in Roots : ManagedHaveStopped(g), ServesAll, WebappStep
  PROVE  ServesAll'
<1>1. PICK g \in Roots :
        \/ StartGoesOn(g) \/ StartThrows(g) \/ StopGoesOn(g) \/ StopThrows(g)
        \/ \E k \in Kinds : ManagerStops(g, k)
        \/ \E m \in AllMembers : MemberIsDone(g, m) \/ MemberThrows(g, m)
  BY Zenon DEF WebappStep
<1>2. GoodRoot(g) /\ Serves(state[g], at[g])
  BY DEF GoodRoot, Roots2States, ServesAll
<1>3. CASE StartGoesOn(g)
  <2>1. Others(g) /\ Serves(state'[g], at'[g])
    BY <1>2, <1>3, StartGoesOnKeeps, StartGoesOnServes DEF Kept
  <2>. QED BY <2>1, OneServes
<1>4. CASE StopGoesOn(g)
  <2>1. Others(g) /\ Serves(state'[g], at'[g])
    BY <1>2, <1>4, StopGoesOnKeeps, StopGoesOnServes DEF Kept
  <2>. QED BY <2>1, OneServes
<1>5. CASE StartThrows(g) \/ StopThrows(g)
  <2>1. state' = state /\ at'[g] = Threw
    BY <1>5 DEF StartThrows, StopThrows, Roots2States
  <2>2. Others(g) /\ Serves(state'[g], at'[g])
    BY <1>2, <1>5, <2>1, ThrowsKeeps, SettledServes DEF Kept
  <2>. QED BY <2>2, OneServes
<1>6. CASE \E k \in Kinds : ManagerStops(g, k)
  <2>1. PICK k \in Kinds : ManagerStops(g, k)
    BY <1>6
  <2>2. \A j \in Kinds : \A m \in Members(j) : m # k /\ m \in Components
    BY Disjoint, Zenon
  <2>3. \A j \in Kinds : \A m \in Members(j) : state'[g][m] = state[g][m]
    BY <2>1, <2>2 DEF ManagerStops, Roots2States
  <2>4. at' = at
    BY <2>1 DEF ManagerStops
  <2>5. Others(g) /\ Serves(state'[g], at'[g])
    BY <1>2, <2>1, <2>3, <2>4, ManagerStopsKeeps, SameServes DEF Kept
  <2>. QED BY <2>5, OneServes
<1>7. CASE \E m \in AllMembers : MemberIsDone(g, m)
  <2>1. PICK m \in AllMembers : MemberIsDone(g, m)
    BY <1>7
  <2>2. Others(g) /\ Serves(state'[g], at'[g])
    BY <1>2, <2>1, MemberKeeps, MemberServes DEF Kept
  <2>. QED BY <2>2, OneServes
<1>8. CASE \E m \in AllMembers : MemberThrows(g, m)
  BY <1>8, Zenon DEF MemberThrows, ServesAll
<1>. QED BY <1>1, <1>3, <1>4, <1>5, <1>6, <1>7, <1>8, Zenon

(* The system starts and stops hierarchies, or looks at what became of them. *)
LEMMA StartRootServesAll ==
  ASSUME RootsInTurn, ServesAll, NEW g \in Roots, StartRoot(g)
  PROVE  ServesAll'
<1>1. Others(g) /\ Serves(state'[g], at'[g])
  BY StartRootKeeps, StartRootServes DEF RootsInTurn, ServesAll
<1>. QED BY <1>1, OneServes
LEMMA StopRootServesAll ==
  ASSUME RootsInTurn, ServesAll, NEW g \in Roots, StopRoot(g)
  PROVE  ServesAll'
<1>1. GoodRoot(g) /\ Roots2States
  BY DEF GoodRoot, RootsInTurn, Roots2States
<1>2. Others(g) /\ Serves(state'[g], at'[g])
  BY <1>1, StopRootKeeps, StopRootServes DEF ServesAll
<1>. QED BY <1>2, OneServes
LEMMA SeenServesAll ==
  ASSUME RootsInTurn, ServesAll, NEW g \in Roots, Seen(g)
  PROVE  ServesAll'
<1>1. state' = state /\ at' = [at EXCEPT ![g] = NotCalled] /\ at'[g] = NotCalled
  BY DEF Seen, RootsInTurn, Roots2States
<1>2. Others(g)
  BY <1>1, Zenon DEF Others, RootsInTurn, Roots2States
<1>3. Serves(state'[g], at'[g])
  BY <1>1, SettledServes DEF ServesAll
<1>. QED BY <1>2, <1>3, OneServes

LEMMA ServesNext == SystemInvariant /\ ServesAll /\ [Next]_vars => ServesAll'
<1>. SUFFICES ASSUME Phases, RootsInTurn, ServesAll, [Next]_vars PROVE ServesAll'
  BY Zenon DEF SystemInvariant
<1>1. CASE UNCHANGED webapp
  BY <1>1, Zenon DEF webapp, ServesAll
<1>2. CASE LoadSucceeds
  <2>1. 1 \in Roots
    BY HierarchyAssumption DEF HierarchyAssumption, Roots
  <2>2. StartRoot(1)
    BY <1>2 DEF LoadSucceeds
  <2>. QED BY <2>1, <2>2, StartRootServesAll
<1>3. CASE OldStops
  <2>1. nextRootComponent \in Roots /\ StartRoot(nextRootComponent)
    BY <1>3 DEF OldStops, Phases
  <2>. QED BY <2>1, StartRootServesAll
<1>4. CASE ReloadLoads \/ StopGetsToRoot
  <2>1. rootComponent \in Roots /\ StopRoot(rootComponent)
    BY <1>4 DEF ReloadLoads, StopGetsToRoot, Phases
  <2>. QED BY <2>1, StopRootServesAll
<1>5. CASE \/ SystemStarts \/ SystemStartThrows \/ OldStopThrows \/ NewStartSettles
           \/ SystemStops \/ SystemStopThrows
  <2>1. rootComponent \in Roots /\ Seen(rootComponent)
    BY <1>5 DEF SystemStarts, SystemStartThrows, OldStopThrows, NewStartSettles, SystemStops,
                SystemStopThrows, Phases
  <2>. QED BY <2>1, SeenServesAll
<1>6. CASE WebappStep
  BY <1>6, WebappStepServes DEF RootsInTurn
<1>7. StartUp =>
        LoadSucceeds \/ SystemStarts \/ SystemStartThrows \/ UNCHANGED webapp
  BY Zenon DEF StartUp, LoadFails, MainExits
<1>8. Reload =>
        OldStops \/ ReloadLoads \/ OldStopThrows \/ NewStartSettles \/ UNCHANGED webapp
  BY Zenon DEF Reload, ThreadReloads, ReloadLoadFails, ThreadEnds
<1>9. Shutdown => StopGetsToRoot \/ SystemStops \/ SystemStopThrows \/ UNCHANGED webapp
  BY Zenon DEF Shutdown, RunCallbacks, CallbacksSettle, CallbacksTimeOut
<1>10. FromOutside => WebappStep \/ UNCHANGED webapp
  BY Zenon DEF FromOutside, ReloadSignal
<1>11. UNCHANGED vars => UNCHANGED webapp
  BY Zenon DEF vars
<1>. QED BY <1>1, <1>2, <1>3, <1>4, <1>5, <1>6, <1>7, <1>8, <1>9, <1>10, <1>11, Zenon DEF Next

(* An endpoint that takes requests has its hosts, services and applications running,
   whatever fails and whenever the system is told to reload or stop: the order in
   which WebappRoot starts and stops its managers. *)
THEOREM ServedEndpoints == Spec => []EndpointsAreServed
<1>1. Init => ServesAll
  <2>. SUFFICES ASSUME Init, NEW g \in Roots PROVE Serves(state[g], at[g])
    BY DEF ServesAll
  <2>1. at[g] = NotCalled /\ \A c \in Components : state[g][c] = "new"
    BY DEF Init, WebappInit
  <2>2. ~Open(state[g])
    <3>1. "endpoint" \in Kinds
      BY DEF Kinds
    <3>2. \A m \in Members("endpoint") : state[g][m] = "new"
      BY <2>1, <3>1, Disjoint, Zenon
    <3>. QED BY <3>2 DEF Open
  <2>3. NotCalled.op \notin {"start", "stop"}
    BY DEF NotCalled
  <2>. QED BY <2>1, <2>2, <2>3, Zenon DEF Serves, InOrder
<1>2. ServesAll => EndpointsAreServed
  <2>. SUFFICES ASSUME ServesAll, NEW g \in Roots, NEW e \in Endpoints, state[g][e] = "running",
                       NEW k \in Kinds \ {"endpoint"}
                PROVE  InState(g, k, "running")
    BY DEF EndpointsAreServed
  <2>1. Open(state[g])
    BY OrderIsThis DEF Open
  <2>2. Runs(state[g], k)
    BY <2>1 DEF ServesAll, Serves
  <2>. QED BY <2>2 DEF Runs, InState
<1>. QED BY <1>1, <1>2, SystemInit, SystemNext, ServesNext, PTL DEF Spec

-----------------------------------------------------------------------------
\* The exit of the process.

(* What is known of the shutdown and of what went wrong. *)
Pending(kind) == \E i \in DOMAIN timers : timers[i] = kind
Exits ==
  /\ timers \in Seq({"problem", "bye"})
  /\ problems \in Nat
  /\ problems > 0 => shuttingDown
  /\ shuttingDown => Pending("problem") \/ exitCode # 0
  /\ exited \/ Pending("bye") => shutdown = "bye" \/ exitCode # 0
  /\ shutdown = "bye" /\ exitCode = 0 => stopCall \in {"nobody", "returned"}

(* Timers are appended, and fire from the head. *)
LEMMA TimersMove ==
  ASSUME timers \in Seq({"problem", "bye"})
  PROVE  /\ \A t, kind \in {"problem", "bye"} :
              /\ Append(timers, t) \in Seq({"problem", "bye"})
              /\ (\E i \in DOMAIN Append(timers, t) : Append(timers, t)[i] = kind)
                   <=> Pending(kind) \/ t = kind
         /\ timers # <<>> =>
              /\ Head(timers) \in {"problem", "bye"}
              /\ Tail(timers) \in Seq({"problem", "bye"})
              /\ \A kind \in {"problem", "bye"} :
                   Pending(kind) <=> \/ Head(timers) = kind
                                     \/ \E i \in DOMAIN Tail(timers) : Tail(timers)[i] = kind
<1>. DEFINE T == {"problem", "bye"}
<1>1. ASSUME NEW t \in T, NEW kind \in T
      PROVE  /\ Append(timers, t) \in Seq(T)
             /\ (\E i \in DOMAIN Append(timers, t) : Append(timers, t)[i] = kind)
                  <=> Pending(kind) \/ t = kind
  <2>. DEFINE n == Len(timers)
              s == Append(timers, t)
  <2>1. s \in Seq(T) /\ n \in Nat /\ DOMAIN timers = 1 .. n /\ DOMAIN s = 1 .. n + 1
    OBVIOUS
  <2>2. s[n + 1] = t /\ \A i \in 1 .. n : s[i] = timers[i]
    OBVIOUS
  <2>. HIDE DEF s, n
  <2>3. (\E i \in DOMAIN s : s[i] = kind) <=> (\E i \in DOMAIN timers : timers[i] = kind) \/ t = kind
    BY <2>1, <2>2
  <2>. QED BY <2>1, <2>3 DEF s, Pending
<1>2. ASSUME timers # <<>>
      PROVE  /\ Head(timers) \in T
             /\ Tail(timers) \in Seq(T)
             /\ \A kind \in T :
                  Pending(kind) <=> \/ Head(timers) = kind
                                    \/ \E i \in DOMAIN Tail(timers) : Tail(timers)[i] = kind
  <2>. DEFINE n == Len(timers)
              s == Tail(timers)
  <2>1. s \in Seq(T) /\ n \in Nat \ {0} /\ DOMAIN timers = 1 .. n /\ DOMAIN s = 1 .. n - 1
    BY <1>2
  <2>2. Head(timers) = timers[1] /\ \A i \in 1 .. n - 1 : s[i] = timers[i + 1]
    BY <1>2
  <2>3. Head(timers) \in T
    BY <1>2
  <2>. HIDE DEF s, n
  <2>4. ASSUME NEW kind
        PROVE  (\E i \in DOMAIN timers : timers[i] = kind)
                 <=> \/ Head(timers) = kind
                     \/ \E i \in DOMAIN s : s[i] = kind
    <3>1. ASSUME NEW i \in DOMAIN timers, timers[i] = kind
          PROVE  Head(timers) = kind \/ \E j \in DOMAIN s : s[j] = kind
      <4>1. CASE i = 1
        BY <2>2, <3>1, <4>1
      <4>2. CASE i # 1
        <5>1. i - 1 \in 1 .. n - 1 /\ (i - 1) + 1 = i
          BY <2>1, <4>2
        <5>. QED BY <2>1, <2>2, <3>1, <5>1
      <4>. QED BY <4>1, <4>2
    <3>2. ASSUME Head(timers) = kind \/ \E i \in DOMAIN s : s[i] = kind
          PROVE  \E i \in DOMAIN timers : timers[i] = kind
      <4>1. 1 \in 1 .. n /\ \A i \in 1 .. n - 1 : i + 1 \in 1 .. n
        BY <2>1
      <4>. QED BY <2>1, <2>2, <3>2, <4>1
    <3>. QED BY <3>1, <3>2
  <2>. QED BY <2>1, <2>3, <2>4 DEF s, Pending
<1>. QED BY <1>1, <1>2

LEMMA AppendsKeep ==
  ASSUME timers \in Seq({"problem", "bye"}), NEW t \in {"problem", "bye"},
         timers' = Append(timers, t)
  PROVE  /\ (timers \in Seq({"problem", "bye"}))'
         /\ Pending("problem")' <=> Pending("problem") \/ t = "problem"
         /\ Pending("bye")' <=> Pending("bye") \/ t = "bye"
<1>1. /\ Append(timers, t) \in Seq({"problem", "bye"})
      /\ \A kind \in {"problem", "bye"} :
           (\E i \in DOMAIN Append(timers, t) : Append(timers, t)[i] = kind)
             <=> Pending(kind) \/ t = kind
  BY TimersMove
<1>2. /\ timers' \in Seq({"problem", "bye"})
      /\ \A kind \in {"problem", "bye"} :
           (\E i \in DOMAIN timers' : timers'[i] = kind) <=> Pending(kind) \/ t = kind
  BY <1>1, Zenon
<1>. QED BY <1>2 DEF Pending

(* A problem comes up: exit(1) follows a moment later. *)
LEMMA ProblemKeeps ==
  ASSUME Exits, HandleProblem, stopCall' = stopCall
  PROVE  Exits'
<1>1. problems' = problems + 1 /\ shuttingDown' = TRUE
      /\ exited' = exited /\ exitCode' = exitCode /\ shutdown' = shutdown
      /\ timers' = IF shuttingDown THEN timers ELSE Append(timers, "problem")
  BY DEF HandleProblem
<1>2. CASE shuttingDown
  BY <1>1, <1>2 DEF Exits, Pending
<1>3. CASE ~shuttingDown
  <2>1. timers' = Append(timers, "problem")
    BY <1>1, <1>3
  <2>2. /\ (timers \in Seq({"problem", "bye"}))'
        /\ Pending("problem")'
        /\ Pending("bye")' <=> Pending("bye")
    <3>1. timers \in Seq({"problem", "bye"}) /\ "problem" \in {"problem", "bye"}
      BY DEF Exits
    <3>. QED BY <2>1, <3>1, AppendsKeep
  <2>. QED BY <1>1, <2>2 DEF Exits
<1>. QED BY <1>2, <1>3

(* The callbacks are done or took too long: the process waits for its end. *)
LEMMA CallbacksKeep ==
  ASSUME Exits, CallbacksSettle \/ CallbacksTimeOut
  PROVE  Exits'
<1>1. PICK threw \in BOOLEAN :
        CallbacksEnd(threw) /\ (~threw => stopCall \in {"nobody", "returned"})
  <2>1. CASE CallbacksSettle
    BY <2>1 DEF CallbacksSettle
  <2>2. CASE CallbacksTimeOut
    BY <2>2 DEF CallbacksTimeOut
  <2>. QED BY <2>1, <2>2
<1>2. stopCall' = stopCall
  BY DEF CallbacksSettle, CallbacksTimeOut, system
<1>3. shutdown' = "bye" /\ exitCode' = (IF threw /\ exitCode = 0 THEN 1 ELSE exitCode)
      /\ timers' = Append(timers, "bye") /\ UNCHANGED <<exited, problems, shuttingDown>>
  BY <1>1 DEF CallbacksEnd
<1>4. /\ (timers \in Seq({"problem", "bye"}))'
      /\ Pending("problem")' <=> Pending("problem")
      /\ Pending("bye")'
  <2>1. timers \in Seq({"problem", "bye"}) /\ "bye" \in {"problem", "bye"}
    BY DEF Exits
  <2>. QED BY <1>3, <2>1, AppendsKeep
<1>5. exitCode # 0 => exitCode' # 0
  BY <1>3
<1>6. exitCode' = 0 => ~threw
  BY <1>3
<1>. QED BY <1>1, <1>2, <1>3, <1>4, <1>5, <1>6 DEF Exits

(* A timer fires: exit(1) is called, or the process is gone. *)
LEMMA TimerKeeps ==
  ASSUME Exits, TimerFires, stopCall' = stopCall
  PROVE  Exits'
<1>1. /\ Head(timers) \in {"problem", "bye"}
      /\ timers' \in Seq({"problem", "bye"})
      /\ \A kind \in {"problem", "bye"} : Pending(kind) <=> Head(timers) = kind \/ Pending(kind)'
  <2>1. timers # <<>> /\ timers' = Tail(timers) /\ timers \in Seq({"problem", "bye"})
    BY DEF TimerFires, Exits
  <2>. DEFINE t == Tail(timers)
  <2>2. /\ Head(timers) \in {"problem", "bye"}
        /\ t \in Seq({"problem", "bye"})
        /\ \A kind \in {"problem", "bye"} :
             Pending(kind) <=> Head(timers) = kind \/ \E i \in DOMAIN t : t[i] = kind
    BY <2>1, TimersMove
  <2>3. timers' = t
    BY <2>1
  <2>. HIDE DEF t
  <2>4. \A kind : Pending(kind)' <=> \E i \in DOMAIN t : t[i] = kind
    BY <2>3, Zenon DEF Pending
  <2>. QED BY <2>2, <2>3, <2>4
<1>2. UNCHANGED <<problems, shuttingDown>>
  BY DEF TimerFires
<1>3. CASE Head(timers) = "problem"
  <2>1. exited' = exited /\ exitCode' = (IF exitCode = 0 THEN 1 ELSE exitCode)
        /\ shutdown' = (IF shutdown = "idle" THEN "begun" ELSE shutdown)
    BY <1>3 DEF TimerFires, CallExit
  <2>2. exitCode' # 0
    BY <2>1
  <2>. QED BY <1>1, <1>2, <2>2 DEF Exits
<1>4. CASE Head(timers) = "bye"
  <2>1. exitCode' = exitCode /\ shutdown' = shutdown
    BY <1>4 DEF TimerFires
  <2>2. Pending("bye") /\ (Pending("problem")' <=> Pending("problem"))
    BY <1>1, <1>4
  <2>. QED BY <1>1, <1>2, <2>1, <2>2 DEF Exits
<1>. QED BY <1>1, <1>3, <1>4

LEMMA ExitsKeep ==
  ASSUME Phases, Exits, [Next]_vars
  PROVE  Exits'
<1>1. CASE UNCHANGED process /\ stopCall' = stopCall
  BY <1>1 DEF process, Exits, Pending
<1>2. CASE HandleProblem /\ stopCall' = stopCall
  BY <1>2, ProblemKeeps
<1>3. CASE CallbacksSettle \/ CallbacksTimeOut
  BY <1>3, CallbacksKeep
<1>4. CASE TimerFires /\ stopCall' = stopCall
  BY <1>4, TimerKeeps
<1>5. CASE MainExits
  BY <1>5 DEF MainExits, CallExit, Exits, Pending
<1>6. CASE ExitSignal /\ stopCall' = stopCall
  BY <1>6 DEF ExitSignal, CallExit, Exits, Pending
<1>7. CASE RunCallbacks
  BY <1>7 DEF RunCallbacks, Exits, Pending
<1>8. CASE StopGetsToRoot \/ SystemStops \/ SystemStopThrows
  <2>1. UNCHANGED process
    BY <1>8 DEF StopGetsToRoot, SystemStops, SystemStopThrows
  <2>2. stopCall \in {"thread", "root"}
    BY <1>8 DEF StopGetsToRoot, SystemStops, SystemStopThrows
  <2>. QED BY <2>1, <2>2 DEF process, Exits, Pending
<1>9. StartUp =>
        (UNCHANGED process /\ stopCall' = stopCall) \/ (HandleProblem /\ stopCall' = stopCall)
          \/ MainExits
  BY Zenon DEF StartUp, LoadSucceeds, LoadFails, SystemStarts, SystemStartThrows
<1>10. Reload => UNCHANGED process /\ stopCall' = stopCall
  BY Zenon DEF Reload, ThreadReloads, ReloadLoadFails, ReloadLoads, OldStops, OldStopThrows,
               NewStartSettles, ThreadEnds
<1>11. FromOutside =>
        (UNCHANGED process /\ stopCall' = stopCall) \/ (HandleProblem /\ stopCall' = stopCall)
          \/ (ExitSignal /\ stopCall' = stopCall) \/ (TimerFires /\ stopCall' = stopCall)
  BY Zenon DEF FromOutside, ReloadSignal, StrayProblem, system
<1>12. UNCHANGED vars => UNCHANGED process /\ stopCall' = stopCall
  BY Zenon DEF vars, system
<1>. QED BY <1>1, <1>2, <1>3, <1>4, <1>5, <1>6, <1>7, <1>8, <1>9, <1>10, <1>11, <1>12, Zenon
            DEF Next, Shutdown

(* The process exits with code 0 only when nothing of any hierarchy is active any
   more, or it was told to exit before there was one; and when every problem came
   up after it had begun to wait for its end: ShutdownHandler and TopErrorHandler
   together with BaseSystem, for any signals and problems. *)
THEOREM ExitIsClean == Spec => []CleanExit
<1>1. Init => Exits
  <2>. SUFFICES ASSUME Init PROVE Exits
    OBVIOUS
  <2>1. timers = <<>> /\ problems = 0 /\ shuttingDown = FALSE /\ exited = FALSE
        /\ shutdown = "idle"
    BY DEF Init, ProcessInit
  <2>. QED BY <2>1 DEF Exits, Pending
<1>2. SystemInvariant /\ Exits /\ [Next]_vars => Exits'
  BY ExitsKeep, Zenon DEF SystemInvariant
<1>3. SystemInvariant /\ Exits => CleanExit
  <2>. SUFFICES ASSUME SystemInvariant, Exits, exited, exitCode = 0 PROVE CleanExit
    BY Zenon DEF CleanExit, TroubleIsReported
  <2>1. problems > 0 => Pending("problem")
    BY DEF Exits
  <2>2. stopCall # "nobody" => \A g \in Roots : ~Up(g)
    <3>. SUFFICES ASSUME stopCall # "nobody", NEW g \in Roots PROVE ~Up(g)
      BY Zenon
    <3>1. stopCall = "returned"
      BY DEF Exits
    <3>2. rootComponent = 0
      BY <3>1 DEF SystemInvariant, Phases
    <3>3. g # 0
      BY DEF Roots
    <3>. QED BY <3>2, <3>3, Zenon DEF SystemInvariant, RootsInTurn, Down
  <2>. QED BY <2>1, <2>2, Zenon DEF CleanExit, TroubleIsReported, Pending
<1>. QED BY <1>1, <1>2, <1>3, SystemInit, SystemNext, PTL DEF Spec
=============================================================================
