----------------------------- MODULE WebappRoot -----------------------------
(***************************************************************************)
(* The component hierarchies of src/webapp-core: a WebappRoot with its     *)
(* four managers and their members, each a BaseComponent of src/compy with *)
(* the state that its ControlContext keeps.                                *)
(*                                                                         *)
(* A system that is reloaded goes through several roots, one after the     *)
(* other; each is started and stopped at most once.  The members do their  *)
(* own work to start and to stop, take any time over it, and may fail.     *)
(***************************************************************************)
EXTENDS Integers, FiniteSets, Sequences

CONSTANTS
  MaxRoots,          \* bound: how many hierarchies are ever made
  Hosts, Services, Applications, Endpoints,   \* the members of each manager
  MaxFaults          \* bound: how many members' start() or stop() throw

Kinds == {"host", "service", "application", "endpoint"}
Members(kind) ==
  CASE kind = "host" -> Hosts
    [] kind = "service" -> Services
    [] kind = "application" -> Applications
    [] kind = "endpoint" -> Endpoints
AllMembers == UNION {Members(kind) : kind \in Kinds}
Components == {"root"} \union Kinds \union AllMembers

ASSUME HierarchyAssumption ==
  /\ MaxRoots \in Nat \ {0} /\ MaxFaults \in Nat
  /\ \A k \in Kinds : Members(k) \intersect ({"root"} \union Kinds) = {}
  /\ \A k, m \in Kinds : k # m => Members(k) \intersect Members(m) = {}

Roots == 1 .. MaxRoots

VARIABLES
  state,             \* the state of every component of every root
  rejected,          \* the members whose start() or stop() threw
  at                 \* how far start() or stop() of every root is

webapp == <<state, rejected, at>>

(* What `state` of a component can be; "new" is before init() has a context. *)
States == {"new", "initializing", "stopped", "starting", "running", "stopping"}

(***************************************************************************)
(* A call of a root's start() or stop(): `step` is what it awaits, until   *)
(* it returns or throws and its caller goes on.                            *)
(***************************************************************************)
NotCalled == [op |-> "none", step |-> 0]
Returned == [op |-> "returned", step |-> 0]
Threw == [op |-> "threw", step |-> 0]
Places == {NotCalled, Returned, Threw} \union [op : {"start"}, step : 1 .. 4]
            \union [op : {"stop"}, step : 1 .. 3]

WebappTypeOK ==
  /\ state \in [Roots -> [Components -> States]]
  /\ rejected \subseteq Roots \X AllMembers
  /\ at \in [Roots -> Places]

WebappInit ==
  /\ state = [g \in Roots |-> [c \in Components |-> "new"]]
  /\ rejected = {}
  /\ at = [g \in Roots |-> NotCalled]

InState(g, k, s) == \A m \in Members(k) : state[g][m] = s
SomeRejected(g, k) == \E m \in Members(k) : <<g, m>> \in rejected
Puts(g, kinds, s) ==
  [c \in Components |->
     IF c \in kinds \union UNION {Members(k) : k \in kinds} THEN s ELSE state[g][c]]

-----------------------------------------------------------------------------
(* Mutant of StartOrder: the endpoints are open before the applications run. *)
StartOrderEarly == <<"host", "endpoint", "service", "application">>

(* WebappRoot._impl_start() awaits its managers one after the other. *)
StartOrder == <<"host", "service", "application", "endpoint">>

(* start() of a root: init() first, of the root and all below it, which may
   throw; then the first manager. *)
StartRoot(g) ==
  /\ state[g]["root"] = "new"
  /\ \/ /\ state' = [state EXCEPT ![g] =
             [c \in Components |->
                IF c \in {"root", StartOrder[1]} \union Members(StartOrder[1])
                THEN "starting" ELSE "stopped"]]
        /\ at' = [at EXCEPT ![g] = [op |-> "start", step |-> 1]]
     \/ /\ state' = [state EXCEPT ![g]["root"] = "initializing"]
        /\ at' = [at EXCEPT ![g] = Threw]
  /\ UNCHANGED rejected

(* A manager's Promise.all() is fulfilled: it is running, the next one starts;
   after the last one, so is the root, and start() returns. *)
StartGoesOn(g) ==
  LET n == at[g].step
      k == StartOrder[n]
  IN  /\ at[g].op = "start"
      /\ InState(g, k, "running")
      /\ IF n < Len(StartOrder)
         THEN /\ state' = [state EXCEPT ![g] =
                   [Puts(g, {StartOrder[n + 1]}, "starting") EXCEPT ![k] = "running"]]
              /\ at' = [at EXCEPT ![g].step = n + 1]
         ELSE /\ state' = [state EXCEPT ![g][k] = "running", ![g]["root"] = "running"]
              /\ at' = [at EXCEPT ![g] = Returned]
      /\ UNCHANGED rejected

(* It is rejected as soon as one member's start() is; the others go on. *)
StartThrows(g) ==
  /\ at[g].op = "start"
  /\ SomeRejected(g, StartOrder[at[g].step])
  /\ at' = [at EXCEPT ![g] = Threw]
  /\ UNCHANGED <<state, rejected>>

(* stop() of a root: 'Not running.' or the endpoints' manager first. *)
StopRoot(g) ==
  /\ IF state[g]["root"] = "running"
     THEN /\ state' = [state EXCEPT ![g] =
                [Puts(g, {"endpoint"}, "stopping") EXCEPT !["root"] = "stopping"]]
          /\ at' = [at EXCEPT ![g] = [op |-> "stop", step |-> 1]]
     ELSE /\ at' = [at EXCEPT ![g] = Threw]
          /\ UNCHANGED state
  /\ UNCHANGED rejected

(* WebappRoot._impl_stop() tells the applications once the endpoints have
   stopped or a grace period is over, tells the services and hosts once the
   applications have or another is over, and then awaits everybody. *)
StopGoesOn(g) ==
  /\ at[g].op = "stop"
  /\ CASE at[g].step = 1 ->
            /\ state' = [state EXCEPT ![g] = Puts(g, {"application"}, "stopping")]
            /\ at' = [at EXCEPT ![g].step = 2]
       [] at[g].step = 2 ->
            /\ state' = [state EXCEPT ![g] = Puts(g, {"service", "host"}, "stopping")]
            /\ at' = [at EXCEPT ![g].step = 3]
       [] OTHER ->
            /\ \A k \in Kinds : state[g][k] = "stopped"
            /\ state' = [state EXCEPT ![g]["root"] = "stopped"]
            /\ at' = [at EXCEPT ![g] = Returned]
  /\ UNCHANGED rejected

(* What is awaited at each step of it, and throws as soon as a member's stop()
   does. *)
StopAwaits(g) ==
  CASE at[g].step = 1 -> {"endpoint"}
    [] at[g].step = 2 -> {"application"}
    [] OTHER -> Kinds
StopThrows(g) ==
  /\ at[g].op = "stop"
  /\ \E k \in StopAwaits(g) : SomeRejected(g, k)
  /\ at' = [at EXCEPT ![g] = Threw]
  /\ UNCHANGED <<state, rejected>>

(* ComponentManager._impl_stop(): all members have stopped. *)
ManagerStops(g, k) ==
  /\ state[g][k] = "stopping"
  /\ InState(g, k, "stopped")
  /\ state' = [state EXCEPT ![g][k] = "stopped"]
  /\ UNCHANGED <<rejected, at>>

(* A member's own start() or stop() is done, or throws. *)
MemberIsDone(g, m) ==
  /\ <<g, m>> \notin rejected
  /\ \/ /\ state[g][m] = "starting"
        /\ state' = [state EXCEPT ![g][m] = "running"]
     \/ /\ state[g][m] = "stopping"
        /\ state' = [state EXCEPT ![g][m] = "stopped"]
  /\ UNCHANGED <<rejected, at>>
MemberThrows(g, m) ==
  /\ <<g, m>> \notin rejected
  /\ Cardinality(rejected) < MaxFaults
  /\ state[g][m] \in {"starting", "stopping"}
  /\ rejected' = rejected \union {<<g, m>>}
  /\ UNCHANGED <<state, at>>

(* The caller of start() or stop() has gone on. *)
Settled(g) == at[g] \in {Returned, Threw}

WebappStep ==
  \E g \in Roots :
    \/ StartGoesOn(g) \/ StartThrows(g) \/ StopGoesOn(g) \/ StopThrows(g)
    \/ \E k \in Kinds : ManagerStops(g, k)
    \/ \E m \in AllMembers : MemberIsDone(g, m) \/ MemberThrows(g, m)

-----------------------------------------------------------------------------
(* An endpoint that accepts requests has all it needs: its hosts, services and
   applications are up before it is, and are told to stop after it. *)
EndpointsAreServed ==
  \A g \in Roots :
    (\E e \in Endpoints : state[g][e] = "running")
      => \A k \in Kinds \ {"endpoint"} : InState(g, k, "running")

(* Something of a root is, or may be, active. *)
Up(g) == \E m \in AllMembers : state[g][m] \in {"starting", "running", "stopping"}
=============================================================================
