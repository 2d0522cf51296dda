------------------------------- MODULE Mutex -------------------------------
(***************************************************************************)
(* The promise-based mutex of src/async/export/Mutex.js.                   *)
(*                                                                         *)
(* Every step is one synchronous stretch of JavaScript.  lock() runs       *)
(* synchronously up to its await; a waiter whose promise was resolved by   *)
(* unlock() runs on in a later microtask; and whoever awaits lock() runs   *)
(* on in a microtask later still.  Other code may run between those        *)
(* microtasks, which is why #lockedBy still names the previous owner while *)
(* a released waiter has not resumed.                                      *)
(*                                                                         *)
(* A client is a thread of control that locks, works and calls its         *)
(* unlocker, any number of times, each unlocker once.  serialize() is such *)
(* a client by itself.                                                     *)
(***************************************************************************)
EXTENDS Integers, Sequences

CONSTANTS
  Clients,         \* the threads of control that share the instance
  NoKey,           \* #lockedBy === null
  MaxRounds        \* bound: calls of lock() by one client

ASSUME ConstantsAssumption ==
  /\ MaxRounds \in Nat
  /\ NoKey \notin Clients \X Nat

VARIABLES
  lockedBy,        \* #lockedBy: the key of the current holder, or NoKey
  waiters,         \* #waiters: the keys whose release function is queued
  pc,              \* where each client is in lock() and around it
  round            \* how many times each client has called lock()

vars == <<lockedBy, waiters, pc, round>>

(* The Symbol made by the client's latest call of lock(): unique to it. *)
Key(c) == <<c, round[c]>>
Keys == Clients \X Nat

(***************************************************************************)
(* "idle"      not in a call of lock(), not in the critical section        *)
(* "queued"    in lock(), awaiting its place in #waiters                   *)
(* "released"  in lock(), its promise resolved, its microtask to come      *)
(* "acquired"  lock() has returned, the caller's microtask is to come      *)
(* "holding"   in the critical section, the unlocker in hand               *)
(***************************************************************************)
Places == {"idle", "queued", "released", "acquired", "holding"}

TypeOK ==
  /\ lockedBy \in Keys \union {NoKey}
  /\ waiters \in Seq(Keys)
  /\ pc \in [Clients -> Places]
  /\ round \in [Clients -> Nat]

Init ==
  /\ lockedBy = NoKey
  /\ waiters = <<>>
  /\ pc = [c \in Clients |-> "idle"]
  /\ round = [c \in Clients |-> 0]

-----------------------------------------------------------------------------
(* lock() when nobody holds the lock: taken synchronously. *)
LockFree(c) ==
  /\ pc[c] = "idle"
  /\ round[c] < MaxRounds
  /\ lockedBy = NoKey
  /\ round' = [round EXCEPT ![c] = @ + 1]
  /\ lockedBy' = <<c, round[c] + 1>>
  /\ pc' = [pc EXCEPT ![c] = "acquired"]
  /\ UNCHANGED waiters

(* Mutant of LockContended: the newest waiter comes first. *)
LockContendedLifo(c) ==
  /\ pc[c] = "idle" /\ round[c] < MaxRounds /\ lockedBy # NoKey
  /\ round' = [round EXCEPT ![c] = @ + 1]
  /\ waiters' = <<<<c, round[c] + 1>>>> \o waiters
  /\ pc' = [pc EXCEPT ![c] = "queued"]
  /\ UNCHANGED lockedBy

(* lock() under contention: queue a release function and await it. *)
LockContended(c) ==
  /\ pc[c] = "idle"
  /\ round[c] < MaxRounds
  /\ lockedBy # NoKey
  /\ round' = [round EXCEPT ![c] = @ + 1]
  /\ waiters' = Append(waiters, <<c, round[c] + 1>>)
  /\ pc' = [pc EXCEPT ![c] = "queued"]
  /\ UNCHANGED lockedBy

(* The microtask in which a released waiter goes on and takes ownership. *)
WaiterResumes(c) ==
  /\ pc[c] = "released"
  /\ lockedBy' = Key(c)
  /\ pc' = [pc EXCEPT ![c] = "acquired"]
  /\ UNCHANGED <<waiters, round>>

(* The microtask in which the caller of lock() gets the unlocker. *)
CallerResumes(c) ==
  /\ pc[c] = "acquired"
  /\ pc' = [pc EXCEPT ![c] = "holding"]
  /\ UNCHANGED <<lockedBy, waiters, round>>

(* The body of the unlocker once it has passed its owner check. *)
ReleaseNext ==
  IF waiters = <<>>
  THEN /\ lockedBy' = NoKey
       /\ UNCHANGED waiters
  ELSE /\ waiters' = Tail(waiters)
       /\ UNCHANGED lockedBy

(* Mutant of PlacesAfterUnlock: the next waiter's promise is not resolved. *)
NobodyReleased(c) == [pc EXCEPT ![c] = "idle"]

(* The place of each client after the unlocker ran for c. *)
PlacesAfterUnlock(c) ==
  [d \in Clients |->
     IF waiters # <<>> /\ d = Head(waiters)[1] THEN "released"
     ELSE IF d = c THEN "idle" ELSE pc[d]]

(* The unlocker, called by the client that leaves the critical section. *)
Unlock(c) ==
  /\ pc[c] = "holding"
  /\ IF lockedBy = Key(c)
     THEN /\ ReleaseNext
          /\ pc' = PlacesAfterUnlock(c)
     ELSE /\ pc' = [pc EXCEPT ![c] = "idle"]     \* it threw
          /\ UNCHANGED <<lockedBy, waiters>>
  /\ UNCHANGED round

Next ==
  \E c \in Clients :
    \/ LockFree(c) \/ LockContended(c)
    \/ WaiterResumes(c) \/ CallerResumes(c)
    \/ Unlock(c)

(***************************************************************************)
(* Microtasks always run, and a client of serialize() always reaches the   *)
(* finally clause that unlocks, if what it serializes settles.             *)
(***************************************************************************)
Fairness ==
  \A c \in Clients :
    WF_vars(WaiterResumes(c) \/ CallerResumes(c) \/ Unlock(c))

Spec == Init /\ [][Next]_vars
FairSpec == Spec /\ Fairness

-----------------------------------------------------------------------------
(* The clients that were let through: at most one of them, see below. *)
Front == {c \in Clients : pc[c] \in {"released", "acquired", "holding"}}

(* Two threads of control are never both past lock() and before their
   unlocker.  The class promises "_non-reentrant_ mutual exclusion". *)
MutualExclusion ==
  \A c, d \in Clients :
    pc[c] \in {"acquired", "holding"} /\ pc[d] \in {"acquired", "holding"} => c = d

(* The strengthening that makes MutualExclusion inductive: one client is let
   through at a time, #lockedBy is its key as soon as it resumed, a queued
   release function belongs to a client that waits for it, and nobody waits
   on a free lock. *)
OneLetThrough == \A c, d \in Front : c = d
OwnerIsLetThrough ==
  /\ \A c \in Clients : pc[c] \in {"acquired", "holding"} => lockedBy = Key(c)
  /\ (lockedBy = NoKey) <=> (Front = {})
WaitersAreQueued ==
  /\ \A i \in 1 .. Len(waiters) :
       pc[waiters[i][1]] = "queued" /\ waiters[i] = Key(waiters[i][1])
  /\ \A i, j \in 1 .. Len(waiters) : waiters[i][1] = waiters[j][1] => i = j
  /\ \A c \in Clients : pc[c] = "queued" => \E i \in 1 .. Len(waiters) : waiters[i][1] = c
  /\ lockedBy = NoKey => waiters = <<>>
LockInvariant ==
  OneLetThrough /\ OwnerIsLetThrough /\ WaitersAreQueued

(* Every call of lock() gets the lock, if those before it unlock. *)
EveryLockGranted ==
  \A c \in Clients : pc[c] \in {"queued", "released"} ~> pc[c] = "holding"

-----------------------------------------------------------------------------
(* The refinement: the line is who was let through, then who is queued. *)
AbstractLine ==
  (IF Front = {} THEN <<>> ELSE <<CHOOSE c \in Front : TRUE>>)
    \o [i \in 1 .. Len(waiters) |-> waiters[i][1]]
Abstract ==
  INSTANCE LockQueue WITH line <- AbstractLine,
                          critical <- {c \in Clients : pc[c] = "holding"}

(* serialize() and lock() serve the critical section in request order, one at a
   time: the tests 'provides the lock in request order'. *)
ServesInRequestOrder == Abstract!Spec
=============================================================================
