----------------------------- MODULE LockQueue -----------------------------
(***************************************************************************)
(* What a fair, non-reentrant lock promises to the clients that share it:  *)
(* requests stand in one line, only the head of the line may be in the     *)
(* critical section, and the line is served in the order of the requests.  *)
(* It says nothing of keys, promises or microtasks.  Mutex.tla implements  *)
(* it.                                                                     *)
(***************************************************************************)
EXTENDS Integers, Sequences

CONSTANT Clients     \* the threads of control that share the lock

VARIABLES
  line,              \* the clients that asked and have not left, oldest first
  critical           \* the clients inside the critical section

vars == <<line, critical>>

Init ==
  /\ line = <<>>
  /\ critical = {}

(* A client that is not in line gets in line. *)
Request(c) ==
  /\ \A i \in 1 .. Len(line) : line[i] # c
  /\ line' = Append(line, c)
  /\ UNCHANGED critical

(* The head of the line enters. *)
Enter(c) ==
  /\ line # <<>>
  /\ c = Head(line)
  /\ critical = {}
  /\ critical' = {c}
  /\ UNCHANGED line

(* The client inside leaves the critical section and the line. *)
Leave(c) ==
  /\ critical = {c}
  /\ line # <<>>
  /\ c = Head(line)
  /\ critical' = {}
  /\ line' = Tail(line)

Next == \E c \in Clients : Request(c) \/ Enter(c) \/ Leave(c)

Spec == Init /\ [][Next]_vars
============================================================================
