------------------------------ MODULE MCAsync ------------------------------
(***************************************************************************)
(* An instance of Mutex and of Threadlet, the primitives of src/async, to  *)
(* be checked together.  They share nothing, so that a behaviour is one of *)
(* either while the other stays as it was made.                            *)
(***************************************************************************)
EXTENDS Mutex, Threadlet

VARIABLE subject   \* which of them this behaviour is of

asyncVars == <<vars, threadVars, subject>>

AsyncInit ==
  /\ Init /\ ThreadInit
  /\ subject \in {"Mutex", "Threadlet"}

AsyncNext ==
  \/ subject = "Mutex" /\ Next /\ UNCHANGED <<threadVars, subject>>
  \/ subject = "Threadlet" /\ ThreadNext /\ UNCHANGED <<vars, subject>>

FairAsyncSpec ==
  AsyncInit /\ [][AsyncNext]_asyncVars /\ Fairness /\ ThreadFairness
=============================================================================
