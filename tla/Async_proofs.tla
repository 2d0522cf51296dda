--------------------------- MODULE Async_proofs ---------------------------
(***************************************************************************)
(* Proofs about Mutex, for any number of clients and of calls of lock(),   *)
(* and about Threadlet, for any callers, any number of runs, and with or   *)
(* without a start function.                                               *)
(***************************************************************************)
EXTENDS Mutex, Threadlet, SequenceTheorems, TLAPS

IInv == TypeOK /\ LockInvariant

(* What is left of a line of one. *)
LEMMA TailOfOne ==
  ASSUME NEW S, NEW s \in Seq(S), Len(s) = 1
  PROVE  Tail(s) = <<>>
<1>1. s # <<>>
  OBVIOUS
<1>2. Tail(s) \in Seq(S) /\ Len(Tail(s)) = 0
  BY <1>1, HeadTailProperties
<1> QED
  BY <1>2, EmptySeq

(* Every entry of #waiters, taken apart. *)
LEMMA WaiterParts ==
  ASSUME TypeOK
  PROVE  /\ Len(waiters) \in Nat
         /\ \A i \in 1 .. Len(waiters) :
              /\ waiters[i] \in Keys
              /\ waiters[i][1] \in Clients /\ waiters[i][2] \in Nat
              /\ waiters[i] = <<waiters[i][1], waiters[i][2]>>
<1>1. Len(waiters) \in Nat /\ \A i \in 1 .. Len(waiters) : waiters[i] \in Keys
  BY DEF TypeOK
<1>2. \A k \in Keys : k[1] \in Clients /\ k[2] \in Nat /\ k = <<k[1], k[2]>>
  BY DEF Keys
<1> QED
  BY <1>1, <1>2

LEMMA InitIInv == Init => IInv
<1> SUFFICES ASSUME Init PROVE IInv
  OBVIOUS
<1> USE ConstantsAssumption DEF Init
<1>1. TypeOK
  BY DEF TypeOK, Places
<1>2. OneLetThrough /\ OwnerIsLetThrough /\ WaitersAreQueued
  BY DEF OneLetThrough, OwnerIsLetThrough, WaitersAreQueued, Front
<1> QED
  BY <1>1, <1>2 DEF IInv, LockInvariant

LEMMA TypeStep == TypeOK /\ [Next]_vars => TypeOK'
<1> SUFFICES ASSUME TypeOK, [Next]_vars PROVE TypeOK'
  OBVIOUS
<1> USE ConstantsAssumption DEF TypeOK, Keys
<1>1. ASSUME NEW c \in Clients, LockFree(c) PROVE TypeOK'
  BY <1>1 DEF LockFree, Places
<1>2. ASSUME NEW c \in Clients, LockContended(c) PROVE TypeOK'
  BY <1>2 DEF LockContended, Places
<1>3. ASSUME NEW c \in Clients, WaiterResumes(c) PROVE TypeOK'
  BY <1>3 DEF WaiterResumes, Places, Key
<1>4. ASSUME NEW c \in Clients, CallerResumes(c) PROVE TypeOK'
  BY <1>4 DEF CallerResumes, Places
<1>5. ASSUME NEW c \in Clients, Unlock(c) PROVE TypeOK'
  <2>1. pc' \in [Clients -> Places]
    BY <1>5 DEF Unlock, PlacesAfterUnlock, Places
  <2>2. lockedBy' \in Keys \union {NoKey} /\ waiters' \in Seq(Keys)
    <3>1. CASE lockedBy = Key(c) /\ waiters # <<>>
      <4>1. waiters' = Tail(waiters) /\ lockedBy' = lockedBy
        BY <1>5, <3>1 DEF Unlock, ReleaseNext
      <4> QED
        BY <3>1, <4>1
    <3>2. CASE lockedBy = Key(c) /\ waiters = <<>>
      BY <1>5, <3>2 DEF Unlock, ReleaseNext
    <3>3. CASE lockedBy # Key(c)
      BY <1>5, <3>3 DEF Unlock
    <3> QED
      BY <3>1, <3>2, <3>3
  <2>3. round' = round
    BY <1>5 DEF Unlock
  <2> QED
    BY <2>1, <2>2, <2>3
<1>7. CASE UNCHANGED vars
  BY <1>7 DEF vars
<1> QED
  BY <1>1, <1>2, <1>3, <1>4, <1>5, <1>7 DEF Next

(* lock() on a free lock: nobody was let through and nobody waits. *)
LEMMA LockFreeKeeps == ASSUME IInv, TypeOK', NEW c \in Clients, LockFree(c) PROVE LockInvariant'
<1> USE ConstantsAssumption DEF IInv, LockInvariant, LockFree, TypeOK
<1>1. Front = {} /\ waiters = <<>>
  BY DEF OwnerIsLetThrough, WaitersAreQueued
<1>2. /\ \A d \in Clients : pc'[d] = IF d = c THEN "acquired" ELSE pc[d]
      /\ round'[c] = round[c] + 1 /\ lockedBy' = <<c, round'[c]>>
  OBVIOUS
<1>3. Front' = {c}
  BY <1>1, <1>2 DEF Front
<1>4. OneLetThrough'
  BY <1>3 DEF OneLetThrough
<1>5. OwnerIsLetThrough'
  <2>1. lockedBy' # NoKey
    BY <1>2
  <2>2. \A d \in Clients : pc'[d] \in {"acquired", "holding"} => d = c
    BY <1>3 DEF Front
  <2> QED
    BY <1>2, <1>3, <2>1, <2>2 DEF OwnerIsLetThrough, Key
<1>6. WaitersAreQueued'
  BY <1>1, <1>2 DEF WaitersAreQueued
<1> QED
  BY <1>4, <1>5, <1>6

(* lock() under contention adds a waiter who was not in line. *)
LEMMA LockContendedKeeps ==
  ASSUME IInv, TypeOK', NEW c \in Clients, LockContended(c) PROVE LockInvariant'
<1> USE ConstantsAssumption DEF IInv, LockInvariant, LockContended, TypeOK
<1>1. /\ \A d \in Clients : pc'[d] = IF d = c THEN "queued" ELSE pc[d]
      /\ \A d \in Clients : round'[d] = IF d = c THEN round[d] + 1 ELSE round[d]
      /\ UNCHANGED lockedBy /\ lockedBy # NoKey /\ pc[c] = "idle"
  OBVIOUS
<1>2. Front' = Front
  BY <1>1 DEF Front
<1>3. OneLetThrough' /\ OwnerIsLetThrough'
  BY <1>1, <1>2 DEF OneLetThrough, OwnerIsLetThrough, Key
<1>4. WaitersAreQueued'
  <2> DEFINE n == Len(waiters)
             k == <<c, round'[c]>>
  <2>1. /\ n \in Nat /\ waiters' = Append(waiters, k) /\ k \in Keys
        /\ \A i \in 1 .. n : waiters[i] \in Keys /\ waiters[i][1] \in Clients
    <3>1. round'[c] = round[c] + 1 /\ round[c] \in Nat
      BY <1>1
    <3>2. k \in Keys
      BY <3>1 DEF Keys
    <3>3. waiters' = Append(waiters, k)
      BY <3>1
    <3> QED
      BY <3>2, <3>3, WaiterParts
  <2>2. /\ Len(waiters') = n + 1 /\ waiters'[n + 1] = k
        /\ \A i \in 1 .. n : waiters'[i] = waiters[i]
    BY <2>1
  <2>3. /\ \A i \in 1 .. n : /\ pc[waiters[i][1]] = "queued"
                            /\ waiters[i] = <<waiters[i][1], round[waiters[i][1]]>>
        /\ \A i, j \in 1 .. n : waiters[i][1] = waiters[j][1] => i = j
        /\ \A d \in Clients : pc[d] = "queued" => \E i \in 1 .. n : waiters[i][1] = d
    BY DEF WaitersAreQueued, Key
  <2>4. \A i \in 1 .. n : waiters[i][1] # c
    BY <1>1, <2>3
  <2>5. \A i \in 1 .. n + 1 :
          /\ pc'[waiters'[i][1]] = "queued"
          /\ waiters'[i] = <<waiters'[i][1], round'[waiters'[i][1]]>>
    <3> TAKE i \in 1 .. n + 1
    <3>1. CASE i = n + 1
      BY ONLY <1>1, <2>2, <3>1
    <3>2. CASE i \in 1 .. n
      BY ONLY <1>1, <2>1, <2>2, <2>3, <2>4, <3>2
    <3> QED
      BY ONLY <2>1, <3>1, <3>2
  <2>6. \A i, j \in 1 .. n + 1 : waiters'[i][1] = waiters'[j][1] => i = j
    <3>1. \A i \in 1 .. n + 1 : i \in 1 .. n \/ i = n + 1
      BY ONLY <2>1
    <3>2. waiters'[n + 1][1] = c
      BY ONLY <2>2
    <3> QED
      BY ONLY <2>2, <2>3, <2>4, <3>1, <3>2
  <2>7. \A d \in Clients : pc'[d] = "queued" => \E i \in 1 .. n + 1 : waiters'[i][1] = d
    <3> TAKE d \in Clients
    <3>1. CASE d = c
      BY ONLY <2>1, <2>2, <3>1
    <3>2. CASE d # c
      BY ONLY <1>1, <2>1, <2>2, <2>3, <3>2
    <3> QED
      BY ONLY <3>1, <3>2
  <2> QED
    BY ONLY <1>1, <2>2, <2>5, <2>6, <2>7 DEF WaitersAreQueued, Key
<1> QED
  BY <1>3, <1>4

(* A client that was let through goes one microtask further. *)
LEMMA ResumesKeep ==
  ASSUME IInv, TypeOK', NEW c \in Clients, WaiterResumes(c) \/ CallerResumes(c)
  PROVE  LockInvariant'
<1> USE ConstantsAssumption DEF IInv, LockInvariant, WaiterResumes, CallerResumes, TypeOK
<1>1. /\ c \in Front
      /\ pc'[c] \in {"acquired", "holding"}
      /\ \A d \in Clients : d # c => pc'[d] = pc[d]
      /\ UNCHANGED <<waiters, round>>
  BY DEF Front
<1>2. Front' = Front
  BY <1>1 DEF Front
<1>3. lockedBy' = Key(c)
  BY DEF OwnerIsLetThrough
<1>4. OneLetThrough'
  BY <1>2 DEF OneLetThrough
<1>5. OwnerIsLetThrough'
  <2>1. \A d \in Clients : pc'[d] \in {"acquired", "holding"} => d = c
    BY <1>1, <1>2 DEF OneLetThrough, Front
  <2>2. Key(c) # NoKey
    BY DEF Key
  <2> QED
    BY <1>1, <1>2, <1>3, <2>1, <2>2 DEF OwnerIsLetThrough, Key
<1>6. WaitersAreQueued'
  <2>1. pc[c] # "queued" /\ lockedBy' # NoKey
    BY <1>3 DEF Key
  <2>2. \A i \in 1 .. Len(waiters) : waiters[i][1] \in Clients
    BY WaiterParts
  <2>3. /\ \A i \in 1 .. Len(waiters) :
             pc[waiters[i][1]] = "queued" /\ waiters[i] = Key(waiters[i][1])
        /\ \A i, j \in 1 .. Len(waiters) : waiters[i][1] = waiters[j][1] => i = j
        /\ \A d \in Clients : pc[d] = "queued" => \E i \in 1 .. Len(waiters) : waiters[i][1] = d
    BY DEF WaitersAreQueued
  <2>4. pc'[c] # "queued"
    BY <1>1
  <2> QED
    BY ONLY <1>1, <2>1, <2>2, <2>3, <2>4 DEF WaitersAreQueued, Key
<1> QED
  BY <1>4, <1>5, <1>6

(* What unlocking does: nothing is left if nobody waits, else the head of the
   queue is let through in place of the one who unlocks. *)
LEMMA UnlockEffect ==
  ASSUME IInv, NEW c \in Clients, Unlock(c)
  PROVE  /\ Front = {c} /\ lockedBy = Key(c) /\ lockedBy # NoKey
         /\ waiters = <<>> =>
              /\ waiters' = <<>> /\ lockedBy' = NoKey
              /\ \A d \in Clients : pc'[d] = IF d = c THEN "idle" ELSE pc[d]
         /\ waiters # <<>> =>
              /\ waiters' = Tail(waiters) /\ lockedBy' = lockedBy
              /\ waiters[1][1] \in Clients /\ waiters[1][1] # c
              /\ \A d \in Clients :
                   pc'[d] = IF d = waiters[1][1] THEN "released"
                            ELSE IF d = c THEN "idle" ELSE pc[d]
<1> USE ConstantsAssumption DEF IInv, LockInvariant, Unlock, TypeOK
<1>1. Front = {c}
  BY DEF OneLetThrough, Front
<1>2. lockedBy = Key(c) /\ Key(c) # NoKey
  BY DEF OwnerIsLetThrough, Key
<1>3. pc' = PlacesAfterUnlock(c) /\ ReleaseNext
  BY <1>2
<1>4. ASSUME waiters # <<>>
      PROVE  /\ Head(waiters) = waiters[1] /\ waiters[1][1] \in Clients
             /\ pc[waiters[1][1]] = "queued"
  <2>1. 1 \in 1 .. Len(waiters) /\ Head(waiters) = waiters[1]
    BY <1>4
  <2> QED
    BY <2>1 DEF WaitersAreQueued, Keys
<1> QED
  BY <1>1, <1>2, <1>3, <1>4 DEF PlacesAfterUnlock, ReleaseNext

LEMMA UnlockKeeps == ASSUME IInv, TypeOK', NEW c \in Clients, Unlock(c) PROVE LockInvariant'
<1> USE ConstantsAssumption DEF IInv, LockInvariant, TypeOK
<1>0. round' = round
  BY DEF Unlock
<1>1. CASE waiters = <<>>
  <2>1. /\ waiters' = <<>> /\ lockedBy' = NoKey
        /\ \A d \in Clients : pc'[d] = IF d = c THEN "idle" ELSE pc[d]
        /\ Front = {c}
    BY <1>1, UnlockEffect
  <2>2. Front' = {}
    BY <2>1 DEF Front
  <2>3. OneLetThrough' /\ OwnerIsLetThrough'
    BY <2>1, <2>2 DEF OneLetThrough, OwnerIsLetThrough, Front
  <2>4. WaitersAreQueued'
    BY <1>1, <2>1 DEF WaitersAreQueued
  <2> QED
    BY <2>3, <2>4
<1>2. CASE waiters # <<>>
  <2> DEFINE h == waiters[1][1]
             n == Len(waiters)
  <2>1. /\ waiters' = Tail(waiters) /\ lockedBy' = lockedBy /\ lockedBy # NoKey
        /\ h \in Clients /\ h # c /\ Front = {c}
        /\ \A d \in Clients :
             pc'[d] = IF d = h THEN "released" ELSE IF d = c THEN "idle" ELSE pc[d]
    BY <1>2, UnlockEffect
  <2>2. Front' = {h}
    BY <2>1 DEF Front
  <2>3. OneLetThrough'
    BY <2>2 DEF OneLetThrough
  <2>4. OwnerIsLetThrough'
    BY <2>1, <2>2 DEF OwnerIsLetThrough, Front
  <2>5. WaitersAreQueued'
    <3>1. /\ n \in Nat /\ n >= 1
          /\ Len(waiters') = n - 1
          /\ \A i \in 1 .. n - 1 : waiters'[i] = waiters[i + 1]
          /\ \A i \in 1 .. n : waiters[i][1] \in Clients
      <4>1. n \in Nat /\ \A i \in 1 .. n : waiters[i][1] \in Clients
        BY WaiterParts
      <4>2. n >= 1
        BY <1>2, <4>1
      <4> QED
        BY <1>2, <2>1, <4>1, <4>2
    <3>2. /\ \A i \in 1 .. n : /\ pc[waiters[i][1]] = "queued"
                              /\ waiters[i] = <<waiters[i][1], round[waiters[i][1]]>>
          /\ \A i, j \in 1 .. n : waiters[i][1] = waiters[j][1] => i = j
          /\ \A d \in Clients : pc[d] = "queued" => \E i \in 1 .. n : waiters[i][1] = d
      BY DEF WaitersAreQueued, Key
    <3>3. \A i \in 1 .. n - 1 : i + 1 \in 1 .. n /\ i + 1 # 1
      BY ONLY <3>1
    <3>4. pc[c] # "queued" /\ 1 \in 1 .. n
      <4>1. pc[c] = "holding"
        BY DEF Unlock
      <4> QED
        BY <3>1, <4>1
    <3>5. \A i \in 1 .. n - 1 : waiters[i + 1][1] # h /\ waiters[i + 1][1] # c
      BY ONLY <3>2, <3>3, <3>4
    <3>6. \A i \in 1 .. n - 1 :
            /\ pc'[waiters'[i][1]] = "queued"
            /\ waiters'[i] = <<waiters'[i][1], round'[waiters'[i][1]]>>
      BY ONLY <1>0, <2>1, <3>1, <3>2, <3>3, <3>5
    <3>7. \A i, j \in 1 .. n - 1 : waiters'[i][1] = waiters'[j][1] => i = j
      <4>0. SUFFICES ASSUME NEW i \in 1 .. n - 1, NEW j \in 1 .. n - 1,
                            waiters'[i][1] = waiters'[j][1]
                     PROVE  i = j
        OBVIOUS
      <4>1. i + 1 \in 1 .. n /\ j + 1 \in 1 .. n
        BY ONLY <3>3
      <4>2. waiters[i + 1][1] = waiters[j + 1][1]
        BY ONLY <4>0, <3>1
      <4>3. i + 1 = j + 1
        BY ONLY <3>2, <4>1, <4>2
      <4> QED
        <5>1. i \in Int /\ j \in Int
          BY ONLY <3>1
        <5> QED
          BY ONLY <4>3, <5>1
    <3>8. \A d \in Clients : pc'[d] = "queued" => \E i \in 1 .. n - 1 : waiters'[i][1] = d
      <4> SUFFICES ASSUME NEW d \in Clients, pc'[d] = "queued"
                   PROVE  \E i \in 1 .. n - 1 : waiters'[i][1] = d
        OBVIOUS
      <4>1. pc[d] = "queued" /\ d # h
        BY <2>1
      <4>2. PICK i \in 1 .. n : waiters[i][1] = d
        BY <3>2, <4>1
      <4>3. i # 1 /\ i - 1 \in 1 .. n - 1 /\ waiters'[i - 1] = waiters[i]
        BY ONLY <3>1, <4>1, <4>2
      <4> QED
        BY ONLY <4>2, <4>3
    <3>9. lockedBy' # NoKey /\ Len(waiters') = n - 1
      BY <2>1, <3>1
    <3> QED
      BY ONLY <3>6, <3>7, <3>8, <3>9 DEF WaitersAreQueued, Key
  <2> QED
    BY <2>3, <2>4, <2>5
<1> QED
  BY <1>1, <1>2

LEMMA NextIInv == IInv /\ [Next]_vars => IInv'
<1> SUFFICES ASSUME IInv, [Next]_vars PROVE IInv'
  OBVIOUS
<1>1. TypeOK'
  BY TypeStep DEF IInv
<1>3. CASE UNCHANGED vars
  BY <1>3 DEF vars, IInv, TypeOK, LockInvariant, OneLetThrough, OwnerIsLetThrough,
              WaitersAreQueued, Front, Key
<1> QED
  BY <1>1, <1>3, LockFreeKeeps, LockContendedKeeps, ResumesKeep, UnlockKeeps
    DEF Next, IInv

(* The state is well typed, and at most one client at a time is let through, its
   key in #lockedBy from the moment it resumes. *)
THEOREM LockStateIsCorrect ==
  Spec => [](TypeOK /\ LockInvariant)
<1>1. IInv => TypeOK /\ LockInvariant
  BY DEF IInv
<1>2. IInv /\ [Next]_vars => IInv'
  BY NextIInv
<1> QED
  BY <1>1, <1>2, InitIInv, PTL DEF Spec

(* Two threads of control are never both between lock() and their unlocker. *)
THEOREM MutexExcludes == Spec => []MutualExclusion
<1>1. TypeOK /\ LockInvariant => MutualExclusion
  BY DEF LockInvariant, OneLetThrough, MutualExclusion, Front
<1> QED
  BY <1>1, LockStateIsCorrect, PTL

-----------------------------------------------------------------------------
(* The abstract line: who was let through, if anybody, then the queue. *)
LineShape ==
  /\ Front = {} => AbstractLine = <<>>
  /\ \A f \in Clients : Front = {f} =>
       /\ AbstractLine \in Seq(Clients)
       /\ Len(AbstractLine) = Len(waiters) + 1
       /\ AbstractLine[1] = f
       /\ \A i \in 1 .. Len(waiters) : AbstractLine[i + 1] = waiters[i][1]

LEMMA LineHasShape == IInv => LineShape
<1> SUFFICES ASSUME IInv PROVE LineShape
  OBVIOUS
<1> DEFINE queued == [i \in 1 .. Len(waiters) |-> waiters[i][1]]
<1>1. /\ Len(waiters) \in Nat
      /\ \A i \in 1 .. Len(waiters) : waiters[i][1] \in Clients
  BY WaiterParts DEF IInv
<1>2. /\ queued \in Seq(Clients) /\ Len(queued) = Len(waiters)
      /\ \A i \in 1 .. Len(waiters) : queued[i] = waiters[i][1]
  BY <1>1
<1>3. ASSUME Front = {} PROVE AbstractLine = <<>>
  <2>1. waiters = <<>>
    BY <1>3 DEF IInv, LockInvariant, OwnerIsLetThrough, WaitersAreQueued
  <2>2. queued = <<>>
    BY <1>1, <1>2, <2>1
  <2> QED
    BY <1>3, <2>2 DEF AbstractLine
<1>4. ASSUME NEW f \in Clients, Front = {f}
      PROVE  /\ AbstractLine \in Seq(Clients)
             /\ Len(AbstractLine) = Len(waiters) + 1
             /\ AbstractLine[1] = f
             /\ \A i \in 1 .. Len(waiters) : AbstractLine[i + 1] = waiters[i][1]
  <2>1. (CHOOSE c \in Front : TRUE) = f
    BY <1>4
  <2>2. AbstractLine = <<f>> \o queued
    BY <1>4, <2>1 DEF AbstractLine
  <2> HIDE DEF queued
  <2>3. AbstractLine \in Seq(Clients) /\ Len(AbstractLine) = 1 + Len(queued)
    BY <1>2, <2>2
  <2>4. \A i \in 1 .. 1 + Len(queued) :
          AbstractLine[i] = IF i <= 1 THEN <<f>>[i] ELSE queued[i - 1]
    BY <1>2, <2>2
  <2> QED
    BY <1>1, <1>2, <2>3, <2>4
<1> QED
  BY <1>3, <1>4 DEF LineShape

(* What a step of the line amounts to, given the client at its head. *)
LEMMA StepOfLine ==
  ASSUME IInv, IInv', LineShape, LineShape', Next
  PROVE  Abstract!Next \/ UNCHANGED Abstract!vars
<1> USE ConstantsAssumption
<1> DEFINE n == Len(waiters)
           crit == {d \in Clients : pc[d] = "holding"}
<1>0. /\ pc \in [Clients -> Places] /\ n \in Nat
      /\ \A i \in 1 .. n : waiters[i][1] \in Clients
  BY WaiterParts DEF IInv, TypeOK
<1>1. ASSUME NEW c \in Clients, LockFree(c) PROVE Abstract!Next
  <2>1. /\ Front = {} /\ waiters = <<>> /\ waiters' = <<>>
        /\ \A d \in Clients : pc'[d] = IF d = c THEN "acquired" ELSE pc[d]
        /\ pc[c] = "idle"
    BY <1>1 DEF LockFree, IInv, TypeOK, LockInvariant, OwnerIsLetThrough, WaitersAreQueued
  <2>2. Front' = {c}
    BY <2>1 DEF Front
  <2>3. AbstractLine = <<>> /\ crit' = crit
    BY <2>1 DEF LineShape
  <2>4. AbstractLine' \in Seq(Clients) /\ Len(AbstractLine') = 1 /\ AbstractLine'[1] = c
    BY <2>1, <2>2 DEF LineShape
  <2>5. AbstractLine' = Append(AbstractLine, c)
    BY <2>3, <2>4
  <2> QED
    BY <2>3, <2>5 DEF Abstract!Next, Abstract!Request
<1>2. ASSUME NEW c \in Clients, LockContended(c) PROVE Abstract!Next
  <2>1. /\ \A d \in Clients : pc'[d] = IF d = c THEN "queued" ELSE pc[d]
        /\ pc[c] = "idle" /\ lockedBy # NoKey
    BY <1>2 DEF LockContended, IInv, TypeOK
  <2>2. /\ Len(waiters') = n + 1 /\ waiters'[n + 1][1] = c
        /\ \A i \in 1 .. n : waiters'[i] = waiters[i]
    <3>1. waiters' = Append(waiters, <<c, round[c] + 1>>) /\ <<c, round[c] + 1>> \in Keys
      BY <1>2 DEF LockContended, IInv, TypeOK, Keys
    <3> QED
      BY <3>1 DEF IInv, TypeOK
  <2>3. PICK f \in Clients : Front = {f}
    BY <2>1 DEF IInv, LockInvariant, OneLetThrough, OwnerIsLetThrough, Front
  <2>4. Front' = {f} /\ crit' = crit
    BY <2>1, <2>3 DEF Front
  <2>5. /\ AbstractLine \in Seq(Clients) /\ Len(AbstractLine) = n + 1
        /\ AbstractLine[1] = f
        /\ \A i \in 1 .. n : AbstractLine[i + 1] = waiters[i][1]
    BY <2>3 DEF LineShape
  <2>6. /\ AbstractLine' \in Seq(Clients) /\ Len(AbstractLine') = n + 2
        /\ AbstractLine'[1] = f
        /\ \A i \in 1 .. n + 1 : AbstractLine'[i + 1] = waiters'[i][1]
    <3>1. /\ AbstractLine' \in Seq(Clients) /\ Len(AbstractLine') = Len(waiters') + 1
          /\ AbstractLine'[1] = f
          /\ \A i \in 1 .. Len(waiters') : AbstractLine'[i + 1] = waiters'[i][1]
      BY <2>4 DEF LineShape
    <3> QED
      BY <1>0, <2>2, <3>1
  <2> HIDE DEF n
  <2>7. \A j \in 1 .. n + 1 : AbstractLine[j] # c
    <3>1. \A i \in 1 .. n : waiters[i][1] # c
      BY <2>1 DEF n, IInv, LockInvariant, WaitersAreQueued
    <3>2. f # c
      BY <2>1, <2>3 DEF Front
    <3>3. \A j \in 1 .. n + 1 : j = 1 \/ (j - 1 \in 1 .. n /\ j = (j - 1) + 1)
      BY <1>0
    <3> QED
      BY <2>5, <3>1, <3>2, <3>3
  <2>8. AbstractLine' = Append(AbstractLine, c)
    <3> DEFINE t == Append(AbstractLine, c)
    <3>1. /\ t \in Seq(Clients) /\ Len(t) = n + 2 /\ t[n + 2] = c
          /\ \A j \in 1 .. n + 1 : t[j] = AbstractLine[j]
      BY <1>0, <2>5
    <3> HIDE DEF t
    <3>2. \A j \in 1 .. n + 2 : AbstractLine'[j] = t[j]
      <4> TAKE j \in 1 .. n + 2
      <4>1. CASE j = 1
        BY <1>0, <2>5, <2>6, <3>1, <4>1
      <4>2. CASE j = n + 2
        BY <1>0, <2>2, <2>6, <3>1, <4>2
      <4>3. CASE j # 1 /\ j # n + 2
        <5>1. j - 1 \in 1 .. n /\ j = (j - 1) + 1 /\ j \in 1 .. n + 1 /\ j - 1 \in 1 .. n + 1
          BY <1>0, <4>3
        <5> QED
          BY <2>2, <2>5, <2>6, <3>1, <5>1
      <4> QED
        BY <4>1, <4>2, <4>3
    <3>3. AbstractLine' = t
      BY <2>6, <3>1, <3>2, SeqEqual
    <3> QED
      BY <3>3 DEF t
  <2> QED
    BY <2>4, <2>5, <2>7, <2>8 DEF Abstract!Next, Abstract!Request
<1>3. ASSUME NEW c \in Clients, WaiterResumes(c) PROVE UNCHANGED Abstract!vars
  <2>1. /\ \A d \in Clients : pc'[d] = IF d = c THEN "acquired" ELSE pc[d]
        /\ pc[c] = "released" /\ waiters' = waiters
    BY <1>3 DEF WaiterResumes, IInv, TypeOK
  <2>2. Front' = Front /\ crit' = crit
    BY <2>1 DEF Front
  <2>3. AbstractLine' = AbstractLine
    BY <2>1, <2>2 DEF AbstractLine
  <2> QED
    BY <2>2, <2>3 DEF Abstract!vars
<1>4. ASSUME NEW c \in Clients, CallerResumes(c) PROVE Abstract!Next
  <2>1. /\ \A d \in Clients : pc'[d] = IF d = c THEN "holding" ELSE pc[d]
        /\ pc[c] = "acquired" /\ waiters' = waiters
    BY <1>4 DEF CallerResumes, IInv, TypeOK
  <2>2. Front' = Front /\ Front = {c}
    BY <2>1 DEF Front, IInv, LockInvariant, OneLetThrough
  <2>3. AbstractLine' = AbstractLine
    BY <2>1, <2>2 DEF AbstractLine
  <2>4. crit = {} /\ crit' = {c}
    <3>1. \A d \in Clients : d # c => pc[d] # "holding"
      BY <2>2 DEF Front
    <3> QED
      BY <2>1, <3>1
  <2>5. AbstractLine \in Seq(Clients) /\ AbstractLine # <<>> /\ Head(AbstractLine) = c
    <3>1. AbstractLine \in Seq(Clients) /\ Len(AbstractLine) = n + 1 /\ AbstractLine[1] = c
      BY <2>2 DEF LineShape
    <3> QED
      BY <1>0, <3>1
  <2> QED
    BY <2>3, <2>4, <2>5 DEF Abstract!Next, Abstract!Enter
<1>5. ASSUME NEW c \in Clients, Unlock(c) PROVE Abstract!Next
  <2>1. Front = {c} /\ pc[c] = "holding"
    BY <1>5, UnlockEffect DEF Unlock
  <2>2. crit = {c}
    BY <2>1 DEF Front
  <2>3. /\ AbstractLine \in Seq(Clients) /\ Len(AbstractLine) = n + 1 /\ AbstractLine[1] = c
        /\ \A i \in 1 .. n : AbstractLine[i + 1] = waiters[i][1]
    BY <2>1 DEF LineShape
  <2>4. AbstractLine # <<>> /\ Head(AbstractLine) = c
    BY <1>0, <2>3
  <2>5. crit' = {} /\ AbstractLine' = Tail(AbstractLine)
    <3>1. CASE waiters = <<>>
      <4>1. \A d \in Clients : pc'[d] = IF d = c THEN "idle" ELSE pc[d]
        BY <1>5, <3>1, UnlockEffect
      <4>2. Front' = {} /\ crit' = {}
        BY <2>1, <4>1 DEF Front
      <4>3. AbstractLine' = <<>>
        BY <4>2 DEF LineShape
      <4>4. Len(AbstractLine) = 1
        BY <2>3, <3>1
      <4>5. Tail(AbstractLine) = <<>>
        BY ONLY <2>3, <4>4, TailOfOne
      <4> QED
        BY <4>2, <4>3, <4>5
    <3>2. CASE waiters # <<>>
      <4> DEFINE h == waiters[1][1]
      <4>1. /\ waiters' = Tail(waiters) /\ h \in Clients /\ h # c
            /\ \A d \in Clients :
                 pc'[d] = IF d = h THEN "released" ELSE IF d = c THEN "idle" ELSE pc[d]
        BY <1>5, <3>2, UnlockEffect
      <4>2. Front' = {h} /\ crit' = {}
        BY <2>1, <2>2, <4>1 DEF Front
      <4>3. /\ n >= 1 /\ Len(waiters') = n - 1
            /\ \A i \in 1 .. n - 1 : waiters'[i] = waiters[i + 1]
        BY <1>0, <3>2, <4>1 DEF IInv, TypeOK
      <4>4. /\ AbstractLine' \in Seq(Clients) /\ Len(AbstractLine') = Len(waiters') + 1
            /\ AbstractLine'[1] = h
            /\ \A i \in 1 .. Len(waiters') : AbstractLine'[i + 1] = waiters'[i][1]
        BY <4>1, <4>2 DEF LineShape
      <4> DEFINE t == Tail(AbstractLine)
      <4>5. /\ t \in Seq(Clients) /\ Len(t) = n
            /\ \A j \in 1 .. n : t[j] = AbstractLine[j + 1]
        BY <1>0, <2>3, <4>3
      <4> HIDE DEF t, n
      <4>6. \A j \in 1 .. n : AbstractLine'[j] = t[j]
        <5> TAKE j \in 1 .. n
        <5>1. CASE j = 1
          BY <1>0, <2>3, <4>3, <4>4, <4>5, <5>1
        <5>2. CASE j # 1
          <6>1. j - 1 \in 1 .. n - 1 /\ j = (j - 1) + 1
            BY <1>0, <5>2
          <6>2. AbstractLine'[j] = waiters'[j - 1][1]
            BY <4>3, <4>4, <6>1
          <6>3. waiters'[j - 1] = waiters[j]
            BY <4>3, <6>1
          <6>4. t[j] = waiters[j][1]
            BY <2>3, <4>5
          <6> QED
            BY <6>2, <6>3, <6>4
        <5> QED
          BY <5>1, <5>2
      <4>7. Len(AbstractLine') = n
        BY <1>0, <4>3, <4>4
      <4>8. AbstractLine' = t
        BY <4>4, <4>5, <4>6, <4>7, SeqEqual
      <4> QED
        BY <4>2, <4>8 DEF t
    <3> QED
      BY <3>1, <3>2
  <2> QED
    BY <2>2, <2>4, <2>5 DEF Abstract!Next, Abstract!Leave
<1> QED
  BY <1>1, <1>2, <1>3, <1>4, <1>5 DEF Next

(* The mutex is a fair lock: every step of it is a step of LockQueue, or none. *)
THEOREM MutexServesInOrder == Spec => ServesInRequestOrder
<1>1. Init => Abstract!Init
  <2> SUFFICES ASSUME Init PROVE Abstract!Init
    OBVIOUS
  <2>1. Front = {} /\ {c \in Clients : pc[c] = "holding"} = {}
    BY DEF Init, Front
  <2>2. IInv
    BY InitIInv
  <2> QED
    BY <2>1, <2>2, LineHasShape DEF Abstract!Init, LineShape
<1>2. IInv => LineShape
  BY LineHasShape
<1>3. IInv /\ IInv' /\ LineShape /\ LineShape' /\ [Next]_vars => [Abstract!Next]_(Abstract!vars)
  <2> SUFFICES ASSUME IInv, IInv', LineShape, LineShape', [Next]_vars
               PROVE  [Abstract!Next]_(Abstract!vars)
    OBVIOUS
  <2>1. CASE Next
    BY <2>1, StepOfLine
  <2>2. CASE UNCHANGED vars
    BY <2>2 DEF vars, AbstractLine, Front, Abstract!vars
  <2> QED
    BY <2>1, <2>2
<1>4. IInv /\ [Next]_vars => IInv'
  BY NextIInv
<1> QED
  BY <1>1, <1>2, <1>3, <1>4, InitIInv, PTL DEF Spec, ServesInRequestOrder, Abstract!Spec

-----------------------------------------------------------------------------
(* Activations begin in the order of their numbers. *)
RunsInOrder == \A r \in Runs : phase[r] = "none" <=> r > lastRun

(* The inductive invariant.  IdleIsClean is its heart: the one activation that
   is alive is the one #runResult stands for, so the guard of #run admits no
   second one.  RunsInOrder says that the next one is not yet alive. *)
ThreadInvariant == ThreadTypeOK /\ RunsInOrder /\ IdleIsClean /\ StopSticks /\ ExposedIffAwaited

LEMMA InitThread == ThreadInit => ThreadInvariant
<1> SUFFICES ASSUME ThreadInit PROVE ThreadInvariant
  OBVIOUS
<1> USE ThreadAssumption DEF ThreadInit
<1>1. ThreadTypeOK
  <2>1. NoCall \in [op : Ops, run : 0 .. lastRun]
    BY DEF NoCall, Ops
  <2>2. call \in [Callers -> [op : Ops, run : 0 .. lastRun]]
    BY <2>1
  <2>3. phase \in [Runs -> Phases] /\ outcome \in [Runs -> Outcomes]
    BY DEF Phases, Outcomes
  <2>4. lastRun \in 0 .. MaxRuns /\ runResult \in 0 .. lastRun /\ startResult \in {0, runResult}
    OBVIOUS
  <2>5. stopAsked \subseteq 1 .. lastRun /\ unhandled \subseteq 1 .. lastRun
    OBVIOUS
  <2>6. runCond \in BOOLEAN /\ exposed \in BOOLEAN
    OBVIOUS
  <2> QED
    BY ONLY <2>2, <2>3, <2>4, <2>5, <2>6 DEF ThreadTypeOK
<1>2. RunsInOrder
  BY DEF RunsInOrder, Runs
<1>3. IdleIsClean /\ StopSticks /\ ExposedIffAwaited
  BY DEF IdleIsClean, StopSticks, ExposedIffAwaited, Awaited, IsRunning, Alive, Runs
<1> QED
  BY <1>1, <1>2, <1>3 DEF ThreadInvariant

(* What #run does, whoever calls it. *)
LEMMA PrivateRunKeeps ==
  ASSUME ThreadInvariant, NEW expose \in BOOLEAN, PrivateRun(expose)
  PROVE  /\ runCond' \in BOOLEAN
         /\ lastRun' \in 0 .. MaxRuns /\ lastRun <= lastRun'
         /\ runResult' \in 1 .. lastRun'
         /\ startResult' = runResult'
         /\ exposed' = (exposed \/ expose)
         /\ phase' \in [Runs -> Phases]
         /\ \A r \in Runs : phase'[r] = "none" <=> r > lastRun'
         /\ \A r \in Runs : phase'[r] \notin {"none", "done"} <=> runResult' = r
         /\ \A r \in stopAsked : phase'[r] \notin {"none", "done"} => ~runCond'
         /\ IsRunning => runResult' = runResult
         /\ ~IsRunning => runResult' = lastRun + 1 /\ ~exposed
<1> USE ThreadAssumption DEF ThreadInvariant, ThreadTypeOK
<1>1. CASE IsRunning
  <2>1. /\ exposed' = (exposed \/ expose)
        /\ UNCHANGED <<runCond, runResult, startResult, lastRun, phase>>
    BY <1>1 DEF PrivateRun
  <2>2. runResult' \in 1 .. lastRun'
    BY <1>1, <2>1 DEF IsRunning
  <2> QED
    BY <1>1, <2>1, <2>2 DEF RunsInOrder, IdleIsClean, StopSticks, Alive
<1>2. CASE ~IsRunning
  <2> DEFINE n == lastRun + 1
  <2>1. /\ lastRun < MaxRuns /\ runCond' = TRUE /\ lastRun' = n
        /\ runResult' = n /\ startResult' = n
        /\ phase' = [phase EXCEPT ![n] = IF HasStart THEN "startAwait" ELSE "startSettled"]
        /\ exposed' = (exposed \/ expose)
    BY <1>2 DEF PrivateRun
  <2>2. n \in Runs
    BY <2>1 DEF Runs
  <2>3. /\ phase'[n] \in {"startAwait", "startSettled"}
        /\ \A r \in Runs : r # n => phase'[r] = phase[r]
        /\ phase' \in [Runs -> Phases]
    BY <2>1, <2>2 DEF Phases
  <2>4. \A r \in Runs : ~Alive(r)
    BY <1>2 DEF IdleIsClean, IsRunning, Runs
  <2>5. ~exposed
    BY <1>2 DEF IdleIsClean
  <2>6. \A r \in Runs : phase'[r] = "none" <=> r > lastRun'
    BY <2>1, <2>2, <2>3 DEF RunsInOrder, Runs
  <2>7. \A r \in Runs : phase'[r] \notin {"none", "done"} <=> runResult' = r
    BY <2>1, <2>2, <2>3, <2>4 DEF Alive
  <2>8. \A r \in stopAsked : phase'[r] \notin {"none", "done"} => ~runCond'
    <3> TAKE r \in stopAsked
    <3>1. r \in Runs /\ r # n
      BY <2>1 DEF Runs
    <3> QED
      BY <3>1, <2>3, <2>4 DEF Alive
  <2> QED
    BY <1>2, <2>1, <2>3, <2>5, <2>6, <2>7, <2>8
<1> QED
  BY <1>1, <1>2

(* The history of clients and runs stays well typed when a run is added. *)
LEMMA HistoryGrows ==
  ASSUME ThreadTypeOK, NEW n \in Nat, lastRun <= n
  PROVE  /\ call \in [Callers -> [op : Ops, run : 0 .. n]]
         /\ stopAsked \subseteq 1 .. n
         /\ unhandled \subseteq 1 .. n
<1> USE ThreadAssumption DEF ThreadTypeOK
<1>1. 0 .. lastRun \subseteq 0 .. n /\ 1 .. lastRun \subseteq 1 .. n
  OBVIOUS
<1>2. [op : Ops, run : 0 .. lastRun] \subseteq [op : Ops, run : 0 .. n]
  BY <1>1
<1> QED
  BY <1>1, <1>2

(* The invariants that a call of #run has to keep, but for ExposedIffAwaited. *)
LEMMA CallOfRunKeeps ==
  ASSUME ThreadInvariant, NEW expose \in BOOLEAN, PrivateRun(expose),
         NEW c \in Callers, NEW op \in Ops,
         call' = [call EXCEPT ![c] = [op |-> op, run |-> runResult']],
         UNCHANGED <<outcome, stopAsked, unhandled>>
  PROVE  ThreadTypeOK' /\ RunsInOrder' /\ IdleIsClean' /\ StopSticks'
<1> USE ThreadAssumption DEF ThreadInvariant
<1>1. /\ runCond' \in BOOLEAN
      /\ lastRun' \in 0 .. MaxRuns /\ lastRun <= lastRun'
      /\ runResult' \in 1 .. lastRun'
      /\ startResult' = runResult'
      /\ exposed' = (exposed \/ expose)
      /\ phase' \in [Runs -> Phases]
  BY PrivateRunKeeps
<1>2. ThreadTypeOK'
  <2>1. lastRun' \in Nat /\ runResult' \in 0 .. lastRun'
    BY <1>1
  <2>2. /\ call \in [Callers -> [op : Ops, run : 0 .. lastRun']]
        /\ stopAsked \subseteq 1 .. lastRun'
        /\ unhandled \subseteq 1 .. lastRun'
    BY <1>1, <2>1, HistoryGrows
  <2>3. call' \in [Callers -> [op : Ops, run : 0 .. lastRun']]
    BY <2>1, <2>2
  <2>4. exposed' \in BOOLEAN
    BY <1>1 DEF ThreadTypeOK
  <2> QED
    BY <1>1, <2>1, <2>2, <2>3, <2>4 DEF ThreadTypeOK
<1>3. RunsInOrder'
  BY PrivateRunKeeps DEF RunsInOrder
<1>4. IdleIsClean'
  <2>1. \A r \in Runs : phase'[r] \notin {"none", "done"} <=> runResult' = r
    BY PrivateRunKeeps
  <2> QED
    BY <1>1, <2>1 DEF IdleIsClean, IsRunning, Alive
<1>5. StopSticks'
  <2>1. \A r \in stopAsked : phase'[r] \notin {"none", "done"} => ~runCond'
    BY PrivateRunKeeps
  <2> QED
    BY <2>1 DEF StopSticks, Alive
<1> QED
  BY <1>2, <1>3, <1>4, <1>5

(* A step that only moves one live activation to another live phase. *)
LEMMA RunnerMoveKeeps ==
  ASSUME ThreadInvariant, NEW r \in Runs, NEW from, NEW to \in Phases \ {"none", "done"},
         from \notin {"none", "done"}, Moves(r, from, to),
         outcome' \in [Runs -> Outcomes],
         UNCHANGED <<shared, stopAsked, unhandled, call>>
  PROVE  ThreadInvariant'
<1> USE ThreadAssumption DEF ThreadInvariant, shared
<1>1. /\ phase' \in [Runs -> Phases]
      /\ \A s \in Runs : phase'[s] = "none" <=> phase[s] = "none"
      /\ \A s \in Runs : Alive(s)' <=> Alive(s)
  BY DEF Moves, ThreadTypeOK, Alive
<1>2. ThreadTypeOK'
  BY <1>1 DEF ThreadTypeOK
<1>3. RunsInOrder' /\ IdleIsClean'
  BY <1>1 DEF RunsInOrder, IdleIsClean, IsRunning
<1>4. StopSticks' /\ ExposedIffAwaited'
  <2>1. stopAsked \subseteq Runs
    BY DEF ThreadTypeOK, Runs
  <2> QED
    BY <1>1, <2>1 DEF StopSticks, ExposedIffAwaited, Awaited, IsRunning
<1> QED
  BY <1>2, <1>3, <1>4

LEMMA RunStep == ASSUME ThreadInvariant, NEW c \in Callers, Run(c) PROVE ThreadInvariant'
<1> USE ThreadAssumption DEF ThreadInvariant
<1>1. PrivateRun(TRUE) /\ call[c] = NoCall
  BY DEF Run
<1>2. /\ call' = [call EXCEPT ![c] = [op |-> "run", run |-> runResult']]
      /\ UNCHANGED <<outcome, stopAsked, unhandled>>
  BY DEF Run, Awaits
<1>3. ThreadTypeOK' /\ RunsInOrder' /\ IdleIsClean' /\ StopSticks'
  BY <1>1, <1>2, CallOfRunKeeps DEF Ops
<1>4. ExposedIffAwaited'
  <2>1. exposed' /\ call'[c].op = "run" /\ call'[c].run = runResult'
    BY <1>1, <1>2, PrivateRunKeeps DEF ThreadTypeOK
  <2> QED
    BY <2>1 DEF ExposedIffAwaited, Awaited
<1> QED
  BY <1>3, <1>4

LEMMA StartStep == ASSUME ThreadInvariant, NEW c \in Callers, Start(c) PROVE ThreadInvariant'
<1> USE ThreadAssumption DEF ThreadInvariant
<1>1. PrivateRun(FALSE) /\ call[c] = NoCall
  BY DEF Start
<1>2. /\ call' = [call EXCEPT ![c] = [op |-> "start", run |-> startResult']]
      /\ UNCHANGED <<outcome, stopAsked, unhandled>>
  BY DEF Start, Awaits
<1>3. ThreadTypeOK' /\ RunsInOrder' /\ IdleIsClean' /\ StopSticks'
  <2>1. startResult' = runResult'
    BY <1>1, PrivateRunKeeps
  <2> QED
    BY <1>1, <1>2, <2>1, CallOfRunKeeps DEF Ops
<1>4. ExposedIffAwaited'
  <2>1. call'[c].op = "start" /\ \A d \in Callers : d # c => call'[d] = call[d]
    BY <1>2 DEF ThreadTypeOK
  <2>2. call[c].op = "none"
    BY <1>1 DEF NoCall
  <2>3. \A x : (\E d \in Callers : call'[d].op \in {"run", "stop"} /\ call'[d].run = x)
                 <=> (\E d \in Callers : call[d].op \in {"run", "stop"} /\ call[d].run = x)
    BY <2>1, <2>2
  <2>4. exposed' = exposed
    BY <1>1, PrivateRunKeeps DEF ThreadTypeOK
  <2>5. CASE IsRunning
    <3>1. runResult' = runResult
      BY <1>1, <2>5, PrivateRunKeeps
    <3> QED
      BY <2>3, <2>4, <2>5, <3>1 DEF ExposedIffAwaited, Awaited
  <2>6. CASE ~IsRunning
    <3>1. runResult' = lastRun + 1 /\ ~exposed'
      BY <1>1, <2>4, <2>6, PrivateRunKeeps
    <3>2. \A d \in Callers : call[d].run # lastRun + 1
      BY DEF ThreadTypeOK
    <3> QED
      BY <2>3, <3>1, <3>2 DEF ExposedIffAwaited, Awaited
  <2> QED
    BY <2>5, <2>6
<1> QED
  BY <1>3, <1>4

LEMMA StopStep == ASSUME ThreadInvariant, NEW c \in Callers, Stop(c) PROVE ThreadInvariant'
<1> USE ThreadAssumption DEF ThreadInvariant, Stop, runner
<1>1. call' = [call EXCEPT ![c] = [op |-> "stop", run |-> runResult]]
  BY DEF Awaits
<1>2. ThreadTypeOK'
  <2>1. runResult \in 1 .. lastRun
    BY DEF ThreadTypeOK, IsRunning
  <2>2. [op |-> "stop", run |-> runResult] \in [op : Ops, run : 0 .. lastRun]
    BY <2>1 DEF Ops, ThreadTypeOK
  <2>3. call' \in [Callers -> [op : Ops, run : 0 .. lastRun]]
    BY <1>1, <2>2 DEF ThreadTypeOK
  <2>4. stopAsked' \subseteq 1 .. lastRun
    BY <2>1 DEF ThreadTypeOK
  <2> QED
    BY <2>3, <2>4 DEF ThreadTypeOK
<1>3. RunsInOrder' /\ IdleIsClean' /\ StopSticks'
  BY DEF RunsInOrder, IdleIsClean, StopSticks, IsRunning, Alive
<1>4. ExposedIffAwaited'
  <2>1. exposed' /\ call'[c].op = "stop" /\ call'[c].run = runResult'
    BY <1>1 DEF ThreadTypeOK
  <2> QED
    BY <2>1 DEF ExposedIffAwaited, Awaited
<1> QED
  BY <1>2, <1>3, <1>4

LEMMA WhenStartedStep == ASSUME ThreadInvariant, NEW c \in Callers, WhenStarted(c) PROVE ThreadInvariant'
<1> USE ThreadAssumption DEF ThreadInvariant, WhenStarted, runner, shared
<1>1. call' = [call EXCEPT ![c] = [op |-> "whenStarted", run |-> startResult]]
  BY DEF Awaits
<1>2. ThreadTypeOK'
  BY <1>1 DEF ThreadTypeOK, Ops
<1>3. RunsInOrder' /\ IdleIsClean' /\ StopSticks'
  BY DEF RunsInOrder, IdleIsClean, StopSticks, IsRunning, Alive
<1>4. ExposedIffAwaited'
  <2>1. call'[c].op = "whenStarted" /\ \A d \in Callers : d # c => call'[d] = call[d]
    BY <1>1 DEF ThreadTypeOK
  <2>2. call[c].op = "none"
    BY DEF NoCall
  <2> QED
    BY <2>1, <2>2 DEF ExposedIffAwaited, Awaited, IsRunning
<1> QED
  BY <1>2, <1>3, <1>4

LEMMA ClientResumesStep ==
  ASSUME ThreadInvariant, NEW c \in Callers, ClientResumes(c) PROVE ThreadInvariant'
<1> USE ThreadAssumption DEF ThreadInvariant, ClientResumes, runner, shared
<1>1. call' = [call EXCEPT ![c] = NoCall]
  OBVIOUS
<1>2. ThreadTypeOK'
  BY <1>1 DEF ThreadTypeOK, Ops, NoCall
<1>3. RunsInOrder' /\ IdleIsClean' /\ StopSticks'
  BY DEF RunsInOrder, IdleIsClean, StopSticks, IsRunning, Alive
<1>4. ExposedIffAwaited'
  <2>1. call'[c].op = "none" /\ \A d \in Callers : d # c => call'[d] = call[d]
    BY <1>1 DEF ThreadTypeOK, NoCall
  <2>2. ASSUME IsRunning PROVE ~(call[c].op \in {"run", "stop"} /\ call[c].run = runResult)
    <3>1. runResult \in Runs /\ phase[runResult] # "done"
      BY <2>2 DEF IsRunning, IdleIsClean, Alive, ThreadTypeOK, Runs
    <3> QED
      BY <3>1 DEF CallIsSettled
  <2> QED
    BY <2>1, <2>2 DEF ExposedIffAwaited, Awaited, IsRunning
<1> QED
  BY <1>2, <1>3, <1>4

LEMMA RunEndsStep == ASSUME ThreadInvariant, NEW r \in Runs, RunEnds(r) PROVE ThreadInvariant'
<1> USE ThreadAssumption DEF ThreadInvariant
<1>1. phase[r] \in {"startSettled", "mainSettled"} /\ phase' = [phase EXCEPT ![r] = "done"]
  BY DEF RunEnds, Moves
<1>2. /\ startResult' = 0 /\ runResult' = 0 /\ exposed' = FALSE /\ runCond' = FALSE
      /\ unhandled' \in {unhandled, unhandled \union {r}}
      /\ UNCHANGED <<lastRun, outcome, stopAsked, call>>
  BY DEF RunEnds
<1>3. r \in 1 .. lastRun
  BY <1>1 DEF RunsInOrder, ThreadTypeOK, Runs
<1>4. runResult = r /\ \A s \in Runs : s # r => ~Alive(s)
  BY <1>1 DEF IdleIsClean, Alive
<1>5. /\ phase' \in [Runs -> Phases]
      /\ phase'[r] = "done"
      /\ \A s \in Runs : s # r => phase'[s] = phase[s]
  BY <1>1 DEF ThreadTypeOK, Phases
<1>6. ThreadTypeOK'
  <2>1. unhandled' \subseteq 1 .. lastRun
    BY <1>2, <1>3 DEF ThreadTypeOK
  <2>2. runResult' \in 0 .. lastRun
    BY <1>2 DEF ThreadTypeOK
  <2>5. runCond' \in BOOLEAN /\ exposed' \in BOOLEAN
    BY <1>2, Zenon
  <2>3. startResult' = 0 /\ UNCHANGED <<lastRun, outcome, stopAsked, call>>
    BY <1>2
  <2>4. phase' \in [Runs -> Phases]
    BY <1>5
  <2> QED
    BY ONLY ThreadTypeOK, <2>1, <2>2, <2>3, <2>4, <2>5 DEF ThreadTypeOK
<1>7. RunsInOrder'
  BY <1>1, <1>2, <1>5 DEF RunsInOrder
<1>8. IdleIsClean' /\ StopSticks' /\ ExposedIffAwaited'
  BY <1>2, <1>4, <1>5 DEF IdleIsClean, StopSticks, ExposedIffAwaited, Awaited, IsRunning, Alive, Runs
<1> QED
  BY <1>6, <1>7, <1>8

LEMMA RunnerStepKeeps == ASSUME ThreadInvariant, NEW r \in Runs, RunnerStep(r) PROVE ThreadInvariant'
<1> USE DEF Phases
<1>0. outcome \in [Runs -> Outcomes]
  BY DEF ThreadInvariant, ThreadTypeOK
<1>1. CASE StartBegins(r)
  BY <1>0, <1>1, RunnerMoveKeeps DEF StartBegins
<1>2. CASE StartEnds(r)
  BY <1>0, <1>2, RunnerMoveKeeps DEF StartEnds, Outcomes
<1>3. CASE MainBegins(r)
  BY <1>0, <1>3, RunnerMoveKeeps DEF MainBegins
<1>4. CASE MainWaits(r)
  BY <1>0, <1>4, RunnerMoveKeeps DEF MainWaits
<1>5. CASE MainWakes(r)
  BY <1>0, <1>5, RunnerMoveKeeps DEF MainWakes
<1>6. CASE MainEnds(r)
  BY <1>0, <1>6, RunnerMoveKeeps DEF MainEnds, Outcomes
<1>7. CASE RunEnds(r)
  BY <1>7, RunEndsStep
<1> QED
  BY <1>1, <1>2, <1>3, <1>4, <1>5, <1>6, <1>7 DEF RunnerStep

LEMMA NextThread == ThreadInvariant /\ [ThreadNext]_threadVars => ThreadInvariant'
<1> SUFFICES ASSUME ThreadInvariant, [ThreadNext]_threadVars PROVE ThreadInvariant'
  OBVIOUS
<1>1. ASSUME NEW c \in Callers, ClientStep(c) PROVE ThreadInvariant'
  BY <1>1, RunStep, StartStep, StopStep, WhenStartedStep, ClientResumesStep DEF ClientStep
<1>2. ASSUME NEW r \in Runs, RunnerStep(r) PROVE ThreadInvariant'
  BY <1>2, RunnerStepKeeps
<1>3. CASE UNCHANGED threadVars
  BY <1>3 DEF threadVars, shared, runner, ThreadInvariant, ThreadTypeOK, RunsInOrder, IdleIsClean, StopSticks,
              ExposedIffAwaited, Awaited, IsRunning, Alive
<1> QED
  BY <1>1, <1>2, <1>3 DEF ThreadNext

(* Every state has the right types, among them that #startResult is null or
   belongs to the activation that #runResult belongs to. *)
THEOREM ThreadIsTyped == ThreadSpec => []ThreadTypeOK
<1>1. ThreadInvariant => ThreadTypeOK
  BY DEF ThreadInvariant
<1> QED
  BY <1>1, InitThread, NextThread, PTL DEF ThreadSpec

(* The thread functions never run concurrently with themselves. *)
THEOREM OneRunAtATime == ThreadSpec => []SingleRun
<1>1. ThreadInvariant => SingleRun
  BY DEF ThreadInvariant, IdleIsClean, SingleRun
<1> QED
  BY <1>1, InitThread, NextThread, PTL DEF ThreadSpec

(* isRunning() tells the truth and nothing is carried over to the next run; a
   stop request stays visible until the run ends; #runResultExposed means that
   a client awaits the result of the run. *)
THEOREM RunStateIsHonest == ThreadSpec => [](IdleIsClean /\ StopSticks /\ ExposedIffAwaited)
<1>1. ThreadInvariant => IdleIsClean /\ StopSticks /\ ExposedIffAwaited
  BY DEF ThreadInvariant
<1> QED
  BY <1>1, InitThread, NextThread, PTL DEF ThreadSpec

(* No error of a main function is lost, and none is reported while a client is
   there to get it.  An activation is reported only as it ends, so one that is
   alive has not been reported. *)
ReportedAreDone == \A r \in unhandled : phase[r] = "done"

LEMMA ReportedStaysDone == ThreadInvariant /\ ReportedAreDone /\ [ThreadNext]_threadVars => ReportedAreDone'
<1> SUFFICES ASSUME ThreadInvariant, ReportedAreDone, [ThreadNext]_threadVars PROVE ReportedAreDone'
  OBVIOUS
<1> USE DEF ReportedAreDone, shared, runner
<1>1. ASSUME NEW s \in unhandled PROVE s \in 1 .. lastRun /\ s \in Runs /\ phase[s] = "done"
  BY ThreadAssumption, <1>1 DEF ThreadInvariant, ThreadTypeOK, Runs
<1>2. ASSUME NEW expose \in BOOLEAN, PrivateRun(expose), UNCHANGED unhandled
      PROVE  ReportedAreDone'
  <2>1. CASE IsRunning
    BY <1>2, <2>1 DEF PrivateRun
  <2>2. CASE ~IsRunning
    <3>1. phase' = [phase EXCEPT ![lastRun + 1] =
                      IF HasStart THEN "startAwait" ELSE "startSettled"]
      BY <1>2, <2>2 DEF PrivateRun
    <3>2. \A s \in unhandled : s # lastRun + 1
      BY <1>1, ThreadAssumption DEF ThreadInvariant, ThreadTypeOK
    <3> QED
      BY <1>1, <1>2, <3>1, <3>2 DEF ThreadInvariant, ThreadTypeOK
  <2> QED
    BY <2>1, <2>2
<1>3. ASSUME NEW c \in Callers, ClientStep(c) PROVE ReportedAreDone'
  BY <1>2, <1>3 DEF ClientStep, Run, Start, Stop, WhenStarted, ClientResumes
<1>4. ASSUME NEW r \in Runs, NEW from, NEW to, from # "done", Moves(r, from, to),
             UNCHANGED unhandled
      PROVE  ReportedAreDone'
  BY <1>1, <1>4 DEF Moves, ThreadInvariant, ThreadTypeOK
<1>5. ASSUME NEW r \in Runs, RunEnds(r) PROVE ReportedAreDone'
  <2>1. phase' = [phase EXCEPT ![r] = "done"] /\ unhandled' \subseteq unhandled \union {r}
    BY <1>5 DEF RunEnds, Moves
  <2> QED
    BY <1>1, <2>1 DEF ThreadInvariant, ThreadTypeOK
<1>6. ASSUME NEW r \in Runs, RunnerStep(r) PROVE ReportedAreDone'
  BY <1>4, <1>5, <1>6
    DEF RunnerStep, StartBegins, StartEnds, MainBegins, MainWaits, MainWakes, MainEnds
<1>7. CASE UNCHANGED threadVars
  BY <1>7 DEF threadVars
<1> QED
  BY <1>3, <1>6, <1>7 DEF ThreadNext

LEMMA ErrorsSurfaceStep ==
  ThreadInvariant /\ ReportedAreDone /\ [ThreadNext]_threadVars => [\A r \in Runs : SurfacesError(r)]_threadVars
<1> SUFFICES ASSUME ThreadInvariant, ReportedAreDone, ThreadNext, NEW r \in Runs,
                    Alive(r), phase'[r] = "done", outcome[r] = "mainError"
             PROVE  r \in unhandled' <=> ~Awaited(r)
  BY DEF SurfacesError
<1> USE DEF shared, runner
<1>1. phase[r] # "done" /\ phase[r] # "none" /\ runResult = r /\ r \in 1 .. lastRun
  BY ThreadAssumption DEF Alive, ThreadInvariant, IdleIsClean, ThreadTypeOK, Runs, RunsInOrder
<1>2. r \notin unhandled
  BY <1>1 DEF ReportedAreDone
<1>3. ASSUME NEW c \in Callers, ClientStep(c) PROVE FALSE
  <2>1. IsRunning
    BY <1>1 DEF IsRunning
  <2>2. phase' = phase
    BY <1>3, <2>1 DEF ClientStep, Run, Start, Stop, WhenStarted, ClientResumes, PrivateRun
  <2> QED
    BY <1>1, <2>2
<1>4. ASSUME NEW s \in Runs, NEW from, NEW to, to # "done", Moves(s, from, to) PROVE FALSE
  BY <1>1, <1>4 DEF Moves, ThreadInvariant, ThreadTypeOK
<1>5. ASSUME NEW s \in Runs, RunEnds(s) PROVE r \in unhandled' <=> ~Awaited(r)
  <2>1. phase' = [phase EXCEPT ![s] = "done"]
    BY <1>5 DEF RunEnds, Moves
  <2>2. s = r
    BY <1>1, <2>1 DEF ThreadInvariant, ThreadTypeOK
  <2>3. unhandled' = IF ~exposed THEN unhandled \union {r} ELSE unhandled
    BY <1>5, <2>2 DEF RunEnds
  <2>4. exposed <=> Awaited(r)
    BY <1>1 DEF ThreadInvariant, ExposedIffAwaited, IsRunning
  <2> QED
    BY <1>2, <2>3, <2>4
<1>6. ASSUME NEW s \in Runs, RunnerStep(s) PROVE r \in unhandled' <=> ~Awaited(r)
  BY <1>4, <1>5, <1>6
    DEF RunnerStep, StartBegins, StartEnds, MainBegins, MainWaits, MainWakes, MainEnds
<1> QED
  BY <1>3, <1>6 DEF ThreadNext

THEOREM NoErrorIsLost == ThreadSpec => ErrorsSurface
<1>1. ThreadInit => ReportedAreDone
  BY DEF ThreadInit, ReportedAreDone
<1> QED
  BY <1>1, InitThread, NextThread, ReportedStaysDone, ErrorsSurfaceStep, PTL DEF ThreadSpec, ErrorsSurface

=============================================================================
