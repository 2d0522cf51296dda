------------------------- MODULE RateLimiter_proofs -------------------------
(***************************************************************************)
(* Proofs about the two halves of a rate limiter: TokenBucket, for every   *)
(* configuration of a bucket that its constructor accepts, any set of      *)
(* clients and any quantities; and then RateLimitedStream, for any sizes   *)
(* of chunks, grants and buffers.                                          *)
(***************************************************************************)
EXTENDS TokenBucket, RateLimitedStream, TLAPS

-----------------------------------------------------------------------------
(* Arithmetic of the helpers. *)

LEMMA FloorBounds == ASSUME NEW q \in Nat PROVE Floor(q) \in 0 .. q
<1>1. Unit \in Nat /\ Unit > 0
  BY OptionsAssumption
<1>2. q % Unit \in 0 .. q
  BY <1>1
<1> QED
  BY <1>2 DEF Floor

LEMMA WholeBounds == ASSUME NEW q \in Nat PROVE Whole(q) \in 0 .. q
BY FloorBounds DEF Whole

LEMMA ParsedAreNat ==
  ASSUME NEW q \in Quantities PROVE ParsedMin(q) \in Nat /\ ParsedMax(q) \in Nat
<1>1. q.min \in Nat /\ q.max \in Nat /\ Unit \in Nat \ {0}
  BY OptionsAssumption
<1>2. Ceil(q.min) \in Nat
  BY <1>1, FloorBounds DEF Ceil
<1>3. Whole(q.max) \in Nat
  BY <1>1, WholeBounds
<1> QED
  BY <1>1, <1>2, <1>3 DEF ParsedMin, ParsedMax, Greater

(* #calculateGrant() never grants more than there is. *)
LEMMA GrantBounds ==
  ASSUME NEW burst \in 0 .. MaxBurstSize, NEW min \in Nat, NEW max \in Nat
  PROVE  CalculateGrant(burst, min, max) \in 0 .. burst
<1>1. MaxBurstSize \in Nat /\ burst \in Nat
  BY OptionsAssumption
<1>2. Whole(burst) \in 0 .. burst
  BY <1>1, WholeBounds
<1>3. Lesser(Whole(burst), Lesser(max, MaxBurstSize)) \in 0 .. burst
  BY <1>1, <1>2 DEF Lesser
<1> QED
  BY <1>1, <1>3 DEF CalculateGrant

(* What flows in during a stretch of time. *)
LEMMA FlowAddsUp ==
  ASSUME NEW a \in Int, NEW b \in Int, NEW c \in Int
  PROVE  FlowRate * (b - a) + FlowRate * (c - b) = FlowRate * (c - a)
BY OptionsAssumption

LEMMA LimitsAddUp ==
  ASSUME NEW g \in Int, NEW b \in Int, NEW x \in Int, NEW y \in Int, NEW z \in Int,
         NEW old \in Int, NEW new \in Int,
         g + old <= b + x, new <= old + y, x + y = z
  PROVE  g + new <= b + z
OBVIOUS

LEMMA FlowIsNat ==
  ASSUME NEW d \in Nat PROVE FlowRate * d \in Nat /\ d * FlowRate = FlowRate * d
BY OptionsAssumption

(* #topUpBucket() adds no more than what flowed in, and never overfills. *)
LEMMA ToppedUpBounds ==
  ASSUME TypeOK
  PROVE  /\ ToppedUp \in 0 .. MaxBurstSize
         /\ ToppedUp <= lastBurstSize + FlowRate * (now - lastNow)
<1>1. /\ now - lastNow \in Nat /\ lastBurstSize \in 0 .. MaxBurstSize
      /\ MaxBurstSize \in Nat
  BY OptionsAssumption, BoundsAssumption DEF TypeOK
<1> DEFINE flow == FlowRate * (now - lastNow)
<1>2. flow \in Nat /\ (now - lastNow) * FlowRate = flow
  BY <1>1, FlowIsNat
<1> HIDE DEF flow
<1>3. ToppedUp = IF lastBurstSize < MaxBurstSize
                 THEN Lesser(lastBurstSize + flow, MaxBurstSize) ELSE lastBurstSize
  BY <1>2 DEF ToppedUp
<1>4. ToppedUp \in 0 .. MaxBurstSize /\ ToppedUp <= lastBurstSize + flow
  BY <1>1, <1>2, <1>3 DEF Lesser
<1> QED
  BY <1>4 DEF flow

LEMMA QueuedGrantIsNat ==
  ASSUME NEW q \in Quantities PROVE QueuedGrant(q) \in Nat
<1>1. MaxQueueGrantOption \in Nat
  BY OptionsAssumption
<1>2. MaxQueueGrantSize \in 0 .. MaxQueueGrantOption
  BY <1>1, WholeBounds DEF MaxQueueGrantSize
<1>3. MaxQueueGrantSize \in Nat
  BY <1>1, <1>2
<1> QED
  BY <1>3, ParsedAreNat DEF QueuedGrant, Lesser

LEMMA WaitUntilIsInt ==
  ASSUME NEW burst \in Int, NEW max \in Nat, lastNow' \in Int
  PROVE  WaitUntil(burst, max) \in Int
<1>1. MaxQueueGrantOption \in Nat /\ FlowRate \in Nat \ {0}
  BY OptionsAssumption
<1>2. MaxQueueGrantSize \in 0 .. MaxQueueGrantOption
  BY <1>1, WholeBounds DEF MaxQueueGrantSize
<1>3. Lesser(max, MaxQueueGrantSize) - burst \in Int
  BY <1>1, <1>2 DEF Lesser
<1>4. CeilDiv(Lesser(max, MaxQueueGrantSize) - burst, FlowRate) \in Int
  BY <1>1, <1>3 DEF CeilDiv
<1> QED
  BY <1>4 DEF WaitUntil

-----------------------------------------------------------------------------
(***************************************************************************)
(* What a step can do to the bucket: leave it alone, top it up and take g  *)
(* out of it, or let time pass.  The limits below depend on nothing else.  *)
(***************************************************************************)
Untouched == UNCHANGED <<now, lastNow, lastBurstSize, granted, before>>
Taken(g) ==
  /\ g \in 0 .. ToppedUp
  /\ lastNow' = now
  /\ lastBurstSize' = ToppedUp - g
  /\ granted' = granted + g
  /\ UNCHANGED <<now, before>>
TimePasses ==
  /\ now < MaxTime
  /\ now' = now + 1
  /\ before' = [before EXCEPT ![now + 1] = granted]
  /\ UNCHANGED <<lastNow, lastBurstSize, granted>>
BucketStep == Untouched \/ TimePasses \/ \E g \in Nat : Taken(g)

LEMMA GrantTakes ==
  ASSUME TypeOK, NEW min \in Nat, NEW max \in Nat,
         lastNow' = now,
         HandOut(ToppedUp, CalculateGrant(ToppedUp, min, max)),
         UNCHANGED <<now, before>>
  PROVE  BucketStep
<1>1. MaxBurstSize \in Nat /\ ToppedUp \in 0 .. MaxBurstSize
  BY ToppedUpBounds, OptionsAssumption
<1>2. CalculateGrant(ToppedUp, min, max) \in 0 .. ToppedUp
  BY <1>1, GrantBounds
<1>3. CalculateGrant(ToppedUp, min, max) \in Nat
  BY <1>1, <1>2
<1>4. Taken(CalculateGrant(ToppedUp, min, max))
  BY <1>2 DEF Taken, HandOut
<1> QED
  BY <1>3, <1>4 DEF BucketStep

LEMMA TopUpTakesNothing ==
  ASSUME TypeOK, lastNow' = now, lastBurstSize' = ToppedUp,
         UNCHANGED <<now, granted, before>>
  PROVE  BucketStep
<1>1. MaxBurstSize \in Nat /\ ToppedUp \in 0 .. MaxBurstSize
  BY ToppedUpBounds, OptionsAssumption
<1>2. granted \in Nat
  BY DEF TypeOK
<1>3. Taken(0)
  BY <1>1, <1>2 DEF Taken
<1> QED
  BY <1>3 DEF BucketStep

LEMMA UntouchedIsBucketStep ==
  ASSUME UNCHANGED <<now, bucket, granted, before>> PROVE BucketStep
BY DEF BucketStep, Untouched, bucket

LEMMA WaiterIsNat ==
  ASSUME TypeOK, waiters # <<>>
  PROVE  /\ Head(waiters).by \in Clients
         /\ Head(waiters).grant \in Nat
         /\ Head(waiters).startTime \in Nat
         /\ Tail(waiters) \in Seq(Waiters)
<1>1. waiters \in Seq(Waiters)
  BY DEF TypeOK
<1>2. Head(waiters) \in Waiters /\ Tail(waiters) \in Seq(Waiters)
  BY <1>1
<1> QED
  BY <1>2 DEF Waiters

LEMMA StepsOnTheBucket == TypeOK /\ [Next]_vars => BucketStep
<1> SUFFICES ASSUME TypeOK, [Next]_vars PROVE BucketStep
  OBVIOUS
<1>1. ASSUME NEW c \in Clients, NEW q \in Quantities, Call(c, q) PROVE BucketStep
  <2>1. ParsedMin(q) \in Nat /\ ParsedMax(q) \in Nat
    BY ParsedAreNat
  <2>2. ASSUME NotAtOnce(q), UNCHANGED <<now, granted, before>> PROVE BucketStep
    BY <2>2, TopUpTakesNothing, UntouchedIsBucketStep DEF NotAtOnce
  <2>3. CASE GrantAtOnce(c, q)
    BY <2>1, <2>3, GrantTakes DEF GrantAtOnce
  <2>4. CASE GrantNothing(c, q)
    BY <2>2, <2>4 DEF GrantNothing
  <2>5. CASE Enqueue(c, q)
    BY <2>2, <2>5 DEF Enqueue
  <2>6. CASE TakeNow(c, q)
    <3>1. CASE waiters = <<>>
      BY <2>1, <2>6, <3>1, GrantTakes DEF TakeNow
    <3>2. CASE waiters # <<>>
      BY <2>6, <3>2, UntouchedIsBucketStep DEF TakeNow
    <3> QED
      BY <3>1, <3>2
  <2> QED
    BY <1>1, <2>3, <2>4, <2>5, <2>6 DEF Call
<1>2. ASSUME NEW c \in Clients, ClientResumes(c) PROVE BucketStep
  BY <1>2, UntouchedIsBucketStep DEF ClientResumes, history
<1>3. CASE DenyAllRequests
  BY <1>3, UntouchedIsBucketStep DEF DenyAllRequests
<1>4. CASE ThreadBegins
  BY <1>4, UntouchedIsBucketStep DEF ThreadBegins, history
<1>5. CASE ServiceGrants
  <2>1. Head(waiters).grant \in Nat
    BY <1>5, WaiterIsNat DEF ServiceGrants
  <2> QED
    BY <1>5, <2>1, GrantTakes DEF ServiceGrants
<1>6. CASE ServiceSleeps
  BY <1>6, TopUpTakesNothing DEF ServiceSleeps, history
<1>7. CASE ThreadWakes
  BY <1>7, UntouchedIsBucketStep DEF ThreadWakes, history
<1>8. CASE ServiceDone
  BY <1>8, UntouchedIsBucketStep DEF ServiceDone, history
<1>9. CASE ServiceDenies
  BY <1>9, TopUpTakesNothing DEF ServiceDenies, history
<1>10. CASE ThreadEnds
  BY <1>10, UntouchedIsBucketStep DEF ThreadEnds, history
<1>11. CASE Tick
  BY <1>11 DEF Tick, bucket, BucketStep, TimePasses
<1>12. CASE UNCHANGED vars
  BY <1>12, UntouchedIsBucketStep DEF vars, history
<1> QED
  BY <1>1, <1>2, <1>3, <1>4, <1>5, <1>6, <1>7, <1>8, <1>9, <1>10, <1>11, <1>12
     DEF Next, ThreadStep

-----------------------------------------------------------------------------
(***************************************************************************)
(* The limit over a window is not inductive by itself: the bucket may hold *)
(* tokens that it is yet to hand out.  For a time that #topUpBucket() has  *)
(* caught up with, they count against the window too; since a later time   *)
(* nothing was handed out.                                                 *)
(***************************************************************************)
WindowAt(t) ==
  /\ t <= lastNow =>
       granted - before[t] + lastBurstSize <= MaxBurstSize + FlowRate * (lastNow - t)
  /\ lastNow < t => before[t] = granted
Window == \A t \in 0 .. now : WindowAt(t)

LEMMA InitWithinFlow == Init => WithinFlow
<1> SUFFICES ASSUME Init PROVE WithinFlow
  OBVIOUS
<1>1. FlowRate * 0 = 0 /\ InitialBurstSize \in Nat
  BY OptionsAssumption
<1> QED
  BY <1>1 DEF Init, WithinFlow

LEMMA StepWithinFlow == TypeOK /\ WithinFlow /\ BucketStep => WithinFlow'
<1> SUFFICES ASSUME TypeOK, WithinFlow, BucketStep PROVE WithinFlow'
  OBVIOUS
<1>1. CASE Untouched
  BY <1>1 DEF Untouched, WithinFlow
<1>2. CASE TimePasses
  BY <1>2 DEF TimePasses, WithinFlow
<1>3. ASSUME NEW g \in Nat, Taken(g) PROVE WithinFlow'
  <2>1. /\ lastNow \in Int /\ now \in Int /\ granted \in Nat
        /\ lastBurstSize \in Int /\ now - lastNow \in Nat
    BY OptionsAssumption, BoundsAssumption DEF TypeOK
  <2>2. ToppedUp \in Int
    BY ToppedUpBounds, OptionsAssumption
  <2>3. ToppedUp <= lastBurstSize + FlowRate * (now - lastNow)
    BY ToppedUpBounds
  <2>4. FlowRate * lastNow + FlowRate * (now - lastNow) = FlowRate * now
    BY <2>1, OptionsAssumption
  <2>5. FlowRate * lastNow \in Int /\ FlowRate * (now - lastNow) \in Int
        /\ FlowRate * now \in Int /\ InitialBurstSize \in Int
    BY <2>1, OptionsAssumption
  <2>6. granted + lastBurstSize <= InitialBurstSize + FlowRate * lastNow
    BY DEF WithinFlow
  <2>7. granted + ToppedUp <= InitialBurstSize + FlowRate * now
    BY ONLY <2>1, <2>2, <2>3, <2>4, <2>5, <2>6
  <2>8. granted' + lastBurstSize' = granted + ToppedUp
    BY <1>3, <2>1, <2>2 DEF Taken
  <2> QED
    BY <1>3, <2>7, <2>8 DEF WithinFlow, Taken
<1> QED
  BY <1>1, <1>2, <1>3 DEF BucketStep

LEMMA InitWindow == Init => Window
<1> SUFFICES ASSUME Init, NEW t \in 0 .. 0 PROVE WindowAt(t)
  BY DEF Init, Window
<1>1. FlowRate * (0 - 0) = 0 /\ InitialBurstSize \in 0 .. MaxBurstSize /\ MaxBurstSize \in Nat
      /\ MaxTime \in Nat
  BY OptionsAssumption, BoundsAssumption
<1>2. t = 0 /\ before[t] = 0 /\ granted = 0 /\ lastNow = 0
  BY <1>1 DEF Init
<1>3. lastBurstSize <= MaxBurstSize /\ lastBurstSize \in Nat
  BY <1>1 DEF Init
<1> QED
  BY <1>1, <1>2, <1>3 DEF WindowAt

LEMMA StepWindow == TypeOK /\ Window /\ BucketStep => Window'
<1> SUFFICES ASSUME TypeOK, Window, BucketStep, NEW t \in 0 .. now' PROVE WindowAt(t)'
  BY DEF Window
<1>0. /\ lastNow \in Int /\ now \in Nat /\ granted \in Nat /\ now <= MaxTime
      /\ lastBurstSize \in 0 .. MaxBurstSize /\ now - lastNow \in Nat /\ lastNow <= now
      /\ MaxBurstSize \in Nat /\ MaxTime \in Nat
      /\ before \in [0 .. MaxTime -> Nat]
  BY OptionsAssumption, BoundsAssumption DEF TypeOK
<1>1. CASE Untouched
  BY <1>1 DEF Untouched, Window, WindowAt
<1>2. CASE TimePasses
  <2>1. CASE t = now + 1
    <3>1. before'[t] = granted
      BY <1>0, <1>2, <2>1 DEF TimePasses
    <3>2. ~(t <= lastNow)
      BY <1>0, <2>1
    <3> QED
      BY <1>2, <3>1, <3>2 DEF TimePasses, WindowAt
  <2>2. CASE t # now + 1
    <3>1. t \in 0 .. now
      BY <1>0, <1>2, <2>2 DEF TimePasses
    <3>2. before'[t] = before[t]
      BY <1>0, <1>2, <2>2, <3>1 DEF TimePasses
    <3>3. WindowAt(t)
      BY <3>1 DEF Window
    <3> QED
      BY <1>2, <3>2, <3>3 DEF TimePasses, WindowAt
  <2> QED
    BY <2>1, <2>2
<1>3. ASSUME NEW g \in Nat, Taken(g) PROVE WindowAt(t)'
  <2>1. t \in 0 .. now /\ t \in Int /\ now - t \in Nat /\ before[t] \in Nat
    BY <1>0, <1>3 DEF Taken
  <2>2. ToppedUp \in Int /\ ToppedUp <= MaxBurstSize
        /\ ToppedUp <= lastBurstSize + FlowRate * (now - lastNow)
    BY <1>0, ToppedUpBounds
  <2>3. WindowAt(t)
    BY <2>1 DEF Window
  <2>4. FlowRate * (now - t) \in Nat
    BY <2>1, FlowIsNat
  <2>5. granted - before[t] + ToppedUp <= MaxBurstSize + FlowRate * (now - t)
    <3>1. CASE t <= lastNow
      <4>0. now \in Int /\ lastNow \in Int /\ t \in Int /\ granted - before[t] \in Int
            /\ lastBurstSize \in Int /\ MaxBurstSize \in Int
        BY <1>0, <2>1
      <4>1. FlowRate * (lastNow - t) + FlowRate * (now - lastNow) = FlowRate * (now - t)
        BY ONLY <4>0, FlowAddsUp
      <4>2. FlowRate * (lastNow - t) \in Int /\ FlowRate * (now - lastNow) \in Int
        BY <1>0, <2>1, OptionsAssumption
      <4>3. granted - before[t] + lastBurstSize <= MaxBurstSize + FlowRate * (lastNow - t)
        BY <2>3, <3>1 DEF WindowAt
      <4> QED
        BY ONLY <2>2, <2>4, <4>0, <4>1, <4>2, <4>3, LimitsAddUp
    <3>2. CASE lastNow < t
      <4>1. granted - before[t] = 0
        BY <1>0, <2>3, <3>2 DEF WindowAt
      <4> QED
        BY ONLY <1>0, <2>1, <2>2, <2>4, <4>1
    <3> QED
      BY <1>0, <2>1, <3>1, <3>2
  <2>6. granted' - before'[t] + lastBurstSize' = granted - before[t] + ToppedUp
    BY <1>0, <1>3, <2>1, <2>2 DEF Taken
  <2>7. ~(now < t)
    BY <1>0, <2>1
  <2> QED
    BY <1>3, <2>5, <2>6, <2>7 DEF WindowAt, Taken
<1> QED
  BY <1>1, <1>2, <1>3 DEF BucketStep

LEMMA WindowBounds == TypeOK /\ Window => BurstWindow
<1> SUFFICES ASSUME TypeOK, Window, NEW t \in 0 .. now
             PROVE  granted - before[t] <= MaxBurstSize + FlowRate * (now - t)
  BY DEF BurstWindow
<1>0. /\ lastNow \in Int /\ now \in Nat /\ granted \in Nat /\ now <= MaxTime
      /\ lastBurstSize \in 0 .. MaxBurstSize /\ now - lastNow \in Nat
      /\ MaxBurstSize \in Nat /\ MaxTime \in Nat
      /\ before[t] \in Nat /\ t \in Int /\ now - t \in Nat
  BY OptionsAssumption, BoundsAssumption DEF TypeOK
<1>1. FlowRate * (now - t) \in Nat
  BY <1>0, FlowIsNat
<1>2. WindowAt(t)
  BY DEF Window
<1>3. CASE t <= lastNow
  <2>0. now \in Int /\ lastNow \in Int /\ t \in Int
    BY <1>0
  <2>1. FlowRate * (lastNow - t) + FlowRate * (now - lastNow) = FlowRate * (now - t)
    BY ONLY <2>0, FlowAddsUp
  <2>2. FlowRate * (lastNow - t) \in Int /\ FlowRate * (now - lastNow) \in Nat
    BY <1>0, FlowIsNat, OptionsAssumption
  <2>3. granted - before[t] + lastBurstSize <= MaxBurstSize + FlowRate * (lastNow - t)
    BY <1>2, <1>3 DEF WindowAt
  <2> QED
    BY ONLY <1>0, <1>1, <2>1, <2>2, <2>3
<1>4. CASE lastNow < t
  <2>1. granted - before[t] = 0
    BY <1>0, <1>2, <1>4 DEF WindowAt
  <2> QED
    BY ONLY <1>0, <1>1, <2>1
<1> QED
  BY <1>0, <1>3, <1>4

-----------------------------------------------------------------------------
(* Types.  The part about the bucket follows from what a step can do to it. *)
BucketTyped ==
  /\ now \in 0 .. MaxTime /\ lastNow \in 0 .. now
  /\ lastBurstSize \in 0 .. MaxBurstSize
  /\ before \in [0 .. MaxTime -> Nat]
  /\ granted \in Nat
QueueTyped ==
  /\ waiters \in Seq(Waiters)
  /\ queueSize \in Int
ThreadTyped ==
  /\ thread \in ThreadPhases
  /\ runCond \in BOOLEAN
  /\ wakeAt \in Int
  /\ denier \in {"idle", "pending"}
ClientTyped == client \in [Clients -> ClientStates]
CallsTyped == calls \in Nat /\ denials \in Nat

LEMMA TypeParts ==
  TypeOK <=> BucketTyped /\ QueueTyped /\ ThreadTyped /\ ClientTyped /\ CallsTyped
BY DEF TypeOK, BucketTyped, QueueTyped, ThreadTyped, ClientTyped, CallsTyped

LEMMA StepBucketTyped == TypeOK /\ BucketStep => BucketTyped'
<1> SUFFICES ASSUME TypeOK, BucketStep PROVE BucketTyped'
  OBVIOUS
<1>0. BucketTyped /\ MaxTime \in Nat /\ MaxBurstSize \in Nat
  BY TypeParts, OptionsAssumption, BoundsAssumption
<1>1. CASE Untouched
  BY <1>0, <1>1 DEF Untouched, BucketTyped
<1>2. CASE TimePasses
  <2>1. now' \in 0 .. MaxTime /\ lastNow' \in 0 .. now'
    BY <1>0, <1>2 DEF TimePasses, BucketTyped
  <2>2. before' \in [0 .. MaxTime -> Nat]
    BY <1>0, <1>2 DEF TimePasses, BucketTyped
  <2> QED
    BY <1>0, <1>2, <2>1, <2>2 DEF TimePasses, BucketTyped
<1>3. ASSUME NEW g \in Nat, Taken(g) PROVE BucketTyped'
  <2>1. ToppedUp \in 0 .. MaxBurstSize
    BY ToppedUpBounds
  <2>2. ToppedUp - g \in 0 .. MaxBurstSize
    BY <1>0, <1>3, <2>1 DEF Taken
  <2> QED
    BY <1>0, <1>3, <2>2 DEF Taken, BucketTyped
<1> QED
  BY <1>1, <1>2, <1>3 DEF BucketStep

LEMMA ReplyTyped ==
  ASSUME NEW reason \in {"grant", "stopping", "full"}, NEW g \in Nat, NEW w \in Int
  PROVE  Reply(reason, g, w) \in Replies
BY DEF Reply, Replies

LEMMA AnswerTyped ==
  ASSUME ClientTyped, NEW c \in Clients, NEW q \in Quantities,
         NEW reply \in Replies, Answer(c, q, reply)
  PROVE  ClientTyped'
<1>1. ParsedMin(q) \in Nat /\ ParsedMax(q) \in Nat
  BY ParsedAreNat
<1>2. [at |-> "answered", min |-> ParsedMin(q), max |-> ParsedMax(q),
       asked |-> 0, reply |-> reply] \in ClientStates
  BY <1>1 DEF ClientStates
<1> QED
  BY <1>2 DEF Answer, ClientTyped

LEMMA ContinuedTyped == ClientTyped => Continued \in [Clients -> ClientStates]
<1> SUFFICES ASSUME ClientTyped, NEW c \in Clients
             PROVE  [client[c] EXCEPT !.at = "answered"] \in ClientStates
                    /\ client[c] \in ClientStates
  BY DEF Continued
<1>1. client[c] \in ClientStates
  BY DEF ClientTyped
<1> QED
  BY <1>1 DEF ClientStates

LEMMA ResolvedTyped ==
  ASSUME ClientTyped, NEW c \in Clients, NEW reply \in Replies
  PROVE  [client[c] EXCEPT !.at = "resolved", !.reply = reply] \in ClientStates
<1>1. client[c] \in ClientStates
  BY DEF ClientTyped
<1> QED
  BY <1>1 DEF ClientStates

LEMMA ReadyTyped == Ready \in ClientStates
BY DEF Ready, ClientStates

LEMMA InitTyped == Init => TypeOK
<1> SUFFICES ASSUME Init PROVE TypeOK
  OBVIOUS
<1>1. MaxTime \in Nat /\ InitialBurstSize \in 0 .. MaxBurstSize
  BY OptionsAssumption, BoundsAssumption
<1>2. BucketTyped
  BY <1>1 DEF Init, BucketTyped
<1>3. QueueTyped /\ CallsTyped
  <2>1. waiters = <<>> /\ queueSize = 0 /\ calls = 0 /\ denials = 0
    BY DEF Init
  <2>2. waiters \in Seq(Waiters)
    BY <2>1
  <2> QED
    BY <2>1, <2>2 DEF QueueTyped, CallsTyped
<1>4. ThreadTyped
  <2>1. runCond \in BOOLEAN
    BY Zenon DEF Init
  <2>2. thread \in ThreadPhases /\ wakeAt \in Int /\ denier \in {"idle", "pending"}
    BY DEF Init, ThreadPhases
  <2> QED
    BY <2>1, <2>2 DEF ThreadTyped
<1>5. ClientTyped
  BY ReadyTyped DEF Init, ClientTyped
<1> QED
  BY <1>2, <1>3, <1>4, <1>5, TypeParts

LEMMA StepTyped == TypeOK /\ [Next]_vars => TypeOK'
<1> SUFFICES ASSUME TypeOK, [Next]_vars
             PROVE  QueueTyped' /\ ThreadTyped' /\ ClientTyped' /\ CallsTyped'
  <2>1. TypeOK /\ [Next]_vars => BucketTyped'
    BY StepsOnTheBucket, StepBucketTyped
  <2> QED
    BY <2>1 DEF TypeOK, BucketTyped, QueueTyped, ThreadTyped, ClientTyped, CallsTyped
<1>0. /\ BucketTyped /\ QueueTyped /\ ThreadTyped /\ ClientTyped /\ CallsTyped
      /\ now \in Nat /\ BucketTyped'
  <2>1. BucketTyped /\ QueueTyped /\ ThreadTyped /\ ClientTyped /\ CallsTyped
    BY TypeParts
  <2>2. now \in Nat
    BY <2>1, BoundsAssumption DEF BucketTyped
  <2>3. BucketTyped'
    BY StepsOnTheBucket, StepBucketTyped
  <2> QED
    BY <2>1, <2>2, <2>3
<1>1. ASSUME NEW c \in Clients, NEW q \in Quantities, Call(c, q)
      PROVE  QueueTyped' /\ ThreadTyped' /\ ClientTyped' /\ CallsTyped'
  <2>0. ParsedMin(q) \in Nat /\ ParsedMax(q) \in Nat /\ QueuedGrant(q) \in Nat
    BY ParsedAreNat, QueuedGrantIsNat
  <2>1. CASE GrantAtOnce(c, q)
    <3> DEFINE grant == CalculateGrant(ToppedUp, ParsedMin(q), ParsedMax(q))
    <3>1. MaxBurstSize \in Nat /\ ToppedUp \in 0 .. MaxBurstSize
      BY ToppedUpBounds, OptionsAssumption
    <3>2. grant \in 0 .. ToppedUp
      BY <2>0, <3>1, GrantBounds
    <3>3. grant \in Nat
      BY <3>1, <3>2
    <3>4. Reply("grant", grant, 0) \in Replies
      BY <3>3, ReplyTyped
    <3>5. ClientTyped'
      BY <1>0, <2>1, <3>4, AnswerTyped DEF GrantAtOnce
    <3> QED
      BY <1>0, <2>1, <3>5
         DEF GrantAtOnce, MayCall, queue, servicer, QueueTyped, ThreadTyped, CallsTyped
  <2>2. CASE GrantNothing(c, q)
    <3>1. Reply("grant", 0, 0) \in Replies /\ Reply("full", 0, 0) \in Replies
      BY ReplyTyped
    <3>2. ClientTyped'
      BY <1>0, <2>2, <3>1, AnswerTyped DEF GrantNothing
    <3> QED
      BY <1>0, <2>2, <3>2
         DEF GrantNothing, MayCall, queue, servicer, QueueTyped, ThreadTyped, CallsTyped
  <2>3. CASE Enqueue(c, q)
    <3>1. lastNow' \in Nat
      BY <1>0 DEF BucketTyped
    <3>2. [by |-> c, grant |-> QueuedGrant(q), startTime |-> lastNow'] \in Waiters
      BY <2>0, <3>1 DEF Waiters
    <3>3. QueueTyped'
      BY <1>0, <2>0, <2>3, <3>2 DEF Enqueue, QueueTyped
    <3>4. [at |-> "waiting", min |-> ParsedMin(q), max |-> ParsedMax(q),
           asked |-> now, reply |-> NoReply] \in ClientStates
      BY <1>0, <2>0 DEF ClientStates
    <3>5. ClientTyped'
      BY <1>0, <2>3, <3>4 DEF Enqueue, ClientTyped
    <3>6. thread' \in ThreadPhases /\ runCond' \in BOOLEAN
      BY <1>0, <2>3 DEF Enqueue, StartWaiterThread, ThreadTyped, ThreadPhases
    <3> QED
      BY <1>0, <2>3, <3>3, <3>5, <3>6 DEF Enqueue, MayCall, ThreadTyped, CallsTyped
  <2>4. CASE TakeNow(c, q)
    BY <1>0, <2>4 DEF TakeNow, MayCall, queue, servicer, QueueTyped, ThreadTyped,
       CallsTyped, ClientTyped
  <2> QED
    BY <1>1, <2>1, <2>2, <2>3, <2>4 DEF Call
<1>2. ASSUME NEW c \in Clients, ClientResumes(c)
      PROVE  QueueTyped' /\ ThreadTyped' /\ ClientTyped' /\ CallsTyped'
  BY <1>0, <1>2, ReadyTyped DEF ClientResumes, history, queue, servicer, QueueTyped,
     ThreadTyped, CallsTyped, ClientTyped
<1>3. CASE DenyAllRequests
  <2>1. runCond' \in BOOLEAN /\ denier' \in {"idle", "pending"}
    BY <1>0, <1>3 DEF DenyAllRequests, ThreadTyped
  <2> QED
    BY <1>0, <1>3, <2>1 DEF DenyAllRequests, queue, QueueTyped, ThreadTyped, CallsTyped, ClientTyped
<1>4. CASE ThreadBegins
  BY <1>0, <1>4 DEF ThreadBegins, history, queue, QueueTyped, ThreadTyped, CallsTyped,
     ClientTyped, ThreadPhases
<1>5. CASE ServiceGrants
  <2> DEFINE info == Head(waiters)
             grant == CalculateGrant(ToppedUp, info.grant, info.grant)
  <2>1. /\ info.by \in Clients /\ info.grant \in Nat /\ info.startTime \in Nat
        /\ Tail(waiters) \in Seq(Waiters)
    BY <1>5, WaiterIsNat DEF ServiceGrants
  <2>2. MaxBurstSize \in Nat /\ ToppedUp \in 0 .. MaxBurstSize
    BY ToppedUpBounds, OptionsAssumption
  <2>3. grant \in 0 .. ToppedUp
    BY <2>1, <2>2, GrantBounds
  <2>4. grant \in Nat /\ now - info.startTime \in Int
    BY <1>0, <2>1, <2>2, <2>3
  <2>5. Reply("grant", grant, now - info.startTime) \in Replies
    BY <2>4, ReplyTyped
  <2>6. [client[info.by] EXCEPT !.at = "resolved",
           !.reply = Reply("grant", grant, now - info.startTime)] \in ClientStates
    BY <1>0, <2>1, <2>5, ResolvedTyped
  <2>7. ClientTyped'
    BY <1>0, <1>5, <2>1, <2>6 DEF ServiceGrants, Resolve, ClientTyped
  <2> QED
    BY <1>0, <1>5, <2>1, <2>7 DEF ServiceGrants, servicer, QueueTyped, ThreadTyped, CallsTyped
<1>6. CASE ServiceSleeps
  <2>1. Head(waiters).grant \in Nat
    BY <1>6, WaiterIsNat DEF ServiceSleeps
  <2>2. ToppedUp \in Int /\ lastNow' \in Int
    BY <1>0, <1>6, ToppedUpBounds, OptionsAssumption DEF ServiceSleeps
  <2>3. wakeAt' \in Int
    BY <1>6, <2>1, <2>2, WaitUntilIsInt DEF ServiceSleeps
  <2>4. ClientTyped'
    BY <1>0, <1>6, ContinuedTyped DEF ServiceSleeps, ClientTyped
  <2> QED
    BY <1>0, <1>6, <2>3, <2>4 DEF ServiceSleeps, history, queue, QueueTyped, ThreadTyped,
       CallsTyped, ThreadPhases
<1>7. CASE ThreadWakes
  BY <1>0, <1>7 DEF ThreadWakes, history, queue, QueueTyped, ThreadTyped, CallsTyped,
     ClientTyped, ThreadPhases
<1>8. CASE ServiceDone
  BY <1>0, <1>8 DEF ServiceDone, history, queue, QueueTyped, ThreadTyped, CallsTyped,
     ClientTyped, ThreadPhases
<1>9. CASE ServiceDenies
  <2>1. ASSUME NEW c \in Clients, NEW i \in 1 .. Len(waiters)
        PROVE  [client[c] EXCEPT !.at = "resolved",
                  !.reply = Reply("stopping", 0, now - waiters[i].startTime)] \in ClientStates
    <3>0. waiters \in Seq(Waiters)
      BY <1>0 DEF QueueTyped
    <3>1. waiters[i] \in Waiters
      BY ONLY <3>0, i \in 1 .. Len(waiters)
    <3>2. waiters[i].startTime \in Nat
      BY <3>1 DEF Waiters
    <3>3. Reply("stopping", 0, now - waiters[i].startTime) \in Replies
      BY <1>0, <3>2, ReplyTyped
    <3> QED
      BY <1>0, <3>3, ResolvedTyped
  <2>2. ClientTyped'
    BY <1>0, <1>9, <2>1 DEF ServiceDenies, ClientTyped
  <2>3. /\ waiters' = <<>> /\ thread' = "finishing"
        /\ UNCHANGED <<queueSize, runCond, wakeAt, denier, calls, denials>>
    BY <1>9 DEF ServiceDenies, history
  <2>4. QueueTyped' /\ CallsTyped'
    BY <1>0, <2>3 DEF QueueTyped, CallsTyped
  <2>5. ThreadTyped'
    BY <1>0, <2>3 DEF ThreadTyped, ThreadPhases
  <2> QED
    BY <2>2, <2>4, <2>5
<1>10. CASE ThreadEnds
  <2>1. ClientTyped'
    BY <1>0, <1>10, ContinuedTyped DEF ThreadEnds, ClientTyped
  <2> QED
    BY <1>0, <1>10, <2>1 DEF ThreadEnds, history, queue, QueueTyped, ThreadTyped, CallsTyped,
       ThreadPhases
<1>11. CASE Tick
  BY <1>0, <1>11 DEF Tick, queue, servicer, QueueTyped, ThreadTyped, CallsTyped, ClientTyped
<1>12. CASE UNCHANGED vars
  BY <1>0, <1>12 DEF vars, history, queue, servicer, QueueTyped, ThreadTyped, CallsTyped,
     ClientTyped
<1> QED
  BY <1>1, <1>2, <1>3, <1>4, <1>5, <1>6, <1>7, <1>8, <1>9, <1>10, <1>11, <1>12
     DEF Next, ThreadStep

-----------------------------------------------------------------------------
(* The servicer is only ever told to stop by a call of denyAllRequests() that
   is still in progress. *)
StopMeansDenial == thread # "idle" => runCond \/ denier = "pending"

LEMMA InitStopMeansDenial == Init => StopMeansDenial
BY DEF Init, StopMeansDenial

LEMMA StepStopMeansDenial == TypeOK /\ StopMeansDenial /\ [Next]_vars => StopMeansDenial'
<1> SUFFICES ASSUME TypeOK, StopMeansDenial, [Next]_vars PROVE StopMeansDenial'
  OBVIOUS
<1>0. ASSUME UNCHANGED <<thread, runCond, denier>>
      PROVE  StopMeansDenial'
  BY <1>0 DEF StopMeansDenial
<1>1. ASSUME NEW c \in Clients, NEW q \in Quantities, Call(c, q) PROVE StopMeansDenial'
  <2>1. CASE Enqueue(c, q)
    BY <2>1 DEF Enqueue, StartWaiterThread, StopMeansDenial
  <2>2. CASE GrantAtOnce(c, q) \/ GrantNothing(c, q) \/ TakeNow(c, q)
    BY <1>0, <2>2 DEF GrantAtOnce, GrantNothing, TakeNow, servicer
  <2> QED
    BY <1>1, <2>1, <2>2 DEF Call
<1>2. CASE (\E c \in Clients : ClientResumes(c)) \/ Tick \/ ServiceGrants \/ UNCHANGED vars
  BY <1>0, <1>2 DEF ClientResumes, Tick, ServiceGrants, vars, servicer
<1>3. CASE DenyAllRequests
  BY <1>3 DEF DenyAllRequests, StopMeansDenial
<1>4. CASE ThreadBegins \/ ServiceSleeps \/ ThreadWakes \/ ServiceDone \/ ServiceDenies
  <2>1. thread # "idle" /\ UNCHANGED <<runCond, denier>>
    BY <1>4 DEF ThreadBegins, ServiceSleeps, ThreadWakes, ServiceDone, ServiceDenies
  <2> QED
    BY <2>1 DEF StopMeansDenial
<1>5. CASE ThreadEnds
  BY <1>5 DEF ThreadEnds, StopMeansDenial
<1> QED
  BY <1>1, <1>2, <1>3, <1>4, <1>5 DEF Next, ThreadStep

LEMMA StoppingNeedsDenial ==
  TypeOK /\ StopMeansDenial /\ [Next]_vars =>
    [\A c \in Clients :
       client'[c].reply.reason = "stopping" /\ client[c].reply.reason # "stopping"
         => denier = "pending"]_vars
<1> SUFFICES ASSUME TypeOK, StopMeansDenial, Next, NEW d \in Clients,
                    client'[d].reply.reason = "stopping",
                    client[d].reply.reason # "stopping"
             PROVE  denier = "pending"
  OBVIOUS
<1>0. client \in [Clients -> ClientStates] /\ NoReply.reason = "none"
  BY DEF TypeOK, NoReply
<1>1. ASSUME client'[d].reply = client[d].reply PROVE denier = "pending"
  BY <1>1
<1>2. ASSUME client'[d].reply.reason \in {"grant", "full", "none"} PROVE denier = "pending"
  BY <1>2
<1>3. ASSUME NEW c \in Clients, NEW q \in Quantities, Call(c, q) PROVE denier = "pending"
  <2>1. ASSUME NEW reply, reply.reason \in {"grant", "full"}, Answer(c, q, reply)
        PROVE  denier = "pending"
    BY <1>0, <1>1, <1>2, <2>1 DEF Answer
  <2>2. CASE GrantAtOnce(c, q)
    BY <2>1, <2>2 DEF GrantAtOnce, Reply
  <2>3. CASE GrantNothing(c, q)
    BY <2>1, <2>3 DEF GrantNothing, Reply
  <2>4. CASE Enqueue(c, q)
    BY <1>0, <1>1, <1>2, <2>4 DEF Enqueue
  <2>5. CASE TakeNow(c, q)
    BY <1>1, <2>5 DEF TakeNow
  <2> QED
    BY <1>3, <2>2, <2>3, <2>4, <2>5 DEF Call
<1>4. ASSUME NEW c \in Clients, ClientResumes(c) PROVE denier = "pending"
  BY <1>0, <1>1, <1>2, <1>4 DEF ClientResumes, Ready
<1>5. CASE DenyAllRequests \/ ThreadBegins \/ ThreadWakes \/ ServiceDone \/ Tick
  BY <1>1, <1>5 DEF DenyAllRequests, ThreadBegins, ThreadWakes, ServiceDone, Tick
<1>6. CASE ServiceGrants
  <2>1. Head(waiters).by \in Clients
    BY <1>6, WaiterIsNat DEF ServiceGrants
  <2> QED
    BY <1>0, <1>1, <1>2, <1>6, <2>1 DEF ServiceGrants, Resolve, Reply, ClientStates
<1>7. CASE ServiceSleeps \/ ThreadEnds
  BY <1>0, <1>1, <1>7 DEF ServiceSleeps, ThreadEnds, Continued, ClientStates
<1>8. CASE ServiceDenies
  BY <1>8 DEF ServiceDenies, StopMeansDenial
<1> QED
  BY <1>3, <1>4, <1>5, <1>6, <1>7, <1>8 DEF Next, ThreadStep

LEMMA NobodyOvertakes ==
  TypeOK /\ [Next]_vars =>
    [waiters # <<>> /\ granted' # granted =>
       client'[Head(waiters).by].at = "resolved" /\ waiters' = Tail(waiters)]_vars
<1> SUFFICES ASSUME TypeOK, Next, waiters # <<>>, granted' # granted
             PROVE  client'[Head(waiters).by].at = "resolved" /\ waiters' = Tail(waiters)
  OBVIOUS
<1>1. ServiceGrants
  <2>1. ASSUME NEW c \in Clients, NEW q \in Quantities, Call(c, q) PROVE FALSE
    BY <2>1 DEF Call, GrantAtOnce, GrantNothing, Enqueue, TakeNow
  <2>2. ASSUME NEW c \in Clients, ClientResumes(c) PROVE FALSE
    BY <2>2 DEF ClientResumes, history
  <2>3. CASE DenyAllRequests \/ Tick
    BY <2>3 DEF DenyAllRequests, Tick
  <2>4. ~(ThreadBegins \/ ServiceSleeps \/ ThreadWakes \/ ServiceDone \/ ServiceDenies
          \/ ThreadEnds)
    BY DEF ThreadBegins, ServiceSleeps, ThreadWakes, ServiceDone, ServiceDenies, ThreadEnds,
       history
  <2> QED
    BY <2>1, <2>2, <2>3, <2>4 DEF Next, ThreadStep
<1>2. client \in [Clients -> ClientStates] /\ Head(waiters).by \in Clients
  BY WaiterIsNat DEF TypeOK
<1> QED
  BY <1>1, <1>2 DEF ServiceGrants, Resolve, ClientStates

-----------------------------------------------------------------------------
(* The state has the shape that the module describes: in particular the bucket
   never holds less than nothing nor more than #maxBurstSize. *)
THEOREM BucketIsTyped == Spec => []TypeOK
BY InitTyped, StepTyped, PTL DEF Spec

(* What was handed out and what is left never exceed the initial burst and what
   flowed in since. *)
THEOREM FlowLimit == Spec => []WithinFlow
<1>1. TypeOK /\ WithinFlow /\ [Next]_vars => WithinFlow'
  BY StepsOnTheBucket, StepWithinFlow
<1> QED
  BY <1>1, InitTyped, StepTyped, InitWithinFlow, PTL DEF Spec

(* Over any stretch of time that ends now, no more than a full bucket and what
   flowed in meanwhile is handed out. *)
THEOREM BurstLimit == Spec => []BurstWindow
<1>1. TypeOK /\ Window /\ [Next]_vars => Window'
  BY StepsOnTheBucket, StepWindow
<1> QED
  BY <1>1, InitTyped, StepTyped, InitWindow, WindowBounds, PTL DEF Spec

(* While somebody waits, tokens go to the first in line and to nobody else. *)
THEOREM FirstComeFirstServed == Spec => NoOvertaking
BY InitTyped, StepTyped, NobodyOvertakes, PTL DEF Spec, NoOvertaking

(* A request is refused as "stopping" only during a call of denyAllRequests(). *)
THEOREM RefusalsAreDenials == Spec => StoppingMeansDenying
BY InitTyped, StepTyped, InitStopMeansDenial, StepStopMeansDenial, StoppingNeedsDenial, PTL
   DEF Spec, StoppingMeansDenying

-----------------------------------------------------------------------------
(* The stream.  What there is to know about it is where each byte is: accepted,
   in the write in progress, or in a chunk that waits for it. *)
WriteRecords ==
  [at : {"none", "granting", "draining", "callback"},
   from : Nat, length : Nat, done : Nat, ok : BOOLEAN]

Typed ==
  /\ written \in Nat /\ chunks \in Seq(Nat) /\ accepted \in Seq(Nat)
  /\ write \in WriteRecords /\ write.done <= write.length
  /\ error \in BOOLEAN /\ end \in Ends

(* The chunks that wait follow the write in progress without a gap, up to the
   last byte that was written: e gives the end of each of them. *)
LinedUp(e, first, c, last) ==
  /\ e \in [0 .. Len(c) -> Nat]
  /\ e[0] = first /\ e[Len(c)] = last
  /\ \A i \in 1 .. Len(c) : e[i] = e[i - 1] + c[i]

NoGapBehind == \E e : LinedUp(e, write.from + write.length, chunks, written)

(* While the connection is there: what was granted is what was accepted. *)
OpenIsExact ==
  end = "open" =>
    /\ ~error
    /\ write.at = "none" => chunks = <<>> /\ Len(accepted) = written
    /\ write.at # "none" => Len(accepted) = write.from + write.done /\ NoGapBehind
    /\ write.at = "callback" => write.done = write.length

(* And when it is gone: nobody waits for 'drain', and nothing is to follow. *)
GoneIsQuiet ==
  end # "open" =>
    /\ chunks = <<>> /\ write.at # "draining"
    /\ end \in {"denied", "reset"} => error
    /\ end = "finished" => write.at = "none"

StreamInvariant ==
  /\ Typed /\ OpenIsExact /\ GoneIsQuiet
  /\ BytesInOrder /\ DoneMeansPassedOn /\ FinishedMeansPassedOn

-----------------------------------------------------------------------------
\* The helpers of the model.

(* At the head of its loop #write() asks for a grant, or has done all it can. *)
LEMMA LoopHead ==
  ASSUME NEW w \in WriteRecords, NEW failed \in BOOLEAN, NEW gone \in BOOLEAN,
         w.done <= w.length
  PROVE  LET r == AtLoopHead(w, failed, gone)
         IN  /\ r \in WriteRecords
             /\ r.from = w.from /\ r.length = w.length /\ r.done = w.done
             /\ r.at \in {"granting", "callback"}
             /\ r.at = "callback" => r.ok = ~failed
             /\ r.at = "callback" /\ ~failed /\ ~gone => r.done = r.length
             /\ failed \/ gone => r.at = "callback"
<1>1. CASE w.done < w.length /\ ~failed /\ ~gone
  BY <1>1 DEF AtLoopHead, WriteRecords
<1>2. CASE ~(w.done < w.length /\ ~failed /\ ~gone)
  <2>. DEFINE r == AtLoopHead(w, failed, gone)
  <2>1. r = [w EXCEPT !.at = "callback", !.ok = ~failed]
    BY <1>2, Zenon DEF AtLoopHead
  <2>2. r \in WriteRecords /\ r.from = w.from /\ r.length = w.length /\ r.done = w.done
        /\ r.at = "callback" /\ r.ok = ~failed
    BY <2>1 DEF WriteRecords
  <2>3. ~failed /\ ~gone => w.done = w.length
    BY <1>2 DEF WriteRecords
  <2>. QED BY <2>2, <2>3, Zenon
<1>. QED BY <1>1, <1>2, Zenon

(* A chunk that joins the line, and one that leaves it. *)
LEMMA LineGrows ==
  ASSUME NEW c \in Seq(Nat), NEW n \in Nat, NEW first \in Nat, NEW last \in Nat,
         NEW e, LinedUp(e, first, c, last)
  PROVE  LinedUp([i \in 0 .. Len(c) + 1 |-> IF i = Len(c) + 1 THEN last + n ELSE e[i]],
                 first, Append(c, n), last + n)
<1>. DEFINE f == [i \in 0 .. Len(c) + 1 |-> IF i = Len(c) + 1 THEN last + n ELSE e[i]]
<1>1. Len(Append(c, n)) = Len(c) + 1 /\ Len(c) \in Nat
  OBVIOUS
<1>2. f \in [0 .. Len(c) + 1 -> Nat] /\ f[0] = first /\ f[Len(c) + 1] = last + n
  BY <1>1 DEF LinedUp
<1>3. ASSUME NEW i \in 1 .. Len(c) + 1 PROVE f[i] = f[i - 1] + Append(c, n)[i]
  <2>1. CASE i = Len(c) + 1
    BY <1>1, <2>1 DEF LinedUp
  <2>2. CASE i \in 1 .. Len(c)
    <3>1. e[i] = e[i - 1] + c[i] /\ Append(c, n)[i] = c[i]
      BY <2>2 DEF LinedUp
    <3>. QED BY <1>1, <2>2, <3>1
  <2>. QED BY <1>1, <2>1, <2>2
<1>. HIDE DEF f
<1>4. LinedUp(f, first, Append(c, n), last + n)
  BY <1>1, <1>2, <1>3 DEF LinedUp
<1>. QED BY <1>4 DEF f

LEMMA LineMoves ==
  ASSUME NEW c \in Seq(Nat), NEW first \in Nat, NEW last \in Nat,
         NEW e, LinedUp(e, first, c, last), c # <<>>
  PROVE  LinedUp([i \in 0 .. Len(c) - 1 |-> e[i + 1]], first + Head(c), Tail(c), last)
<1>. DEFINE f == [i \in 0 .. Len(c) - 1 |-> e[i + 1]]
<1>1. Len(Tail(c)) = Len(c) - 1 /\ Len(c) \in Nat \ {0} /\ Head(c) = c[1]
  OBVIOUS
<1>2. f \in [0 .. Len(c) - 1 -> Nat] /\ f[0] = e[1] /\ f[Len(c) - 1] = last
  BY <1>1 DEF LinedUp
<1>3. e[1] = first + Head(c)
  <2>1. 1 \in 1 .. Len(c) BY <1>1
  <2>2. e[1] = e[1 - 1] + c[1] BY <2>1 DEF LinedUp
  <2>. QED BY <1>1, <2>2 DEF LinedUp
<1>4. ASSUME NEW i \in 1 .. Len(c) - 1 PROVE f[i] = f[i - 1] + Tail(c)[i]
  <2>1. i + 1 \in 1 .. Len(c) /\ Tail(c)[i] = c[i + 1] BY <1>1
  <2>2. e[i + 1] = e[(i + 1) - 1] + c[i + 1] BY <2>1 DEF LinedUp
  <2>3. f[i] = e[i + 1] /\ f[i - 1] = e[i] BY <1>1
  <2>4. (i + 1) - 1 = i OBVIOUS
  <2>. QED BY <2>1, <2>2, <2>3, <2>4
<1>. HIDE DEF f
<1>5. LinedUp(f, first + Head(c), Tail(c), last)
  BY <1>1, <1>2, <1>3, <1>4 DEF LinedUp
<1>. QED BY <1>5 DEF f

-----------------------------------------------------------------------------
\* What several actions have in common.

LEMMA NoWriteIsTyped ==
  NoWrite \in WriteRecords /\ NoWrite.at = "none" /\ NoWrite.done <= NoWrite.length
BY DEF NoWrite, WriteRecords

(* The next chunk in line is passed to #write(). *)
LEMMA NextInLine ==
  ASSUME NEW n \in Nat, NEW from \in Nat, error \in BOOLEAN, end \in Ends
  PROVE  LET r == NextChunk(n, from)
         IN  /\ r \in WriteRecords
             /\ r.from = from /\ r.length = n /\ r.done = 0
             /\ r.at \in {"granting", "callback"}
             /\ r.at = "callback" => r.ok = ~error
             /\ r.at = "callback" /\ ~error /\ end = "open" => r.done = r.length
             /\ error \/ end # "open" => r.at = "callback"
<1>. DEFINE w == [at |-> "granting", from |-> from, length |-> n, done |-> 0, ok |-> TRUE]
<1>1. w \in WriteRecords /\ w.done <= w.length /\ w.from = from /\ w.length = n /\ w.done = 0
  BY DEF WriteRecords
<1>2. Destroyed \in BOOLEAN /\ (Destroyed <=> end # "open")
  BY DEF Destroyed
<1>3. NextChunk(n, from) = AtLoopHead(w, error, Destroyed)
  BY DEF NextChunk
<1>. HIDE DEF w
<1>. DEFINE r == AtLoopHead(w, error, Destroyed)
<1>4. /\ r \in WriteRecords
      /\ r.from = w.from /\ r.length = w.length /\ r.done = w.done
      /\ r.at \in {"granting", "callback"}
      /\ r.at = "callback" => r.ok = ~error
      /\ r.at = "callback" /\ ~error /\ ~Destroyed => r.done = r.length
      /\ error \/ Destroyed => r.at = "callback"
  BY <1>1, <1>2, LoopHead, Zenon
<1>5. NextChunk(n, from) = r
  BY <1>3, Zenon
<1>. HIDE DEF r
<1>. QED BY <1>1, <1>2, <1>4, <1>5

(* Neither the writing nor what was accepted is touched. *)
LEMMA WritingUntouched ==
  ASSUME StreamInvariant,
         UNCHANGED <<written, chunks, write, error, end, accepted>>
  PROVE  StreamInvariant'
BY Zenon DEF StreamInvariant, Typed, OpenIsExact, GoneIsQuiet, NoGapBehind, BytesInOrder, DoneMeansPassedOn,
   FinishedMeansPassedOn, PassedOn

(* A stream that has finished has passed everything on, so that it may be
   destroyed; one that has not stays as it is. *)
LEMMA FinishesWhole ==
  ASSUME StreamInvariant,
         UNCHANGED <<written, chunks, write, error, accepted>>,
         MayFinish
  PROVE  StreamInvariant'
<1>1. CASE end' = end
  BY <1>1, WritingUntouched
<1>2. CASE end' # end
  <2>1. end = "open" /\ end' = "finished" /\ chunks' = <<>> /\ write'.at = "none"
    BY <1>2 DEF MayFinish, Finished, Destroyed
  <2>2. Len(accepted) = written /\ ~error
    BY <2>1 DEF StreamInvariant, OpenIsExact
  <2>3. Typed'
    BY <2>1 DEF StreamInvariant, Typed, Ends
  <2>4. OpenIsExact' /\ GoneIsQuiet'
    BY <2>1 DEF OpenIsExact, GoneIsQuiet
  <2>5. BytesInOrder' /\ DoneMeansPassedOn' /\ FinishedMeansPassedOn'
    BY <2>1, <2>2 DEF StreamInvariant, BytesInOrder, DoneMeansPassedOn, FinishedMeansPassedOn
  <2>. QED BY <2>3, <2>4, <2>5 DEF StreamInvariant
<1>. QED BY <1>1, <1>2

(* Both streams are destroyed while a write is in progress, or between two. *)
LEMMA Destroys ==
  ASSUME StreamInvariant, end = "open",
         NEW how \in {"denied", "reset", "forced"}, NEW w \in WriteRecords,
         w.done <= w.length,
         w = write \/ (how = "denied" /\ w.at = "callback" /\ ~w.ok),
         Destroy(how, w), UNCHANGED <<written, accepted>>
  PROVE  StreamInvariant'
<1>1. Typed
  BY DEF StreamInvariant
<1>2. end' = how /\ chunks' = <<>> /\ error' \in BOOLEAN /\ (how # "forced" => error')
  BY <1>1 DEF Destroy, Typed
<1>3. CASE w.at = "draining"
  <2>1. write' = AtLoopHead(w, error', TRUE)
    BY <1>3 DEF Destroy, Unstuck
  <2>2. /\ write' \in WriteRecords /\ write'.done <= write'.length
        /\ write'.at = "callback" /\ write'.ok = ~error'
    BY <1>2, <2>1, LoopHead
  <2>3. Typed' /\ OpenIsExact' /\ GoneIsQuiet'
    BY <1>1, <1>2, <2>2 DEF Typed, OpenIsExact, GoneIsQuiet, Ends
  <2>4. BytesInOrder' /\ DoneMeansPassedOn' /\ FinishedMeansPassedOn'
    BY <1>2, <2>2 DEF StreamInvariant, BytesInOrder, DoneMeansPassedOn, FinishedMeansPassedOn
  <2>. QED BY <2>3, <2>4 DEF StreamInvariant
<1>4. CASE w.at # "draining"
  <2>1. write' = w
    BY <1>4 DEF Destroy, Unstuck
  <2>2. Typed' /\ OpenIsExact' /\ GoneIsQuiet'
    BY <1>1, <1>2, <1>4, <2>1 DEF Typed, OpenIsExact, GoneIsQuiet, Ends
  <2>3. DoneMeansPassedOn'
    <3>1. ASSUME w = write, w.at = "callback" PROVE PassedOn'
      BY <1>1, <2>1, <3>1 DEF StreamInvariant, OpenIsExact, PassedOn, Typed, WriteRecords
    <3>. QED BY <2>1, <3>1 DEF DoneMeansPassedOn
  <2>4. BytesInOrder' /\ FinishedMeansPassedOn'
    BY <1>2 DEF StreamInvariant, BytesInOrder, FinishedMeansPassedOn
  <2>. QED BY <2>2, <2>3, <2>4 DEF StreamInvariant
<1>. QED BY <1>3, <1>4

-----------------------------------------------------------------------------
\* The steps that take or pass on what is written.

(* A chunk is written: it is the write in progress, or the last in line. *)
LEMMA WriteKeeps ==
  ASSUME StreamInvariant, NEW n \in 1 .. MaxChunk, Write(n)
  PROVE  StreamInvariant'
<1>. USE StreamBounds DEF StreamBounds
<1>1. Typed /\ end = "open" /\ end' = "open" /\ error' = error /\ accepted' = accepted
      /\ written' = written + n /\ n \in Nat
  BY DEF StreamInvariant, Write, Destroyed, inner
<1>2. ~error
  BY <1>1 DEF StreamInvariant, OpenIsExact
<1>3. CASE write.at = "none"
  <2>1. write' = NextChunk(n, written) /\ chunks' = chunks
    BY <1>3 DEF Write
  <2>2. chunks = <<>> /\ Len(accepted) = written
    BY <1>1, <1>3 DEF StreamInvariant, OpenIsExact
  <2>3. /\ write' \in WriteRecords
        /\ write'.from = written /\ write'.length = n /\ write'.done = 0
        /\ write'.at = "granting"
    <3>1. n # 0 OBVIOUS
    <3>2. /\ write' \in WriteRecords
          /\ write'.from = written /\ write'.length = n /\ write'.done = 0
          /\ write'.at \in {"granting", "callback"}
          /\ write'.at = "callback" => write'.done = write'.length
      BY <1>1, <1>2, <2>1, NextInLine DEF Typed
    <3>. QED BY <3>1, <3>2
  <2>4. NoGapBehind'
    <3>1. LinedUp([i \in {0} |-> written + n], written + n, <<>>, written + n)
      BY <1>1 DEF LinedUp, Typed
    <3>. QED BY <1>1, <2>1, <2>2, <2>3, <3>1 DEF NoGapBehind
  <2>5. Typed' /\ OpenIsExact' /\ GoneIsQuiet'
    BY <1>1, <1>2, <2>1, <2>2, <2>3, <2>4 DEF Typed, OpenIsExact, GoneIsQuiet
  <2>. QED BY <1>1, <2>3, <2>5 DEF StreamInvariant, BytesInOrder, DoneMeansPassedOn,
           FinishedMeansPassedOn
<1>4. CASE write.at # "none"
  <2>1. write' = write /\ chunks' = Append(chunks, n)
    BY <1>4 DEF Write
  <2>2. PICK e : LinedUp(e, write.from + write.length, chunks, written)
    BY <1>1, <1>4 DEF StreamInvariant, OpenIsExact, NoGapBehind
  <2>3. NoGapBehind'
    <3>1. write.from + write.length \in Nat /\ written \in Nat /\ chunks \in Seq(Nat)
      BY <1>1 DEF Typed, WriteRecords
    <3>2. \E f : LinedUp(f, write.from + write.length, Append(chunks, n), written + n)
      BY <1>1, <2>2, <3>1, LineGrows
    <3>. QED BY <1>1, <2>1, <3>2 DEF NoGapBehind
  <2>4. Typed' /\ OpenIsExact' /\ GoneIsQuiet'
    <3>1. Typed'
      BY <1>1, <2>1 DEF Typed
    <3>2. OpenIsExact' /\ GoneIsQuiet'
      BY <1>1, <1>4, <2>1, <2>3 DEF StreamInvariant, OpenIsExact, GoneIsQuiet
    <3>. QED BY <3>1, <3>2
  <2>. QED BY <1>1, <2>1, <2>4 DEF StreamInvariant, BytesInOrder, DoneMeansPassedOn, PassedOn,
           FinishedMeansPassedOn
<1>. QED BY <1>3, <1>4

(* A grant: the next bytes of the chunk are accepted, and nothing else is. *)
LEMMA GrantedKeeps ==
  ASSUME StreamInvariant, NEW n \in 1 .. MaxGrant, Granted(n)
  PROVE  StreamInvariant'
<1>. USE StreamBounds DEF StreamBounds
<1>. DEFINE moved == [write EXCEPT !.done = @ + n]
<1>1. Typed /\ n \in Nat \ {0} /\ n <= write.length - write.done /\ write.at = "granting"
      /\ UNCHANGED <<written, chunks, error, end>>
  <2>1. /\ Typed /\ n \in 1 .. Least(MaxGrant, write.length - write.done)
        /\ write.at = "granting" /\ UNCHANGED <<written, chunks, error, end>>
    BY Zenon DEF StreamInvariant, Granted
  <2>2. write.length \in Nat /\ write.done \in Nat
    BY <2>1 DEF Typed, WriteRecords
  <2>3. n <= write.length - write.done
    BY <2>1, <2>2 DEF Least
  <2>. QED BY <2>1, <2>3
<1>2. /\ moved \in WriteRecords /\ moved.done <= moved.length /\ moved.at = "granting"
      /\ moved.from = write.from /\ moved.length = write.length
      /\ moved.done = write.done + n
  <2>1. write \in WriteRecords /\ write.done + n \in Nat /\ write.done + n <= write.length
    BY <1>1 DEF Typed, WriteRecords
  <2>2. moved.done = write.done + n /\ moved \in WriteRecords
    BY <2>1 DEF WriteRecords
  <2>3. moved.from = write.from /\ moved.length = write.length /\ moved.at = write.at
    BY <2>1 DEF WriteRecords
  <2>. QED BY <1>1, <2>1, <2>2, <2>3
<1>3. \/ CanWriteInner /\ write' = [moved EXCEPT !.at = "draining"]
      \/ write' = AtLoopHead(moved, error, Destroyed)
  BY DEF Granted
<1>. HIDE DEF moved
<1>4. /\ write' \in WriteRecords /\ write'.done <= write'.length
      /\ write'.from = write.from /\ write'.length = write.length
      /\ write'.done = write.done + n
      /\ write'.at = "draining" => end = "open"
      /\ write'.at # "none"
      /\ write'.at = "callback" => write'.ok = ~error
      /\ write'.at = "callback" /\ ~error /\ end = "open" => write'.done = write'.length
  <2>1. CASE CanWriteInner /\ write' = [moved EXCEPT !.at = "draining"]
    BY <1>2, <2>1 DEF CanWriteInner, Destroyed, WriteRecords
  <2>2. CASE write' = AtLoopHead(moved, error, Destroyed)
    <3>1. Destroyed \in BOOLEAN /\ (Destroyed <=> end # "open") /\ error \in BOOLEAN
      BY <1>1 DEF Destroyed, Typed
    <3>. QED BY <1>2, <2>2, <3>1, LoopHead
  <2>. QED BY <1>3, <2>1, <2>2
<1>5. CASE end = "open"
  <2>1. accepted' = accepted \o SubChunk(write, n)
    BY <1>5 DEF Granted, Destroyed
  <2>2. Len(accepted) = write.from + write.done /\ NoGapBehind /\ ~error
    BY <1>1, <1>5 DEF StreamInvariant, OpenIsExact
  <2>3. SubChunk(write, n) \in Seq(Nat) /\ Len(SubChunk(write, n)) = n
        /\ \A i \in 1 .. n : SubChunk(write, n)[i] = Len(accepted) + i
    BY <1>1, <2>2 DEF SubChunk, Typed, WriteRecords
  <2>4. accepted' \in Seq(Nat) /\ Len(accepted') = Len(accepted) + n
    BY <1>1, <2>1, <2>3 DEF Typed
  <2>5. BytesInOrder'
    <3>. SUFFICES ASSUME NEW i \in 1 .. Len(accepted) + n PROVE accepted'[i] = i
      BY <2>4 DEF BytesInOrder
    <3>1. CASE i \in 1 .. Len(accepted)
      BY <1>1, <2>1, <2>3, <3>1 DEF StreamInvariant, BytesInOrder, Typed
    <3>2. CASE i \notin 1 .. Len(accepted)
      <4>1. i - Len(accepted) \in 1 .. n /\ Len(accepted) \in Nat
        BY <1>1, <3>2 DEF Typed
      <4>2. accepted'[i] = SubChunk(write, n)[i - Len(accepted)]
        BY <1>1, <2>1, <2>3, <3>2, <4>1 DEF Typed
      <4>. QED BY <2>3, <4>1, <4>2
    <3>. QED BY <3>1, <3>2
  <2>6. NoGapBehind'
    BY <1>1, <1>4, <2>2 DEF NoGapBehind
  <2>7. Typed' /\ OpenIsExact' /\ GoneIsQuiet'
    <3>1. Typed'
      BY <1>1, <1>4, <2>4 DEF Typed
    <3>2. Len(accepted') = write'.from + write'.done
      BY <1>1, <1>4, <2>2, <2>4 DEF Typed, WriteRecords
    <3>3. OpenIsExact' /\ GoneIsQuiet'
      BY <1>1, <1>4, <1>5, <2>2, <2>6, <3>2 DEF OpenIsExact, GoneIsQuiet
    <3>. QED BY <3>1, <3>3
  <2>8. DoneMeansPassedOn'
    BY <1>1, <1>4, <1>5, <2>2, <2>7 DEF DoneMeansPassedOn, PassedOn, OpenIsExact
  <2>9. FinishedMeansPassedOn'
    BY <1>1, <1>5 DEF FinishedMeansPassedOn
  <2>. QED BY <2>5, <2>7, <2>8, <2>9 DEF StreamInvariant
<1>6. CASE end # "open"
  <2>1. accepted' = accepted
    BY <1>6 DEF Granted, Destroyed
  <2>2. GoneIsQuiet /\ end # "finished"
    BY <1>1, <1>6 DEF StreamInvariant, GoneIsQuiet
  <2>3. Typed' /\ OpenIsExact' /\ GoneIsQuiet'
    BY <1>1, <1>4, <1>6, <2>1, <2>2 DEF Typed, OpenIsExact, GoneIsQuiet
  <2>4. DoneMeansPassedOn'
    BY <1>1, <1>4, <1>6, <2>2 DEF DoneMeansPassedOn, GoneIsQuiet, Typed, Ends
  <2>5. BytesInOrder' /\ FinishedMeansPassedOn'
    BY <1>1, <2>1, <2>2 DEF StreamInvariant, BytesInOrder, FinishedMeansPassedOn
  <2>. QED BY <2>3, <2>4, <2>5 DEF StreamInvariant
<1>. QED BY <1>5, <1>6

(* A callback: the next chunk in line, or the end of the stream. *)
LEMMA CallbackKeeps ==
  ASSUME StreamInvariant, Callback
  PROVE  StreamInvariant'
<1>1. Typed /\ write.at = "callback" /\ UNCHANGED <<written, error, accepted>> /\ MayFinish
  BY Zenon DEF StreamInvariant, Callback, inner
<1>2. CASE chunks = <<>>
  <2>1. write' = NoWrite /\ chunks' = <<>> /\ write' \in WriteRecords
        /\ write'.at = "none" /\ write'.done <= write'.length
    <3>1. write' = NoWrite /\ chunks' = <<>>
      BY <1>2 DEF Callback
    <3>. QED BY <3>1, NoWriteIsTyped
  <2>2. end = "open" => Len(accepted) = written /\ ~error
    <3>. SUFFICES ASSUME end = "open" PROVE Len(accepted) = written /\ ~error
      OBVIOUS
    <3>1. Len(accepted) = write.from + write.length /\ ~error /\ NoGapBehind
      BY <1>1 DEF StreamInvariant, OpenIsExact
    <3>2. write.from + write.length = written
      BY <1>2, <3>1 DEF NoGapBehind, LinedUp
    <3>. QED BY <3>1, <3>2
  <2>3. end' = end \/ (end = "open" /\ end' = "finished")
    BY <1>1 DEF MayFinish, Destroyed
  <2>4. Typed'
    BY <1>1, <2>1, <2>3 DEF Typed, Ends
  <2>5. OpenIsExact' /\ GoneIsQuiet'
    BY <1>1, <2>1, <2>2, <2>3 DEF StreamInvariant, OpenIsExact, GoneIsQuiet
  <2>6. BytesInOrder' /\ DoneMeansPassedOn' /\ FinishedMeansPassedOn'
    BY <1>1, <2>1, <2>2, <2>3 DEF StreamInvariant, BytesInOrder, DoneMeansPassedOn,
       FinishedMeansPassedOn
  <2>. QED BY <2>4, <2>5, <2>6 DEF StreamInvariant
<1>3. CASE chunks # <<>>
  <2>1. end = "open" /\ ~error
    BY <1>1, <1>3 DEF StreamInvariant, OpenIsExact, GoneIsQuiet
  <2>2. /\ chunks' = Tail(chunks) /\ Head(chunks) \in Nat /\ Tail(chunks) \in Seq(Nat)
        /\ write.from + write.length \in Nat
        /\ write' = NextChunk(Head(chunks), write.from + write.length)
    <3>1. Head(chunks) \in Nat /\ Tail(chunks) \in Seq(Nat)
      BY <1>1, <1>3 DEF Typed
    <3>2. write.from + write.length \in Nat
      BY <1>1 DEF Typed, WriteRecords
    <3>. QED BY <1>3, <3>1, <3>2 DEF Callback
  <2>3. /\ write' \in WriteRecords
        /\ write'.from = write.from + write.length
        /\ write'.length = Head(chunks) /\ write'.done = 0
        /\ write'.at \in {"granting", "callback"}
        /\ write'.at = "callback" => write'.done = write'.length
    BY <1>1, <2>1, <2>2, NextInLine DEF Typed
  <2>4. end' = "open"
    <3>1. write'.at # "none" BY <2>3
    <3>. QED BY <1>1, <2>1, <3>1 DEF MayFinish, Finished
  <2>5. Len(accepted) = write.from + write.length /\ NoGapBehind
    BY <1>1, <2>1 DEF StreamInvariant, OpenIsExact
  <2>6. NoGapBehind'
    <3>1. PICK e : LinedUp(e, write.from + write.length, chunks, written)
      BY <2>5 DEF NoGapBehind
    <3>2. \E f : LinedUp(f, write.from + write.length + Head(chunks), Tail(chunks), written)
      BY <1>1, <1>3, <2>2, <3>1, LineMoves DEF Typed
    <3>. QED BY <1>1, <2>2, <2>3, <3>2 DEF NoGapBehind
  <2>7. Typed'
    <3>1. write'.done <= write'.length BY <2>2, <2>3
    <3>. QED BY <1>1, <2>2, <2>3, <2>4, <3>1 DEF Typed, Ends
  <2>8. OpenIsExact' /\ GoneIsQuiet'
    <3>1. Len(accepted') = write'.from + write'.done
      BY <1>1, <2>2, <2>3, <2>5
    <3>. QED BY <1>1, <2>1, <2>3, <2>4, <2>6, <3>1 DEF OpenIsExact, GoneIsQuiet
  <2>9. BytesInOrder' /\ FinishedMeansPassedOn'
    BY <1>1, <2>4 DEF StreamInvariant, BytesInOrder, FinishedMeansPassedOn
  <2>10. DoneMeansPassedOn'
    BY <1>1, <2>3, <2>4, <2>8 DEF DoneMeansPassedOn, PassedOn, OpenIsExact
  <2>. QED BY <2>7, <2>8, <2>9, <2>10 DEF StreamInvariant
<1>. QED BY <1>2, <1>3

(* A byte gets to the client; with the last one #write() goes on. *)
LEMMA FlushKeeps ==
  ASSUME StreamInvariant, Flush
  PROVE  StreamInvariant'
<1>1. Typed /\ end = "open" /\ UNCHANGED <<written, chunks, error, end, accepted>>
      /\ (write' = write \/ write' = Unstuck(write, error, FALSE))
  BY DEF StreamInvariant, Flush, Destroyed
<1>2. ~error
  BY <1>1 DEF StreamInvariant, OpenIsExact
<1>3. CASE write' = write
  BY <1>1, <1>3, WritingUntouched
<1>4. CASE write.at = "draining" /\ write' = AtLoopHead(write, error, FALSE)
  <2>1. /\ write' \in WriteRecords
        /\ write'.from = write.from /\ write'.length = write.length
        /\ write'.done = write.done
        /\ write'.at \in {"granting", "callback"}
        /\ write'.at = "callback" => write'.done = write'.length
    <3>1. write \in WriteRecords /\ write.done <= write.length /\ error \in BOOLEAN
      BY <1>1 DEF Typed
    <3>. QED BY <1>2, <1>4, <3>1, LoopHead
  <2>2. Len(accepted) = write.from + write.done /\ NoGapBehind
    BY <1>1, <1>4 DEF StreamInvariant, OpenIsExact
  <2>3. NoGapBehind'
    BY <1>1, <2>1, <2>2 DEF NoGapBehind
  <2>4. Typed'
    BY <1>1, <2>1 DEF Typed
  <2>5. OpenIsExact' /\ GoneIsQuiet'
    BY <1>1, <1>2, <2>1, <2>2, <2>3 DEF OpenIsExact, GoneIsQuiet
  <2>6. DoneMeansPassedOn'
    BY <1>1, <2>1, <2>5 DEF DoneMeansPassedOn, PassedOn, OpenIsExact
  <2>7. BytesInOrder' /\ FinishedMeansPassedOn'
    BY <1>1 DEF StreamInvariant, BytesInOrder, FinishedMeansPassedOn
  <2>. QED BY <2>4, <2>5, <2>6, <2>7 DEF StreamInvariant
<1>. QED BY <1>1, <1>3, <1>4 DEF Unstuck

-----------------------------------------------------------------------------
\* The steps that end the connection, or one side of it.

(* end() of the outer stream, from wherever it is called. *)
LEMMA EndingKeeps ==
  ASSUME StreamInvariant, UNCHANGED accepted, EndOuter \/ UNCHANGED writing
  PROVE  StreamInvariant'
<1>1. CASE EndOuter
  BY <1>1, FinishesWhole DEF EndOuter
<1>2. CASE UNCHANGED writing
  BY <1>2, WritingUntouched DEF writing
<1>. QED BY <1>1, <1>2

(* A denial in the middle of a chunk, or after the connection is gone. *)
LEMMA DeniedKeeps ==
  ASSUME StreamInvariant, Denied
  PROVE  StreamInvariant'
<1>. DEFINE w == [write EXCEPT !.at = "callback", !.ok = FALSE]
<1>1. Typed /\ write.at = "granting" /\ UNCHANGED <<written, accepted>> /\ Broken
  BY DEF StreamInvariant, Denied, inner
<1>2. w \in WriteRecords /\ w.done <= w.length /\ w.at = "callback" /\ ~w.ok
  BY <1>1 DEF Typed, WriteRecords
<1>3. CASE end = "open"
  <2>1. Destroy("denied", w)
    BY <1>1, <1>3 DEF Broken, Destroyed
  <2>. HIDE DEF w
  <2>. QED BY <1>1, <1>2, <1>3, <2>1, Destroys
<1>4. CASE end # "open"
  <2>1. error' = TRUE /\ write' = w /\ UNCHANGED <<end, chunks>>
    BY <1>1, <1>4 DEF Broken, Destroyed
  <2>. HIDE DEF w
  <2>2. GoneIsQuiet /\ end # "finished"
    BY <1>1, <1>4 DEF StreamInvariant, GoneIsQuiet
  <2>3. Typed' /\ OpenIsExact' /\ GoneIsQuiet'
    BY <1>1, <1>2, <1>4, <2>1, <2>2 DEF Typed, OpenIsExact, GoneIsQuiet
  <2>4. BytesInOrder' /\ DoneMeansPassedOn' /\ FinishedMeansPassedOn'
    BY <1>1, <1>2, <2>1, <2>2 DEF StreamInvariant, BytesInOrder, DoneMeansPassedOn,
       FinishedMeansPassedOn
  <2>. QED BY <2>3, <2>4 DEF StreamInvariant
<1>. QED BY <1>3, <1>4

(* A failure of the inner stream, or its forced end. *)
LEMMA GoingKeeps ==
  ASSUME StreamInvariant, InnerError \/ GraceOver
  PROVE  StreamInvariant'
<1>1. write \in WriteRecords /\ write.done <= write.length
  BY DEF StreamInvariant, Typed
<1>2. CASE InnerError
  <2>1. end = "open" /\ Destroy("reset", write) /\ UNCHANGED <<written, accepted>>
    BY <1>2 DEF InnerError, Destroyed, inner
  <2>. QED BY <1>1, <2>1, Destroys
<1>3. CASE GraceOver
  <2>1. UNCHANGED <<written, accepted>> /\ Forced
    BY <1>3 DEF GraceOver, inner
  <2>2. CASE end = "open"
    BY <1>1, <2>1, <2>2, Destroys DEF Forced, Destroyed
  <2>3. CASE end # "open"
    BY <2>1, <2>3, WritingUntouched DEF Forced, Destroyed
  <2>. QED BY <2>2, <2>3
<1>. QED BY <1>2, <1>3

-----------------------------------------------------------------------------
LEMMA Starts == StreamInit => StreamInvariant
<1>. SUFFICES ASSUME StreamInit PROVE StreamInvariant
  OBVIOUS
<1>1. Typed
  <2>1. write = NoWrite /\ written = 0 /\ chunks = <<>> /\ accepted = <<>> /\ error = FALSE
        /\ end = "open"
    BY DEF StreamInit
  <2>2. chunks \in Seq(Nat) /\ accepted \in Seq(Nat) /\ written \in Nat
    BY <2>1
  <2>3. error \in BOOLEAN /\ end \in Ends
    BY <2>1 DEF Ends
  <2>. QED BY <2>1, <2>2, <2>3, NoWriteIsTyped, Zenon DEF Typed
<1>2. OpenIsExact /\ GoneIsQuiet
  BY DEF StreamInit, OpenIsExact, GoneIsQuiet, NoWrite
<1>3. BytesInOrder /\ DoneMeansPassedOn /\ FinishedMeansPassedOn
  BY DEF StreamInit, BytesInOrder, DoneMeansPassedOn, FinishedMeansPassedOn, NoWrite
<1>. QED BY <1>1, <1>2, <1>3 DEF StreamInvariant

LEMMA Steps == StreamInvariant /\ [StreamNext]_streamVars => StreamInvariant'
<1>. SUFFICES ASSUME StreamInvariant, [StreamNext]_streamVars PROVE StreamInvariant'
  OBVIOUS
<1>1. ASSUME NEW n \in 1 .. MaxChunk, Write(n) PROVE StreamInvariant'
  BY <1>1, WriteKeeps
<1>2. CASE End
  BY <1>2, EndingKeeps DEF End, inner
<1>3. ASSUME NEW n \in 1 .. MaxGrant, Granted(n) PROVE StreamInvariant'
  BY <1>3, GrantedKeeps
<1>4. CASE Denied
  BY <1>4, DeniedKeeps
<1>5. CASE Callback
  BY <1>5, CallbackKeeps
<1>6. CASE Flush
  BY <1>6, FlushKeeps
<1>7. CASE Stall
  BY <1>7, WritingUntouched DEF Stall, writing, inner
<1>8. CASE InnerError
  BY <1>8, GoingKeeps
<1>9. CASE Receive
  BY <1>9, WritingUntouched DEF Receive, writing, inner
<1>10. CASE ClientEnds
  BY <1>10, FinishesWhole DEF ClientEnds, EndsReading, inner
<1>11. CASE Read
  BY <1>11, FinishesWhole DEF Read, EndsReading, inner
<1>12. CASE HalfCloseOver
  <2>1. UNCHANGED accepted /\ (EndOuter \/ UNCHANGED writing)
    BY <1>12 DEF HalfCloseOver, DestroySoon, inner
  <2>. QED BY <2>1, EndingKeeps
<1>13. CASE SocketTimeout
  <2>1. UNCHANGED accepted /\ (EndOuter \/ UNCHANGED writing)
    BY <1>13 DEF SocketTimeout, DestroySoon, inner
  <2>. QED BY <2>1, EndingKeeps
<1>14. CASE GraceOver
  BY <1>14, GoingKeeps
<1>15. CASE UNCHANGED streamVars
  BY <1>15, WritingUntouched DEF streamVars, writing, inner
<1>. QED
  BY <1>1, <1>2, <1>3, <1>4, <1>5, <1>6, <1>7, <1>8, <1>9, <1>10, <1>11, <1>12, <1>13, <1>14,
     <1>15 DEF StreamNext

(* Whatever is written, granted, denied or broken off: the network socket is given what
   was written, in its order; who is told that a write is done was not told so by a
   denial or a failure in the middle of it; and a stream that finishes has passed
   on everything to the socket. *)
THEOREM WritesArePassedOn == StreamSpec => []PassedOnAsWritten
<1>1. StreamInvariant => PassedOnAsWritten
  BY DEF StreamInvariant, PassedOnAsWritten
<1>. QED BY Starts, Steps, <1>1, PTL DEF StreamSpec
=============================================================================
